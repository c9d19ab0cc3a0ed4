------------------------- MODULE UniqueActor_proofs -------------------------
(***************************************************************************)
(* Proofs about UniqueActor: type correctness, the safety invariants of    *)
(* the actor for any number of calls and messages, and the step            *)
(* simulation that makes it an implementation of SingleFlight.             *)
(***************************************************************************)
EXTENDS UniqueActor, TLAPS

(* The inductive strengthening: the mailbox holds a call exactly while it is
   queued and a clear exactly while its run is done, once each; the map holds
   exactly the runs whose future has been stored; whoever joined a run finds
   it unfinished; what a call has seen answered stays answered. *)
Callers == \A c \in Call :
  /\ phase[c] \in {"idle", "queued"} => joinedTo[c] = NoCall
  /\ InFlight(c) => joinedTo[c] = c /\ msgOf[c] \in Msg
  /\ phase[c] = "joined" => /\ joinedTo[c] \in Call
                            /\ phase[joinedTo[c]] \in {"async", "done"}
                            /\ msgOf[c] = msgOf[joinedTo[c]]

MapMatches == \A m \in Msg : \A c \in Call :
  messages[m] = c <=> phase[c] \in {"async", "done"} /\ msgOf[c] = m

MailboxMatches == \A i \in 1..Len(mailbox) :
  IF mailbox[i].kind = "call" THEN phase[mailbox[i].call] = "queued"
                              ELSE phase[mailbox[i].call] = "done"

NoDuplicates == \A i, j \in 1..Len(mailbox) : mailbox[i] = mailbox[j] => i = j

AloneOnThread == \A c, d \in Call : phase[c] = "running" /\ phase[d] = "running" => c = d

RunningUnmapped == \A c \in Call : phase[c] = "running" => messages[msgOf[c]] = NoCall

SeenIsAnswered == \A c \in Call :
  /\ \A d \in seen[c] : phase[d] = "answered"
  /\ phase[c] = "idle" => seen[c] = {}

IInv ==
  /\ TypeOK
  /\ Callers
  /\ MapMatches
  /\ MailboxMatches
  /\ NoDuplicates
  /\ AloneOnThread
  /\ RunningUnmapped
  /\ SeenIsAnswered
  /\ OneRunPerMessage
  /\ NeverServedByAnAnsweredRun
-----------------------------------------------------------------------------
(* What Append and Tail do to the positions of the mailbox. *)
LEMMA AppendPositions ==
  ASSUME NEW s \in Seq(Task), NEW t \in Task
  PROVE  /\ Append(s, t) \in Seq(Task)
         /\ Len(s) \in Nat
         /\ Len(Append(s, t)) = Len(s) + 1
         /\ \A i \in 1..Len(s) : Append(s, t)[i] = s[i]
         /\ Append(s, t)[Len(s) + 1] = t
OBVIOUS

(* Taking a task shifts the rest of the mailbox by one. *)
LEMMA TailPositions ==
  ASSUME NEW s \in Seq(Task), s # <<>>
  PROVE  /\ Tail(s) \in Seq(Task)
         /\ Len(s) \in Nat \ {0}
         /\ Len(Tail(s)) = Len(s) - 1
         /\ Head(s) = s[1]
         /\ \A i \in 1..Len(Tail(s)) : Tail(s)[i] = s[i + 1]
OBVIOUS

(* A task that is not in the mailbox may be submitted: the mailbox keeps
   matching the phases and holds no task twice. *)
LEMMA SubmitKeepsMailbox ==
  ASSUME TypeOK, MailboxMatches, NoDuplicates, NEW c \in Call,
         NEW kind \in {"call", "clear"}, Submit(kind, c),
         phase[c] # (IF kind = "call" THEN "queued" ELSE "done"),
         phase'[c] = (IF kind = "call" THEN "queued" ELSE "done"),
         phase[c] \notin {"queued", "done"},
         \A d \in Call : d # c => phase'[d] = phase[d]
  PROVE  mailbox' \in Seq(Task) /\ MailboxMatches' /\ NoDuplicates'
<1> DEFINE t == [kind |-> kind, call |-> c]
<1>1. t \in Task
  BY DEF Task
<1>2. mailbox \in Seq(Task) /\ mailbox' = Append(mailbox, t)
  BY DEF TypeOK, Submit
<1>3. /\ mailbox' \in Seq(Task)
      /\ Len(mailbox) \in Nat
      /\ Len(mailbox') = Len(mailbox) + 1
      /\ \A i \in 1..Len(mailbox) : mailbox'[i] = mailbox[i]
      /\ mailbox'[Len(mailbox) + 1] = t
  BY <1>1, <1>2, AppendPositions
<1>4. \A i \in 1..Len(mailbox) : mailbox[i] \in Task
  BY <1>2
<1>5. \A i \in 1..Len(mailbox) : mailbox[i].call \in Call /\ mailbox[i].call # c
  BY <1>4 DEF Task, MailboxMatches
<1>6. MailboxMatches'
  <2> SUFFICES ASSUME NEW i \in 1..Len(mailbox')
               PROVE  IF mailbox'[i].kind = "call" THEN phase'[mailbox'[i].call] = "queued"
                                                   ELSE phase'[mailbox'[i].call] = "done"
    BY DEF MailboxMatches
  <2>1. CASE i \in 1..Len(mailbox)
    BY <2>1, <1>3, <1>5 DEF MailboxMatches
  <2>2. CASE i = Len(mailbox) + 1
    BY <2>2, <1>3
  <2> QED
    BY <2>1, <2>2, <1>3
<1>7. NoDuplicates'
  <2> SUFFICES ASSUME NEW i \in 1..Len(mailbox'), NEW j \in 1..Len(mailbox'),
                      mailbox'[i] = mailbox'[j]
               PROVE  i = j
    BY DEF NoDuplicates
  <2>1. t.call = c
    OBVIOUS
  <2>2. CASE i \in 1..Len(mailbox) /\ j \in 1..Len(mailbox)
    BY <2>2, <1>3 DEF NoDuplicates
  <2>3. CASE i = Len(mailbox) + 1 /\ j \in 1..Len(mailbox)
    BY <2>3, <2>1, <1>3, <1>5
  <2>4. CASE i \in 1..Len(mailbox) /\ j = Len(mailbox) + 1
    BY <2>4, <2>1, <1>3, <1>5
  <2> QED
    BY <2>2, <2>3, <2>4, <1>3
<1> QED
  BY <1>3, <1>6, <1>7

(* The task taken was there once, so its call may change phase, as may calls
   that have no task in the mailbox. *)
LEMMA TakeKeepsMailbox ==
  ASSUME TypeOK, MailboxMatches, NoDuplicates, NEW c \in Call,
         NEW kind \in {"call", "clear"}, Take(kind, c),
         \A d \in Call : d # c /\ phase[d] \in {"queued", "done"} => phase'[d] = phase[d]
  PROVE  /\ mailbox' \in Seq(Task) /\ MailboxMatches' /\ NoDuplicates'
         /\ phase[c] = (IF kind = "call" THEN "queued" ELSE "done")
<1> DEFINE t == [kind |-> kind, call |-> c]
<1>1. mailbox \in Seq(Task) /\ mailbox # <<>> /\ mailbox' = Tail(mailbox) /\ Head(mailbox) = t
  BY DEF TypeOK, Take
<1>2. /\ mailbox' \in Seq(Task)
      /\ Len(mailbox) \in Nat \ {0}
      /\ Len(mailbox') = Len(mailbox) - 1
      /\ mailbox[1] = t
      /\ \A i \in 1..Len(mailbox') : mailbox'[i] = mailbox[i + 1]
  BY <1>1, TailPositions
<1>3. phase[c] = (IF kind = "call" THEN "queued" ELSE "done")
  <2>1. 1 \in 1..Len(mailbox)
    BY <1>2
  <2>2. t.kind = kind /\ t.call = c
    OBVIOUS
  <2> QED
    BY <2>1, <2>2, <1>2 DEF MailboxMatches
<1>4. \A i \in 1..Len(mailbox) : mailbox[i] \in Task
  BY <1>1
<1>5. \A i \in 1..Len(mailbox) : mailbox[i].call = c => i = 1
  <2> SUFFICES ASSUME NEW i \in 1..Len(mailbox), mailbox[i].call = c
               PROVE  i = 1
    OBVIOUS
  <2>1. mailbox[i].kind = kind
    BY <1>3, <1>4 DEF MailboxMatches, Task
  <2>2. mailbox[i] = mailbox[1]
    BY <2>1, <1>2, <1>4 DEF Task
  <2> QED
    BY <2>2, <1>2 DEF NoDuplicates
<1>6. \A i \in 1..Len(mailbox') : /\ i + 1 \in 1..Len(mailbox)
                                  /\ mailbox'[i].call \in Call \ {c}
                                  /\ mailbox'[i] \in Task
  <2> SUFFICES ASSUME NEW i \in 1..Len(mailbox')
               PROVE  /\ i + 1 \in 1..Len(mailbox)
                      /\ mailbox'[i].call \in Call \ {c}
                      /\ mailbox'[i] \in Task
    OBVIOUS
  <2>1. i + 1 \in 1..Len(mailbox) /\ i + 1 # 1
    BY <1>2
  <2>2. mailbox'[i] = mailbox[i + 1] /\ mailbox[i + 1] \in Task
    BY <2>1, <1>2, <1>4
  <2> QED
    BY <2>1, <2>2, <1>5 DEF Task
<1>7. MailboxMatches'
  BY <1>2, <1>6 DEF MailboxMatches
<1>8. NoDuplicates'
  <2> SUFFICES ASSUME NEW i \in 1..Len(mailbox'), NEW j \in 1..Len(mailbox'),
                      mailbox'[i] = mailbox'[j]
               PROVE  i = j
    BY DEF NoDuplicates
  <2>1. mailbox[i + 1] = mailbox[j + 1]
    BY <1>2
  <2>2. i + 1 = j + 1
    BY <2>1, <1>6 DEF NoDuplicates
  <2> QED
    BY <2>2, <1>2
<1> QED
  BY <1>2, <1>3, <1>7, <1>8
-----------------------------------------------------------------------------
(* The strengthening holds of the actor as it is constructed. *)
LEMMA InitIInv == Init => IInv
BY NoneAssumption
   DEF Init, IInv, TypeOK, Phase, Callers, InFlight, MapMatches, MailboxMatches, NoDuplicates,
       AloneOnThread, RunningUnmapped, SeenIsAnswered, OneRunPerMessage,
       NeverServedByAnAnsweredRun

(* `!` submits a call that was idle, so its task is new to the mailbox. *)
LEMMA SendIInv ==
  ASSUME IInv, NEW c \in Call, Send(c)
  PROVE  IInv'
<1> USE NoneAssumption DEF IInv
<1>1. mailbox' \in Seq(Task) /\ MailboxMatches' /\ NoDuplicates'
  BY SubmitKeepsMailbox DEF Send, TypeOK, Phase
<1>2. TypeOK'
  BY <1>1 DEF Send, TypeOK, Phase
<1>3. Callers'
  BY DEF Callers, Send, TypeOK, InFlight, Phase
<1>4. MapMatches' /\ AloneOnThread' /\ RunningUnmapped' /\ OneRunPerMessage'
  BY DEF MapMatches, AloneOnThread, RunningUnmapped, OneRunPerMessage, InFlight, Send, TypeOK
<1>5. SeenIsAnswered'
  BY DEF SeenIsAnswered, Send, TypeOK
<1>6. NeverServedByAnAnsweredRun'
  BY DEF NeverServedByAnAnsweredRun, Callers, Send, TypeOK
<1> QED
  BY <1>1, <1>2, <1>3, <1>4, <1>5, <1>6

(* The thread was free and the map has no entry: no run of this message is
   in flight, in the map or on the thread. *)
LEMMA RunIInv ==
  ASSUME IInv, NEW c \in Call, NEW m \in Msg, Run(c, m)
  PROVE  IInv'
<1> USE NoneAssumption DEF IInv
<1>1. mailbox' \in Seq(Task) /\ MailboxMatches' /\ NoDuplicates' /\ phase[c] = "queued"
  BY TakeKeepsMailbox DEF Run, TypeOK
<1>2. TypeOK'
  BY <1>1 DEF Run, TypeOK, Phase
<1>3. \A d \in Call : joinedTo[d] = c => d = c \/ phase[d] = "answered"
  BY <1>1 DEF Callers, InFlight, TypeOK, Phase
<1>4. Callers'
  BY <1>1, <1>3 DEF Callers, Run, TypeOK, InFlight, Phase
<1>5. MapMatches'
  BY <1>1 DEF MapMatches, Run, TypeOK
<1>6. AloneOnThread' /\ RunningUnmapped'
  BY DEF AloneOnThread, RunningUnmapped, Run, Take, TypeOK
<1>7. OneRunPerMessage'
  <2>1. \A d \in Call : InFlight(d) => msgOf[d] # m
    BY DEF InFlight, Run, Take, MapMatches
  <2> QED
    BY <1>1, <2>1 DEF OneRunPerMessage, InFlight, Run, TypeOK
<1>8. SeenIsAnswered'
  BY <1>1 DEF SeenIsAnswered, Run, TypeOK
<1>9. NeverServedByAnAnsweredRun'
  BY <1>1 DEF NeverServedByAnAnsweredRun, SeenIsAnswered, Run, TypeOK
<1> QED
  BY <1>1, <1>2, <1>4, <1>5, <1>6, <1>7, <1>8, <1>9

(* A call that finds an entry joins a run that is stored and not yet cleared,
   hence one that nobody was answered by when the call was sent. *)
LEMMA DropIInv ==
  ASSUME IInv, NEW c \in Call, NEW m \in Msg, Drop(c, m)
  PROVE  IInv'
<1> USE NoneAssumption DEF IInv
<1>1. mailbox' \in Seq(Task) /\ MailboxMatches' /\ NoDuplicates' /\ phase[c] = "queued"
  BY TakeKeepsMailbox DEF Drop, TypeOK
<1>2. /\ messages[m] \in Call /\ phase[messages[m]] \in {"async", "done"}
      /\ msgOf[messages[m]] = m
  BY DEF Drop, MapMatches, TypeOK
<1>3. TypeOK'
  BY <1>1, <1>2 DEF Drop, TypeOK, Phase
<1>4. Callers'
  BY <1>1, <1>2 DEF Callers, Drop, TypeOK, InFlight, Phase
<1>5. MapMatches'
  BY <1>1 DEF MapMatches, Drop, TypeOK
<1>6. AloneOnThread' /\ RunningUnmapped'
  BY DEF AloneOnThread, RunningUnmapped, Drop, Take, TypeOK
<1>7. OneRunPerMessage'
  BY <1>1 DEF OneRunPerMessage, InFlight, Drop, TypeOK
<1>8. SeenIsAnswered'
  BY <1>1 DEF SeenIsAnswered, Drop, TypeOK
<1>9. NeverServedByAnAnsweredRun'
  BY <1>2 DEF NeverServedByAnAnsweredRun, SeenIsAnswered, Drop, TypeOK
<1> QED
  BY <1>1, <1>3, <1>4, <1>5, <1>6, <1>7, <1>8, <1>9

(* A message that throws leaves the map and the other calls as they were. *)
LEMMA FailIInv ==
  ASSUME IInv, NEW c \in Call, Fail(c)
  PROVE  IInv'
<1> USE NoneAssumption DEF IInv
<1>1. mailbox' \in Seq(Task) /\ MailboxMatches' /\ NoDuplicates' /\ phase[c] = "queued"
  BY TakeKeepsMailbox DEF Fail, TypeOK
<1>2. TypeOK'
  BY <1>1 DEF Fail, TypeOK, Phase
<1>3. Callers'
  BY <1>1 DEF Callers, Fail, TypeOK, InFlight, Phase
<1>4. MapMatches'
  BY <1>1 DEF MapMatches, Fail, TypeOK
<1>5. AloneOnThread' /\ RunningUnmapped' /\ OneRunPerMessage'
  BY DEF AloneOnThread, RunningUnmapped, OneRunPerMessage, InFlight, Fail, Take, TypeOK
<1>6. SeenIsAnswered' /\ NeverServedByAnAnsweredRun'
  BY <1>1 DEF SeenIsAnswered, NeverServedByAnAnsweredRun, Fail, TypeOK
<1> QED
  BY <1>1, <1>2, <1>3, <1>4, <1>5, <1>6

(* compute stores the future where the map had nothing. *)
LEMMA ReturnIInv ==
  ASSUME IInv, NEW c \in Call, Return(c)
  PROVE  IInv'
<1> USE NoneAssumption DEF IInv
<1>1. msgOf[c] \in Msg /\ joinedTo[c] = c /\ messages[msgOf[c]] = NoCall
  BY DEF Return, Callers, InFlight, RunningUnmapped
<1>2. TypeOK'
  BY DEF Return, TypeOK, Phase
<1>3. Callers'
  BY <1>1 DEF Callers, Return, TypeOK, InFlight, Phase
<1>4. MapMatches'
  BY <1>1 DEF MapMatches, Return, TypeOK
<1>5. MailboxMatches' /\ NoDuplicates'
  <2>1. mailbox' = mailbox /\ mailbox \in Seq(Task)
    BY DEF Return, TypeOK
  <2>2. \A i \in 1..Len(mailbox) : mailbox[i] \in Task
    BY <2>1
  <2>3. \A i \in 1..Len(mailbox) : mailbox[i].call \in Call
    BY <2>2 DEF Task
  <2>4. \A d \in Call : phase[d] \in {"queued", "done"} => phase'[d] = phase[d]
    BY DEF Return, TypeOK
  <2> QED
    BY <2>1, <2>3, <2>4 DEF MailboxMatches, NoDuplicates
<1>6. AloneOnThread' /\ RunningUnmapped'
  BY DEF AloneOnThread, RunningUnmapped, Return, TypeOK
<1>7. OneRunPerMessage' /\ SeenIsAnswered' /\ NeverServedByAnAnsweredRun'
  BY DEF OneRunPerMessage, InFlight, SeenIsAnswered, NeverServedByAnAnsweredRun, Return, TypeOK
<1> QED
  BY <1>2, <1>3, <1>4, <1>5, <1>6, <1>7

(* The continuation is submitted once, when the run's future completes. *)
LEMMA CompleteIInv ==
  ASSUME IInv, NEW c \in Call, Complete(c)
  PROVE  IInv'
<1> USE NoneAssumption DEF IInv
<1>1. mailbox' \in Seq(Task) /\ MailboxMatches' /\ NoDuplicates'
  BY SubmitKeepsMailbox DEF Complete, TypeOK
<1>2. TypeOK'
  BY <1>1 DEF Complete, TypeOK, Phase
<1>3. Callers'
  BY DEF Callers, Complete, TypeOK, InFlight, Phase
<1>4. MapMatches'
  BY DEF MapMatches, Complete, TypeOK
<1>5. AloneOnThread' /\ RunningUnmapped' /\ OneRunPerMessage'
  BY DEF AloneOnThread, RunningUnmapped, OneRunPerMessage, InFlight, Complete, TypeOK
<1>6. SeenIsAnswered' /\ NeverServedByAnAnsweredRun'
  BY DEF SeenIsAnswered, NeverServedByAnAnsweredRun, Complete, TypeOK
<1> QED
  BY <1>1, <1>2, <1>3, <1>4, <1>5, <1>6

(* clear removes the run's own entry, and whoever followed it is answered. *)
LEMMA ClearIInv ==
  ASSUME IInv, NEW c \in Call, Clear(c)
  PROVE  IInv'
<1> USE NoneAssumption DEF IInv
<1>1. \A d \in Call : joinedTo[d] = c /\ phase[d] \in {"done", "joined"} =>
                       d = c \/ phase[d] = "joined"
  BY DEF Callers, InFlight
<1>2. mailbox' \in Seq(Task) /\ MailboxMatches' /\ NoDuplicates' /\ phase[c] = "done"
  BY <1>1, TakeKeepsMailbox DEF Clear, TypeOK
<1>3. joinedTo[c] = c /\ msgOf[c] \in Msg /\ messages[msgOf[c]] = c
  BY <1>2 DEF Callers, InFlight, MapMatches
<1>4. phase' = [d \in Call |-> IF d = c \/ (phase[d] = "joined" /\ joinedTo[d] = c)
                               THEN "answered" ELSE phase[d]]
  BY <1>1, <1>2, <1>3 DEF Clear
<1>5. TypeOK'
  <2>1. phase' \in [Call -> Phase]
    BY <1>4 DEF TypeOK, Phase
  <2>2. messages' \in [Msg -> Call \cup {NoCall}]
    BY DEF Clear, TypeOK
  <2> QED
    BY <1>2, <2>1, <2>2 DEF Clear, TypeOK
<1>6. Callers'
  BY <1>2, <1>3, <1>4 DEF Callers, Clear, TypeOK, InFlight, Phase
<1>7. MapMatches'
  BY <1>2, <1>3, <1>4 DEF MapMatches, Clear, TypeOK
<1>8. AloneOnThread' /\ RunningUnmapped' /\ OneRunPerMessage'
  BY <1>4 DEF AloneOnThread, RunningUnmapped, OneRunPerMessage, InFlight, Clear, Take, TypeOK
<1>9. SeenIsAnswered' /\ NeverServedByAnAnsweredRun'
  BY <1>4 DEF SeenIsAnswered, NeverServedByAnAnsweredRun, Clear, TypeOK
<1> QED
  BY <1>2, <1>5, <1>6, <1>7, <1>8, <1>9

(* Every step preserves the strengthening; stuttering changes nothing. *)
LEMMA NextIInv == IInv /\ [Next]_vars => IInv'
<1> SUFFICES ASSUME IInv, [Next]_vars
             PROVE  IInv'
  OBVIOUS
<1>1. CASE UNCHANGED vars
  BY <1>1
     DEF vars, IInv, TypeOK, Callers, InFlight, MapMatches, MailboxMatches, NoDuplicates,
         AloneOnThread, RunningUnmapped, SeenIsAnswered, OneRunPerMessage,
         NeverServedByAnAnsweredRun
<1>2. CASE Next
  BY <1>2, SendIInv, RunIInv, DropIInv, FailIInv, ReturnIInv, CompleteIInv, ClearIInv DEF Next
<1> QED
  BY <1>1, <1>2

(* The strengthening holds in every reachable state. *)
LEMMA Invariance == Spec => []IInv
BY InitIInv, NextIInv, PTL DEF Spec

(* Every variable of the actor keeps its type. *)
THEOREM TypeCorrect == Spec => []TypeOK
<1>1. IInv => TypeOK
  BY DEF IInv
<1> QED
  BY <1>1, Invariance, PTL

(* The function is never in flight twice for the same message. *)
THEOREM Uniqueness == Spec => []OneRunPerMessage
<1>1. IInv => OneRunPerMessage
  BY DEF IInv
<1> QED
  BY <1>1, Invariance, PTL

(* The assertion in `clear` cannot fail. *)
THEOREM ClearAssertion == Spec => []ClearFindsItsEntry
<1>1. IInv => ClearFindsItsEntry
  BY DEF IInv, ClearFindsItsEntry, MapMatches, Callers, InFlight
<1> QED
  BY <1>1, Invariance, PTL

(* A call sent after a run was answered gets the result of a later run. *)
THEOREM Freshness == Spec => []NeverServedByAnAnsweredRun
<1>1. IInv => NeverServedByAnAnsweredRun
  BY DEF IInv
<1> QED
  BY <1>1, Invariance, PTL
-----------------------------------------------------------------------------
(* A new actor has promised nothing. *)
LEMMA InitSimulates == Init => Promise!Init
BY DEF Init, Promise!Init, StatusOf, InFlight

(* Each step of the actor is a step of SingleFlight or hidden from callers. *)
LEMMA NextSimulates ==
  ASSUME IInv, [Next]_vars
  PROVE  [Promise!Next]_(Promise!vars)
<1> USE NoneAssumption DEF IInv
<1>1. ASSUME NEW c \in Call, Send(c)
      PROVE  Promise!Invoke(c)
  BY <1>1 DEF Send, Promise!Invoke, StatusOf, InFlight, TypeOK
<1>2. ASSUME NEW c \in Call, NEW m \in Msg, Run(c, m)
      PROVE  Promise!Lead(c, m)
  <2>1. phase[c] = "queued"
    BY <1>2, TakeKeepsMailbox DEF Run, TypeOK
  <2>2. \A d \in Call : Promise!Open(d) => msgOf[d] # m
    <3> SUFFICES ASSUME NEW d \in Call, Promise!Open(d)
                 PROVE  msgOf[d] # m
      OBVIOUS
    <3>1. InFlight(d)
      BY DEF Promise!Open, StatusOf, InFlight, Callers, TypeOK, Phase
    <3> QED
      BY <1>2, <3>1 DEF InFlight, Run, Take, MapMatches
  <2>3. Promise!Board(c, m, c)
    BY <1>2, <2>1 DEF Run, Promise!Board, StatusOf, InFlight, TypeOK
  <2> QED
    BY <2>2, <2>3 DEF Promise!Lead
<1>3. ASSUME NEW c \in Call, NEW m \in Msg, Drop(c, m)
      PROVE  Promise!Join(c, m)
  <2>1. phase[c] = "queued"
    BY <1>3, TakeKeepsMailbox DEF Drop, TypeOK
  <2> DEFINE d == messages[m]
  <2>2. d \in Call /\ phase[d] \in {"async", "done"} /\ msgOf[d] = m
    BY <1>3 DEF Drop, MapMatches, TypeOK
  <2>3. Promise!Open(d)
    BY <2>2 DEF Promise!Open, StatusOf, InFlight, Callers
  <2>4. Promise!Board(c, m, d)
    BY <1>3, <2>1 DEF Drop, Promise!Board, StatusOf, InFlight, TypeOK
  <2> QED
    BY <2>2, <2>3, <2>4 DEF Promise!Join
<1>4. ASSUME NEW c \in Call, Fail(c)
      PROVE  Promise!Fail(c)
  <2>1. phase[c] = "queued"
    BY <1>4, TakeKeepsMailbox DEF Fail, TypeOK
  <2> QED
    BY <1>4, <2>1 DEF Fail, Promise!Fail, StatusOf, InFlight, TypeOK
<1>5. ASSUME NEW c \in Call, Return(c) \/ Complete(c)
      PROVE  UNCHANGED Promise!vars
  BY <1>5 DEF Return, Complete, Promise!vars, StatusOf, InFlight, TypeOK
<1>6. ASSUME NEW c \in Call, Clear(c)
      PROVE  Promise!Land(c)
  <2>1. \A d \in Call : joinedTo[d] = c /\ phase[d] \in {"done", "joined"} =>
                         d = c \/ phase[d] = "joined"
    BY DEF Callers, InFlight
  <2>2. phase[c] = "done"
    BY <1>6, <2>1, TakeKeepsMailbox DEF Clear, TypeOK
  <2>3. joinedTo[c] = c
    BY <2>2 DEF Callers, InFlight
  <2>4. \A d \in Call : joinedTo[d] = c /\ InFlight(d) => d = c
    BY DEF Callers
  <2>5. \A d \in Call : phase'[d] = IF StatusOf[d] = "aboard" /\ joinedTo[d] = c
                                    THEN "answered" ELSE phase[d]
    BY <1>6, <2>2, <2>4 DEF Clear, StatusOf, InFlight, TypeOK, Phase
  <2>6. StatusOf' = [d \in Call |-> IF StatusOf[d] = "aboard" /\ joinedTo[d] = c
                                    THEN "answered" ELSE StatusOf[d]]
    BY <2>5 DEF StatusOf, InFlight
  <2>7. Promise!Open(c)
    BY <2>2, <2>3 DEF Promise!Open, StatusOf, InFlight
  <2> QED
    BY <1>6, <2>6, <2>7 DEF Promise!Land, Clear
<1>7. CASE UNCHANGED vars
  BY <1>7 DEF vars, Promise!vars, StatusOf, InFlight
<1>8. CASE Next
  BY <1>8, <1>1, <1>2, <1>3, <1>4, <1>5, <1>6 DEF Next, Promise!Next
<1> QED
  BY <1>7, <1>8

(* UniqueActorImpl implements the single-flight promise. *)
THEOREM Refinement == Spec => ImplementsSingleFlight
<1>1. Init => Promise!Init
  BY InitSimulates
<1>2. IInv /\ [Next]_vars => [Promise!Next]_(Promise!vars)
  BY NextSimulates
<1> QED
  BY <1>1, <1>2, Invariance, PTL DEF Spec, ImplementsSingleFlight, Promise!Spec
-----------------------------------------------------------------------------
(* What waits for a task has it in the mailbox. *)
TasksAreThere ==
  \A c \in Call : /\ phase[c] = "queued" => Submitted("call", c)
                  /\ phase[c] = "done" => Submitted("clear", c)

(* A submitted task stays in the mailbox until it is the one taken. *)
LEMMA SubmittedStays ==
  ASSUME TypeOK, NEW kind \in {"call", "clear"}, NEW c \in Call, Submitted(kind, c),
         \/ mailbox' = mailbox
         \/ \E k \in {"call", "clear"}, d \in Call : Submit(k, d)
         \/ \E k \in {"call", "clear"}, d \in Call : Take(k, d) /\ (k # kind \/ d # c)
  PROVE  Submitted(kind, c)'
<1> DEFINE t == [kind |-> kind, call |-> c]
<1>1. PICK i \in 1..Len(mailbox) : mailbox[i] = t
  BY DEF Submitted
<1>2. mailbox \in Seq(Task)
  BY DEF TypeOK
<1>3. CASE mailbox' = mailbox
  BY <1>1, <1>3 DEF Submitted
<1>4. ASSUME NEW k \in {"call", "clear"}, NEW d \in Call, Submit(k, d)
      PROVE  Submitted(kind, c)'
  <2>1. mailbox' = Append(mailbox, [kind |-> k, call |-> d]) /\ [kind |-> k, call |-> d] \in Task
    BY <1>4 DEF Submit, Task
  <2>2. /\ Len(mailbox) \in Nat /\ Len(mailbox') = Len(mailbox) + 1
        /\ \A j \in 1..Len(mailbox) : mailbox'[j] = mailbox[j]
    BY <1>2, <2>1, AppendPositions
  <2>3. i \in 1..Len(mailbox') /\ mailbox'[i] = t
    BY <1>1, <2>2
  <2> QED
    BY <2>3 DEF Submitted
<1>5. ASSUME NEW k \in {"call", "clear"}, NEW d \in Call, Take(k, d), k # kind \/ d # c
      PROVE  Submitted(kind, c)'
  <2>1. mailbox # <<>> /\ mailbox' = Tail(mailbox) /\ Head(mailbox) = [kind |-> k, call |-> d]
    BY <1>5 DEF Take
  <2>2. /\ Len(mailbox) \in Nat \ {0} /\ Len(mailbox') = Len(mailbox) - 1
        /\ mailbox[1] = [kind |-> k, call |-> d]
        /\ \A j \in 1..Len(mailbox') : mailbox'[j] = mailbox[j + 1]
    BY <1>2, <2>1, TailPositions
  <2>3. t # [kind |-> k, call |-> d]
    <3>1. t.kind = kind /\ t.call = c
      OBVIOUS
    <3> QED
      BY <1>5, <3>1
  <2>4. i # 1
    BY <1>1, <2>2, <2>3
  <2>5. i - 1 \in 1..Len(mailbox') /\ mailbox'[i - 1] = t
    BY <1>1, <2>2, <2>4
  <2> QED
    BY <2>5 DEF Submitted
<1> QED
  BY <1>3, <1>4, <1>5

(* The task just submitted is there. *)
LEMMA SubmittedNow ==
  ASSUME TypeOK, NEW kind \in {"call", "clear"}, NEW c \in Call, Submit(kind, c)
  PROVE  Submitted(kind, c)'
<1> DEFINE t == [kind |-> kind, call |-> c]
<1>1. mailbox' = Append(mailbox, t) /\ t \in Task /\ mailbox \in Seq(Task)
  BY DEF Submit, Task, TypeOK
<1>2. Len(mailbox) \in Nat /\ Len(mailbox') = Len(mailbox) + 1 /\ mailbox'[Len(mailbox) + 1] = t
  BY <1>1, AppendPositions
<1> QED
  BY <1>2 DEF Submitted

(* Every step keeps the tasks of those that wait. *)
LEMMA TasksNext ==
  ASSUME IInv, TasksAreThere, [Next]_vars
  PROVE  TasksAreThere'
<1> SUFFICES ASSUME NEW d \in Call
             PROVE  /\ phase'[d] = "queued" => Submitted("call", d)'
                    /\ phase'[d] = "done" => Submitted("clear", d)'
  BY DEF TasksAreThere
<1>0. /\ TypeOK /\ phase \in [Call -> Phase]
      /\ phase[d] = "queued" => Submitted("call", d)
      /\ phase[d] = "done" => Submitted("clear", d)
  BY DEF IInv, TypeOK, TasksAreThere
<1>1. ASSUME NEW c \in Call, Send(c)
      PROVE  /\ phase'[d] = "queued" => Submitted("call", d)'
             /\ phase'[d] = "done" => Submitted("clear", d)'
  <2>1. Submit("call", c) /\ phase' = [phase EXCEPT ![c] = "queued"]
    BY <1>1 DEF Send
  <2>2. CASE d = c
    BY <1>0, <2>1, <2>2, SubmittedNow
  <2>3. CASE d # c
    <3>1. phase'[d] = phase[d]
      BY <1>0, <2>1, <2>3
    <3> QED
      BY <1>0, <2>1, <3>1, SubmittedStays
  <2> QED
    BY <2>2, <2>3
<1>2. ASSUME NEW c \in Call, Complete(c)
      PROVE  /\ phase'[d] = "queued" => Submitted("call", d)'
             /\ phase'[d] = "done" => Submitted("clear", d)'
  <2>1. Submit("clear", c) /\ phase' = [phase EXCEPT ![c] = "done"]
    BY <1>2 DEF Complete
  <2>2. CASE d = c
    BY <1>0, <2>1, <2>2, SubmittedNow
  <2>3. CASE d # c
    <3>1. phase'[d] = phase[d]
      BY <1>0, <2>1, <2>3
    <3> QED
      BY <1>0, <2>1, <3>1, SubmittedStays
  <2> QED
    BY <2>2, <2>3
<1>3. ASSUME NEW c \in Call, Return(c)
      PROVE  /\ phase'[d] = "queued" => Submitted("call", d)'
             /\ phase'[d] = "done" => Submitted("clear", d)'
  <2>1. mailbox' = mailbox /\ phase'[d] \in {phase[d], "async"}
    BY <1>0, <1>3 DEF Return
  <2> QED
    BY <1>0, <2>1, SubmittedStays
<1>4. ASSUME NEW c \in Call, \/ \E m \in Msg : Run(c, m) \/ Drop(c, m)
                             \/ Fail(c)
      PROVE  /\ phase'[d] = "queued" => Submitted("call", d)'
             /\ phase'[d] = "done" => Submitted("clear", d)'
  <2>1. /\ Take("call", c)
        /\ \E p \in {"running", "joined", "answered"} : phase' = [phase EXCEPT ![c] = p]
    BY <1>4 DEF Run, Drop, Fail
  <2>2. CASE d = c
    BY <1>0, <2>1, <2>2
  <2>3. CASE d # c
    <3>1. phase'[d] = phase[d]
      BY <1>0, <2>1, <2>3
    <3> QED
      BY <1>0, <2>1, <2>3, <3>1, SubmittedStays
  <2> QED
    BY <2>2, <2>3
<1>5. ASSUME NEW c \in Call, Clear(c)
      PROVE  /\ phase'[d] = "queued" => Submitted("call", d)'
             /\ phase'[d] = "done" => Submitted("clear", d)'
  <2>1. /\ Take("clear", c)
        /\ phase' = [e \in Call |-> IF phase[e] \in {"done", "joined"} /\ joinedTo[e] = c
                                    THEN "answered" ELSE phase[e]]
    BY <1>5 DEF Clear
  <2>2. CASE d = c
    <3>0. \A e \in Call : e # c /\ phase[e] \in {"queued", "done"} => phase'[e] = phase[e]
      BY <2>1 DEF IInv, Callers, InFlight
    <3>1. phase[c] = "done"
      BY <2>1, <3>0, TakeKeepsMailbox DEF IInv
    <3>2. joinedTo[c] = c
      BY <3>1 DEF IInv, Callers, InFlight
    <3>3. phase'[c] = "answered"
      BY <2>1, <3>1, <3>2
    <3> QED
      BY <2>2, <3>3
  <2>3. CASE d # c
    <3>1. phase'[d] \in {phase[d], "answered"}
      BY <2>1
    <3> QED
      BY <1>0, <2>1, <2>3, <3>1, SubmittedStays
  <2> QED
    BY <2>2, <2>3
<1>6. CASE UNCHANGED vars
  <2>1. mailbox' = mailbox /\ phase' = phase
    BY <1>6 DEF vars
  <2> QED
    BY <1>0, <2>1, SubmittedStays
<1> QED
  BY <1>1, <1>2, <1>3, <1>4, <1>5, <1>6 DEF Next

(* No caller of a unique actor is left behind: the answer of each is in the
   mailbox or with a run that is still incomplete (UniqueActorImpl.!, clear). *)
THEOREM NobodyIsLeftBehind == Spec => []NobodyLeftBehind
<1>1. Init => TasksAreThere
  BY DEF Init, TasksAreThere
<1>2. IInv /\ TasksAreThere /\ [Next]_vars => TasksAreThere'
  BY TasksNext
<1>3. IInv /\ TasksAreThere => NobodyLeftBehind
  BY DEF IInv, Callers, TasksAreThere, NobodyLeftBehind
<1> QED
  BY <1>1, <1>2, <1>3, Invariance, PTL DEF Spec

(* What SingleFlight says of its variables is so of those of the actor. *)
COROLLARY PromiseTyped == Spec => []Promise!TypeOK
<1>1. IInv => Promise!TypeOK
  BY DEF IInv, TypeOK, Phase, InFlight, StatusOf, Promise!TypeOK, Promise!Status
<1> QED
  BY <1>1, Invariance, PTL
=============================================================================
