---------------------------- MODULE UniqueActor -----------------------------
(***************************************************************************)
(* common/concurrency/actor/UniqueActorImpl.scala on its executor,         *)
(* AggressiveSingleThreadContext: a FIFO queue of tasks drained by at most *)
(* one thread. A task is either a call of `!` (the body of Future.delegate)*)
(* or the `clear` continuation that listenAny registers on the same        *)
(* executor. The message is by-name, so it is evaluated by the task and    *)
(* not by the sender; the function may return before its future is done.   *)
(***************************************************************************)
EXTENDS Naturals, Sequences

CONSTANTS Call, Msg, NoMsg, NoCall

ASSUME NoneAssumption == NoMsg \notin Msg /\ NoCall \notin Call

VARIABLES mailbox,  \* tasks submitted to the executor, oldest first
          messages, \* the HashMap: message -> the call whose future it holds
          phase,    \* progress of each call
          msgOf,    \* the value of the lazy val `msg`
          joinedTo, \* the call whose future the caller's future follows
          seen      \* history: the calls already answered when c was sent

vars == <<mailbox, messages, phase, msgOf, joinedTo, seen>>

Phase == {"idle", "queued",   \* before and after `!`
          "running",          \* the function's body is on the actor's thread
          "async", "done",    \* its future is in the map: incomplete, complete
          "joined",           \* following the future of another call
          "answered"}         \* the caller's future is complete

Task == [kind : {"call", "clear"}, call : Call]

TypeOK ==
  /\ mailbox \in Seq(Task)
  /\ messages \in [Msg -> Call \cup {NoCall}]
  /\ phase \in [Call -> Phase]
  /\ msgOf \in [Call -> Msg \cup {NoMsg}]
  /\ joinedTo \in [Call -> Call \cup {NoCall}]
  /\ seen \in [Call -> SUBSET Call]

Init ==
  /\ mailbox = <<>>
  /\ messages = [m \in Msg |-> NoCall]
  /\ phase = [c \in Call |-> "idle"]
  /\ msgOf = [c \in Call |-> NoMsg]
  /\ joinedTo = [c \in Call |-> NoCall]
  /\ seen = [c \in Call |-> {}]

Submit(kind, c) == mailbox' = Append(mailbox, [kind |-> kind, call |-> c])

(* The one thread is free and takes the oldest task. *)
Take(kind, c) ==
  /\ \A d \in Call : phase[d] # "running"
  /\ mailbox # <<>>
  /\ Head(mailbox) = [kind |-> kind, call |-> c]
  /\ mailbox' = Tail(mailbox)

(* actor ! m: submits the task; nothing of m is evaluated yet. *)
Send(c) ==
  /\ phase[c] = "idle"
  /\ phase' = [phase EXCEPT ![c] = "queued"]
  /\ seen' = [seen EXCEPT ![c] = {d \in Call : phase[d] = "answered"}]
  /\ Submit("call", c)
  /\ UNCHANGED <<messages, msgOf, joinedTo>>

(* Seeded fault: the map is not looked up. *)
RunAlways(c, m) ==
  /\ Take("call", c)
  /\ phase' = [phase EXCEPT ![c] = "running"]
  /\ msgOf' = [msgOf EXCEPT ![c] = m]
  /\ joinedTo' = [joinedTo EXCEPT ![c] = c]
  /\ UNCHANGED <<messages, seen>>

(* messages.compute finds no future for m: the function is applied. *)
Run(c, m) ==
  /\ Take("call", c)
  /\ messages[m] = NoCall
  /\ phase' = [phase EXCEPT ![c] = "running"]
  /\ msgOf' = [msgOf EXCEPT ![c] = m]
  /\ joinedTo' = [joinedTo EXCEPT ![c] = c]
  /\ UNCHANGED <<messages, seen>>

(* Seeded fault: `remove` for `get`. *)
DropRemoves(c, m) ==
  /\ Take("call", c)
  /\ messages[m] # NoCall
  /\ messages' = [messages EXCEPT ![m] = NoCall]
  /\ phase' = [phase EXCEPT ![c] = "joined"]
  /\ msgOf' = [msgOf EXCEPT ![c] = m]
  /\ joinedTo' = [joinedTo EXCEPT ![c] = messages[m]]
  /\ UNCHANGED seen

(* messages.compute finds a future: it is handed to this caller too. *)
Drop(c, m) ==
  /\ Take("call", c)
  /\ messages[m] # NoCall
  /\ phase' = [phase EXCEPT ![c] = "joined"]
  /\ msgOf' = [msgOf EXCEPT ![c] = m]
  /\ joinedTo' = [joinedTo EXCEPT ![c] = messages[m]]
  /\ UNCHANGED <<messages, seen>>

(* Evaluating the message throws: the delegated future fails. *)
Fail(c) ==
  /\ Take("call", c)
  /\ phase' = [phase EXCEPT ![c] = "answered"]
  /\ UNCHANGED <<messages, msgOf, joinedTo, seen>>

(* The function returns its future, or throws and PureError.tryWrap makes a
   failed one of it: compute stores it and the thread is free again. *)
Return(c) ==
  /\ phase[c] = "running"
  /\ phase' = [phase EXCEPT ![c] = "async"]
  /\ messages' = [messages EXCEPT ![msgOf[c]] = c]
  /\ UNCHANGED <<mailbox, msgOf, joinedTo, seen>>

(* Seeded fault: listenAny is forgotten, so no clear is ever submitted. *)
CompleteSilently(c) ==
  /\ phase[c] = "async"
  /\ phase' = [phase EXCEPT ![c] = "done"]
  /\ UNCHANGED <<mailbox, messages, msgOf, joinedTo, seen>>

(* The function's future completes, either way: listenAny's continuation is
   submitted to the actor's own executor. *)
Complete(c) ==
  /\ phase[c] = "async"
  /\ phase' = [phase EXCEPT ![c] = "done"]
  /\ Submit("clear", c)
  /\ UNCHANGED <<messages, msgOf, joinedTo, seen>>

(* Seeded faults: the entry stays; only the first caller is answered. *)
ClearKeepsEntry(c) ==
  /\ Take("clear", c)
  /\ phase' = [d \in Call |-> IF phase[d] \in {"done", "joined"} /\ joinedTo[d] = c
                              THEN "answered" ELSE phase[d]]
  /\ UNCHANGED <<messages, msgOf, joinedTo, seen>>
ClearAnswersOne(c) ==
  /\ Take("clear", c)
  /\ messages' = [messages EXCEPT ![msgOf[c]] = NoCall]
  /\ phase' = [phase EXCEPT ![c] = "answered"]
  /\ UNCHANGED <<msgOf, joinedTo, seen>>

(* clear(msg) removes the entry; only then is the stored future complete, and
   with it the future of every caller that follows it. *)
Clear(c) ==
  /\ Take("clear", c)
  /\ messages' = [messages EXCEPT ![msgOf[c]] = NoCall]
  /\ phase' = [d \in Call |-> IF phase[d] \in {"done", "joined"} /\ joinedTo[d] = c
                              THEN "answered" ELSE phase[d]]
  /\ UNCHANGED <<msgOf, joinedTo, seen>>

Next ==
  \E c \in Call :
    \/ Send(c)
    \/ \E m \in Msg : Run(c, m) \/ Drop(c, m)
    \/ Fail(c)
    \/ Return(c)
    \/ Complete(c)
    \/ Clear(c)

(* The executor's thread keeps taking tasks and the function and its future
   end; nobody is obliged to send anything. *)
Fairness ==
  \A c \in Call :
    /\ WF_vars(\E m \in Msg : Run(c, m) \/ Drop(c, m))
    /\ WF_vars(Return(c))
    /\ WF_vars(Complete(c))
    /\ WF_vars(Clear(c))

Spec == Init /\ [][Next]_vars
FairSpec == Spec /\ Fairness
-----------------------------------------------------------------------------
InFlight(c) == phase[c] \in {"running", "async", "done"}

(* Actor.unique's doc: the function is never in flight twice for one message,
   however sends, evaluations and completions interleave. *)
OneRunPerMessage ==
  \A c, d \in Call : InFlight(c) /\ InFlight(d) /\ msgOf[c] = msgOf[d] => c = d

(* UniqueActorImpl.scala:16, `ensuring(_ != null)`: when a clear runs, the map
   still holds the very future it was registered on. *)
ClearFindsItsEntry ==
  \A c \in Call : phase[c] = "done" => messages[msgOf[c]] = c

(* UniqueActorImplTest "Verifies clear": a call sent after some run has been
   answered is never given the result of that run again. *)
NeverServedByAnAnsweredRun ==
  \A c \in Call : joinedTo[c] \notin seen[c]

(* Nobody is left behind: the answer of every unanswered call is on its way, its
   call or the clear of its run in the mailbox, or its run still incomplete. A
   clear that ran before a caller joined, or answered only some, would strand
   the others for good (the map has no timeout). *)
Submitted(kind, c) ==
  \E i \in 1..Len(mailbox) : mailbox[i] = [kind |-> kind, call |-> c]
NobodyLeftBehind ==
  \A c \in Call :
    /\ phase[c] = "queued" => Submitted("call", c)
    /\ phase[c] = "done" => Submitted("clear", c)
    /\ phase[c] = "joined" =>
         phase[joinedTo[c]] = "async" \/ Submitted("clear", joinedTo[c])

(* Every message sent is answered. *)
EveryCallAnswered == \A c \in Call : phase[c] = "queued" ~> phase[c] = "answered"

(* The promise made to callers, see SingleFlight: mailbox, map and thread are
   hidden, and a caller cannot tell the phases of a run apart. *)
StatusOf == [c \in Call |->
  CASE phase[c] = "queued" -> "waiting"
    [] InFlight(c) \/ phase[c] = "joined" -> "aboard"
    [] OTHER -> phase[c]]

Promise == INSTANCE SingleFlight WITH
  status <- StatusOf, topic <- msgOf, servedBy <- joinedTo

(* The actor is an implementation of the single-flight promise of its doc. *)
ImplementsSingleFlight == Promise!Spec
=============================================================================
