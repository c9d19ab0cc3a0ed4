--------------------- MODULE ParallelIterantMapper_proofs -------------------
(***************************************************************************)
(* Proofs about ParallelIterantMapper for any consumers, source length,    *)
(* capacity and pool: that the state keeps its types, that elements come   *)
(* out in source order, that a continuation finds the entries it removes,  *)
(* that the buffer bounds the map and the read-ahead, and that the end is  *)
(* told only at the end.                                                   *)
(*                                                                         *)
(* One inductive invariant carries them all. Its parts need one another:   *)
(* the pool's tasks need the map's entries, and the permits need both.     *)
(***************************************************************************)
EXTENDS ParallelIterantMapper, TLAPS, FiniteSetTheorems

(* Where the filler is says how far the source is read and whether the end is
   known; the element being put is always that of the next index. *)
FillerInStep ==
  /\ stepped <= len
  /\ nextIndex <= stepped /\ stepped <= nextIndex + 1
  /\ filler \in {"stepping", "finished"} => stepped = nextIndex
  /\ filler \in {"putting", "acquiring", "inserting"} => stepped = nextIndex + 1
  /\ filler = "finished" => nextIndex = len
  /\ maxIndex = IF filler = "finished" THEN nextIndex ELSE NoMax

(* Index k was handed out, and its FutureOption is complete. *)
Answered(k) == k < Len(results) /\ results[k + 1].state # "pending"

(* What the blocking map knows of an index that was put, and of one that was
   not, next to what its FutureOption says. *)
PutEntry(k) ==
  /\ latch[k] = "released"
  /\ ~Answered(k) => futures[k] = k /\ k \in waiting
  /\ Answered(k) => futures[k] = Absent /\ results[k + 1] = [state |-> "taken", elem |-> k]
MissingEntry(k) ==
  /\ latch[k] # "released" /\ futures[k] = Absent
  /\ latch[k] = "interrupted" => filler = "finished"
  /\ Answered(k) => filler = "finished" /\ results[k + 1].state = "none"
EntryOf(k) ==
  /\ k < nextIndex => PutEntry(k)
  /\ k >= nextIndex => MissingEntry(k)
  /\ k \in waiting \/ k < Len(results) => latch[k] # Absent
Entries == Len(results) <= MaxLen + 1 /\ \A k \in Index : EntryOf(k)

(* The tasks of the pool: in its queue or on a thread, and never twice. *)
Elements(q) == {q[i] : i \in 1..Len(q)}
InFlight == Elements(tasks) \cup active
Once(q, running) ==
  /\ \A i, j \in 1..Len(q) : q[i] = q[j] => i = j
  /\ \A i \in 1..Len(q) : q[i] \notin running

(* An index is waited for, and then taken, by one task, while its FutureOption
   is open; the take comes after the latch was released or interrupted. *)
TasksOf(k) ==
  /\ <<"map", k>> \in InFlight => k < nextIndex
  /\ <<"wait", k>> \in InFlight =>
       k < Len(results) /\ ~Answered(k) /\ <<"take", k>> \notin InFlight
  /\ <<"take", k>> \in InFlight =>
       k < Len(results) /\ ~Answered(k) /\ latch[k] \in {"released", "interrupted"}
Waits == Once(tasks, active) /\ \A k \in Index : TasksOf(k)

(* Permits and entries of the map balance until the end floods the semaphore,
   and whatever was put is still held or was taken. *)
Held == {k \in Index : futures[k] # Absent}
Ledger ==
  /\ Cardinality(Held) <= Capacity
  /\ permits + Cardinality(Held) <= MaxPermits
  /\ filler # "finished" => permits + Cardinality(Held) <= Capacity
  /\ filler = "inserting" => permits + Cardinality(Held) < Capacity
  /\ nextIndex = Cardinality(Taken) + Cardinality(Held)

(* A consumer is never past the next index nor past what was handed out. *)
Positions ==
  \A c \in Consumer :
    /\ pos[c] <= Len(results) /\ pos[c] <= nextIndex
    /\ pc[c] = "awaiting" => pos[c] < Len(results)
    /\ pc[c] \in {"ended", "thrown"} => filler = "finished" /\ pos[c] = nextIndex

IInv ==
  TypeOK /\ FillerInStep /\ Entries /\ Waits /\ Ledger /\ Positions

Result == [state : {"pending", "none", "taken"}, elem : Index \cup {Absent}]
-----------------------------------------------------------------------------
(* The pool as a set of tasks. *)

(* Queueing a new task adds it, and no task is there twice. *)
LEMMA Queueing ==
  ASSUME NEW q \in Seq(Task), NEW running, NEW t \in Task, Once(q, running),
         t \notin Elements(q), t \notin running
  PROVE  Elements(Append(q, t)) = Elements(q) \cup {t} /\ Once(Append(q, t), running)
<1> DEFINE r == Append(q, t)
<1>1. /\ Len(r) = Len(q) + 1 /\ r[Len(q) + 1] = t
      /\ \A i \in 1..Len(q) : r[i] = q[i]
  OBVIOUS
<1>2. 1..Len(r) = 1..Len(q) \cup {Len(q) + 1}
  BY <1>1
<1>3. Elements(r) = Elements(q) \cup {t}
  BY <1>1, <1>2 DEF Elements
<1>4. Once(r, running)
  BY <1>1, <1>2 DEF Once, Elements
<1> QED
  BY <1>3, <1>4

(* A thread that starts the first task moves it, and changes no other. *)
LEMMA Starting ==
  ASSUME NEW q \in Seq(Task), q # <<>>, NEW running, Once(q, running)
  PROVE  /\ Elements(Tail(q)) \cup (running \cup {Head(q)}) = Elements(q) \cup running
         /\ Once(Tail(q), running \cup {Head(q)})
<1>1. /\ Len(q) \in Nat /\ Len(q) >= 1 /\ Head(q) = q[1]
      /\ Len(Tail(q)) = Len(q) - 1
      /\ \A i \in 1..Len(q) - 1 : Tail(q)[i] = q[i + 1]
  OBVIOUS
<1>2. Elements(q) = Elements(Tail(q)) \cup {q[1]}
  <2>1. ASSUME NEW i \in 1..Len(q), i # 1
        PROVE  i - 1 \in 1..Len(q) - 1 /\ Tail(q)[i - 1] = q[i]
    BY <1>1, <2>1
  <2>2. ASSUME NEW i \in 1..Len(q) - 1
        PROVE  i + 1 \in 1..Len(q) /\ Tail(q)[i] = q[i + 1]
    BY <1>1, <2>2
  <2>3. Elements(q) \subseteq Elements(Tail(q)) \cup {q[1]}
    <3> SUFFICES ASSUME NEW i \in 1..Len(q), i # 1
                 PROVE  q[i] \in Elements(Tail(q))
      BY DEF Elements
    <3> QED
      BY <1>1, <2>1 DEF Elements
  <2>4. Elements(Tail(q)) \subseteq Elements(q)
    BY <1>1, <2>2 DEF Elements
  <2>5. q[1] \in Elements(q)
    BY <1>1 DEF Elements
  <2> QED
    BY <2>3, <2>4, <2>5
<1>3. Once(Tail(q), running \cup {Head(q)})
  BY <1>1 DEF Once
<1> QED
  BY <1>1, <1>2, <1>3

(* A task that ends is nowhere any more. *)
LEMMA Ending ==
  ASSUME NEW q, NEW running, NEW t \in running, Once(q, running)
  PROVE  /\ Elements(q) \cup (running \ {t}) = (Elements(q) \cup running) \ {t}
         /\ Once(q, running \ {t})
BY DEF Once, Elements

(* Append keeps a sequence in its type. *)
LEMMA Appended ==
  ASSUME NEW S, NEW q \in Seq(S), NEW e \in S
  PROVE  /\ Append(q, e) \in Seq(S) /\ Len(Append(q, e)) = Len(q) + 1
         /\ Append(q, e)[Len(q) + 1] = e
         /\ \A i \in 1..Len(q) : Append(q, e)[i] = q[i]
OBVIOUS

(* An element of a sequence over a set is of that set. *)
LEMMA IndexedElement ==
  ASSUME NEW S, NEW q \in Seq(S), NEW i \in 1..Len(q)
  PROVE  q[i] \in S
OBVIOUS

(* Completing one FutureOption leaves the Vector a sequence of its length. *)
LEMMA Replacing ==
  ASSUME NEW S, NEW q \in Seq(S), NEW i \in 1..Len(q), NEW e \in S
  PROVE  [q EXCEPT ![i] = e] \in Seq(S) /\ Len([q EXCEPT ![i] = e]) = Len(q)
OBVIOUS
-----------------------------------------------------------------------------
(* The invariant holds when the mapper is built. *)
LEMMA InitInv == Init => IInv
<1> SUFFICES ASSUME Init PROVE IInv
  OBVIOUS
<1> USE BoundsAssumption DEF Init
<1>1. TypeOK
  BY DEF TypeOK, Index, NoMax
<1>2. FillerInStep
  BY DEF FillerInStep
<1>3. Entries
  <2>1. Len(results) = 0
    OBVIOUS
  <2> QED
    BY <2>1 DEF Entries, EntryOf, Index, MissingEntry, Answered
<1>4. Waits
  BY DEF Waits, TasksOf, Once, InFlight, Elements
<1>5. Held = {} /\ Taken = {}
  BY DEF Held, Taken
<1>6. Ledger
  BY <1>5, FS_EmptySet DEF Ledger
<1>7. Positions
  BY DEF Positions
<1> QED
  BY <1>1, <1>2, <1>3, <1>4, <1>6, <1>7 DEF IInv
-----------------------------------------------------------------------------
(* What the invariant says where an action looks at it. *)

(* Put works on the index after the last, whose entry is still missing. *)
LEMMA AtPut ==
  ASSUME IInv, filler \in {"putting", "acquiring", "inserting"}
  PROVE  /\ nextIndex \in Index /\ nextIndex + 1 \in Index /\ stepped - 1 = nextIndex
         /\ maxIndex = NoMax /\ MissingEntry(nextIndex) /\ ~Answered(nextIndex)
         /\ <<"map", nextIndex>> \notin InFlight
<1>1. /\ nextIndex \in Nat /\ stepped \in Nat /\ len \in Nat /\ len <= MaxLen /\ MaxLen \in Nat
  BY BoundsAssumption DEF IInv, TypeOK
<1>2. stepped = nextIndex + 1 /\ stepped <= len /\ maxIndex = NoMax
  BY DEF IInv, FillerInStep
<1>3. nextIndex \in Index /\ nextIndex + 1 \in Index /\ stepped - 1 = nextIndex
  BY <1>1, <1>2 DEF Index
<1>4. MissingEntry(nextIndex)
  BY <1>1, <1>3 DEF IInv, Entries, EntryOf
<1>5. ~Answered(nextIndex)
  BY <1>4 DEF MissingEntry
<1>6. TasksOf(nextIndex)
  BY <1>3 DEF IInv, Waits
<1>7. <<"map", nextIndex>> \notin InFlight
  BY <1>1, <1>6 DEF TasksOf
<1> QED
  BY <1>2, <1>3, <1>4, <1>5, <1>7

(* Fill asks the map only for the first index nobody asked for; if it was put
   before, put left its latch. *)
LEMMA AtFill ==
  ASSUME IInv, NEW c \in Consumer, Len(results) <= pos[c]
  PROVE  /\ Len(results) \in Nat /\ pos[c] \in Index /\ pos[c] = Len(results)
         /\ pos[c] <= nextIndex /\ ~Answered(pos[c])
         /\ pos[c] < nextIndex => PutEntry(pos[c]) /\ pos[c] \in waiting
         /\ pos[c] = nextIndex => MissingEntry(pos[c])
         /\ <<"wait", pos[c]>> \notin InFlight /\ <<"take", pos[c]>> \notin InFlight
<1>1. /\ Len(results) \in Nat /\ nextIndex \in Nat
      /\ pos[c] \in Index /\ pos[c] \in Nat
  BY BoundsAssumption DEF IInv, TypeOK, Index
<1>2. pos[c] = Len(results) /\ pos[c] <= nextIndex /\ ~Answered(pos[c])
  BY <1>1 DEF IInv, Positions, Index, Answered
<1>3. pos[c] < nextIndex => PutEntry(pos[c]) /\ pos[c] \in waiting
  BY <1>1, <1>2 DEF IInv, Entries, EntryOf, PutEntry
<1>4. pos[c] = nextIndex => MissingEntry(pos[c])
  BY <1>1 DEF IInv, Entries, EntryOf
<1>5. TasksOf(pos[c])
  BY <1>1 DEF IInv, Waits
<1>6. <<"wait", pos[c]>> \notin InFlight /\ <<"take", pos[c]>> \notin InFlight
  BY <1>1, <1>2, <1>5 DEF TasksOf
<1> QED
  BY <1>1, <1>2, <1>3, <1>4, <1>6

(* A continuation finds its FutureOption open, and an entry of the map exactly
   if it was released. *)
LEMMA AtTake ==
  ASSUME IInv, NEW k \in Index, <<"take", k>> \in InFlight
  PROVE  /\ k + 1 \in 1..Len(results) /\ ~Answered(k)
         /\ latch[k] \in {"released", "interrupted"}
         /\ latch[k] = "released" => k < nextIndex /\ k \in waiting /\ futures[k] = k
         /\ latch[k] = "interrupted" => k >= nextIndex /\ filler = "finished"
<1>1. Len(results) \in Nat /\ nextIndex \in Nat /\ k \in Nat
  BY BoundsAssumption DEF IInv, TypeOK, Index
<1>2. k < Len(results) /\ ~Answered(k) /\ latch[k] \in {"released", "interrupted"}
  BY DEF IInv, Waits, TasksOf
<1>3. k < nextIndex => PutEntry(k)
  BY DEF IInv, Entries, EntryOf
<1>4. k >= nextIndex => MissingEntry(k)
  BY DEF IInv, Entries, EntryOf
<1>5. k + 1 \in 1..Len(results)
  BY <1>1, <1>2
<1> QED
  BY <1>1, <1>2, <1>3, <1>4, <1>5 DEF PutEntry, MissingEntry

(* An answer a consumer receives: an element was put, or the end was met. *)
LEMMA AtReceive ==
  ASSUME IInv, NEW c \in Consumer, pc[c] = "awaiting"
  PROVE  /\ pos[c] \in Index /\ pos[c] + 1 \in 1..Len(results)
         /\ results[pos[c] + 1].state = "taken" => pos[c] < nextIndex
         /\ results[pos[c] + 1].state = "none" => filler = "finished" /\ pos[c] = nextIndex
<1>1. Len(results) \in Nat /\ nextIndex \in Nat /\ pos[c] \in Index /\ pos[c] \in Nat
  BY BoundsAssumption DEF IInv, TypeOK, Index
<1>2. pos[c] < Len(results) /\ pos[c] <= nextIndex
  BY DEF IInv, Positions
<1>3. pos[c] + 1 \in 1..Len(results)
  BY <1>1, <1>2
<1>4. CASE pos[c] < nextIndex
  <2>1. PutEntry(pos[c])
    BY <1>1, <1>4 DEF IInv, Entries, EntryOf
  <2>2. results[pos[c] + 1].state \in {"pending", "taken"}
    BY <1>2, <2>1 DEF PutEntry, Answered
  <2> QED
    BY <1>1, <1>3, <1>4, <2>2
<1>5. CASE pos[c] = nextIndex
  <2>1. MissingEntry(pos[c])
    BY <1>1, <1>5 DEF IInv, Entries, EntryOf
  <2>2. \/ results[pos[c] + 1].state = "pending"
        \/ filler = "finished" /\ results[pos[c] + 1].state = "none"
    BY <1>2, <2>1 DEF MissingEntry, Answered
  <2> QED
    BY <1>1, <1>3, <1>5, <2>2
<1> QED
  BY <1>1, <1>2, <1>4, <1>5

(* Both counts of the ledger are of finite sets. *)
LEMMA Finite ==
  ASSUME IInv
  PROVE  /\ IsFiniteSet(Held) /\ Cardinality(Held) \in Nat
         /\ IsFiniteSet(Taken) /\ Cardinality(Taken) \in Nat
<1>1. IsFiniteSet(Index) /\ IsFiniteSet(1..Len(results))
  BY FS_Interval, BoundsAssumption DEF IInv, TypeOK, Index
<1>2. Held \subseteq Index /\ Taken \subseteq 1..Len(results)
  BY DEF Held, Taken
<1> QED
  BY <1>1, <1>2, FS_Subset, FS_CardinalityType
-----------------------------------------------------------------------------
(* Every step keeps the types. *)
LEMMA TypeNext == IInv /\ [Next]_vars => TypeOK'
<1> SUFFICES ASSUME IInv, [Next]_vars PROVE TypeOK'
  OBVIOUS
<1> USE BoundsAssumption DEF TypeOK, source, map, pool, consumers
<1>0. TypeOK /\ Index \subseteq Nat
  BY DEF IInv, Index
<1>1. CASE SourceStep
  BY <1>0, <1>1 DEF SourceStep
<1>2. CASE SourceFails
  BY <1>0, <1>2 DEF SourceFails
<1>3. CASE SetMaxIndex
  <2>1. MaxPermits - Capacity \in 0..MaxPermits /\ nextIndex \in 0..NoMax
    BY <1>0, BoundsAssumption DEF NoMax
  <2> QED
    BY <1>0, <1>3, <2>1 DEF SetMaxIndex, SetMaxIndexTo
<1>4. CASE PutCheck
  BY <1>0, <1>4 DEF PutCheck
<1>5. CASE PutAcquire
  BY <1>0, <1>5 DEF PutAcquire
<1>6. CASE PutInsert
  <2>1. nextIndex \in Index /\ nextIndex + 1 \in Index /\ stepped - 1 \in Index
    BY <1>6, AtPut DEF PutInsert
  <2>2. tasks' \in Seq(Task)
    BY <1>0, <1>6, <2>1 DEF PutInsert, Task
  <2> QED
    BY <1>0, <1>6, <2>1, <2>2 DEF PutInsert, Index
<1>7. CASE PutThrows
  BY <1>0, <1>7 DEF PutThrows
<1>8. ASSUME NEW c \in Consumer, Step(c) PROVE TypeOK'
  BY <1>0, <1>8 DEF Step
<1>9. ASSUME NEW c \in Consumer, Fill(c) PROVE TypeOK'
  <2>1. pos[c] \in Index /\ <<"wait", pos[c]>> \in Task
    BY <1>0 DEF Task
  <2>2. results' \in Seq(Result) /\ tasks' \in Seq(Task)
    <3>1. /\ results \in Seq(Result) /\ tasks \in Seq(Task)
          /\ [state |-> "pending", elem |-> Absent] \in Result
      BY <1>0 DEF Result
    <3>2. \/ results' = results /\ tasks' = tasks
          \/ /\ results' = Append(results, [state |-> "pending", elem |-> Absent])
             /\ tasks' = Append(tasks, <<"wait", pos[c]>>)
      BY <1>9 DEF Fill
    <3> HIDE DEF TypeOK
    <3>3. Append(results, [state |-> "pending", elem |-> Absent]) \in Seq(Result)
      BY <3>1, Appended
    <3>4. Append(tasks, <<"wait", pos[c]>>) \in Seq(Task)
      BY <2>1, <3>1, Appended
    <3> QED
      BY <3>1, <3>2, <3>3, <3>4
  <2>3. /\ pc' \in [Consumer -> {"idle", "filling", "awaiting", "ended", "failed", "thrown"}]
        /\ waiting' \subseteq Index
        /\ latch' \in [Index -> {Absent, "closed", "released", "interrupted"}]
    <3>1. CASE waiting' = waiting /\ latch' = latch
      BY <1>0, <1>9, <3>1 DEF Fill
    <3>2. CASE /\ waiting' = waiting \cup {pos[c]}
               /\ latch' = [latch EXCEPT ![pos[c]] =
                              IF pos[c] \in waiting THEN @ ELSE "closed"]
      BY <1>0, <1>9, <2>1, <3>2 DEF Fill
    <3> QED
      BY <1>9, <3>1, <3>2 DEF Fill
  <2> QED
    BY <1>0, <1>9, <2>2, <2>3 DEF Fill, Result
<1>10. ASSUME NEW c \in Consumer, Receive(c) PROVE TypeOK'
  <2>1. results[pos[c] + 1].state = "taken" => pos[c] + 1 \in Index
    BY <1>0, <1>10, AtReceive, BoundsAssumption DEF Receive, Index
  <2>2. /\ pc' \in [Consumer -> {"idle", "filling", "awaiting", "ended", "failed", "thrown"}]
        /\ pos' \in [Consumer -> Index]
    BY <1>0, <1>10, <2>1 DEF Receive
  <2> QED
    BY <1>0, <1>10, <2>2 DEF Receive
<1>11. CASE Start
  <2>1. Head(tasks) \in Task /\ Tail(tasks) \in Seq(Task)
    BY <1>0, <1>11 DEF Start
  <2> QED
    BY <1>0, <1>11, <2>1 DEF Start
<1>12. ASSUME NEW k \in Index, MapEnds(k) PROVE TypeOK'
  BY <1>0, <1>12 DEF MapEnds
<1>13. ASSUME NEW k \in Index, WaitEnds(k) PROVE TypeOK'
  <2>1. tasks' \in Seq(Task)
    BY <1>0, <1>13 DEF WaitEnds, Task
  <2> QED
    BY <1>0, <1>13, <2>1 DEF WaitEnds
<1>14. ASSUME NEW k \in Index, Take(k) PROVE TypeOK'
  <2>1. /\ k + 1 \in 1..Len(results) /\ latch[k] \in {"released", "interrupted"}
        /\ latch[k] = "released" => futures[k] = k
    BY <1>14, AtTake DEF Take, InFlight
  <2>2. results' \in Seq(Result)
    <3>0. results \in Seq(Result)
      BY <1>0 DEF Result
    <3>1. results[k + 1] \in Result
      BY <2>1, <3>0, IndexedElement
    <3>2. PICK e \in Result : results' = [results EXCEPT ![k + 1] = e]
      <4>1. CASE latch[k] = "released"
        BY <1>0, <1>14, <4>1 DEF Take, Result
      <4>2. CASE latch[k] # "released"
        <5>1. [results[k + 1] EXCEPT !.state = "none"] \in Result
          BY <3>1 DEF Result
        <5>2. results' = [results EXCEPT ![k + 1] = [results[k + 1] EXCEPT !.state = "none"]]
          BY <1>14, <4>2 DEF Take
        <5> QED
          BY <5>1, <5>2
      <4> QED
        BY <4>1, <4>2
    <3> QED
      BY <2>1, <3>0, <3>2, Replacing
  <2>3. permits' \in 0..MaxPermits
    <3>1. CASE latch[k] = "released"
      <4>1. k \in Held /\ Absent \notin Nat
        BY <1>0, <2>1, <3>1, BoundsAssumption DEF Held
      <4>2. Cardinality(Held) >= 1
        BY <4>1, Finite, FS_EmptySet
      <4>3. permits \in Nat /\ permits + Cardinality(Held) <= MaxPermits
        BY <1>0 DEF IInv, Ledger
      <4> QED
        BY <1>14, <3>1, <4>2, <4>3, Finite DEF Take
    <3>2. CASE latch[k] # "released"
      BY <1>0, <1>14, <3>2 DEF Take
    <3> QED
      BY <3>1, <3>2
  <2>4. futures' \in [Index -> Index \cup {Absent}] /\ waiting' \subseteq Index
    BY <1>0, <1>14 DEF Take
  <2> QED
    BY <1>0, <1>14, <2>2, <2>3, <2>4 DEF Take, Result
<1>15. CASE UNCHANGED vars
  BY <1>0, <1>15 DEF vars
<1> QED
  BY <1>1, <1>2, <1>3, <1>4, <1>5, <1>6, <1>7, <1>8, <1>9, <1>10, <1>11, <1>12, <1>13,
     <1>14, <1>15 DEF Next, Filler, Pool
-----------------------------------------------------------------------------
(* Only the filler moves the filler, and its own steps keep it in step. *)
LEMMA FillerNext == IInv /\ [Next]_vars => FillerInStep'
<1> SUFFICES ASSUME IInv, [Next]_vars PROVE FillerInStep'
  OBVIOUS
<1> USE DEF FillerInStep, source, map
<1>0. /\ FillerInStep /\ BoundsAssumption
      /\ len \in Nat /\ len <= MaxLen /\ stepped \in Nat /\ nextIndex \in Nat
  BY BoundsAssumption DEF IInv, TypeOK
<1>1. CASE SourceStep
  BY <1>0, <1>1 DEF SourceStep
<1>2. CASE SourceFails
  BY <1>0, <1>2 DEF SourceFails
<1>3. CASE SetMaxIndex
  BY <1>0, <1>3 DEF SetMaxIndex, SetMaxIndexTo
<1>4. CASE PutCheck
  BY <1>0, <1>4 DEF PutCheck
<1>5. CASE PutAcquire
  BY <1>0, <1>5 DEF PutAcquire
<1>6. CASE PutInsert
  BY <1>0, <1>6 DEF PutInsert
<1>7. CASE PutThrows
  BY <1>0, <1>7 DEF PutThrows
<1>8. CASE UNCHANGED <<source, filler, stepped, nextIndex, maxIndex>>
  BY <1>0, <1>8
<1>9. ASSUME NEW c \in Consumer, Step(c) \/ Fill(c) \/ Receive(c)
      PROVE  UNCHANGED <<source, filler, stepped, nextIndex, maxIndex>>
  BY <1>9 DEF Step, Fill, Receive
<1>10. CASE Pool
  BY <1>8, <1>10 DEF Pool, Start, MapEnds, WaitEnds, Take
<1> QED
  BY <1>1, <1>2, <1>3, <1>4, <1>5, <1>6, <1>7, <1>8, <1>9, <1>10 DEF Next, Filler, vars

(* A consumer moves on only past an element that was put. *)
LEMMA PositionsNext == IInv /\ [Next]_vars => Positions'
<1> SUFFICES ASSUME IInv, [Next]_vars, NEW d \in Consumer
             PROVE  /\ pos'[d] <= Len(results') /\ pos'[d] <= nextIndex'
                    /\ pc'[d] = "awaiting" => pos'[d] < Len(results')
                    /\ pc'[d] \in {"ended", "thrown"} =>
                         filler' = "finished" /\ pos'[d] = nextIndex'
  BY DEF Positions
<1> USE DEF source, map, pool, consumers
<1>0. /\ pos[d] \in Nat /\ nextIndex \in Nat /\ Len(results) \in Nat
      /\ pos[d] <= Len(results) /\ pos[d] <= nextIndex
      /\ pc[d] = "awaiting" => pos[d] < Len(results)
      /\ pc[d] \in {"ended", "thrown"} => filler = "finished" /\ pos[d] = nextIndex
      /\ pos \in [Consumer -> Index] /\ pc \in [Consumer ->
           {"idle", "filling", "awaiting", "ended", "failed", "thrown"}]
  BY BoundsAssumption DEF IInv, TypeOK, Positions, Index
<1>a. /\ maxIndex = IF filler = "finished" THEN nextIndex ELSE NoMax
      /\ nextIndex < NoMax
  BY BoundsAssumption DEF IInv, FillerInStep, TypeOK, NoMax
<1>1. CASE SetMaxIndex
  BY <1>0, <1>1 DEF SetMaxIndex, SetMaxIndexTo
<1>2. CASE PutInsert
  BY <1>0, <1>2 DEF PutInsert
<1>3. CASE SourceStep \/ SourceFails \/ PutCheck \/ PutAcquire \/ PutThrows
  BY <1>0, <1>3 DEF SourceStep, SourceFails, PutCheck, PutAcquire, PutThrows
<1>4. ASSUME NEW c \in Consumer, Step(c)
      PROVE  /\ UNCHANGED <<filler, nextIndex, results, pos>>
             /\ pc'[d] \in {pc[d], "filling"} \/ pos[d] > maxIndex
  BY <1>0, <1>4 DEF Step
<1>5. ASSUME NEW c \in Consumer, Fill(c)
      PROVE  /\ UNCHANGED <<filler, nextIndex, pos>>
             /\ Len(results') \in Nat /\ Len(results) <= Len(results')
             /\ \/ pc'[d] = pc[d]
                \/ pc'[d] = "awaiting" /\ pos[d] < Len(results')
                \/ pc'[d] = "thrown" /\ pos[d] >= maxIndex
  <2>1. CASE results' = results
    BY <1>0, <1>5, <2>1 DEF Fill
  <2>2. CASE results' # results
    <3>1. /\ results' = Append(results, [state |-> "pending", elem |-> Absent])
          /\ Len(results) <= pos[c] /\ UNCHANGED <<filler, nextIndex, pos>>
          /\ pc' = [pc EXCEPT ![c] = "awaiting"]
      <4>1. ~(Len(results) > pos[c])
        BY <1>5, <2>2 DEF Fill
      <4>2. Len(results) <= pos[c]
        BY <1>0, <4>1, BoundsAssumption DEF Index
      <4> QED
        BY <1>5, <2>2, <4>2 DEF Fill
    <3>2. Len(results') = Len(results) + 1
      BY <3>1, Appended DEF IInv, TypeOK
    <3>3. d = c => pos[d] = Len(results)
      BY <3>1, AtFill
    <3> QED
      BY <1>0, <3>1, <3>2, <3>3
  <2> QED
    BY <2>1, <2>2
<1>6. ASSUME NEW c \in Consumer, Receive(c)
      PROVE  /\ UNCHANGED <<filler, nextIndex, results>>
             /\ \/ pc'[d] = pc[d] /\ pos'[d] = pos[d]
                \/ /\ pc'[d] = "idle" /\ pos'[d] = pos[d] + 1
                   /\ pos[d] < nextIndex /\ pos[d] < Len(results)
                \/ pc'[d] = "failed" /\ pos'[d] = pos[d]
                \/ /\ pc'[d] = "ended" /\ pos'[d] = pos[d]
                   /\ filler = "finished" /\ pos[d] = nextIndex
  <2>1. pc[c] = "awaiting"
    BY <1>6 DEF Receive
  <2>2. /\ results[pos[c] + 1].state = "taken" => pos[c] < nextIndex
        /\ results[pos[c] + 1].state = "none" => filler = "finished" /\ pos[c] = nextIndex
    BY <2>1, AtReceive
  <2>3. UNCHANGED <<filler, nextIndex, results>>
    BY <1>6 DEF Receive
  <2>4. CASE d # c
    BY <1>0, <1>6, <2>3, <2>4 DEF Receive
  <2>5. CASE d = c
    BY <1>0, <1>6, <2>1, <2>2, <2>3, <2>5 DEF Receive
  <2> QED
    BY <2>4, <2>5
<1>7. CASE Pool
  <2>1. ASSUME NEW k \in Index, Take(k) PROVE Len(results') = Len(results)
    BY <2>1 DEF Take, IInv, TypeOK
  <2> QED
    BY <1>0, <1>7, <2>1 DEF Pool, Start, MapEnds, WaitEnds, Take
<1>8. CASE UNCHANGED vars
  BY <1>0, <1>8 DEF vars
<1>9. ASSUME NEW c \in Consumer, Step(c) \/ Fill(c) \/ Receive(c)
      PROVE  /\ pos'[d] <= Len(results') /\ pos'[d] <= nextIndex'
             /\ pc'[d] = "awaiting" => pos'[d] < Len(results')
             /\ pc'[d] \in {"ended", "thrown"} =>
                  filler' = "finished" /\ pos'[d] = nextIndex'
  <2>1. CASE Step(c)
    BY <1>0, <1>a, <1>4, <2>1
  <2>2. CASE Fill(c)
    BY <1>0, <1>a, <1>5, <2>2
  <2>3. CASE Receive(c)
    BY <1>0, <1>6, <2>3
  <2> QED
    BY <1>9, <2>1, <2>2, <2>3
<1> QED
  BY <1>1, <1>2, <1>3, <1>7, <1>8, <1>9 DEF Next, Filler

(* The answer of an index, and hence its entry, changes only when a wait for it
   is queued or its continuation runs. *)
LEMMA SameEntry ==
  ASSUME NEW k \in Index, EntryOf(k), nextIndex' = nextIndex, futures'[k] = futures[k],
         latch'[k] = latch[k], k \in waiting' <=> k \in waiting,
         filler = "finished" => filler' = "finished",
         Len(results') = Len(results),
         k < Len(results) => results'[k + 1] = results[k + 1]
  PROVE  EntryOf(k)'
<1>1. Answered(k)' <=> Answered(k)
  BY DEF Answered
<1>2. Answered(k) => results'[k + 1] = results[k + 1]
  BY DEF Answered
<1> QED
  BY <1>1, <1>2 DEF EntryOf, PutEntry, MissingEntry

(* Whatever interleaving of puts, waits, takes and the end: an index that was
   put has its entry until it is taken, and one that was not has none. *)
LEMMA EntriesNext == IInv /\ [Next]_vars => Entries'
<1> SUFFICES ASSUME IInv, [Next]_vars PROVE Entries'
  OBVIOUS
<1> USE DEF source, map, pool, consumers
<1>0. /\ Len(results) \in Nat /\ Len(results) <= MaxLen + 1 /\ nextIndex \in Nat
      /\ \A k \in Index : EntryOf(k) /\ k \in Nat /\ k <= MaxLen
      /\ results \in Seq(Result) /\ latch \in [Index ->
            {Absent, "closed", "released", "interrupted"}]
      /\ futures \in [Index -> Index \cup {Absent}]
  BY BoundsAssumption DEF IInv, TypeOK, Entries, Index, Result
<1>1. CASE UNCHANGED <<nextIndex, futures, waiting, latch, results>>
           /\ (filler = "finished" => filler' = "finished")
  BY <1>0, <1>1, SameEntry DEF Entries
<1>2. CASE SourceStep \/ SourceFails \/ PutCheck \/ PutAcquire \/ PutThrows
  BY <1>1, <1>2 DEF SourceStep, SourceFails, PutCheck, PutAcquire, PutThrows
<1>3. CASE SetMaxIndex
  <2>1. /\ filler' = "finished" /\ UNCHANGED <<nextIndex, futures, results>>
    BY <1>3 DEF SetMaxIndex, SetMaxIndexTo
  <2>a. ASSUME NEW k \in Index, k < nextIndex
        PROVE  latch'[k] = latch[k] /\ (k \in waiting' <=> k \in waiting)
    BY <1>0, <1>3, <2>a DEF SetMaxIndex, SetMaxIndexTo
  <2>b. ASSUME NEW k \in Index
        PROVE  /\ latch'[k] = latch[k] \/ latch'[k] = "interrupted"
               /\ k \in waiting' => k \in waiting
    BY <1>0, <1>3 DEF SetMaxIndex, SetMaxIndexTo
  <2>2. ASSUME NEW k \in Index, k < nextIndex PROVE EntryOf(k)'
    BY <1>0, <2>1, <2>2, <2>a, SameEntry
  <2>3. ASSUME NEW k \in Index, k >= nextIndex PROVE EntryOf(k)'
    <3>1. MissingEntry(k) /\ (k \in waiting \/ k < Len(results) => latch[k] # Absent)
      BY <1>0, <2>3 DEF EntryOf
    <3>2. Answered(k)' <=> Answered(k)
      BY <2>1 DEF Answered
    <3>3. MissingEntry(k)'
      BY <2>1, <2>b, <3>1, <3>2 DEF MissingEntry
    <3>4. k \in waiting' \/ k < Len(results') => latch'[k] # Absent
      BY <2>1, <2>b, <3>1, BoundsAssumption
    <3> QED
      BY <1>0, <2>1, <2>3, <3>3, <3>4 DEF EntryOf
  <2> QED
    BY <1>0, <2>1, <2>2, <2>3 DEF Entries
<1>4. CASE PutInsert
  <2>1. /\ nextIndex \in Index /\ nextIndex' = nextIndex + 1 /\ stepped - 1 = nextIndex
        /\ ~Answered(nextIndex) /\ filler # "finished" /\ results' = results
    BY <1>4, AtPut DEF PutInsert
  <2>2. /\ futures'[nextIndex] = nextIndex /\ latch'[nextIndex] = "released"
        /\ nextIndex \in waiting'
        /\ \A k \in Index \ {nextIndex} :
             /\ futures'[k] = futures[k] /\ latch'[k] = latch[k]
             /\ k \in waiting' <=> k \in waiting
    BY <1>0, <1>4, <2>1 DEF PutInsert
  <2>3. ASSUME NEW k \in Index PROVE EntryOf(k)'
    <3>1. Answered(k)' <=> Answered(k)
      BY <2>1 DEF Answered
    <3>2. CASE k = nextIndex
      BY <1>0, <2>1, <2>2, <3>1, <3>2, BoundsAssumption DEF EntryOf, PutEntry
    <3>3. CASE k < nextIndex
      <4>1. PutEntry(k)
        BY <1>0, <3>3 DEF EntryOf
      <4>2. PutEntry(k)'
        BY <1>0, <2>1, <2>2, <3>1, <3>3, <4>1 DEF PutEntry
      <4> QED
        <5>1. latch'[k] # Absent
          BY <4>2, BoundsAssumption DEF PutEntry
        <5>2. ~(k >= nextIndex')
          BY <1>0, <2>1, <3>3
        <5> QED
          BY <4>2, <5>1, <5>2 DEF EntryOf
    <3>4. CASE k > nextIndex
      <4>1. MissingEntry(k) /\ (k \in waiting \/ k < Len(results) => latch[k] # Absent)
        BY <1>0, <3>4 DEF EntryOf
      <4>2. k # nextIndex
        BY <1>0, <3>4
      <4>3. MissingEntry(k)' /\ (k \in waiting' \/ k < Len(results') => latch'[k] # Absent)
        BY <2>1, <2>2, <3>1, <4>1, <4>2 DEF MissingEntry
      <4> QED
        BY <1>0, <2>1, <3>4, <4>3 DEF EntryOf
    <3> QED
      BY <1>0, <3>2, <3>3, <3>4
  <2> QED
    BY <1>0, <2>1, <2>3 DEF Entries
<1>5. ASSUME NEW c \in Consumer, Fill(c) PROVE Entries'
  <2> DEFINE k == pos[c]
  <2>1. CASE UNCHANGED <<waiting, latch, results>>
    BY <1>1, <1>5, <2>1 DEF Fill
  <2>2. CASE ~UNCHANGED <<waiting, latch, results>>
    <3>1. /\ ~(Len(results) > k) /\ UNCHANGED <<filler, nextIndex, futures>>
          /\ waiting' = waiting \cup {k}
          /\ latch' = [latch EXCEPT ![k] = IF k \in waiting THEN @ ELSE "closed"]
          /\ results' = Append(results, [state |-> "pending", elem |-> Absent])
      BY <1>5, <2>2 DEF Fill
    <3>2. k \in Index /\ Len(results) <= k
      <4>1. k \in Index
        BY DEF IInv, TypeOK
      <4> QED
        BY <1>0, <3>1, <4>1
    <3>3. /\ k = Len(results) /\ ~Answered(k)
          /\ k < nextIndex => k \in waiting
      BY <3>2, AtFill
    <3>4. /\ Len(results') = Len(results) + 1
          /\ results'[k + 1] = [state |-> "pending", elem |-> Absent]
          /\ \A i \in 1..Len(results) : results'[i] = results[i]
      BY <1>0, <3>1, <3>3, Appended
    <3>5. ASSUME NEW j \in Index PROVE EntryOf(j)'
      <4>1. CASE j = k
        <5>1. ~Answered(j)'
          BY <3>4, <4>1 DEF Answered
        <5>2. latch'[j] = (IF k \in waiting THEN latch[k] ELSE "closed") /\ j \in waiting'
          BY <1>0, <3>1, <3>2, <4>1
        <5>3. EntryOf(j)
          BY <1>0
        <5>4. latch'[j] # Absent
          BY <4>1, <5>2, <5>3, BoundsAssumption DEF EntryOf
        <5>5. j < nextIndex => PutEntry(j)'
          BY <3>1, <3>3, <4>1, <5>1, <5>2, <5>3 DEF EntryOf, PutEntry
        <5>6. j >= nextIndex => MissingEntry(j)'
          BY <3>1, <3>3, <4>1, <5>1, <5>2, <5>3 DEF EntryOf, MissingEntry
        <5> QED
          BY <3>1, <5>4, <5>5, <5>6 DEF EntryOf
      <4>2. CASE j # k
        <5>1. /\ latch'[j] = latch[j] /\ (j \in waiting' <=> j \in waiting)
              /\ j < Len(results') <=> j < Len(results)
          BY <1>0, <3>1, <3>2, <3>3, <3>4, <4>2
        <5>2. j < Len(results) => results'[j + 1] = results[j + 1]
          BY <1>0, <3>4
        <5>3. Answered(j)' <=> Answered(j)
          BY <5>1, <5>2 DEF Answered
        <5>4. Answered(j) => results'[j + 1] = results[j + 1]
          BY <5>2 DEF Answered
        <5> QED
          BY <1>0, <3>1, <5>1, <5>3, <5>4 DEF EntryOf, PutEntry, MissingEntry
      <4> QED
        BY <4>1, <4>2
    <3>6. Len(results') <= MaxLen + 1
      BY <1>0, <3>2, <3>3, <3>4, BoundsAssumption
    <3> QED
      BY <3>5, <3>6 DEF Entries
  <2> QED
    BY <2>1, <2>2
<1>6. ASSUME NEW c \in Consumer, Step(c) \/ Receive(c) PROVE Entries'
  BY <1>1, <1>6 DEF Step, Receive
<1>7. CASE Start
  BY <1>1, <1>7 DEF Start
<1>8. ASSUME NEW k \in Index, MapEnds(k) \/ WaitEnds(k) PROVE Entries'
  BY <1>1, <1>8 DEF MapEnds, WaitEnds
<1>9. ASSUME NEW k \in Index, Take(k) PROVE Entries'
  <2>1. /\ k + 1 \in 1..Len(results) /\ ~Answered(k)
        /\ latch[k] \in {"released", "interrupted"}
        /\ latch[k] = "released" => k < nextIndex /\ k \in waiting /\ futures[k] = k
        /\ latch[k] = "interrupted" => k >= nextIndex /\ filler = "finished"
    BY <1>9, AtTake DEF Take, InFlight
  <2>2. UNCHANGED <<filler, nextIndex, latch>>
    BY <1>9 DEF Take
  <2>3. /\ Len(results') = Len(results)
        /\ \A i \in 1..Len(results) : i # k + 1 => results'[i] = results[i]
    BY <1>0, <1>9, <2>1 DEF Take
  <2>4. ASSUME NEW j \in Index, j # k PROVE EntryOf(j)'
    <3>1. futures'[j] = futures[j] /\ (j \in waiting' <=> j \in waiting)
      BY <1>0, <1>9, <2>4 DEF Take
    <3>2. j < Len(results) => results'[j + 1] = results[j + 1]
      BY <1>0, <2>3, <2>4
    <3> QED
      BY <1>0, <2>2, <2>3, <3>1, <3>2, SameEntry
  <2>5. EntryOf(k)'
    <3>1. CASE latch[k] = "released"
      <4>1. /\ results'[k + 1] = [state |-> "taken", elem |-> k] /\ futures'[k] = Absent
        BY <1>0, <1>9, <2>1, <3>1 DEF Take
      <4> QED
        BY <1>0, <2>1, <2>2, <2>3, <3>1, <4>1, BoundsAssumption
        DEF EntryOf, PutEntry, Answered
    <3>2. CASE latch[k] = "interrupted"
      <4>1. /\ results'[k + 1].state = "none" /\ futures' = futures
        <5>1. results[k + 1] \in Result
          BY <1>0, <2>1, IndexedElement
        <5> QED
          BY <1>0, <1>9, <2>1, <3>2, <5>1 DEF Take, Result
      <4>2. MissingEntry(k)
        BY <1>0, <2>1, <3>2 DEF EntryOf
      <4> QED
        BY <1>0, <2>1, <2>2, <2>3, <3>2, <4>1, <4>2, BoundsAssumption
        DEF EntryOf, MissingEntry
    <3> QED
      BY <2>1, <3>1, <3>2
  <2> QED
    BY <1>0, <2>3, <2>4, <2>5 DEF Entries
<1>10. CASE UNCHANGED vars
  BY <1>1, <1>10 DEF vars
<1> QED
  BY <1>2, <1>3, <1>4, <1>5, <1>6, <1>7, <1>8, <1>9, <1>10 DEF Next, Filler, Pool

(* An index whose tasks are no more than before, and whose answer is as open as
   before, keeps what its tasks rely on. *)
LEMMA SameTasks ==
  ASSUME NEW k \in Index, TasksOf(k), k < nextIndex => k < nextIndex',
         \A what \in {"map", "wait", "take"} : <<what, k>> \in InFlight' => <<what, k>> \in InFlight,
         k < Len(results) => k < Len(results'), Answered(k)' => Answered(k),
         latch[k] \in {"released", "interrupted"} => latch'[k] \in {"released", "interrupted"}
  PROVE  TasksOf(k)'
BY DEF TasksOf

(* Each index that was handed out is waited for once and taken once. *)
LEMMA WaitsNext == IInv /\ [Next]_vars => Waits'
<1> SUFFICES ASSUME IInv, [Next]_vars PROVE Waits'
  OBVIOUS
<1> USE DEF source, map, pool, consumers
<1>0. /\ Len(results) \in Nat /\ nextIndex \in Nat
      /\ \A k \in Index : k \in Nat /\ TasksOf(k)
      /\ Once(tasks, active) /\ tasks \in Seq(Task) /\ results \in Seq(Result)
      /\ latch \in [Index -> {Absent, "closed", "released", "interrupted"}]
  BY BoundsAssumption DEF IInv, TypeOK, Waits, Index, Result
<1>1. CASE UNCHANGED <<nextIndex, latch, results, tasks, active>>
  BY <1>0, <1>1 DEF Waits, TasksOf, InFlight, Answered
<1>2. CASE SourceStep \/ SourceFails \/ PutCheck \/ PutAcquire \/ PutThrows
  BY <1>1, <1>2 DEF SourceStep, SourceFails, PutCheck, PutAcquire, PutThrows
<1>3. CASE SetMaxIndex
  <2>1. UNCHANGED <<nextIndex, results, tasks, active>>
    BY <1>3 DEF SetMaxIndex, SetMaxIndexTo
  <2>2. ASSUME NEW k \in Index PROVE TasksOf(k)'
    <3>1. latch'[k] = latch[k] \/ latch'[k] = "interrupted"
      BY <1>0, <1>3 DEF SetMaxIndex, SetMaxIndexTo
    <3> QED
      BY <1>0, <2>1, <3>1, SameTasks DEF InFlight, Answered
  <2> QED
    BY <1>0, <2>1, <2>2 DEF Waits
<1>4. CASE PutInsert
  <2>1. /\ nextIndex \in Index /\ <<"map", nextIndex>> \notin InFlight
        /\ UNCHANGED <<results, active>> /\ nextIndex' = nextIndex + 1
        /\ tasks' = Append(tasks, <<"map", nextIndex>>)
    BY <1>4, AtPut DEF PutInsert
  <2>2. InFlight' = InFlight \cup {<<"map", nextIndex>>} /\ Once(tasks', active')
    <3> DEFINE t == <<"map", nextIndex>>
    <3>1. t \in Task /\ t \notin Elements(tasks) /\ t \notin active
      BY <2>1 DEF InFlight, Task
    <3>2. Elements(Append(tasks, t)) = Elements(tasks) \cup {t} /\ Once(Append(tasks, t), active)
      BY <1>0, <3>1, Queueing
    <3> QED
      BY <2>1, <3>2 DEF InFlight
  <2>3. ASSUME NEW k \in Index PROVE TasksOf(k)'
    <3>1. latch'[k] = latch[k] \/ latch'[k] = "released"
      BY <1>0, <1>4, <2>1 DEF PutInsert
    <3>2. CASE k = nextIndex
      <4>1. \A what \in {"wait", "take"} : <<what, k>> \in InFlight' <=> <<what, k>> \in InFlight
        BY <2>2, <3>2
      <4>2. k < nextIndex'
        BY <1>0, <2>1, <3>2
      <4> QED
        BY <1>0, <2>1, <3>1, <4>1, <4>2 DEF TasksOf, Answered
    <3>3. CASE k # nextIndex
      <4>1. \A what \in {"map", "wait", "take"} : <<what, k>> \in InFlight' => <<what, k>> \in InFlight
        BY <2>2, <3>3
      <4>2. k < nextIndex => k < nextIndex'
        BY <1>0, <2>1
      <4> QED
        BY <1>0, <2>1, <3>1, <4>1, <4>2, SameTasks DEF Answered
    <3> QED
      BY <3>2, <3>3
  <2> QED
    BY <2>2, <2>3 DEF Waits
<1>5. ASSUME NEW c \in Consumer, Fill(c) PROVE Waits'
  <2> DEFINE k == pos[c]
  <2>1. CASE UNCHANGED <<latch, results, tasks>>
    BY <1>1, <1>5, <2>1 DEF Fill
  <2>2. CASE ~UNCHANGED <<latch, results, tasks>>
    <3>1. /\ ~(Len(results) > k) /\ UNCHANGED <<nextIndex, active>>
          /\ latch' = [latch EXCEPT ![k] = IF k \in waiting THEN @ ELSE "closed"]
          /\ results' = Append(results, [state |-> "pending", elem |-> Absent])
          /\ tasks' = Append(tasks, <<"wait", k>>)
      BY <1>5, <2>2 DEF Fill
    <3>2. k \in Index /\ k \in Nat /\ Len(results) <= k
      <4>1. k \in Index
        BY DEF IInv, TypeOK
      <4> QED
        BY <1>0, <3>1, <4>1
    <3>3. k = Len(results) /\ <<"wait", k>> \notin InFlight /\ <<"take", k>> \notin InFlight
      BY <3>2, AtFill
    <3>4. /\ Len(results') = Len(results) + 1
          /\ results'[k + 1] = [state |-> "pending", elem |-> Absent]
          /\ \A i \in 1..Len(results) : results'[i] = results[i]
      BY <1>0, <3>1, <3>3, Appended
    <3>5. InFlight' = InFlight \cup {<<"wait", k>>} /\ Once(tasks', active')
      <4> DEFINE t == <<"wait", k>>
      <4>1. t \in Task /\ t \notin Elements(tasks) /\ t \notin active
        BY <3>2, <3>3 DEF InFlight, Task
      <4>2. Elements(Append(tasks, t)) = Elements(tasks) \cup {t} /\ Once(Append(tasks, t), active)
        BY <1>0, <4>1, Queueing
      <4> QED
        BY <3>1, <4>2 DEF InFlight
    <3>6. ASSUME NEW j \in Index PROVE TasksOf(j)'
      <4>1. CASE j = k
        <5>1. <<"take", j>> \notin InFlight' /\ (<<"map", j>> \in InFlight' => <<"map", j>> \in InFlight)
          BY <3>3, <3>5, <4>1
        <5>2. j < Len(results') /\ ~Answered(j)'
          BY <1>0, <3>2, <3>3, <3>4, <4>1 DEF Answered
        <5> QED
          BY <1>0, <3>1, <5>1, <5>2 DEF TasksOf
      <4>2. CASE j # k
        <5>1. \A what \in {"map", "wait", "take"} : <<what, j>> \in InFlight' => <<what, j>> \in InFlight
          BY <3>5, <4>2
        <5>2. latch'[j] = latch[j]
          BY <1>0, <3>1, <4>2
        <5>3. j < Len(results) <=> j < Len(results')
          BY <1>0, <3>3, <3>4, <4>2
        <5>4. j < Len(results) => results'[j + 1] = results[j + 1]
          BY <1>0, <3>4
        <5>5. Answered(j)' => Answered(j)
          BY <5>3, <5>4 DEF Answered
        <5> QED
          BY <1>0, <3>1, <5>1, <5>2, <5>3, <5>5, SameTasks
      <4> QED
        BY <4>1, <4>2
    <3> QED
      BY <3>5, <3>6 DEF Waits
  <2> QED
    BY <2>1, <2>2
<1>6. ASSUME NEW c \in Consumer, Step(c) \/ Receive(c) PROVE Waits'
  BY <1>1, <1>6 DEF Step, Receive
<1>7. CASE Start
  <2>1. /\ tasks # <<>> /\ tasks' = Tail(tasks) /\ active' = active \cup {Head(tasks)}
        /\ UNCHANGED <<nextIndex, latch, results>>
    BY <1>7 DEF Start
  <2>2. InFlight' = InFlight /\ Once(tasks', active')
    BY <1>0, <2>1, Starting DEF InFlight
  <2> QED
    BY <1>0, <2>1, <2>2 DEF Waits, TasksOf, Answered
<1>8. ASSUME NEW k \in Index, MapEnds(k) PROVE Waits'
  <2>1. /\ <<"map", k>> \in active /\ active' = active \ {<<"map", k>>}
        /\ UNCHANGED <<nextIndex, latch, results, tasks>>
    BY <1>8 DEF MapEnds
  <2>2. InFlight' = InFlight \ {<<"map", k>>} /\ Once(tasks', active')
    <3>1. /\ Elements(tasks) \cup (active \ {<<"map", k>>})
              = (Elements(tasks) \cup active) \ {<<"map", k>>}
          /\ Once(tasks, active \ {<<"map", k>>})
      BY <1>0, <2>1, Ending
    <3> QED
      BY <2>1, <3>1 DEF InFlight
  <2>3. ASSUME NEW j \in Index PROVE TasksOf(j)'
    BY <1>0, <2>1, <2>2, SameTasks DEF Answered
  <2> QED
    BY <2>2, <2>3 DEF Waits
<1>9. ASSUME NEW k \in Index, WaitEnds(k) PROVE Waits'
  <2>1. /\ <<"wait", k>> \in active /\ active' = active \ {<<"wait", k>>}
        /\ tasks' = Append(tasks, <<"take", k>>) /\ latch[k] # "closed"
        /\ UNCHANGED <<nextIndex, latch, results>>
    BY <1>9 DEF WaitEnds
  <2>2. k < Len(results) /\ ~Answered(k) /\ <<"take", k>> \notin InFlight
    BY <1>0, <2>1 DEF TasksOf, InFlight
  <2>3. latch[k] \in {"released", "interrupted"}
    <3>1. latch[k] # Absent
      BY <2>2 DEF IInv, Entries, EntryOf
    <3> QED
      BY <1>0, <2>1, <3>1
  <2>4. /\ Elements(tasks) \cup active' = InFlight \ {<<"wait", k>>}
        /\ Once(tasks, active')
    <3>1. /\ Elements(tasks) \cup (active \ {<<"wait", k>>})
              = (Elements(tasks) \cup active) \ {<<"wait", k>>}
          /\ Once(tasks, active \ {<<"wait", k>>})
      BY <1>0, <2>1, Ending
    <3> QED
      BY <2>1, <3>1 DEF InFlight
  <2>5. <<"take", k>> \notin Elements(tasks) /\ <<"take", k>> \notin active'
    BY <2>1, <2>2 DEF InFlight
  <2>6. Elements(tasks') = Elements(tasks) \cup {<<"take", k>>} /\ Once(tasks', active')
    BY <1>0, <2>1, <2>4, <2>5, Queueing DEF Task
  <2>7. InFlight' = (InFlight \ {<<"wait", k>>}) \cup {<<"take", k>>}
    BY <2>4, <2>6 DEF InFlight
  <2>8. ASSUME NEW j \in Index PROVE TasksOf(j)'
    <3>1. CASE j = k
      <4>1. <<"wait", j>> \notin InFlight' /\ (<<"map", j>> \in InFlight' => <<"map", j>> \in InFlight)
        BY <2>7, <3>1
      <4> QED
        BY <1>0, <2>1, <2>2, <2>3, <3>1, <4>1 DEF TasksOf, Answered
    <3>2. CASE j # k
      <4>1. \A what \in {"map", "wait", "take"} : <<what, j>> \in InFlight' => <<what, j>> \in InFlight
        BY <2>7, <3>2
      <4> QED
        BY <1>0, <2>1, <4>1, SameTasks DEF Answered
    <3> QED
      BY <3>1, <3>2
  <2> QED
    BY <2>6, <2>8 DEF Waits
<1>10. ASSUME NEW k \in Index, Take(k) PROVE Waits'
  <2>1. /\ <<"take", k>> \in active /\ active' = active \ {<<"take", k>>}
        /\ UNCHANGED <<nextIndex, latch, tasks>>
    BY <1>10 DEF Take
  <2>2. InFlight' = InFlight \ {<<"take", k>>} /\ Once(tasks', active')
    <3>1. /\ Elements(tasks) \cup (active \ {<<"take", k>>})
              = (Elements(tasks) \cup active) \ {<<"take", k>>}
          /\ Once(tasks, active \ {<<"take", k>>})
      BY <1>0, <2>1, Ending
    <3> QED
      BY <2>1, <3>1 DEF InFlight
  <2>3. k + 1 \in 1..Len(results) /\ <<"wait", k>> \notin InFlight
    <3>1. <<"take", k>> \in InFlight
      BY <2>1 DEF InFlight
    <3> QED
      BY <1>0, <3>1, AtTake DEF TasksOf
  <2>4. /\ Len(results') = Len(results)
        /\ \A i \in 1..Len(results) : i # k + 1 => results'[i] = results[i]
    BY <1>0, <1>10, <2>3 DEF Take
  <2>5. ASSUME NEW j \in Index PROVE TasksOf(j)'
    <3>1. CASE j = k
      BY <1>0, <2>1, <2>2, <2>3, <3>1 DEF TasksOf
    <3>2. CASE j # k
      <4>1. j < Len(results) => results'[j + 1] = results[j + 1]
        BY <1>0, <2>4, <3>2
      <4>2. Answered(j)' => Answered(j)
        BY <2>4, <4>1 DEF Answered
      <4> QED
        BY <1>0, <2>1, <2>2, <2>4, <4>2, SameTasks
    <3> QED
      BY <3>1, <3>2
  <2> QED
    BY <2>2, <2>5 DEF Waits
<1>11. CASE UNCHANGED vars
  BY <1>1, <1>11 DEF vars
<1> QED
  BY <1>2, <1>3, <1>4, <1>5, <1>6, <1>7, <1>8, <1>9, <1>10, <1>11 DEF Next, Filler, Pool

(* A put adds an entry against a permit, a take turns an entry into an answer
   and a permit, and nothing else moves any of the three. *)
LEMMA LedgerNext == IInv /\ [Next]_vars => Ledger'
<1> SUFFICES ASSUME IInv, [Next]_vars PROVE Ledger'
  OBVIOUS
<1> USE DEF source, map, pool, consumers
<1>0. /\ Ledger /\ permits \in Nat /\ nextIndex \in Nat
      /\ Capacity \in Nat /\ MaxPermits \in Nat /\ MaxPermits > 2 * Capacity
      /\ Cardinality(Held) \in Nat /\ Cardinality(Taken) \in Nat
      /\ Len(results) \in Nat /\ results \in Seq(Result)
      /\ futures \in [Index -> Index \cup {Absent}]
  BY Finite, BoundsAssumption DEF IInv, TypeOK, Result
<1>1. ASSUME UNCHANGED <<futures, results>> PROVE Held' = Held /\ Taken' = Taken
  BY <1>1 DEF Held, Taken
<1>2. CASE UNCHANGED <<filler, permits, nextIndex, futures, results>>
  BY <1>0, <1>1, <1>2 DEF Ledger
<1>3. CASE SourceStep \/ SourceFails \/ PutCheck \/ PutThrows
  <2>1. UNCHANGED <<permits, nextIndex, futures, results>> /\ filler # "finished"
        /\ filler' \notin {"finished", "inserting"}
    BY <1>3 DEF SourceStep, SourceFails, PutCheck, PutThrows
  <2> QED
    BY <1>0, <1>1, <2>1 DEF Ledger
<1>4. CASE SetMaxIndex
  <2>1. /\ UNCHANGED <<nextIndex, futures, results>> /\ permits' = MaxPermits - Capacity
        /\ filler' = "finished"
    BY <1>4 DEF SetMaxIndex, SetMaxIndexTo
  <2> QED
    BY <1>0, <1>1, <2>1 DEF Ledger
<1>5. CASE PutAcquire
  <2>1. /\ UNCHANGED <<nextIndex, futures, results>> /\ permits' = permits - 1
        /\ filler = "acquiring" /\ filler' = "inserting"
    BY <1>5 DEF PutAcquire
  <2> QED
    BY <1>0, <1>1, <2>1 DEF Ledger
<1>6. CASE PutInsert
  <2>1. /\ nextIndex \in Index /\ stepped - 1 = nextIndex /\ futures[nextIndex] = Absent
        /\ filler = "inserting" /\ filler' = "stepping" /\ nextIndex' = nextIndex + 1
        /\ UNCHANGED <<permits, results>>
        /\ futures' = [futures EXCEPT ![nextIndex] = nextIndex]
    BY <1>6, AtPut DEF PutInsert, MissingEntry
  <2>2. Held' = Held \cup {nextIndex} /\ nextIndex \notin Held
    BY <1>0, <2>1, BoundsAssumption DEF Held
  <2>3. Cardinality(Held') = Cardinality(Held) + 1
    BY <2>2, Finite, FS_AddElement
  <2>4. Taken' = Taken
    BY <2>1 DEF Taken
  <2>5. /\ permits + Cardinality(Held) < Capacity
        /\ nextIndex = Cardinality(Taken) + Cardinality(Held)
    BY <1>0, <2>1 DEF Ledger
  <2>6. /\ Cardinality(Held') <= Capacity /\ permits' + Cardinality(Held') <= Capacity
        /\ nextIndex' = Cardinality(Taken') + Cardinality(Held')
    BY <1>0, <2>1, <2>3, <2>4, <2>5
  <2>7. permits' + Cardinality(Held') <= MaxPermits
    BY <1>0, <2>1, <2>3, <2>6
  <2> QED
    BY <2>1, <2>6, <2>7 DEF Ledger
<1>7. ASSUME NEW c \in Consumer, Fill(c) PROVE Ledger'
  <2>1. Taken' = Taken
    <3>1. CASE results' = results
      BY <3>1 DEF Taken
    <3>2. CASE results' = Append(results, [state |-> "pending", elem |-> Absent])
      <4>1. /\ Len(results') = Len(results) + 1
            /\ results'[Len(results) + 1] = [state |-> "pending", elem |-> Absent]
            /\ \A i \in 1..Len(results) : results'[i] = results[i]
        <5>1. results \in Seq([state : {"pending", "none", "taken"}, elem : Index \cup {Absent}])
          BY DEF IInv, TypeOK
        <5> QED
          BY <3>2, <5>1, Appended
      <4>2. 1..Len(results') = 1..Len(results) \cup {Len(results) + 1}
        BY <1>0, <4>1
      <4> QED
        BY <4>1, <4>2 DEF Taken
    <3> QED
      BY <1>7, <3>1, <3>2 DEF Fill
  <2>2. UNCHANGED <<filler, permits, nextIndex, futures>>
    BY <1>7 DEF Fill
  <2>3. Held' = Held
    BY <2>2 DEF Held
  <2> QED
    BY <1>0, <2>1, <2>2, <2>3 DEF Ledger
<1>8. ASSUME NEW c \in Consumer, Step(c) \/ Receive(c) PROVE Ledger'
  BY <1>2, <1>8 DEF Step, Receive
<1>9. CASE Start
  BY <1>2, <1>9 DEF Start
<1>10. ASSUME NEW k \in Index, MapEnds(k) \/ WaitEnds(k) PROVE Ledger'
  BY <1>2, <1>10 DEF MapEnds, WaitEnds
<1>11. ASSUME NEW k \in Index, Take(k) PROVE Ledger'
  <2>1. /\ k + 1 \in 1..Len(results) /\ ~Answered(k)
        /\ latch[k] \in {"released", "interrupted"}
        /\ latch[k] = "released" => k < nextIndex /\ k \in waiting /\ futures[k] = k
    BY <1>11, AtTake DEF Take, InFlight
  <2>2. UNCHANGED <<filler, nextIndex>>
    BY <1>11 DEF Take
  <2>3. results[k + 1].state = "pending" /\ results[k + 1] \in Result
    <3>1. k \in Nat /\ k < Len(results)
      BY <1>0, <2>1, BoundsAssumption DEF Index
    <3> QED
      BY <1>0, <2>1, <3>1, IndexedElement DEF Answered
  <2>4. /\ Len(results') = Len(results)
        /\ \A i \in 1..Len(results) : i # k + 1 => results'[i] = results[i]
    BY <1>0, <1>11, <2>1 DEF Take
  <2>5. CASE latch[k] = "released"
    <3>1. /\ permits' = permits + 1 /\ futures' = [futures EXCEPT ![k] = Absent]
          /\ results'[k + 1].state = "taken"
      BY <1>0, <1>11, <2>1, <2>5 DEF Take
    <3>2. k \in Held /\ Held' = Held \ {k}
      BY <1>0, <2>1, <2>5, <3>1, BoundsAssumption DEF Held, Index
    <3>3. Taken' = Taken \cup {k + 1} /\ k + 1 \notin Taken
      BY <2>1, <2>3, <2>4, <3>1 DEF Taken
    <3>4. /\ Cardinality(Held') = Cardinality(Held) - 1
          /\ Cardinality(Taken') = Cardinality(Taken) + 1
      BY <3>2, <3>3, Finite, FS_AddElement, FS_RemoveElement
    <3> QED
      BY <1>0, <2>2, <3>1, <3>4 DEF Ledger
  <2>6. CASE latch[k] = "interrupted"
    <3>1. permits' = permits /\ futures' = futures /\ results'[k + 1].state = "none"
      BY <1>0, <1>11, <2>1, <2>3, <2>6 DEF Take, Result
    <3>2. Held' = Held
      BY <3>1 DEF Held
    <3>3. Taken' = Taken
      BY <2>1, <2>3, <2>4, <3>1 DEF Taken
    <3> QED
      BY <1>0, <2>2, <3>1, <3>2, <3>3 DEF Ledger
  <2> QED
    BY <2>1, <2>5, <2>6
<1>12. CASE UNCHANGED vars
  BY <1>2, <1>12 DEF vars
<1> QED
  BY <1>3, <1>4, <1>5, <1>6, <1>7, <1>8, <1>9, <1>10, <1>11, <1>12 DEF Next, Filler, Pool

(* The invariant holds in every state of every behaviour. *)
LEMMA Invariance == Spec => []IInv
<1>1. IInv /\ [Next]_vars => IInv'
  <2> SUFFICES ASSUME IInv, [Next]_vars PROVE IInv'
    OBVIOUS
  <2>1. TypeOK' /\ FillerInStep' /\ Entries'
    BY TypeNext, FillerNext, EntriesNext
  <2>2. Waits' /\ Ledger' /\ Positions'
    BY WaitsNext, LedgerNext, PositionsNext
  <2> QED
    BY <2>1, <2>2 DEF IInv
<1> QED
  BY InitInv, <1>1, PTL DEF Spec
-----------------------------------------------------------------------------
(* The state of the filler, the map, the pool and the consumers keeps its
   types: no index leaves the source, no permit count its limit. *)
THEOREM TypeCorrect == Spec => []TypeOK
<1>1. IInv => TypeOK
  BY DEF IInv
<1> QED
  BY <1>1, Invariance, PTL

(* Index k yields the element that was k-th in the source, whatever order puts,
   waits, maps and takes finish in (ParallelIterantMapper.step). *)
THEOREM SourceOrder == Spec => []InSourceOrder
<1>1. IInv => InSourceOrder
  <2> SUFFICES ASSUME IInv, NEW i \in 1..Len(results), results[i].state = "taken"
               PROVE  results[i].elem = i - 1
    BY DEF InSourceOrder
  <2>1. /\ i - 1 \in Index /\ i - 1 < Len(results) /\ (i - 1) + 1 = i /\ nextIndex \in Nat
    BY BoundsAssumption DEF IInv, TypeOK, Entries, Index
  <2>2. Answered(i - 1) /\ EntryOf(i - 1)
    BY <2>1 DEF Answered, IInv, Entries
  <2>3. i - 1 < nextIndex \/ i - 1 >= nextIndex
    BY <2>1 DEF Index
  <2>4. CASE i - 1 < nextIndex
    BY <2>1, <2>2, <2>4 DEF EntryOf, PutEntry
  <2>5. CASE i - 1 >= nextIndex
    BY <2>1, <2>2, <2>5 DEF EntryOf, MissingEntry
  <2> QED
    BY <2>3, <2>4, <2>5
<1> QED
  BY <1>1, Invariance, PTL

(* A continuation that was released finds the waiter and the future it removes,
   however setMaxIndex and other takes come between (BlockingMap.get). *)
THEOREM EntriesAreFound == Spec => []TakesFindTheirEntries
<1>1. IInv => TakesFindTheirEntries
  <2> SUFFICES ASSUME IInv, NEW k \in Index, <<"take", k>> \in active, latch[k] = "released"
               PROVE  k \in waiting /\ futures[k] # Absent
    BY DEF TakesFindTheirEntries
  <2>1. k \in waiting /\ futures[k] = k
    BY AtTake DEF InFlight
  <2> QED
    BY <2>1, BoundsAssumption DEF Index
<1> QED
  BY <1>1, Invariance, PTL

(* The map holds at most `buffer` futures, and the semaphore stays below its
   limit though the end floods it (BlockingMap.put, setMaxIndex). *)
THEOREM BufferIsRespected == Spec => []CapacityRespected
<1>1. IInv => CapacityRespected
  BY DEF IInv, Ledger, Held, CapacityRespected
<1> QED
  BY <1>1, Invariance, PTL

(* The source is read at most one element beyond what was taken and what the
   buffer holds (ParallelIterantMapperTest.scala:51 counts 41 steps for 30
   elements taken and a buffer of 10). *)
THEOREM ReadAhead == Spec => []ReadAheadIsBounded
<1>1. IInv => ReadAheadIsBounded
  <2> SUFFICES ASSUME IInv PROVE stepped <= Cardinality(Taken) + Capacity + 1
    BY DEF ReadAheadIsBounded
  <2>1. /\ stepped \in Nat /\ nextIndex \in Nat /\ Capacity \in Nat
        /\ stepped <= nextIndex + 1
    BY BoundsAssumption DEF IInv, TypeOK, FillerInStep
  <2>2. nextIndex = Cardinality(Taken) + Cardinality(Held) /\ Cardinality(Held) <= Capacity
    BY DEF IInv, Ledger
  <2> QED
    BY <2>1, <2>2, Finite
<1> QED
  BY <1>1, Invariance, PTL

(* A consumer is told of the end only when the source is exhausted and it has
   been handed every element (Stepper.step). *)
THEOREM EndIsTheEnd == Spec => []EndMeansExhausted
<1>1. IInv => EndMeansExhausted
  BY DEF IInv, Positions, FillerInStep, EndMeansExhausted
<1> QED
  BY <1>1, Invariance, PTL
-----------------------------------------------------------------------------
(* Nobody is stranded: what is still owed to the consumers is on its way. *)

(* An index that was handed out and has no answer is the last one, and a wait
   or a take of it is in the pool; an element that was put and is not mapped is
   being mapped; a closed latch has a waiter for put or setMaxIndex to find. *)
Outstanding(k) ==
  /\ k + 1 < Len(results) => Answered(k)
  /\ k < Len(results) /\ ~Answered(k) =>
       <<"wait", k>> \in InFlight \/ <<"take", k>> \in InFlight
  /\ k < nextIndex /\ mapping[k] \notin {"ok", "failed"} => <<"map", k>> \in InFlight
  /\ latch[k] = "closed" => k \in waiting /\ filler # "finished"

(* A consumer goes on to the next index only with the answer of this one. *)
Passed == \A c \in Consumer, k \in Index : k < pos[c] => Answered(k)

(* Until the end or a failure no permit is lost: each is free, stands for an
   entry of the map, or is the one of the element being put. *)
Balance ==
  /\ filler \in {"stepping", "putting", "acquiring"} =>
       permits + Cardinality(Held) = Capacity
  /\ filler = "inserting" => permits + Cardinality(Held) + 1 = Capacity

Owed == (\A k \in Index : Outstanding(k)) /\ Passed /\ Balance

(* The sets of tasks, as an append or a started task changes them. *)
LEMMA Queued ==
  ASSUME NEW q \in Seq(Task), NEW t \in Task
  PROVE  Elements(Append(q, t)) = Elements(q) \cup {t}
<1> DEFINE r == Append(q, t)
<1>1. /\ Len(q) \in Nat /\ Len(r) = Len(q) + 1 /\ r[Len(q) + 1] = t
      /\ \A i \in 1..Len(q) : r[i] = q[i]
  OBVIOUS
<1>2. 1..Len(r) = 1..Len(q) \cup {Len(q) + 1}
  BY <1>1
<1> QED
  BY <1>1, <1>2 DEF Elements

(* A task leaves the pool only when it ends. *)
LEMMA TaskStays ==
  ASSUME IInv, [Next]_vars, NEW t \in InFlight
  PROVE  \/ t \in InFlight'
         \/ \E k \in Index : \/ t = <<"map", k>> /\ MapEnds(k)
                             \/ t = <<"wait", k>> /\ WaitEnds(k)
                             \/ t = <<"take", k>> /\ Take(k)
<1> USE DEF source, map, pool, consumers
<1>0. tasks \in Seq(Task) /\ Once(tasks, active)
  BY DEF IInv, TypeOK, Waits
<1>1. ASSUME UNCHANGED <<tasks, active>> PROVE t \in InFlight'
  BY <1>1 DEF InFlight, Elements
<1>2. ASSUME NEW u \in Task, tasks' = Append(tasks, u), active \ {t} \subseteq active',
             t \notin active \ active'
      PROVE  t \in InFlight'
  BY <1>0, <1>2, Queued DEF InFlight
<1>3. CASE Start
  <2>1. /\ tasks # <<>> /\ tasks' = Tail(tasks) /\ active' = active \cup {Head(tasks)}
    BY <1>3 DEF Start
  <2> QED
    BY <1>0, <2>1, Starting DEF InFlight
<1>4. CASE Filler
  <2>1. CASE PutInsert
    <3>1. nextIndex \in Index
      BY <2>1, AtPut DEF PutInsert
    <3> QED
      BY <1>2, <2>1, <3>1 DEF PutInsert, Task
  <2> QED
    BY <1>1, <1>4, <2>1 DEF Filler, SourceStep, SourceFails, SetMaxIndex, SetMaxIndexTo,
      PutCheck, PutAcquire, PutThrows
<1>5. ASSUME NEW c \in Consumer, Step(c) \/ Receive(c) PROVE t \in InFlight'
  BY <1>1, <1>5 DEF Step, Receive
<1>6. ASSUME NEW c \in Consumer, Fill(c) PROVE t \in InFlight'
  <2>1. pos[c] \in Index
    BY DEF IInv, TypeOK
  <2>2. \/ UNCHANGED <<tasks, active>>
        \/ tasks' = Append(tasks, <<"wait", pos[c]>>) /\ active' = active
    BY <1>6 DEF Fill
  <2> QED
    BY <1>1, <1>2, <2>1, <2>2 DEF Task
<1>7. ASSUME NEW k \in Index, MapEnds(k) PROVE t \in InFlight' \/ t = <<"map", k>>
  BY <1>7 DEF MapEnds, InFlight, Elements
<1>8. ASSUME NEW k \in Index, WaitEnds(k) PROVE t \in InFlight' \/ t = <<"wait", k>>
  <2>1. tasks' = Append(tasks, <<"take", k>>) /\ active' = active \ {<<"wait", k>>}
    BY <1>8 DEF WaitEnds
  <2>2. Elements(tasks') = Elements(tasks) \cup {<<"take", k>>}
    BY <1>0, <2>1, Queued DEF Task
  <2> QED
    BY <2>1, <2>2 DEF InFlight
<1>9. ASSUME NEW k \in Index, Take(k) PROVE t \in InFlight' \/ t = <<"take", k>>
  BY <1>9 DEF Take, InFlight, Elements
<1>10. CASE UNCHANGED vars
  BY <1>1, <1>10 DEF vars
<1> QED
  BY <1>3, <1>4, <1>5, <1>6, <1>7, <1>8, <1>9, <1>10 DEF Next, Pool

(* The Vector of answers only grows, by an open one for the next index, or has
   one of its answers completed. *)
LEMMA AnswersGrow ==
  ASSUME IInv, [Next]_vars
  PROVE  \/ results' = results
         \/ \E c \in Consumer :
              /\ Fill(c) /\ pos[c] = Len(results) /\ pos[c] \in Index
              /\ Len(results') = Len(results) + 1
              /\ \A i \in 1..Len(results) : results'[i] = results[i]
              /\ <<"wait", pos[c]>> \in InFlight'
         \/ \E k \in Index :
              /\ Take(k) /\ ~Answered(k) /\ Answered(k)' /\ Len(results') = Len(results)
              /\ \A i \in 1..Len(results) : i # k + 1 => results'[i] = results[i]
<1> USE DEF source, map, pool, consumers
<1>0. /\ Len(results) \in Nat /\ results \in Seq(Result) /\ tasks \in Seq(Task)
      /\ \A c \in Consumer : pos[c] \in Index /\ pos[c] \in Nat
  BY BoundsAssumption DEF IInv, TypeOK, Result, Index
<1>1. ASSUME NEW c \in Consumer, Fill(c), results' # results
      PROVE  /\ pos[c] = Len(results) /\ pos[c] \in Index
             /\ Len(results') = Len(results) + 1
             /\ \A i \in 1..Len(results) : results'[i] = results[i]
             /\ <<"wait", pos[c]>> \in InFlight'
  <2>1. /\ results' = Append(results, [state |-> "pending", elem |-> Absent])
        /\ ~(Len(results) > pos[c]) /\ tasks' = Append(tasks, <<"wait", pos[c]>>)
    BY <1>1 DEF Fill
  <2>2. Len(results) <= pos[c]
    BY <1>0, <2>1
  <2>3. pos[c] = Len(results) /\ pos[c] \in Index
    BY <2>2, AtFill
  <2>4. /\ Len(results') = Len(results) + 1
        /\ \A i \in 1..Len(results) : results'[i] = results[i]
    BY <1>0, <2>1, Appended
  <2>5. Elements(tasks') = Elements(tasks) \cup {<<"wait", pos[c]>>}
    BY <1>0, <2>1, <2>3, Queued DEF Task
  <2> QED
    BY <2>3, <2>4, <2>5 DEF InFlight
<1>2. ASSUME NEW k \in Index, Take(k)
      PROVE  /\ ~Answered(k) /\ Answered(k)' /\ Len(results') = Len(results)
             /\ \A i \in 1..Len(results) : i # k + 1 => results'[i] = results[i]
  <2>1. /\ k + 1 \in 1..Len(results) /\ ~Answered(k)
    BY <1>2, AtTake DEF Take, InFlight
  <2>2. /\ Len(results') = Len(results)
        /\ \A i \in 1..Len(results) : i # k + 1 => results'[i] = results[i]
    BY <1>0, <1>2, <2>1 DEF Take
  <2>3. results[k + 1] \in Result /\ k \in Nat
    BY <1>0, <2>1, IndexedElement, BoundsAssumption DEF Index
  <2>4. results'[k + 1].state \in {"taken", "none"}
    BY <1>0, <1>2, <2>1, <2>3 DEF Take, Result
  <2>5. Answered(k)'
    BY <1>0, <2>1, <2>2, <2>3, <2>4 DEF Answered
  <2> QED
    BY <2>1, <2>2, <2>5
<1>3. CASE UNCHANGED results
  BY <1>3
<1> QED
  BY <1>1, <1>2, <1>3 DEF Next, vars, Filler, Pool, SourceStep, SourceFails, SetMaxIndex,
    SetMaxIndexTo, PutCheck, PutAcquire, PutInsert, PutThrows, Step, Receive, Start, MapEnds,
    WaitEnds

(* An answer given stays. *)
LEMMA AnswerStays ==
  ASSUME IInv, [Next]_vars, NEW k \in Index, Answered(k)
  PROVE  Answered(k)' /\ results'[k + 1] = results[k + 1]
<1>1. k \in Nat /\ Len(results) \in Nat /\ k < Len(results) /\ k + 1 \in 1..Len(results)
  BY BoundsAssumption DEF IInv, TypeOK, Answered, Index
<1>2. CASE results' = results
  BY <1>2 DEF Answered
<1>3. ASSUME NEW c \in Consumer, Len(results') = Len(results) + 1,
             \A i \in 1..Len(results) : results'[i] = results[i]
      PROVE  Answered(k)' /\ results'[k + 1] = results[k + 1]
  BY <1>1, <1>3 DEF Answered
<1>4. ASSUME NEW j \in Index, ~Answered(j), Len(results') = Len(results),
             \A i \in 1..Len(results) : i # j + 1 => results'[i] = results[i]
      PROVE  Answered(k)' /\ results'[k + 1] = results[k + 1]
  <2>1. k + 1 # j + 1
    BY <1>1, <1>4, BoundsAssumption DEF Index
  <2> QED
    BY <1>1, <1>4, <2>1 DEF Answered
<1> QED
  BY AnswersGrow, <1>2, <1>3, <1>4

(* A consumer moves on only past an answer. *)
LEMMA PassedNext == IInv /\ Owed /\ [Next]_vars => Passed'
<1> SUFFICES ASSUME IInv, Owed, [Next]_vars, NEW c \in Consumer, NEW k \in Index, k < pos'[c]
             PROVE  Answered(k)'
  BY DEF Passed
<1>0. k \in Nat /\ pos \in [Consumer -> Index] /\ pos[c] \in Nat /\ pos[c] \in Index
  BY BoundsAssumption DEF IInv, TypeOK, Index
<1>1. CASE k < pos[c]
  BY <1>1, AnswerStays DEF Owed, Passed
<1>2. CASE ~(k < pos[c])
  <2>1. Receive(c) /\ pos' = [pos EXCEPT ![c] = @ + 1] /\ results' = results
    <3>1. ASSUME NEW d \in Consumer, Receive(d)
          PROVE  Receive(c) /\ pos' = [pos EXCEPT ![c] = @ + 1] /\ results' = results
      BY <1>0, <1>2, <3>1 DEF Receive
    <3>2. UNCHANGED pos => FALSE
      BY <1>2
    <3> QED
      BY <3>1, <3>2 DEF Next, vars, consumers, Filler, Pool, SourceStep, SourceFails,
        SetMaxIndex, SetMaxIndexTo, PutCheck, PutAcquire, PutInsert, PutThrows, Step, Fill,
        Start, MapEnds, WaitEnds, Take
  <2>2. k = pos[c] /\ pc[c] = "awaiting"
    BY <1>0, <1>2, <2>1 DEF Receive
  <2>3. results[k + 1].state = "taken"
    <3>1. pos'[c] # pos[c]
      BY <1>0, <1>2
    <3> QED
      BY <2>1, <2>2, <3>1 DEF Receive
  <2>4. k < Len(results)
    BY <2>2 DEF IInv, Positions
  <2> QED
    BY <2>1, <2>3, <2>4 DEF Answered
<1> QED
  BY <1>1, <1>2

(* Whatever is still owed at an index keeps its task until it is paid. *)
LEMMA OutstandingNext ==
  ASSUME IInv, Owed, [Next]_vars, NEW k \in Index
  PROVE  Outstanding(k)'
<1> USE DEF source, map, pool, consumers
<1>0. /\ k \in Nat /\ Len(results) \in Nat /\ nextIndex \in Nat /\ Outstanding(k)
      /\ latch \in [Index -> {Absent, "closed", "released", "interrupted"}]
      /\ mapping \in [Index -> {Absent, "pending", "ok", "failed"}]
  BY BoundsAssumption DEF IInv, TypeOK, Owed, Index
<1>1. k + 1 < Len(results') => Answered(k)'
  <2> SUFFICES ASSUME k + 1 < Len(results') PROVE Answered(k)
    BY AnswerStays
  <2>1. CASE k + 1 < Len(results)
    BY <1>0, <2>1 DEF Outstanding
  <2>2. CASE ~(k + 1 < Len(results))
    <3>1. PICK c \in Consumer : pos[c] = Len(results) /\ Len(results') = Len(results) + 1
      BY <2>2, AnswersGrow
    <3>2. k < pos[c]
      BY <1>0, <3>1
    <3> QED
      BY <3>2 DEF Owed, Passed
  <2> QED
    BY <2>1, <2>2
<1>2. k < Len(results') /\ ~Answered(k)' =>
        <<"wait", k>> \in InFlight' \/ <<"take", k>> \in InFlight'
  <2> SUFFICES ASSUME k < Len(results'), ~Answered(k)'
               PROVE  <<"wait", k>> \in InFlight' \/ <<"take", k>> \in InFlight'
    OBVIOUS
  <2>1. CASE k < Len(results)
    <3>1. ~Answered(k)
      BY AnswerStays
    <3>2. <<"wait", k>> \in InFlight \/ <<"take", k>> \in InFlight
      BY <1>0, <2>1, <3>1 DEF Outstanding
    <3>3. ASSUME Take(k) PROVE FALSE
      <4>1. k + 1 \in 1..Len(results)
        BY <3>3, AtTake DEF Take, InFlight
      <4>2. Len(results') = Len(results) /\ results'[k + 1].state \in {"taken", "none"}
        <5>1. results \in Seq(Result) /\ results[k + 1] \in Result
          BY <4>1, IndexedElement DEF IInv, TypeOK, Result
        <5> QED
          BY <3>3, <4>1, <5>1 DEF Take, Result
      <4> QED
        BY <2>1, <4>2 DEF Answered
    <3>4. ASSUME WaitEnds(k) PROVE <<"take", k>> \in InFlight'
      <4>1. Elements(tasks') = Elements(tasks) \cup {<<"take", k>>}
        BY <3>4, Queued DEF WaitEnds, IInv, TypeOK, Task
      <4> QED
        BY <4>1 DEF InFlight
    <3>5. ASSUME <<"wait", k>> \in InFlight, <<"wait", k>> \notin InFlight'
          PROVE  WaitEnds(k)
      BY <3>5, TaskStays
    <3>6. ASSUME <<"take", k>> \in InFlight, <<"take", k>> \notin InFlight'
          PROVE  Take(k)
      BY <3>6, TaskStays
    <3> QED
      BY <3>2, <3>3, <3>4, <3>5, <3>6
  <2>2. CASE ~(k < Len(results))
    <3>1. PICK c \in Consumer : /\ pos[c] = Len(results) /\ Len(results') = Len(results) + 1
                                /\ <<"wait", pos[c]>> \in InFlight'
      BY <2>2, AnswersGrow
    <3>2. k = pos[c]
      BY <1>0, <2>2, <3>1
    <3> QED
      BY <3>1, <3>2
  <2> QED
    BY <2>1, <2>2
<1>3. k < nextIndex' /\ mapping'[k] \notin {"ok", "failed"} => <<"map", k>> \in InFlight'
  <2> SUFFICES ASSUME k < nextIndex', mapping'[k] \notin {"ok", "failed"}
               PROVE  <<"map", k>> \in InFlight'
    OBVIOUS
  <2>1. CASE PutInsert
    <3>1. nextIndex \in Index /\ nextIndex' = nextIndex + 1
      BY <2>1, AtPut DEF PutInsert
    <3>2. Elements(tasks') = Elements(tasks) \cup {<<"map", nextIndex>>} /\ active' = active
      BY <2>1, <3>1, Queued DEF PutInsert, IInv, TypeOK, Task
    <3>3. CASE k = nextIndex
      BY <3>2, <3>3 DEF InFlight
    <3>4. CASE k # nextIndex
      <4>1. k < nextIndex /\ mapping'[k] = mapping[k]
        BY <1>0, <2>1, <3>1, <3>4 DEF PutInsert
      <4>2. <<"map", k>> \in InFlight
        BY <1>0, <4>1 DEF Outstanding
      <4> QED
        BY <3>2, <4>2 DEF InFlight
    <3> QED
      BY <3>3, <3>4
  <2>2. CASE ~PutInsert
    <3>1. /\ nextIndex' = nextIndex
          /\ mapping' = mapping \/ \E j \in Index, o \in {"ok", "failed"} :
               MapEnds(j) /\ mapping' = [mapping EXCEPT ![j] = o]
      BY <2>2 DEF Next, vars, Filler, Pool, SourceStep, SourceFails,
        SetMaxIndex, SetMaxIndexTo, PutCheck, PutAcquire, PutThrows, Step, Fill, Receive,
        Start, MapEnds, WaitEnds, Take
    <3>2. ~MapEnds(k)
      <4>1. ASSUME MapEnds(k) PROVE mapping'[k] \in {"ok", "failed"}
        BY <1>0, <4>1 DEF MapEnds
      <4> QED
        BY <4>1
    <3>3. mapping[k] \notin {"ok", "failed"}
      BY <1>0, <3>1, <3>2
    <3>4. <<"map", k>> \in InFlight
      BY <1>0, <3>1, <3>3 DEF Outstanding
    <3> QED
      BY <3>2, <3>4, TaskStays
  <2> QED
    BY <2>1, <2>2
<1>4. latch'[k] = "closed" => k \in waiting' /\ filler' # "finished"
  <2> SUFFICES ASSUME latch'[k] = "closed" PROVE k \in waiting' /\ filler' # "finished"
    OBVIOUS
  <2>1. CASE UNCHANGED <<latch, waiting>> /\ filler' # "finished"
    BY <1>0, <2>1 DEF Outstanding
  <2>2. CASE SetMaxIndex
    <3>1. /\ latch[k] = "closed" /\ ~(k \in waiting /\ k >= nextIndex)
      BY <1>0, <2>2 DEF SetMaxIndex, SetMaxIndexTo
    <3>2. k < nextIndex
      BY <1>0, <3>1 DEF Outstanding
    <3>3. latch[k] = "released"
      BY <3>2 DEF IInv, Entries, EntryOf, PutEntry
    <3> QED
      BY <3>1, <3>3
  <2>3. CASE PutInsert
    <3>1. latch[k] = "closed" /\ waiting \subseteq waiting' /\ filler' # "finished"
      BY <1>0, <2>3 DEF PutInsert
    <3> QED
      BY <1>0, <3>1 DEF Outstanding
  <2>4. ASSUME NEW c \in Consumer, Fill(c) PROVE k \in waiting' /\ filler' # "finished"
    <3>1. CASE UNCHANGED <<latch, waiting>>
      BY <1>0, <2>4, <3>1 DEF Fill, Outstanding
    <3>2. CASE ~UNCHANGED <<latch, waiting>>
      <4>1. /\ ~(Len(results) > pos[c]) /\ ~(pos[c] >= maxIndex) /\ filler' = filler
            /\ waiting' = waiting \cup {pos[c]}
            /\ latch' = [latch EXCEPT ![pos[c]] = IF pos[c] \in waiting THEN @ ELSE "closed"]
        BY <2>4, <3>2 DEF Fill
      <4>2. latch[k] = "closed" => k \in waiting' /\ filler' # "finished"
        BY <1>0, <4>1 DEF Outstanding
      <4>3. CASE latch[k] # "closed"
        <5>1. k = pos[c] /\ pos[c] \notin waiting
          BY <1>0, <4>1, <4>3
        <5>2. pos[c] \in Nat /\ pos[c] <= nextIndex /\ (pos[c] < nextIndex => pos[c] \in waiting)
          <6>1. pos[c] \in Nat /\ Len(results) <= pos[c]
            BY <1>0, <4>1, <5>1
          <6> QED
            BY <6>1, AtFill
        <5>3. filler = "finished" => maxIndex = nextIndex
          BY DEF IInv, FillerInStep
        <5>4. filler # "finished"
          BY <1>0, <4>1, <5>1, <5>2, <5>3
        <5> QED
          BY <4>1, <5>1, <5>4
      <4> QED
        BY <4>2, <4>3
    <3> QED
      BY <3>1, <3>2
  <2>5. ASSUME NEW j \in Index, Take(j) PROVE k \in waiting' /\ filler' # "finished"
    <3>1. /\ latch' = latch /\ filler' = filler
          /\ waiting' = waiting \/ (latch[j] = "released" /\ waiting' = waiting \ {j})
      BY <2>5 DEF Take
    <3>2. latch[k] = "closed" /\ k \in waiting /\ filler # "finished"
      BY <1>0, <3>1 DEF Outstanding
    <3> QED
      BY <3>1, <3>2
  <2>6. CASE SourceStep \/ SourceFails \/ PutCheck \/ PutAcquire \/ PutThrows
    BY <2>1, <2>6 DEF SourceStep, SourceFails, PutCheck, PutAcquire, PutThrows
  <2>7. CASE UNCHANGED <<latch, waiting, filler>>
    BY <1>0, <2>7 DEF Outstanding
  <2>8. ASSUME NEW c \in Consumer, Step(c) \/ Receive(c) PROVE UNCHANGED <<latch, waiting, filler>>
    BY <2>8 DEF Step, Receive
  <2>9. ASSUME NEW j \in Index, MapEnds(j) \/ WaitEnds(j)
        PROVE  UNCHANGED <<latch, waiting, filler>>
    BY <2>9 DEF MapEnds, WaitEnds
  <2>10. CASE Start \/ UNCHANGED vars
    BY <2>7, <2>10 DEF Start, vars
  <2> QED
    BY <2>2, <2>3, <2>4, <2>5, <2>6, <2>7, <2>8, <2>9, <2>10 DEF Next, Filler, Pool
<1> QED
  BY <1>1, <1>2, <1>3, <1>4 DEF Outstanding

(* A put turns its permit into an entry, a take an entry into a permit. *)
LEMMA BalanceNext == IInv /\ Owed /\ [Next]_vars => Balance'
<1> SUFFICES ASSUME IInv, Owed, [Next]_vars PROVE Balance'
  OBVIOUS
<1> USE DEF source, map, pool, consumers
<1>0. /\ Balance /\ permits \in Nat /\ Capacity \in Nat /\ Cardinality(Held) \in Nat
      /\ futures \in [Index -> Index \cup {Absent}]
  BY Finite, BoundsAssumption DEF IInv, TypeOK, Owed
<1>1. ASSUME UNCHANGED futures PROVE Held' = Held
  BY <1>1 DEF Held
<1>2. CASE UNCHANGED <<filler, permits, futures>>
  BY <1>1, <1>2, <1>0 DEF Balance
<1>3. CASE SourceStep \/ SourceFails \/ PutCheck \/ PutThrows \/ SetMaxIndex
  <2>1. /\ UNCHANGED futures
        /\ \/ UNCHANGED permits /\ filler \in {"stepping", "putting"}
           \/ filler' \in {"dead", "finished"}
        /\ filler' # "inserting"
    BY <1>3 DEF SourceStep, SourceFails, PutCheck, PutThrows, SetMaxIndex, SetMaxIndexTo
  <2> QED
    BY <1>0, <1>1, <2>1 DEF Balance
<1>4. CASE PutAcquire
  <2>1. /\ UNCHANGED futures /\ permits' = permits - 1
        /\ filler = "acquiring" /\ filler' = "inserting"
    BY <1>4 DEF PutAcquire
  <2> QED
    BY <1>0, <1>1, <2>1 DEF Balance
<1>5. CASE PutInsert
  <2>1. /\ nextIndex \in Index /\ stepped - 1 = nextIndex /\ futures[nextIndex] = Absent
        /\ filler = "inserting" /\ filler' = "stepping" /\ UNCHANGED permits
        /\ futures' = [futures EXCEPT ![nextIndex] = nextIndex]
    BY <1>5, AtPut DEF PutInsert, MissingEntry
  <2>2. Held' = Held \cup {nextIndex} /\ nextIndex \notin Held
    BY <1>0, <2>1, BoundsAssumption DEF Held, Index
  <2>3. Cardinality(Held') = Cardinality(Held) + 1
    BY <2>2, Finite, FS_AddElement
  <2> QED
    BY <1>0, <2>1, <2>3 DEF Balance
<1>6. ASSUME NEW k \in Index, Take(k) PROVE Balance'
  <2>1. /\ latch[k] \in {"released", "interrupted"} /\ filler' = filler
        /\ latch[k] = "released" => futures[k] = k
    BY <1>6, AtTake DEF Take, InFlight
  <2>2. CASE latch[k] = "released"
    <3>1. permits' = permits + 1 /\ futures' = [futures EXCEPT ![k] = Absent]
      BY <1>6, <2>2 DEF Take
    <3>2. k \in Held /\ Held' = Held \ {k}
      BY <1>0, <2>1, <2>2, <3>1, BoundsAssumption DEF Held, Index
    <3>3. Cardinality(Held') = Cardinality(Held) - 1
      BY <3>2, Finite, FS_RemoveElement
    <3> QED
      BY <1>0, <2>1, <3>1, <3>3 DEF Balance
  <2>3. CASE latch[k] = "interrupted"
    <3>1. UNCHANGED <<filler, permits, futures>>
      BY <1>6, <2>1, <2>3 DEF Take
    <3> QED
      BY <1>2, <3>1
  <2> QED
    BY <2>1, <2>2, <2>3
<1>7. ASSUME NEW c \in Consumer, Step(c) \/ Fill(c) \/ Receive(c)
      PROVE  UNCHANGED <<filler, permits, futures>>
  BY <1>7 DEF Step, Fill, Receive
<1>8. ASSUME NEW k \in Index, MapEnds(k) \/ WaitEnds(k)
      PROVE  UNCHANGED <<filler, permits, futures>>
  BY <1>8 DEF MapEnds, WaitEnds
<1>9. CASE Start \/ UNCHANGED vars
  BY <1>2, <1>9 DEF Start, vars
<1> QED
  BY <1>2, <1>3, <1>4, <1>5, <1>6, <1>7, <1>8, <1>9 DEF Next, Filler, Pool

LEMMA OwedInvariance == Spec => []Owed
<1>1. Init => Owed
  <2> SUFFICES ASSUME Init PROVE Owed
    OBVIOUS
  <2>1. Len(results) = 0 /\ Held = {} /\ permits = Capacity /\ Absent # "closed"
    BY BoundsAssumption DEF Init, Held
  <2>2. \A k \in Index : Outstanding(k)
    BY <2>1, BoundsAssumption DEF Init, Outstanding, Index
  <2>3. Passed
    BY BoundsAssumption DEF Init, Passed, Index
  <2>4. Balance
    BY <2>1, FS_EmptySet, BoundsAssumption DEF Init, Balance
  <2> QED
    BY <2>2, <2>3, <2>4 DEF Owed
<1>2. IInv /\ Owed /\ [Next]_vars => Owed'
  <2> SUFFICES ASSUME IInv, Owed, [Next]_vars PROVE Owed'
    OBVIOUS
  <2>1. \A k \in Index : Outstanding(k)'
    BY OutstandingNext
  <2>2. Passed' /\ Balance'
    BY PassedNext, BalanceNext
  <2> QED
    BY <2>1, <2>2 DEF Owed
<1> QED
  BY <1>1, <1>2, Invariance, PTL DEF Spec

(* A consumer that waits for a step's answer has it, or the filler or the pool
   can go on: they never wait for one another (BlockingMap.put's acquire against
   the latches of BlockingMap.get), whatever the buffer and the pool's size. *)
THEOREM NobodyIsStranded == Spec => []NoStepStranded
<1>1. IInv /\ Owed => NoStepStranded
  <2> SUFFICES ASSUME IInv, Owed, NEW c \in Consumer, pc[c] = "awaiting", filler # "dead",
                      ~CanGoOn
               PROVE  \/ results[pos[c] + 1].state = "none"
                      \/ /\ results[pos[c] + 1].state = "taken"
                         /\ mapping[pos[c]] \in {"ok", "failed"}
    BY DEF NoStepStranded
  <2>0. /\ permits \in Nat /\ Capacity \in Nat \ {0} /\ threads \in Nat \ {0}
        /\ nextIndex \in Nat /\ Len(results) \in Nat /\ tasks \in Seq(Task)
        /\ active \subseteq Task /\ \A k \in Index : k \in Nat /\ k <= MaxLen
    BY BoundsAssumption DEF IInv, TypeOK, Index
  <2>1. filler = "finished" \/ (filler = "acquiring" /\ permits = 0)
    <3>1. filler \in {"stepping", "putting", "acquiring", "inserting", "finished", "dead"}
      BY DEF IInv, TypeOK
    <3>2. /\ filler \notin {"stepping", "putting", "inserting"}
          /\ ~(filler = "acquiring" /\ permits > 0)
      BY DEF CanGoOn
    <3> QED
      BY <2>0, <3>1, <3>2
  <2>2. ASSUME NEW t \in active PROVE \E k \in Index : t = <<"wait", k>> /\ latch[k] = "closed"
    <3>1. PICK what \in {"map", "wait", "take"}, k \in Index : t = <<what, k>>
      BY <2>0 DEF Task
    <3> QED
      BY <2>2, <3>1 DEF CanGoOn
  <2>3. ASSUME NEW k \in Index, <<"wait", k>> \in active, latch[k] = "closed" PROVE FALSE
    <3>1. k \in waiting /\ filler = "acquiring" /\ permits = 0
      BY <2>1, <2>3 DEF Owed, Outstanding
    <3>2. k < Len(results) /\ k >= nextIndex
      <4>1. k < Len(results)
        BY <2>3 DEF IInv, Waits, TasksOf, InFlight
      <4>2. k < nextIndex => latch[k] = "released"
        BY DEF IInv, Entries, EntryOf, PutEntry
      <4> QED
        BY <2>0, <2>3, <4>1, <4>2
    <3>3. Cardinality(Held) = Capacity
      BY <2>0, <3>1, Finite DEF Owed, Balance
    <3>4. PICK j \in Index : futures[j] # Absent
      BY <2>0, <3>3, FS_EmptySet DEF Held
    <3>5. j < nextIndex /\ ~Answered(j)
      <4>1. EntryOf(j) /\ j \in Nat
        BY <2>0 DEF IInv, Entries
      <4> QED
        BY <2>0, <3>4, <4>1 DEF EntryOf, PutEntry, MissingEntry
    <3>6. j + 1 < Len(results)
      BY <2>0, <3>2, <3>5
    <3> QED
      BY <3>5, <3>6 DEF Owed, Outstanding
  <2>4. active = {}
    BY <2>2, <2>3
  <2>5. tasks = <<>>
    BY <2>0, <2>4, FS_EmptySet DEF CanGoOn
  <2>6. InFlight = {}
    <3>1. Elements(<<>>) = {}
      BY DEF Elements
    <3> QED
      BY <2>4, <2>5, <3>1 DEF InFlight
  <2>7. pos[c] \in Index /\ pos[c] < Len(results)
    BY DEF IInv, TypeOK, Positions
  <2>8. Outstanding(pos[c]) /\ EntryOf(pos[c])
    BY <2>7 DEF Owed, IInv, Entries
  <2>9. Answered(pos[c])
    BY <2>6, <2>7, <2>8 DEF Outstanding
  <2>10. CASE pos[c] < nextIndex
    <3>1. results[pos[c] + 1].state = "taken"
      BY <2>8, <2>9, <2>10 DEF EntryOf, PutEntry
    <3>2. mapping[pos[c]] \in {"ok", "failed"}
      BY <2>6, <2>8, <2>10 DEF Outstanding
    <3> QED
      BY <3>1, <3>2
  <2>11. CASE pos[c] >= nextIndex
    BY <2>8, <2>9, <2>11 DEF EntryOf, MissingEntry
  <2> QED
    BY <2>0, <2>7, <2>10, <2>11
<1> QED
  BY <1>1, Invariance, OwedInvariance, PTL
-----------------------------------------------------------------------------
(* The mapper implements the iterant its consumers were promised. *)

(* f's future is pending as long as f runs, and there is none before the put;
   the end is met only by a source that does not fail. *)
Mapped(k) ==
  /\ k >= nextIndex => mapping[k] = Absent
  /\ <<"map", k>> \in InFlight => mapping[k] = "pending"
Mappings == (\A k \in Index : Mapped(k)) /\ (filler = "finished" => ~sourceFails)

(* f runs at an index from its put to the end of its future. *)
LEMMA MapsInFlight ==
  ASSUME IInv, [Next]_vars, NEW k \in Index, <<"map", k>> \in InFlight'
  PROVE  \/ <<"map", k>> \in InFlight /\ ~MapEnds(k)
         \/ PutInsert /\ k = nextIndex
<1> USE DEF source, map, pool, consumers
<1> DEFINE t == <<"map", k>>
<1>0. tasks \in Seq(Task) /\ Once(tasks, active)
  BY DEF IInv, TypeOK, Waits
<1>1. ASSUME MapEnds(k) PROVE FALSE
  <2>1. t \in active /\ tasks' = tasks /\ active' = active \ {t}
    BY <1>1 DEF MapEnds
  <2>2. t \notin Elements(tasks)
    BY <1>0, <2>1 DEF Once, Elements
  <2> QED
    BY <2>1, <2>2 DEF InFlight
<1>2. CASE PutInsert
  <2>1. nextIndex \in Index
    BY <1>2, AtPut DEF PutInsert
  <2>2. Elements(tasks') = Elements(tasks) \cup {<<"map", nextIndex>>} /\ active' = active
    BY <1>0, <1>2, <2>1, Queued DEF PutInsert, Task
  <2> QED
    BY <1>1, <1>2, <2>2 DEF InFlight
<1>3. ASSUME tasks' = tasks, active' \subseteq active PROVE t \in InFlight
  BY <1>3 DEF InFlight
<1>4. ASSUME NEW u \in Task, u # t, tasks' = Append(tasks, u), active' \subseteq active
      PROVE  t \in InFlight
  BY <1>0, <1>4, Queued DEF InFlight
<1>5. ASSUME NEW c \in Consumer, Fill(c) PROVE t \in InFlight
  <2>1. pos[c] \in Index
    BY DEF IInv, TypeOK
  <2>2. active' = active /\ (tasks' = tasks \/ tasks' = Append(tasks, <<"wait", pos[c]>>))
    BY <1>5 DEF Fill
  <2> QED
    BY <1>3, <1>4, <2>1, <2>2 DEF Task
<1>6. ASSUME NEW j \in Index, WaitEnds(j) PROVE t \in InFlight
  BY <1>4, <1>6 DEF WaitEnds, Task
<1>7. CASE Start
  <2>1. tasks # <<>> /\ tasks' = Tail(tasks) /\ active' = active \cup {Head(tasks)}
    BY <1>7 DEF Start
  <2> QED
    BY <1>0, <1>1, <2>1, Starting DEF InFlight
<1>8. ASSUME NEW j \in Index, MapEnds(j) \/ Take(j) PROVE t \in InFlight
  BY <1>3, <1>8 DEF MapEnds, Take
<1>9. ASSUME NEW c \in Consumer, Step(c) \/ Receive(c) PROVE t \in InFlight
  BY <1>3, <1>9 DEF Step, Receive
<1>10. CASE SourceStep \/ SourceFails \/ SetMaxIndex \/ PutCheck \/ PutAcquire \/ PutThrows
  <2>1. UNCHANGED <<tasks, active>>
    BY <1>10 DEF SourceStep, SourceFails, SetMaxIndex, SetMaxIndexTo, PutCheck,
      PutAcquire, PutThrows
  <2> QED
    BY <1>1, <1>3, <2>1
<1>11. CASE UNCHANGED vars
  <2>1. UNCHANGED <<tasks, active>>
    BY <1>11 DEF vars
  <2> QED
    BY <1>1, <1>3, <2>1
<1> QED
  BY <1>1, <1>2, <1>5, <1>6, <1>7, <1>8, <1>9, <1>10, <1>11 DEF Next, Filler, Pool

LEMMA MappingsInvariance == Spec => []Mappings
<1>1. Init => Mappings
  BY BoundsAssumption DEF Init, Mappings, Mapped, InFlight, Elements
<1>2. IInv /\ Mappings /\ [Next]_vars => Mappings'
  <2> SUFFICES ASSUME IInv, Mappings, [Next]_vars PROVE Mappings'
    OBVIOUS
  <2> USE DEF source, map, pool, consumers
  <2>0. /\ nextIndex \in Nat /\ mapping \in [Index -> {Absent, "pending", "ok", "failed"}]
        /\ \A k \in Index : k \in Nat
    BY BoundsAssumption DEF IInv, TypeOK, Index
  <2>1. filler' = "finished" => ~sourceFails'
    <3>1. \/ UNCHANGED <<filler, sourceFails>>
          \/ filler' # "finished"
          \/ ~sourceFails /\ UNCHANGED sourceFails
      BY DEF Next, vars, Filler, Pool, SourceStep, SourceFails,
        SetMaxIndex, SetMaxIndexTo, PutCheck, PutAcquire, PutInsert, PutThrows, Step, Fill,
        Receive, Start, MapEnds, WaitEnds, Take
    <3> QED
      BY <3>1 DEF Mappings
  <2>2. ASSUME NEW k \in Index PROVE Mapped(k)'
    <3>0. Mapped(k)
      BY DEF Mappings
    <3>1. CASE PutInsert
      <4>1. /\ nextIndex' = nextIndex + 1 /\ mapping' = [mapping EXCEPT ![nextIndex] = "pending"]
        BY <3>1 DEF PutInsert
      <4>2. k = nextIndex => mapping'[k] = "pending"
        BY <2>0, <4>1
      <4>3. k # nextIndex => mapping'[k] = mapping[k]
        BY <2>0, <4>1
      <4>4. k >= nextIndex' => k >= nextIndex /\ k # nextIndex
        BY <2>0, <4>1
      <4>5. <<"map", k>> \in InFlight' => (<<"map", k>> \in InFlight \/ k = nextIndex)
        BY MapsInFlight
      <4> QED
        BY <3>0, <4>2, <4>3, <4>4, <4>5 DEF Mapped
    <3>2. ASSUME NEW j \in Index, MapEnds(j) PROVE Mapped(k)'
      <4>1. /\ nextIndex' = nextIndex /\ <<"map", j>> \in InFlight
            /\ k # j => mapping'[k] = mapping[k]
        BY <2>0, <3>2 DEF MapEnds, InFlight
      <4>2. j < nextIndex
        BY <4>1 DEF IInv, Waits, TasksOf
      <4>3. <<"map", k>> \in InFlight' => <<"map", k>> \in InFlight /\ k # j
        <5>1. ~PutInsert
          BY <2>0, <4>1 DEF PutInsert
        <5> QED
          BY <3>2, <5>1, MapsInFlight
      <4> QED
        BY <2>0, <3>0, <4>1, <4>2, <4>3 DEF Mapped
    <3>3. CASE UNCHANGED <<nextIndex, mapping>>
      <4>1. ~PutInsert
        BY <2>0, <3>3 DEF PutInsert
      <4> QED
        BY <3>0, <3>3, <4>1, MapsInFlight DEF Mapped
    <3>4. \/ PutInsert \/ (\E j \in Index : MapEnds(j)) \/ UNCHANGED <<nextIndex, mapping>>
      BY DEF Next, vars, Filler, Pool, SourceStep, SourceFails,
        SetMaxIndex, SetMaxIndexTo, PutCheck, PutAcquire, PutThrows, Step, Fill,
        Receive, Start, WaitEnds, Take
    <3> QED
      BY <3>1, <3>2, <3>3, <3>4
  <2> QED
    BY <2>1, <2>2 DEF Mappings
<1> QED
  BY <1>1, <1>2, Invariance, PTL DEF Spec

(* What the consumers see of the FutureOptions and of f's futures. *)
LEMMA ViewOfIndex ==
  ASSUME IInv, NEW k \in Index
  PROVE  /\ AnswerAt(k) # Absent => k < nextIndex /\ Answered(k) /\ AnswerAt(k) = k
         /\ k < nextIndex /\ Answered(k) => AnswerAt(k) = k
         /\ k < nextIndex /\ ~Answered(k) => k \in Held
         /\ k \in Held => k < nextIndex /\ ~Answered(k)
         /\ k # Absent
<1>1. /\ k \in Nat /\ Len(results) \in Nat /\ nextIndex \in Nat /\ EntryOf(k)
      /\ k # Absent
  BY BoundsAssumption DEF IInv, TypeOK, Index, Entries
<1>2. CASE k < nextIndex
  BY <1>1, <1>2 DEF EntryOf, PutEntry, AnswerAt, Answered, Held
<1>3. CASE k >= nextIndex
  BY <1>1, <1>3 DEF EntryOf, MissingEntry, AnswerAt, Answered, Held
<1> QED
  BY <1>1, <1>2, <1>3

(* The instance counts with the same Cardinality. *)
LEMMA SameCount == ASSUME NEW S PROVE Shared!Cardinality(S) = Cardinality(S)
BY DEF Cardinality, Shared!Cardinality

(* Each element that was put is in the map or was handed out. *)
LEMMA HandedOutCount ==
  ASSUME IInv
  PROVE  /\ Cardinality(Shared!HandedOut) \in Nat
         /\ nextIndex = Cardinality(Shared!HandedOut) + Cardinality(Held)
<1> DEFINE S == 0..nextIndex - 1
<1>1. nextIndex \in 0..MaxLen /\ nextIndex \in Nat /\ MaxLen \in Nat
  BY BoundsAssumption DEF IInv, TypeOK
<1>2. IsFiniteSet(S) /\ Cardinality(S) = nextIndex
  BY <1>1, FS_Interval
<1>3. S = {k \in Index : k < nextIndex}
  BY <1>1 DEF Index
<1>4. Shared!HandedOut = S \ Held
  BY <1>3, ViewOfIndex DEF Shared!HandedOut, Shared!Index, Index, Held
<1>5. S \cap Held = Held
  BY <1>3, ViewOfIndex DEF Held
<1>6. IsFiniteSet(S \ Held) /\ Cardinality(S \ Held) = Cardinality(S) - Cardinality(Held)
  <2>1. IsFiniteSet(S \ Held) /\ Cardinality(S \ Held) = Cardinality(S) - Cardinality(S \cap Held)
    BY <1>2, FS_Difference
  <2> QED
    BY <1>5, <2>1
<1>7. Cardinality(Shared!HandedOut) \in Nat
  BY <1>4, <1>6, FS_CardinalityType
<1> HIDE DEF S
<1> QED
  BY <1>1, <1>2, <1>4, <1>6, <1>7, Finite

LEMMA InitShared == Init => Shared!Init
<1> SUFFICES ASSUME Init PROVE Shared!Init
  OBVIOUS
<1>1. Len(results) = 0
  BY DEF Init
<1>2. \A k \in Index : ~(k < Len(results)) /\ mapping[k] \notin {"ok", "failed"}
  BY <1>1, BoundsAssumption DEF Init, Index
<1> QED
  BY <1>1, <1>2 DEF Init, Shared!Init, Shared!Index, Index, AnswerAt, OutcomeAt, StateOf

(* A step the consumers do not see. *)
LEMMA Unseen ==
  ASSUME UNCHANGED <<len, sourceFails, nextIndex, mapping, pos>>, Len(results') = Len(results),
         \A k \in Index : AnswerAt(k)' = AnswerAt(k),
         \A c \in Consumer : StateOf(c)' = StateOf(c)
  PROVE  UNCHANGED Shared!vars
BY DEF Shared!vars, OutcomeAt

(* A consumer's move, as the others see it. *)
LEMMA StateMoves ==
  ASSUME NEW c \in Consumer, NEW s, StateOf(c)' = s,
         \A d \in Consumer : d # c => pc'[d] = pc[d]
  PROVE  [d \in Consumer |-> StateOf(d)]' = [[d \in Consumer |-> StateOf(d)] EXCEPT ![c] = s]
<1>1. ASSUME NEW d \in Consumer, d # c PROVE StateOf(d)' = StateOf(d)
  BY <1>1 DEF StateOf
<1> QED
  BY <1>1

(* Every step is a step of the promised iterant, or is not seen at all. *)
LEMMA NextShared == IInv /\ Mappings /\ [Next]_vars => [Shared!Next]_(Shared!vars)
<1> SUFFICES ASSUME IInv, Mappings, [Next]_vars
             PROVE  Shared!Next \/ UNCHANGED Shared!vars
  OBVIOUS
<1> USE DEF source, map, pool, consumers
<1>0. /\ nextIndex \in Nat /\ len \in Nat /\ len <= MaxLen /\ Len(results) \in Nat
      /\ results \in Seq(Result) /\ Index = Shared!Index
      /\ mapping \in [Index -> {Absent, "pending", "ok", "failed"}]
      /\ futures \in [Index -> Index \cup {Absent}]
      /\ pos \in [Consumer -> Index]
      /\ pc \in [Consumer -> {"idle", "filling", "awaiting", "ended", "failed", "thrown"}]
      /\ \A k \in Index : k \in Nat /\ k <= MaxLen
  BY BoundsAssumption DEF IInv, TypeOK, Result, Index, Shared!Index
<1>1. ASSUME UNCHANGED results, NEW k \in Index PROVE AnswerAt(k)' = AnswerAt(k)
  BY <1>1 DEF AnswerAt
<1>2. ASSUME UNCHANGED pc, NEW c \in Consumer PROVE StateOf(c)' = StateOf(c)
  BY <1>2 DEF StateOf
<1>3. ASSUME UNCHANGED <<len, sourceFails, nextIndex, mapping, results, pos, pc>>
      PROVE  UNCHANGED Shared!vars
  BY <1>1, <1>2, <1>3, Unseen
<1>4. CASE \/ SourceStep \/ SourceFails \/ SetMaxIndex \/ PutCheck \/ PutAcquire \/ PutThrows
           \/ Start \/ UNCHANGED vars
  <2>1. UNCHANGED <<len, sourceFails, nextIndex, mapping, results, pos, pc>>
    BY <1>4 DEF SourceStep, SourceFails, SetMaxIndex, SetMaxIndexTo, PutCheck, PutAcquire,
      PutThrows, Start, vars
  <2> QED
    BY <1>3, <2>1
<1>5. ASSUME NEW k \in Index, WaitEnds(k) PROVE UNCHANGED Shared!vars
  <2>1. UNCHANGED <<len, sourceFails, nextIndex, mapping, results, pos, pc>>
    BY <1>5 DEF WaitEnds
  <2> QED
    BY <1>3, <2>1
<1>6. CASE PutInsert
  <2>1. /\ nextIndex \in Index /\ filler = "inserting"
        /\ nextIndex' = nextIndex + 1 /\ mapping' = [mapping EXCEPT ![nextIndex] = "pending"]
        /\ UNCHANGED <<len, sourceFails, results, pos, pc>>
    BY <1>6, AtPut DEF PutInsert
  <2>2. nextIndex < len
    BY <1>0, <2>1 DEF IInv, FillerInStep, TypeOK
  <2>3. nextIndex < Cardinality(Shared!HandedOut) + Capacity
    <3>1. Cardinality(Held) < Capacity /\ Capacity \in Nat
      <4>1. permits \in Nat /\ permits + Cardinality(Held) < Capacity
        BY <2>1, BoundsAssumption DEF IInv, Ledger, TypeOK
      <4> QED
        BY <4>1, Finite, BoundsAssumption
    <3> QED
      BY <3>1, HandedOutCount, Finite
  <2>4. ASSUME NEW k \in Index PROVE OutcomeAt(k)' = OutcomeAt(k)
    <3>1. CASE k = nextIndex
      <4>1. mapping[k] = Absent /\ mapping'[k] = "pending"
        <5>1. Mapped(k) /\ k >= nextIndex
          BY <1>0, <3>1 DEF Mappings
        <5>2. mapping[k] = Absent
          BY <5>1 DEF Mapped
        <5> QED
          BY <1>0, <2>1, <3>1, <5>2
      <4> QED
        BY <4>1, BoundsAssumption DEF OutcomeAt
    <3>2. CASE k # nextIndex
      BY <1>0, <2>1, <3>2 DEF OutcomeAt
    <3> QED
      BY <3>1, <3>2
  <2>5. /\ UNCHANGED [k \in Index |-> OutcomeAt(k)] /\ UNCHANGED [k \in Index |-> AnswerAt(k)]
        /\ UNCHANGED [c \in Consumer |-> StateOf(c)] /\ UNCHANGED Len(results)
    BY <1>1, <1>2, <2>1, <2>4
  <2>6. Shared!Apply
    BY <2>1, <2>2, <2>3, <2>5, SameCount DEF Shared!Apply
  <2> QED
    BY <2>6 DEF Shared!Next
<1>7. ASSUME NEW k \in Index, MapEnds(k) PROVE Shared!Next
  <2>1. /\ <<"map", k>> \in InFlight
        /\ UNCHANGED <<len, sourceFails, nextIndex, results, pos, pc>>
    BY <1>7 DEF MapEnds, InFlight
  <2>2. PICK o \in {"ok", "failed"} : mapping' = [mapping EXCEPT ![k] = o]
    BY <1>7 DEF MapEnds
  <2>3. k < nextIndex /\ OutcomeAt(k) = "unknown"
    <3>1. k < nextIndex
      BY <2>1 DEF IInv, Waits, TasksOf
    <3>2. mapping[k] = "pending"
      BY <2>1 DEF Mappings, Mapped
    <3> QED
      BY <3>1, <3>2 DEF OutcomeAt
  <2>4. [j \in Index |-> OutcomeAt(j)]' = [[j \in Index |-> OutcomeAt(j)] EXCEPT ![k] = o]
    BY <1>0, <2>2 DEF OutcomeAt
  <2>5. Shared!Complete(k)
    BY <1>1, <1>2, <2>1, <2>3, <2>4 DEF Shared!Complete
  <2> QED
    BY <1>0, <2>5 DEF Shared!Next
<1>8. ASSUME NEW k \in Index, Take(k) PROVE Shared!Next \/ UNCHANGED Shared!vars
  <2>1. /\ k + 1 \in 1..Len(results) /\ ~Answered(k)
        /\ latch[k] \in {"released", "interrupted"}
        /\ latch[k] = "released" => k < nextIndex /\ futures[k] = k
        /\ latch[k] = "interrupted" => k >= nextIndex
    BY <1>8, AtTake DEF Take, InFlight
  <2>2. /\ UNCHANGED <<len, sourceFails, nextIndex, mapping, pos, pc>>
        /\ Len(results') = Len(results)
        /\ \A i \in 1..Len(results) : i # k + 1 => results'[i] = results[i]
    BY <1>0, <1>8, <2>1 DEF Take
  <2>3. k < Len(results) /\ AnswerAt(k) = Absent
    BY <1>0, <2>1, ViewOfIndex
  <2>4. ASSUME NEW j \in Index, j # k PROVE AnswerAt(j)' = AnswerAt(j)
    <3>1. j < Len(results) => results'[j + 1] = results[j + 1]
      BY <1>0, <2>2, <2>4
    <3> QED
      BY <2>2, <3>1 DEF AnswerAt
  <2>5. CASE latch[k] = "released"
    <3>1. results'[k + 1] = [state |-> "taken", elem |-> k]
      BY <1>0, <1>8, <2>1, <2>5 DEF Take
    <3>2. AnswerAt(k)' = k
      BY <2>2, <2>3, <3>1 DEF AnswerAt
    <3>3. [j \in Index |-> AnswerAt(j)]' = [[j \in Index |-> AnswerAt(j)] EXCEPT ![k] = k]
      BY <2>4, <3>2
    <3>4. Shared!Answer(k)
      BY <1>2, <2>1, <2>2, <2>3, <2>5, <3>3 DEF Shared!Answer, OutcomeAt
    <3> QED
      BY <1>0, <3>4 DEF Shared!Next
  <2>6. CASE latch[k] = "interrupted"
    <3>1. results[k + 1] \in Result
      BY <1>0, <2>1, IndexedElement
    <3>2. results'[k + 1].state = "none"
      BY <1>0, <1>8, <2>1, <2>6, <3>1 DEF Take, Result
    <3>3. AnswerAt(k)' = AnswerAt(k)
      BY <2>3, <3>2 DEF AnswerAt
    <3> QED
      BY <1>2, <2>2, <2>4, <3>3, Unseen
  <2> QED
    BY <2>1, <2>5, <2>6
<1>9. ASSUME NEW c \in Consumer, Step(c) PROVE UNCHANGED Shared!vars
  <2>1. ~(pos[c] > maxIndex)
    <3>1. pos[c] \in Nat /\ pos[c] <= nextIndex /\ maxIndex \in {nextIndex, NoMax}
      BY <1>0 DEF IInv, Positions, FillerInStep
    <3>2. nextIndex <= MaxLen /\ MaxLen \in Nat
      BY BoundsAssumption DEF IInv, TypeOK
    <3> QED
      BY <1>0, <3>1, <3>2 DEF NoMax
  <2>2. /\ pc[c] = "idle" /\ pc' = [pc EXCEPT ![c] = "filling"]
        /\ UNCHANGED <<len, sourceFails, nextIndex, mapping, results, pos>>
    BY <1>9, <2>1 DEF Step
  <2>3. ASSUME NEW d \in Consumer PROVE StateOf(d)' = StateOf(d)
    <3>1. pc'[d] = IF d = c THEN "filling" ELSE pc[d]
      BY <1>0, <2>2
    <3>2. CASE d = c
      BY <2>2, <3>1, <3>2 DEF StateOf
    <3>3. CASE d # c
      BY <3>1, <3>3 DEF StateOf
    <3> QED
      BY <3>2, <3>3
  <2> QED
    BY <1>1, <2>2, <2>3, Unseen
<1>10. ASSUME NEW c \in Consumer, Fill(c) PROVE Shared!Next
  <2>1. /\ pc[c] = "filling" /\ StateOf(c) = "idle" /\ pos[c] \in Index /\ pos[c] \in Nat
        /\ UNCHANGED <<len, sourceFails, nextIndex, mapping, pos>>
    BY <1>0, <1>10 DEF Fill, StateOf
  <2>2. ASSUME NEW p, pc' = [pc EXCEPT ![c] = p]
        PROVE  pc'[c] = p /\ \A d \in Consumer : d # c => pc'[d] = pc[d]
    BY <1>0, <2>2
  <2>3. CASE pc' = [pc EXCEPT ![c] = "awaiting"]
    <3>1. StateOf(c)' = "asked"
      BY <2>2, <2>3 DEF StateOf
    <3>2. [d \in Consumer |-> StateOf(d)]' =
            [[d \in Consumer |-> StateOf(d)] EXCEPT ![c] = "asked"]
      BY <2>2, <2>3, <3>1, StateMoves
    <3>3. Len(results') = IF pos[c] = Len(results) THEN Len(results) + 1 ELSE Len(results)
      <4>1. CASE Len(results) > pos[c]
        BY <1>0, <1>10, <2>1, <4>1 DEF Fill
      <4>2. CASE ~(Len(results) > pos[c])
        <5>1. pos[c] = Len(results)
          <6>1. Len(results) <= pos[c]
            BY <1>0, <2>1, <4>2
          <6> QED
            BY <6>1, AtFill
        <5>2. results' = Append(results, [state |-> "pending", elem |-> Absent])
          BY <1>0, <1>10, <2>2, <2>3, <4>2 DEF Fill
        <5> QED
          BY <1>0, <5>1, <5>2, Appended DEF Result
      <4> QED
        BY <4>1, <4>2
    <3>4. ASSUME NEW k \in Index PROVE AnswerAt(k)' = AnswerAt(k)
      <4>1. CASE results' = results
        BY <1>1, <4>1
      <4>2. CASE results' = Append(results, [state |-> "pending", elem |-> Absent])
        <5>1. /\ Len(results') = Len(results) + 1
              /\ results'[Len(results) + 1] = [state |-> "pending", elem |-> Absent]
              /\ \A i \in 1..Len(results) : results'[i] = results[i]
          BY <1>0, <4>2, Appended DEF Result
        <5>2. CASE k < Len(results)
          <6>1. results'[k + 1] = results[k + 1] /\ k < Len(results')
            BY <1>0, <5>1, <5>2
          <6> QED
            BY <5>2, <6>1 DEF AnswerAt
        <5>3. CASE k = Len(results)
          BY <1>0, <5>1, <5>3 DEF AnswerAt
        <5>4. CASE k > Len(results)
          BY <1>0, <5>1, <5>4 DEF AnswerAt
        <5> QED
          BY <1>0, <5>2, <5>3, <5>4
      <4> QED
        BY <1>10, <4>1, <4>2 DEF Fill
    <3>5. Shared!Ask(c)
      BY <2>1, <3>2, <3>3, <3>4 DEF Shared!Ask, OutcomeAt
    <3> QED
      BY <3>5 DEF Shared!Next
  <2>4. CASE pc' = [pc EXCEPT ![c] = "thrown"]
    <3>1. /\ StateOf(c)' = "over" /\ pc'[c] = "thrown"
      BY <2>2, <2>4 DEF StateOf
    <3>2. [d \in Consumer |-> StateOf(d)]' =
            [[d \in Consumer |-> StateOf(d)] EXCEPT ![c] = "over"]
      BY <2>2, <2>4, <3>1, StateMoves
    <3>3. results' = results /\ pos[c] >= maxIndex
      BY <1>0, <1>10, <2>4, <3>1 DEF Fill
    <3>4. pos[c] <= nextIndex /\ (maxIndex = IF filler = "finished" THEN nextIndex ELSE NoMax)
          /\ (filler = "finished" => nextIndex = len)
      BY DEF IInv, Positions, FillerInStep
    <3>5. filler = "finished" /\ pos[c] = nextIndex /\ nextIndex = len
      <4>1. NoMax > nextIndex
        BY BoundsAssumption DEF IInv, TypeOK, NoMax
      <4>2. NoMax \in Nat
        BY BoundsAssumption DEF NoMax
      <4> QED
        BY <1>0, <2>1, <3>3, <3>4, <4>1, <4>2
    <3>6. ~sourceFails
      BY <3>5 DEF Mappings
    <3>7. Shared!End(c)
      BY <1>1, <2>1, <3>2, <3>3, <3>5, <3>6 DEF Shared!End, OutcomeAt
    <3> QED
      BY <3>7 DEF Shared!Next
  <2> QED
    BY <1>10, <2>3, <2>4 DEF Fill
<1>11. ASSUME NEW c \in Consumer, Receive(c) PROVE Shared!Next
  <2>1. /\ pc[c] = "awaiting" /\ StateOf(c) = "asked" /\ pos[c] \in Index /\ pos[c] \in Nat
        /\ UNCHANGED <<len, sourceFails, nextIndex, mapping, results>>
    BY <1>0, <1>11 DEF Receive, StateOf
  <2>2. /\ results[pos[c] + 1].state = "taken" => pos[c] < nextIndex
        /\ results[pos[c] + 1].state = "none" => filler = "finished" /\ pos[c] = nextIndex
        /\ pos[c] < Len(results)
    BY <2>1, AtReceive DEF IInv, Positions
  <2>3. ASSUME NEW p, pc' = [pc EXCEPT ![c] = p]
        PROVE  pc'[c] = p /\ \A d \in Consumer : d # c => pc'[d] = pc[d]
    BY <1>0, <2>3
  <2>4. ASSUME results[pos[c] + 1].state = "taken"
        PROVE  AnswerAt(pos[c]) = pos[c] /\ pos[c] # Absent
    <3>1. Answered(pos[c]) /\ pos[c] < nextIndex
      BY <2>2, <2>4 DEF Answered
    <3> QED
      BY <2>1, <3>1, ViewOfIndex
  <2>5. CASE /\ results[pos[c] + 1].state = "taken" /\ mapping[pos[c]] = "ok"
             /\ pc' = [pc EXCEPT ![c] = "idle"] /\ pos' = [pos EXCEPT ![c] = @ + 1]
    <3>1. StateOf(c)' = "idle" /\ OutcomeAt(pos[c]) = "ok"
      BY <2>3, <2>5 DEF StateOf, OutcomeAt
    <3>2. [d \in Consumer |-> StateOf(d)]' =
            [[d \in Consumer |-> StateOf(d)] EXCEPT ![c] = "idle"]
      BY <2>3, <2>5, <3>1, StateMoves
    <3>3. Shared!Receive(c)
      BY <1>1, <2>1, <2>4, <2>5, <3>1, <3>2 DEF Shared!Receive, OutcomeAt
    <3> QED
      BY <3>3 DEF Shared!Next
  <2>6. CASE /\ results[pos[c] + 1].state = "taken" /\ mapping[pos[c]] = "failed"
             /\ pc' = [pc EXCEPT ![c] = "failed"] /\ UNCHANGED pos
    <3>1. StateOf(c)' = "failed" /\ OutcomeAt(pos[c]) = "failed"
      BY <2>3, <2>6 DEF StateOf, OutcomeAt
    <3>2. [d \in Consumer |-> StateOf(d)]' =
            [[d \in Consumer |-> StateOf(d)] EXCEPT ![c] = "failed"]
      BY <2>3, <2>6, <3>1, StateMoves
    <3>3. Shared!Receive(c)
      BY <1>1, <2>1, <2>4, <2>6, <3>1, <3>2 DEF Shared!Receive, OutcomeAt
    <3> QED
      BY <3>3 DEF Shared!Next
  <2>7. CASE /\ results[pos[c] + 1].state = "none"
             /\ pc' = [pc EXCEPT ![c] = "ended"] /\ UNCHANGED pos
    <3>1. StateOf(c)' = "over"
      BY <2>3, <2>7 DEF StateOf
    <3>2. [d \in Consumer |-> StateOf(d)]' =
            [[d \in Consumer |-> StateOf(d)] EXCEPT ![c] = "over"]
      BY <2>3, <2>7, <3>1, StateMoves
    <3>3. pos[c] = nextIndex /\ nextIndex = len /\ ~sourceFails
      BY <2>2, <2>7 DEF Mappings, IInv, FillerInStep
    <3>4. Shared!End(c)
      BY <1>1, <2>1, <2>7, <3>2, <3>3 DEF Shared!End, OutcomeAt
    <3> QED
      BY <3>4 DEF Shared!Next
  <2> QED
    BY <1>11, <2>5, <2>6, <2>7 DEF Receive
<1> QED
  BY <1>4, <1>5, <1>6, <1>7, <1>8, <1>9, <1>10, <1>11 DEF Next, Filler, Pool

(* ParallelIterantMapper implements the promised iterant, whatever the source,
   the buffer and the pool, and however many consumers share it. *)
THEOREM Refinement == Spec => ImplementsSharedIterant
<1>1. Init => Shared!Init
  BY InitShared
<1>2. IInv /\ Mappings /\ [Next]_vars => [Shared!Next]_(Shared!vars)
  BY NextShared
<1> QED
  BY <1>1, <1>2, Invariance, MappingsInvariance, PTL
  DEF Spec, ImplementsSharedIterant, Shared!Spec

(* What SharedIterant says of its variables is so of those of the mapper. *)
COROLLARY SharedTyped == Spec => []Shared!TypeOK
<1>1. IInv => Shared!TypeOK
  <2> SUFFICES ASSUME IInv PROVE Shared!TypeOK
    OBVIOUS
  <2>1. TypeOK /\ Shared!Index = Index /\ Index = 0..MaxLen /\ MaxLen \in Nat
    BY BoundsAssumption DEF IInv, Shared!Index, Index
  <2>2. Len(results) \in 0..MaxLen + 1
    BY <2>1 DEF IInv, TypeOK, Entries
  <2>3. ASSUME NEW k \in Index
        PROVE  AnswerAt(k) \in Index \cup {Absent} /\ OutcomeAt(k) \in {"unknown", "ok", "failed"}
    <3>1. ASSUME k < Len(results) PROVE results[k + 1].elem \in Index \cup {Absent}
      <4>1. results \in Seq(Result) /\ k + 1 \in 1..Len(results)
        BY <2>1, <2>2, <3>1 DEF TypeOK, Result
      <4>2. results[k + 1] \in Result
        BY <4>1
      <4> QED BY <4>2 DEF Result
    <3> QED BY <3>1 DEF AnswerAt, OutcomeAt
  <2>4. ASSUME NEW c \in Consumer PROVE StateOf(c) \in {"idle", "asked", "over", "failed"}
    <3>1. pc[c] \in {"idle", "filling", "awaiting", "ended", "failed", "thrown"}
      BY <2>1 DEF TypeOK
    <3> QED BY <3>1 DEF StateOf
  <2> QED BY <2>1, <2>2, <2>3, <2>4 DEF TypeOK, Shared!TypeOK
<1> QED
  BY <1>1, Invariance, PTL
=============================================================================
