----------------------- MODULE ParallelIterantMapper ------------------------
(***************************************************************************)
(* common/concurrency/iterant/ParallelIterantMapper.scala: consumers step  *)
(* through an iterant whose elements are being fetched and mapped ahead of *)
(* them. Three kinds of threads share the state: the filler (an actor that *)
(* steps the source and puts f(element) into the blocking map), the        *)
(* consumers (they call Stepper.step, hence get(index)), and the pool, on  *)
(* which f, the waits of BlockingMap.get and their continuations run.      *)
(*                                                                         *)
(* Elements are the source positions 0 .. len - 1; indices count from 0 as *)
(* in the code, so entry k of the Vector `results` is results[k + 1].      *)
(***************************************************************************)
EXTENDS Integers, Sequences, FiniteSets

CONSTANTS Consumer,    \* threads that hold the stepper
          MaxLen,      \* bound on the length of the source
          Capacity,    \* `buffer`: capacity of the blocking map
          Parallelism, \* bound on the threads of the pool
          MaxPermits,  \* Int.MaxValue, the limit of a java Semaphore
          Absent       \* no entry in a HashMap

ASSUME BoundsAssumption ==
  /\ MaxLen \in Nat
  /\ Capacity \in Nat \ {0}
  /\ Parallelism \in Nat \ {0}
  /\ MaxPermits \in Nat /\ MaxPermits > 2 * Capacity
  /\ Absent \notin Nat \cup {"closed", "released", "interrupted", "pending", "ok", "failed"}

Index == 0..MaxLen
NoMax == MaxLen + 1   \* the initial Int.MaxValue of _maxIndex

VARIABLES len, sourceFails,  \* the source: its length, and how it ends
          threads,           \* `parallelism`: the size of the pool
          filler,            \* where the filler's thread is
          stepped,           \* elements the filler has taken from the source
          permits,           \* the semaphore
          nextIndex, maxIndex, futures, waiting,  \* the other BlockingMap fields
          latch,             \* the SingleLatch objects
          mapping,           \* the Future of f(element) at each index
          results,           \* the Vector of FutureOptions handed to consumers
          tasks, active,     \* the pool: its FIFO queue and its busy threads
          pos, pc            \* each consumer's index and where it is in step

source == <<len, sourceFails, threads>>
map == <<permits, nextIndex, maxIndex, futures, waiting, latch>>
pool == <<tasks, active>>
consumers == <<pos, pc>>
vars == <<source, filler, stepped, map, mapping, results, pool, consumers>>

Task == {"map", "wait", "take"} \X Index

TypeOK ==
  /\ len \in 0..MaxLen /\ sourceFails \in BOOLEAN /\ threads \in 1..Parallelism
  /\ filler \in {"stepping", "putting", "acquiring", "inserting", "finished", "dead"}
  /\ stepped \in 0..MaxLen
  /\ permits \in 0..MaxPermits
  /\ nextIndex \in 0..MaxLen /\ maxIndex \in 0..NoMax
  /\ futures \in [Index -> Index \cup {Absent}]
  /\ waiting \subseteq Index
  /\ latch \in [Index -> {Absent, "closed", "released", "interrupted"}]
  /\ mapping \in [Index -> {Absent, "pending", "ok", "failed"}]
  /\ results \in Seq([state : {"pending", "none", "taken"}, elem : Index \cup {Absent}])
  /\ tasks \in Seq(Task) /\ active \subseteq Task
  /\ pos \in [Consumer -> Index]
  /\ pc \in [Consumer -> {"idle", "filling", "awaiting", "ended", "failed", "thrown"}]

Init ==
  /\ len \in 0..MaxLen /\ sourceFails \in BOOLEAN /\ threads \in 1..Parallelism
  /\ filler = "stepping" /\ stepped = 0
  /\ permits = Capacity /\ nextIndex = 0 /\ maxIndex = NoMax
  /\ futures = [k \in Index |-> Absent]
  /\ waiting = {}
  /\ latch = [k \in Index |-> Absent]
  /\ mapping = [k \in Index |-> Absent]
  /\ results = <<>>
  /\ tasks = <<>> /\ active = {}
  /\ pos = [c \in Consumer |-> 0] /\ pc = [c \in Consumer |-> "idle"]
-----------------------------------------------------------------------------
(* The filler: one message of the actor per element, sent by itself. *)

(* Await.result(iterant.step) yields an element. *)
SourceStep ==
  /\ filler = "stepping" /\ stepped < len
  /\ stepped' = stepped + 1
  /\ filler' = "putting"
  /\ UNCHANGED <<source, map, mapping, results, pool, consumers>>

(* Await.result throws: the actor's future fails and nobody is told. *)
SourceFails ==
  /\ filler = "stepping" /\ stepped = len /\ sourceFails
  /\ filler' = "dead"
  /\ UNCHANGED <<source, stepped, map, mapping, results, pool, consumers>>

(* BlockingMap.setMaxIndex, interrupting these waiters. *)
SetMaxIndexTo(beyond, flood) ==
  /\ filler = "stepping" /\ stepped = len /\ ~sourceFails
  /\ filler' = "finished"
  /\ maxIndex' = nextIndex
  /\ waiting' = waiting \ beyond
  /\ latch' = [k \in Index |-> IF k \in beyond THEN "interrupted" ELSE latch[k]]
  /\ permits' = flood
  /\ UNCHANGED <<source, stepped, nextIndex, futures, mapping, results, pool, consumers>>

(* Seeded faults: every waiter, or none, interrupted. *)
SetMaxIndexInterruptsAll == SetMaxIndexTo(waiting, MaxPermits - Capacity)
SetMaxIndexInterruptsNone == SetMaxIndexTo({}, MaxPermits - Capacity)

(* The source is exhausted: BlockingMap.setMaxIndex. Every waiter at or past
   the end is interrupted and the semaphore is flooded, to leave room below its
   limit for the permits that are still out. *)
SetMaxIndex == SetMaxIndexTo({k \in waiting : k >= nextIndex}, MaxPermits - Capacity)

(* Seeded faults: put goes on without a permit; acquire keeps the permit. *)
PutCheckOnly ==
  /\ filler = "putting"
  /\ filler' = IF maxIndex <= nextIndex THEN "dead" ELSE "inserting"
  /\ UNCHANGED <<source, stepped, map, mapping, results, pool, consumers>>
PutTryAcquire ==
  /\ filler = "acquiring"
  /\ filler' = "inserting"
  /\ UNCHANGED <<source, stepped, map, mapping, results, pool, consumers>>

(* BlockingMap.put: the first check of the maximal index. *)
PutCheck ==
  /\ filler = "putting"
  /\ filler' = IF maxIndex <= nextIndex THEN "dead" ELSE "acquiring"
  /\ UNCHANGED <<source, stepped, map, mapping, results, pool, consumers>>

(* semaphore.acquire: blocks the actor's thread while the buffer is full. *)
PutAcquire ==
  /\ filler = "acquiring" /\ permits > 0
  /\ permits' = permits - 1
  /\ filler' = "inserting"
  /\ UNCHANGED <<source, stepped, nextIndex, maxIndex, futures, waiting, latch,
                 mapping, results, pool, consumers>>

(* The second synchronized block: f is applied, its future stored, and the
   latch of this index (made here unless a consumer made it) released. *)
PutInsert ==
  /\ filler = "inserting" /\ nextIndex < maxIndex
  /\ filler' = "stepping"
  /\ futures' = [futures EXCEPT ![nextIndex] = stepped - 1]
  /\ mapping' = [mapping EXCEPT ![nextIndex] = "pending"]
  /\ tasks' = Append(tasks, <<"map", nextIndex>>)
  /\ waiting' = waiting \cup {nextIndex}
  /\ latch' = [latch EXCEPT ![nextIndex] = "released"]
  /\ nextIndex' = nextIndex + 1
  /\ UNCHANGED <<source, stepped, permits, maxIndex, results, active, consumers>>

(* f throws when it is applied, before it returns a future. *)
PutThrows ==
  /\ filler = "inserting"
  /\ filler' = "dead"
  /\ UNCHANGED <<source, stepped, map, mapping, results, pool, consumers>>

Filler == \/ SourceStep \/ SourceFails \/ SetMaxIndex
          \/ PutCheck \/ PutAcquire \/ PutInsert \/ PutThrows
-----------------------------------------------------------------------------
(* A consumer calls step, hence get(pos): past the end it is empty. *)
Step(c) ==
  /\ pc[c] = "idle"
  /\ pc' = [pc EXCEPT ![c] = IF pos[c] > maxIndex THEN "ended" ELSE "filling"]
  /\ UNCHANGED <<source, filler, stepped, map, mapping, results, pool, pos>>

(* Seeded fault: the check of results.length is left out. *)
FillUnchecked(c) ==
  LET k == pos[c] IN
  /\ pc[c] = "filling" /\ k < maxIndex
  /\ pc' = [pc EXCEPT ![c] = "awaiting"]
  /\ waiting' = waiting \cup {k}
  /\ latch' = [latch EXCEPT ![k] = IF k \in waiting THEN @ ELSE "closed"]
  /\ results' = Append(results, [state |-> "pending", elem |-> Absent])
  /\ tasks' = Append(tasks, <<"wait", k>>)
  /\ UNCHANGED <<source, filler, stepped, permits, nextIndex, maxIndex, futures,
                 mapping, active, pos>>

(* results.synchronized, with BlockingMap.get for an index not asked yet: the
   latch is made unless put made it, and a wait for it goes to the pool. At or
   past the maximal index BlockingMap.get throws, out of step. *)
Fill(c) ==
  LET k == pos[c] IN
  /\ pc[c] = "filling"
  /\ IF Len(results) > k
     THEN /\ pc' = [pc EXCEPT ![c] = "awaiting"]
          /\ UNCHANGED <<waiting, latch, results, tasks>>
     ELSE IF k >= maxIndex
     THEN /\ pc' = [pc EXCEPT ![c] = "thrown"]
          /\ UNCHANGED <<waiting, latch, results, tasks>>
     ELSE /\ pc' = [pc EXCEPT ![c] = "awaiting"]
          /\ waiting' = waiting \cup {k}
          /\ latch' = [latch EXCEPT ![k] = IF k \in waiting THEN @ ELSE "closed"]
          /\ results' = Append(results, [state |-> "pending", elem |-> Absent])
          /\ tasks' = Append(tasks, <<"wait", k>>)
  /\ UNCHANGED <<source, filler, stepped, permits, nextIndex, maxIndex, futures,
                 mapping, active, pos>>

(* The future returned by step completes: with an element and the stepper of
   the next index, empty, or failed because f's future failed. *)
Receive(c) ==
  LET r == results[pos[c] + 1] IN
  /\ pc[c] = "awaiting"
  /\ \/ /\ r.state = "taken" /\ mapping[pos[c]] = "ok"
        /\ pc' = [pc EXCEPT ![c] = "idle"]
        /\ pos' = [pos EXCEPT ![c] = @ + 1]
     \/ /\ r.state = "taken" /\ mapping[pos[c]] = "failed"
        /\ pc' = [pc EXCEPT ![c] = "failed"] /\ UNCHANGED pos
     \/ /\ r.state = "none"
        /\ pc' = [pc EXCEPT ![c] = "ended"] /\ UNCHANGED pos
  /\ UNCHANGED <<source, filler, stepped, map, mapping, results, pool>>
-----------------------------------------------------------------------------
(* The pool runs its tasks in FIFO order on its threads. *)
Start ==
  /\ tasks # <<>> /\ Cardinality(active) < threads
  /\ active' = active \cup {Head(tasks)}
  /\ tasks' = Tail(tasks)
  /\ UNCHANGED <<source, filler, stepped, map, mapping, results, consumers>>

(* f's future at index k completes. *)
MapEnds(k) ==
  /\ <<"map", k>> \in active
  /\ active' = active \ {<<"map", k>>}
  /\ \E outcome \in {"ok", "failed"} : mapping' = [mapping EXCEPT ![k] = outcome]
  /\ UNCHANGED <<source, filler, stepped, map, results, tasks, consumers>>

(* latch.await returns or throws MaxReached; it holds its thread until then.
   The continuation of futureWait is one more task. *)
WaitEnds(k) ==
  /\ <<"wait", k>> \in active /\ latch[k] # "closed"
  /\ active' = active \ {<<"wait", k>>}
  /\ tasks' = Append(tasks, <<"take", k>>)
  /\ UNCHANGED <<source, filler, stepped, map, mapping, results, consumers>>

(* Seeded fault: the newest future is taken instead of that of index k. *)
TakeNewest(k) ==
  /\ <<"take", k>> \in active
  /\ active' = active \ {<<"take", k>>}
  /\ latch[k] = "released"
  /\ waiting' = waiting \ {k}
  /\ permits' = permits + 1
  /\ futures' = [futures EXCEPT ![nextIndex - 1] = Absent]
  /\ results' = [results EXCEPT ![k + 1] = [state |-> "taken", elem |-> futures[nextIndex - 1]]]
  /\ UNCHANGED <<source, filler, stepped, nextIndex, maxIndex, latch, mapping, tasks,
                 consumers>>

(* Seeded fault: semaphore.release() is forgotten. *)
TakeKeepsPermit(k) ==
  /\ <<"take", k>> \in active /\ latch[k] = "released"
  /\ active' = active \ {<<"take", k>>}
  /\ waiting' = waiting \ {k}
  /\ futures' = [futures EXCEPT ![k] = Absent]
  /\ results' = [results EXCEPT ![k + 1] = [state |-> "taken", elem |-> futures[k]]]
  /\ UNCHANGED <<source, filler, stepped, permits, nextIndex, maxIndex, latch, mapping,
                 tasks, consumers>>

(* The continuation: after a release it takes the future out of the map and
   gives the permit back; after an interrupt the result is empty. *)
Take(k) ==
  /\ <<"take", k>> \in active
  /\ active' = active \ {<<"take", k>>}
  /\ IF latch[k] = "released"
     THEN /\ waiting' = waiting \ {k}
          /\ permits' = permits + 1
          /\ futures' = [futures EXCEPT ![k] = Absent]
          /\ results' = [results EXCEPT ![k + 1] = [state |-> "taken", elem |-> futures[k]]]
     ELSE /\ results' = [results EXCEPT ![k + 1].state = "none"]
          /\ UNCHANGED <<waiting, permits, futures>>
  /\ UNCHANGED <<source, filler, stepped, nextIndex, maxIndex, latch, mapping, tasks,
                 consumers>>

Pool == Start \/ \E k \in Index : MapEnds(k) \/ WaitEnds(k) \/ Take(k)

Next == Filler \/ Pool \/ \E c \in Consumer : Step(c) \/ Fill(c) \/ Receive(c)

(* The threads run; the source and f answer. No consumer has to go on. *)
Fairness ==
  /\ WF_vars(Filler)
  /\ WF_vars(Start)
  /\ \A k \in Index : WF_vars(MapEnds(k)) /\ WF_vars(WaitEnds(k)) /\ WF_vars(Take(k))
  /\ \A c \in Consumer : WF_vars(Fill(c)) /\ WF_vars(Receive(c))

Spec == Init /\ [][Next]_vars
FairSpec == Spec /\ Fairness
-----------------------------------------------------------------------------
Taken == {i \in 1..Len(results) : results[i].state = "taken"}

(* ParallelIterantMapperTest.scala:51: the source is never read further ahead
   than the buffer plus the one element whose put is waiting for a permit. *)
ReadAheadIsBounded == stepped <= Cardinality(Taken) + Capacity + 1

(* The map never holds more than its capacity, and flooding the semaphore at
   the end leaves room below Int.MaxValue for the permits still to come back. *)
CapacityRespected ==
  LET held == Cardinality({k \in Index : futures[k] # Absent}) IN
  /\ held <= Capacity
  /\ permits + held <= MaxPermits

(* Whatever order puts, waits and maps finish in, index k yields element k. *)
InSourceOrder ==
  \A i \in 1..Len(results) : results[i].state = "taken" => results[i].elem = i - 1

(* The two entries a continuation removes (`ensuring(_.isDefined)` and `.get`)
   are there, also when setMaxIndex has cleared waiters meanwhile. *)
TakesFindTheirEntries ==
  \A k \in Index : <<"take", k>> \in active /\ latch[k] = "released" =>
    k \in waiting /\ futures[k] # Absent

(* A consumer is told that the iterant is over only at its very end. *)
EndMeansExhausted ==
  \A c \in Consumer : pc[c] \in {"ended", "thrown"} =>
    filler = "finished" /\ pos[c] = len

(* Some thread of the filler or of the pool has a step to take. *)
CanGoOn ==
  \/ filler \in {"stepping", "putting", "inserting"}
  \/ filler = "acquiring" /\ permits > 0
  \/ tasks # <<>> /\ Cardinality(active) < threads
  \/ \E k \in Index : \/ <<"map", k>> \in active \/ <<"take", k>> \in active
                      \/ <<"wait", k>> \in active /\ latch[k] # "closed"

(* No consumer is stranded: in no state do the filler, waiting for a permit, and
   the pool, its threads held by waits for elements still to be put, wait for
   one another while the answer of a step is outstanding. A pool of one thread
   is enough; only a filler that died can leave a consumer waiting. *)
NoStepStranded ==
  \A c \in Consumer : pc[c] = "awaiting" /\ filler # "dead" =>
    \/ CanGoOn
    \/ results[pos[c] + 1].state = "none"
    \/ results[pos[c] + 1].state = "taken" /\ mapping[pos[c]] \in {"ok", "failed"}

(* A step is answered unless the source or f broke the filler, even when the
   pool has a single thread and a wait is holding it. *)
StepsAreAnswered ==
  \A c \in Consumer : pc[c] = "awaiting" ~> (pc[c] # "awaiting" \/ filler = "dead")

(* ParallelIterantMapperTest.scala:68,99: stepping at the end of the iterant
   yields an empty result; it does not throw. *)
EndOfIterantIsEmpty == \A c \in Consumer : pc[c] # "thrown"

(* How the consumers see the state: the FutureOptions that were taken, and for
   each of them whether it waits for one. *)
AnswerAt(k) ==
  IF k < Len(results) /\ results[k + 1].state = "taken" THEN results[k + 1].elem ELSE Absent
OutcomeAt(k) == IF mapping[k] \in {"ok", "failed"} THEN mapping[k] ELSE "unknown"
StateOf(c) ==
  CASE pc[c] \in {"idle", "filling"} -> "idle"
    [] pc[c] = "awaiting" -> "asked"
    [] pc[c] \in {"ended", "thrown"} -> "over"
    [] pc[c] = "failed" -> "failed"

Shared == INSTANCE SharedIterant WITH
  broken <- sourceFails, applied <- nextIndex, demanded <- Len(results), place <- pos,
  outcome <- [k \in Index |-> OutcomeAt(k)],
  answer <- [k \in Index |-> AnswerAt(k)],
  state <- [c \in Consumer |-> StateOf(c)]

(* Iterant.parallelPrefetching: whoever steps gets the source's elements in
   order, each with f's one result for it, then the end; f is applied once to
   each and at most `buffer` ahead (ParallelIterantMapperTest.scala:33-66). *)
ImplementsSharedIterant == Shared!Spec
=============================================================================
