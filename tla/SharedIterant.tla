---------------------------- MODULE SharedIterant ---------------------------
(***************************************************************************)
(* What Iterant.parallelPrefetching promises the holders of its steppers,  *)
(* with no actor, map, semaphore, latch or pool in sight: f is applied to  *)
(* the elements of the source in order, once each, and never more than     *)
(* `buffer` of them ahead of those handed out; whoever steps at a place    *)
(* gets the element of that place with what f made of it, the same for     *)
(* everybody; the end is told after the last element and nowhere else.     *)
(* ParallelIterantMapper implements this specification.                    *)
(***************************************************************************)
EXTENDS Integers, FiniteSets

CONSTANTS Consumer, MaxLen, Capacity, Absent

VARIABLES len, broken,  \* the source: its elements, and whether it fails after them
          applied,       \* f was applied to the elements below this one
          outcome,       \* what each application of f came to
          demanded,      \* the places below this one were asked for
          answer,        \* the element handed out at each place
          place, state   \* each consumer's place and where it stands

vars == <<len, broken, applied, outcome, demanded, answer, place, state>>

Index == 0..MaxLen

TypeOK ==
  /\ len \in Index /\ broken \in BOOLEAN
  /\ applied \in Index /\ demanded \in 0..MaxLen + 1
  /\ outcome \in [Index -> {"unknown", "ok", "failed"}]
  /\ answer \in [Index -> Index \cup {Absent}]
  /\ place \in [Consumer -> Index]
  /\ state \in [Consumer -> {"idle", "asked", "over", "failed"}]

Init ==
  /\ len \in Index /\ broken \in BOOLEAN
  /\ applied = 0 /\ demanded = 0
  /\ outcome = [k \in Index |-> "unknown"]
  /\ answer = [k \in Index |-> Absent]
  /\ place = [c \in Consumer |-> 0]
  /\ state = [c \in Consumer |-> "idle"]

HandedOut == {k \in Index : answer[k] # Absent}

(* f is applied to the next element of the source. *)
Apply ==
  /\ applied < len /\ applied < Cardinality(HandedOut) + Capacity
  /\ applied' = applied + 1
  /\ UNCHANGED <<len, broken, outcome, demanded, answer, place, state>>

(* An application of f ends, in any order. *)
Complete(k) ==
  /\ k < applied /\ outcome[k] = "unknown"
  /\ \E o \in {"ok", "failed"} : outcome' = [outcome EXCEPT ![k] = o]
  /\ UNCHANGED <<len, broken, applied, demanded, answer, place, state>>

(* A consumer steps; it may be the first to ask for its place. *)
Ask(c) ==
  /\ state[c] = "idle"
  /\ state' = [state EXCEPT ![c] = "asked"]
  /\ demanded' = IF place[c] = demanded THEN demanded + 1 ELSE demanded
  /\ UNCHANGED <<len, broken, applied, outcome, answer, place>>

(* The place k, asked for, gets the element k of the source. *)
Answer(k) ==
  /\ k < demanded /\ k < applied /\ answer[k] = Absent
  /\ answer' = [answer EXCEPT ![k] = k]
  /\ UNCHANGED <<len, broken, applied, outcome, demanded, place, state>>

(* The step completes with f's result for that element, or fails with it. *)
Receive(c) ==
  LET e == answer[place[c]] IN
  /\ state[c] = "asked" /\ e # Absent
  /\ \/ /\ outcome[e] = "ok"
        /\ state' = [state EXCEPT ![c] = "idle"]
        /\ place' = [place EXCEPT ![c] = @ + 1]
     \/ /\ outcome[e] = "failed"
        /\ state' = [state EXCEPT ![c] = "failed"] /\ UNCHANGED place
  /\ UNCHANGED <<len, broken, applied, outcome, demanded, answer>>

(* The consumer learns that it is past the last element. *)
End(c) ==
  /\ state[c] \in {"idle", "asked"}
  /\ ~broken /\ place[c] = len /\ applied = len
  /\ state' = [state EXCEPT ![c] = "over"]
  /\ UNCHANGED <<len, broken, applied, outcome, demanded, answer, place>>

Next ==
  \/ Apply
  \/ \E k \in Index : Complete(k) \/ Answer(k)
  \/ \E c \in Consumer : Ask(c) \/ Receive(c) \/ End(c)

Spec == Init /\ [][Next]_vars
=============================================================================
