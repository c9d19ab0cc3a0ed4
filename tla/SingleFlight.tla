---------------------------- MODULE SingleFlight ----------------------------
(***************************************************************************)
(* What common.concurrency.actor.Actor.unique promises its callers, with   *)
(* no mailbox, thread or HashMap in sight: for every message at most one   *)
(* run of the actor's function is open; a call whose message has an open   *)
(* run is answered by that run, every other call opens a run of its own;   *)
(* closing a run answers all the calls aboard at once.                     *)
(* UniqueActor implements this specification.                              *)
(***************************************************************************)
CONSTANTS Call,     \* the invocations of `!`
          Msg,      \* the messages they may evaluate to
          NoMsg, NoCall

VARIABLES status,   \* where each call stands for its caller
          topic,    \* the message a call evaluated to, once it did
          servedBy  \* the call whose run answers this one

vars == <<status, topic, servedBy>>

Status == {"idle", "waiting", "aboard", "answered"}

TypeOK ==
  /\ status \in [Call -> Status]
  /\ topic \in [Call -> Msg \cup {NoMsg}]
  /\ servedBy \in [Call -> Call \cup {NoCall}]

(* The runs in progress, each named after the call that opened it. *)
Open(c) == status[c] = "aboard" /\ servedBy[c] = c

Init ==
  /\ status = [c \in Call |-> "idle"]
  /\ topic = [c \in Call |-> NoMsg]
  /\ servedBy = [c \in Call |-> NoCall]

Invoke(c) ==
  /\ status[c] = "idle"
  /\ status' = [status EXCEPT ![c] = "waiting"]
  /\ UNCHANGED <<topic, servedBy>>

Board(c, m, leader) ==
  /\ status[c] = "waiting"
  /\ status' = [status EXCEPT ![c] = "aboard"]
  /\ topic' = [topic EXCEPT ![c] = m]
  /\ servedBy' = [servedBy EXCEPT ![c] = leader]

(* The first call for m opens a run. *)
Lead(c, m) ==
  /\ \A d \in Call : Open(d) => topic[d] # m
  /\ Board(c, m, c)

(* Any further call for m is answered by the run that is open. *)
Join(c, m) == \E d \in Call : Open(d) /\ topic[d] = m /\ Board(c, m, d)

(* The by-name message threw when it was evaluated: the call fails alone. *)
Fail(c) ==
  /\ status[c] = "waiting"
  /\ status' = [status EXCEPT ![c] = "answered"]
  /\ UNCHANGED <<topic, servedBy>>

(* The run of d ends: all the calls it serves are answered together. *)
Land(d) ==
  /\ Open(d)
  /\ status' = [c \in Call |-> IF status[c] = "aboard" /\ servedBy[c] = d
                               THEN "answered" ELSE status[c]]
  /\ UNCHANGED <<topic, servedBy>>

Next ==
  \E c \in Call :
    \/ Invoke(c)
    \/ \E m \in Msg : Lead(c, m) \/ Join(c, m)
    \/ Fail(c)
    \/ Land(c)

Spec == Init /\ [][Next]_vars

(* Doc of Actor.unique: two open runs never work on the same message. *)
OneOpenRunPerMessage ==
  \A c, d \in Call : Open(c) /\ Open(d) /\ topic[c] = topic[d] => c = d
=============================================================================
