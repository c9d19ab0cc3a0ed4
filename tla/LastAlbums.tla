----------------------------- MODULE LastAlbums -----------------------------
(***************************************************************************)
(* backend/last_albums: the queue of albums that appeared on the file      *)
(* system since the last look, as HTTP handlers and the indexer drive it.  *)
(* LastAlbumsState.update asks a unique actor for a scan (SingleFlight)    *)
(* and then modifies a JsonableCOW; dequeue reads the same value and sets  *)
(* it. Both read outside the actor that writes, so a write may be based on *)
(* a value that is no longer current. The modification times are read when *)
(* they are compared, so a directory may move while it is waited for.      *)
(***************************************************************************)
EXTENDS Integers, Sequences, FiniteSets

CONSTANTS Album,      \* album directories
          Updater,    \* requests that call update()
          Dequeuer,   \* requests that call dequeue()
          MaxTime,    \* bound on the file system's clock
          MaxChanges, \* bound on the changes of the directories
          MaxRestarts,\* bound on restarts of the process
          NoAlbum, NoFile, NoMsg, NoCall

ASSUME LastAlbumsAssumption ==
  /\ IsFiniteSet(Album)
  /\ MaxTime \in Nat \ {0} /\ MaxChanges \in Nat /\ MaxRestarts \in Nat
  /\ Updater \cap Dequeuer = {} /\ NoCall \notin Updater \cup Dequeuer
  /\ NoAlbum \notin Album
  /\ NoFile \notin [queue : Seq(Album), time : 0..MaxTime]

Request == Updater \cup Dequeuer
Unit == "unit"

VARIABLES clock, changes, mtime, exists, \* the file system: 0 = never written
          value, disk,           \* the JsonableCOW and its file
          mailbox, saving,       \* its actor: requests queued, and being saved
          status, topic, servedBy, \* the unique actor lastAlbumsUnique
          since, walked, found,  \* each scan: its bound, what was there, its result
          pc, base, next, todo, out, \* each request: value read, value to set,
                                 \* albums still to enqueue, album
          restarts,
          raced,                 \* history: some set overwrote a newer value
          excused,               \* history: albums the code cannot be held to
          touched                \* history: albums written to after a scan found them

files == <<clock, changes, mtime, exists>>
actor == <<mailbox, saving>>
unique == <<status, topic, servedBy>>
scans == <<since, walked, found>>
requests == <<pc, base, next, todo, out>>
history == <<raced, excused, touched>>
vars == <<files, value, disk, actor, unique, scans, requests, restarts, history>>

Unique == INSTANCE SingleFlight WITH Call <- Updater, Msg <- {Unit}

State == [queue : Seq(Album), time : 0..MaxTime]
Zero == [queue |-> <<>>, time |-> clock]
NoState == [queue |-> <<>>, time |-> 0]

TypeOK ==
  /\ clock \in 1..MaxTime /\ changes \in 0..MaxChanges
  /\ mtime \in [Album -> 0..MaxTime] /\ exists \subseteq Album
  /\ value \in State /\ (disk = NoFile \/ disk \in State)
  /\ mailbox \in Seq(Request) /\ saving \in Request \cup {NoCall}
  /\ Unique!TypeOK
  /\ since \in [Updater -> 0..MaxTime]
  /\ walked \in [Updater -> SUBSET Album]
  /\ found \in [Updater -> {"none", "walking", "failed", "done"}]
  /\ pc \in [Request -> {"idle", "asking", "folding", "read", "setting",
                         "done", "failed", "lost"}]
  /\ out \in [Dequeuer -> Album \cup {NoAlbum}]
  /\ base \in [Request -> State] /\ next \in [Request -> State]
  /\ todo \in [Updater -> Seq(Album)]
  /\ restarts \in 0..MaxRestarts /\ raced \in BOOLEAN
  /\ excused \subseteq Album /\ touched \subseteq Album

Init ==
  /\ clock = 1 /\ changes = 0 /\ mtime = [a \in Album |-> 0] /\ exists = {}
  /\ value = Zero /\ disk = NoFile
  /\ mailbox = <<>> /\ saving = NoCall
  /\ Unique!Init
  /\ since = [u \in Updater |-> 0]
  /\ walked = [u \in Updater |-> {}]
  /\ found = [u \in Updater |-> "none"]
  /\ pc = [r \in Request |-> "idle"]
  /\ base = [r \in Request |-> NoState] /\ next = [r \in Request |-> NoState]
  /\ todo = [u \in Updater |-> <<>>]
  /\ out = [d \in Dequeuer |-> NoAlbum]
  /\ restarts = 0 /\ raced = FALSE /\ excused = {} /\ touched = {}
-----------------------------------------------------------------------------
(* The albums some walk has found; and those of them which an update that has
   not enqueued them yet was, or will be, given. *)
Seen == UNION {walked[u] : u \in {v \in Updater : found[v] # "walking"}}
Awaited ==
  IF \E v \in Updater : pc[v] \in {"asking", "folding"}
  THEN UNION {walked[u] : u \in {v \in Updater : found[v] = "done"}} ELSE {}

(* The file system. A directory is made, or is written to again, and gets the
   time of the write. The code keeps one of the albums with equal times; and one
   that moves after the walk drags lastUpdateTime past those that were not met. *)
Written(a) ==
  /\ changes < MaxChanges /\ changes' = changes + 1
  /\ \E t \in {clock, clock + 1} \cap 1..MaxTime :
       /\ a \in exists => mtime[a] < t
       /\ clock' = t
       /\ mtime' = [mtime EXCEPT ![a] = t]
       /\ excused' = excused
            \cup (IF t > clock THEN {} ELSE {a} \cup {b \in Album : mtime[b] = t})
            \cup (IF a \in Awaited THEN {b \in Album : mtime[b] > value.time} ELSE {})
       /\ touched' = IF a \in Seen /\ mtime[a] < t THEN touched \cup {a} ELSE touched
  /\ exists' = exists \cup {a}
  /\ UNCHANGED <<value, disk, actor, unique, scans, requests, restarts, raced>>

(* A directory that was passed already and is then deleted is the same as one
   that is deleted after the walk. *)
Deleted(a) ==
  /\ changes < MaxChanges /\ changes' = changes + 1
  /\ a \in exists
  /\ exists' = exists \ {a}
  /\ walked' = [u \in Updater |-> IF found[u] = "walking" THEN walked[u] \ {a} ELSE walked[u]]
  /\ UNCHANGED <<clock, mtime, value, disk, actor, unique, since, found, requests, restarts,
                 history>>
-----------------------------------------------------------------------------
(* The pure operations of class LastAlbums. *)

(* Seeded fault: the newest first. *)
SortedDescending(albums) ==
  {q \in [1..Cardinality(albums) -> albums] :
     /\ \A i, j \in DOMAIN q : i < j => mtime[q[j]] <= mtime[q[i]] /\ q[i] # q[j]}

(* enqueueAll sorts by modification time, in any order where it is the same. *)
Sorted(albums) ==
  {q \in [1..Cardinality(albums) -> albums] :
     /\ \A i, j \in DOMAIN q : i < j => mtime[q[i]] <= mtime[q[j]] /\ q[i] # q[j]}

(* Seeded fault: enqueue does not compare. *)
EnqueuedAnyway(la, a) == [queue |-> Append(la.queue, a), time |-> mtime[a]]

(* enqueue drops what is not newer than the last that was enqueued, so of albums
   with equal times one remains. *)
Enqueued(la, a) ==
  IF mtime[a] <= la.time THEN la ELSE [queue |-> Append(la.queue, a), time |-> mtime[a]]

(* Seeded fault: dequeue leaves the album in the queue. *)
AfterPeek(la, i) == la

(* dequeue skips directories that are gone; when none is left it yields
   nothing, and the skipped ones stay where they were. *)
Present(la) == {i \in 1..Len(la.queue) : la.queue[i] \in exists}
FirstPresent(la) == {i \in Present(la) : \A j \in Present(la) : i <= j}
AfterDequeue(la, i) == [la EXCEPT !.queue = SubSeq(@, i + 1, Len(@))]
-----------------------------------------------------------------------------
(* LastAlbumsState.update: ask the unique actor for the new albums. *)
Update(u) ==
  /\ pc[u] = "idle"
  /\ pc' = [pc EXCEPT ![u] = "asking"]
  /\ Unique!Invoke(u)
  /\ UNCHANGED <<files, value, disk, actor, scans, base, next, todo, out, restarts, history>>

(* The producer runs: it reads lastUpdateTime and starts walking the disk. *)
ScanStart(u) ==
  /\ Unique!Lead(u, Unit)
  /\ since' = [since EXCEPT ![u] = value.time]
  /\ walked' = [walked EXCEPT ![u] = {a \in exists : mtime[a] >= value.time}]
  /\ found' = [found EXCEPT ![u] = "walking"]
  /\ UNCHANGED <<files, value, disk, actor, requests, restarts, history>>

(* A second update is answered by the scan that is already open. *)
ScanShared(u) ==
  /\ Unique!Join(u, Unit)
  /\ UNCHANGED <<files, value, disk, actor, scans, requests, restarts, history>>

(* RecentModel.since returns the directories not older than the bound. One that
   is made or written to during the walk is met only if it was not passed yet. *)
ScanEnd(u) ==
  LET missed == {a \in exists \ walked[u] : mtime[a] >= since[u]} IN
  /\ found[u] = "walking"
  /\ \E met \in SUBSET missed :
       /\ walked' = [walked EXCEPT ![u] = @ \cup met]
       /\ excused' = excused \cup (missed \ met)
  /\ found' = [found EXCEPT ![u] = "done"]
  /\ since' = [since EXCEPT ![u] = 0]
  /\ UNCHANGED <<files, value, disk, actor, unique, requests, restarts, raced, touched>>

(* The walk throws: the actor's future fails. *)
ScanFails(u) ==
  /\ found[u] = "walking"
  /\ found' = [found EXCEPT ![u] = "failed"]
  /\ walked' = [walked EXCEPT ![u] = {}]
  /\ since' = [since EXCEPT ![u] = 0]
  /\ UNCHANGED <<files, value, disk, actor, unique, requests, restarts, history>>

(* The run is over: every update aboard gets its albums. *)
ScanAnswered(u) ==
  /\ found[u] \in {"done", "failed"}
  /\ Unique!Land(u)
  /\ UNCHANGED <<files, value, disk, actor, scans, requests, restarts, history>>

(* What these requests computed is garbage. *)
Forget(R) ==
  /\ base' = [r \in Request |-> IF r \in R THEN NoState ELSE base[r]]
  /\ next' = [r \in Request |-> IF r \in R THEN NoState ELSE next[r]]
  /\ todo' = [u \in Updater |-> IF u \in R THEN <<>> ELSE todo[u]]

Finish(r, how) ==
  /\ pc' = [pc EXCEPT ![r] = how]
  /\ Forget({r})
  /\ UNCHANGED <<files, value, disk, actor, unique, scans, out, restarts, history>>

(* modify(_.enqueueAll(newAlbums)): f(get) is computed by the caller, who sorts
   the albums it was given ... *)
UpdateRead(u) ==
  /\ pc[u] = "asking" /\ status[u] = "answered" /\ found[servedBy[u]] = "done"
  /\ walked[servedBy[u]] \subseteq exists
  /\ \E q \in Sorted(walked[servedBy[u]]) :
       /\ todo' = [todo EXCEPT ![u] = q]
       /\ pc' = [pc EXCEPT ![u] = IF q = <<>> THEN "read" ELSE "folding"]
  /\ base' = [base EXCEPT ![u] = value]
  /\ next' = [next EXCEPT ![u] = value]
  /\ UNCHANGED <<files, value, disk, actor, unique, scans, out, restarts, history>>

(* ... and enqueues them one by one, looking at each time again. *)
UpdateFold(u) ==
  /\ pc[u] = "folding" /\ Head(todo[u]) \in exists
  /\ next' = [next EXCEPT ![u] = Enqueued(@, Head(todo[u]))]
  /\ todo' = [todo EXCEPT ![u] = Tail(@)]
  /\ pc' = [pc EXCEPT ![u] = IF Tail(todo[u]) = <<>> THEN "read" ELSE "folding"]
  /\ UNCHANGED <<files, value, disk, actor, unique, scans, base, out, restarts, history>>

(* The scan failed, or a directory it found is gone and lastModifiedTime
   throws: the update fails without touching the queue. *)
UpdateFails(u) ==
  /\ \/ /\ pc[u] = "asking" /\ status[u] = "answered"
        /\ found[servedBy[u]] = "failed" \/ ~(walked[servedBy[u]] \subseteq exists)
     \/ pc[u] = "folding" /\ Head(todo[u]) \notin exists
  /\ Finish(u, "failed")

(* dequeue: lastAlbums.get.dequeue, computed by the caller. *)
DequeueRead(d) ==
  /\ pc[d] = "idle"
  /\ base' = [base EXCEPT ![d] = value]
  /\ \E i \in FirstPresent(value) :
       /\ next' = [next EXCEPT ![d] = AfterDequeue(value, i)]
       /\ out' = [out EXCEPT ![d] = value.queue[i]]
  /\ pc' = [pc EXCEPT ![d] = "read"]
  /\ UNCHANGED <<files, value, disk, actor, unique, scans, todo, restarts, history>>

DequeueEmpty(d) == pc[d] = "idle" /\ Present(value) = {} /\ Finish(d, "done")

(* lastAlbums set ...: the computed value goes to the JsonableCOW's actor. *)
Set(r) ==
  /\ pc[r] = "read"
  /\ pc' = [pc EXCEPT ![r] = "setting"]
  /\ mailbox' = Append(mailbox, r)
  /\ UNCHANGED <<files, value, disk, saving, unique, scans, base, next, todo, out, restarts,
                 history>>

(* `newInput` is the object the actor has: enqueueAll returned the LastAlbums it
   was given, and nobody has set another. *)
Same(r) == next[r] = value /\ base[r] = value

(* Seeded fault: the caller is answered without a save. *)
AssignUnsaved ==
  LET r == Head(mailbox) IN
  /\ mailbox # <<>> /\ saving = NoCall /\ ~Same(r)
  /\ value' = next[r]
  /\ mailbox' = Tail(mailbox)
  /\ pc' = [pc EXCEPT ![r] = "done"]
  /\ Forget({r})
  /\ UNCHANGED <<files, disk, saving, unique, scans, out, restarts, history>>

(* JsonableCOWImpl's actor: a value that is not the current one becomes the
   current one at once, before it is saved. *)
Assign ==
  LET r == Head(mailbox) IN
  /\ mailbox # <<>> /\ saving = NoCall /\ ~Same(r)
  /\ saving' = r
  /\ value' = next[r]
  /\ raced' = (raced \/ base[r] # value)
  /\ UNCHANGED <<files, disk, mailbox, unique, scans, requests, restarts, excused, touched>>

(* The current value is not saved again, whether or not its own save failed. *)
Keep ==
  LET r == Head(mailbox) IN
  /\ mailbox # <<>> /\ saving = NoCall /\ Same(r)
  /\ mailbox' = Tail(mailbox)
  /\ pc' = [pc EXCEPT ![r] = "done"]
  /\ Forget({r})
  /\ UNCHANGED <<files, value, disk, saving, unique, scans, out, restarts, history>>

Answer(how) ==
  /\ saving # NoCall
  /\ saving' = NoCall
  /\ mailbox' = Tail(mailbox)
  /\ pc' = [pc EXCEPT ![saving] = how]
  /\ UNCHANGED <<files, value, unique, scans, out, restarts, history>>

(* The file is overwritten, and only then is the caller answered. *)
Save == Answer("done") /\ disk' = value /\ Forget({saving})

(* The write throws: the caller's future fails, but the value stays. *)
SaveFails == Answer("failed") /\ UNCHANGED <<disk, base, next, todo>>

(* The process dies and starts again: the file is loaded, or else the value is
   Zero of now, which hides what was written before now. *)
Restart ==
  /\ restarts < MaxRestarts
  /\ restarts' = restarts + 1
  /\ value' = IF disk = NoFile THEN Zero ELSE disk
  /\ excused' = IF disk = NoFile THEN {a \in Album : mtime[a] > 0} \cup excused ELSE excused
  /\ mailbox' = <<>> /\ saving' = NoCall
  /\ pc' = [r \in Request |-> IF pc[r] \in {"idle", "done", "failed"} THEN pc[r] ELSE "lost"]
  /\ status' = [u \in Updater |-> IF pc[u] = "idle" THEN "idle" ELSE "answered"]
  /\ found' = [u \in Updater |-> IF found[u] = "none" THEN "none" ELSE "failed"]
  /\ since' = [u \in Updater |-> 0]
  /\ walked' = [u \in Updater |-> IF found[u] = "walking" THEN {} ELSE walked[u]]
  /\ Forget(Request)
  /\ UNCHANGED <<files, disk, topic, servedBy, out, raced, touched>>

Next ==
  \/ \E a \in Album : Written(a) \/ Deleted(a)
  \/ \E u \in Updater :
       \/ Update(u) \/ ScanStart(u) \/ ScanShared(u) \/ ScanEnd(u) \/ ScanFails(u)
       \/ ScanAnswered(u) \/ UpdateRead(u) \/ UpdateFold(u) \/ UpdateFails(u)
  \/ \E d \in Dequeuer : DequeueRead(d) \/ DequeueEmpty(d)
  \/ \E r \in Request : Set(r)
  \/ Assign \/ Keep \/ Save \/ SaveFails \/ Restart

Spec == Init /\ [][Next]_vars
-----------------------------------------------------------------------------
Queued == {value.queue[i] : i \in 1..Len(value.queue)}
HandedOut(a) == {d \in Dequeuer : pc[d] = "done" /\ out[d] = a}

(* The point of lastUpdateTime: an album on disk is still to be found by the
   next scan, or is queued, or was taken by a dequeue that got through to the
   actor (and failed if its save did). The exceptions are runs in which a set
   overwrote a newer value, and the albums in `excused`: equal times, passed by
   the walk when they were written, not found yet when an album that a walk had
   found was written to, or there before a restart that found no file. *)
NoAlbumForgotten ==
  raced \/ \A a \in exists \ excused :
    \/ mtime[a] > value.time
    \/ a \in Queued
    \/ \E d \in Dequeuer : out[d] = a /\ pc[d] \in {"setting", "done", "failed"}

(* The albums that were not written to since they were found are queued once,
   ordered by modification time and none newer than lastUpdateTime, whatever
   interleaving produced the queue and wherever the others are in it. *)
QueueIsOrdered ==
  LET q == value.queue IN
  /\ \A i, j \in 1..Len(q) : i < j /\ {q[i], q[j]} \cap touched = {} => mtime[q[i]] < mtime[q[j]]
  /\ \A i \in 1..Len(q) : q[i] \in touched \/ mtime[q[i]] <= value.time

(* Between two writes of the actor the file holds the value, so what a caller
   was told survives a restart; no file means that nothing was ever found. If
   it does not hold it, then whoever set the value was told of the failure. *)
AnsweredIsSaved ==
  saving = NoCall =>
    \/ disk = value
    \/ disk = NoFile /\ value.queue = <<>>
    \/ \E r \in Request : pc[r] = "failed" /\ next[r] = value

(* An album is handed out twice only if a set overwrote a newer value or it was
   written to after it was found, whatever saves failed between restarts. *)
TwiceOnlyAfterRace == raced \/ \A a \in Album \ touched : Cardinality(HandedOut(a)) <= 1

(* LastAlbumsServerTest.scala, "dequeue returns next album and removes it from
   list": no album is handed to two requests. *)
DequeueRemoves == \A a \in Album : Cardinality(HandedOut(a)) <= 1
=============================================================================
