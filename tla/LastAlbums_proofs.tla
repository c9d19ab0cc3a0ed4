--------------------------- MODULE LastAlbums_proofs ------------------------
(***************************************************************************)
(* Proofs about LastAlbums for any albums, requests and bounds: that the   *)
(* state keeps its types, that the queue stays ordered, that an answered   *)
(* request is saved, and that, until a set overwrites a newer value, no    *)
(* album is forgotten and none is handed out twice.                        *)
(*                                                                         *)
(* The invariants are layered: each layer is inductive given those below.  *)
(***************************************************************************)
EXTENDS LastAlbums, TLAPS, FiniteSetTheorems

(* The actor's mailbox: requests that set a value, each once, and the one at the
   head may be being saved. *)
Line ==
  /\ saving # NoCall => mailbox # <<>> /\ saving = Head(mailbox)
  /\ \A i \in 1..Len(mailbox) : pc[mailbox[i]] = "setting"
  /\ \A i, j \in 1..Len(mailbox) : mailbox[i] = mailbox[j] => i = j

(* Who a run serves, and what it found: a run that is over stays as it is. *)
Basis ==
  \A u \in Updater :
    /\ pc[u] = "idle" => status[u] = "idle"
    /\ status[u] \in {"idle", "waiting"} => found[u] = "none"
    /\ status[u] \in {"waiting", "aboard"} => pc[u] = "asking"
    /\ found[u] = "none" => walked[u] = {}
    /\ pc[u] = "asking" /\ status[u] \in {"aboard", "answered"} => servedBy[u] \in Updater
    /\ pc[u] = "folding" =>
         /\ todo[u] # <<>> /\ servedBy[u] \in Updater /\ found[servedBy[u]] = "done"
         /\ \A i \in 1..Len(todo[u]) : todo[u][i] \in walked[servedBy[u]]

(* What is in a queue; an album that has been in it and left, for modification
   times m. *)
In(la) == {la.queue[i] : i \in 1..Len(la.queue)}
Gone(a, la, m) == a \notin In(la) /\ m[a] > 0 /\ m[a] <= la.time

(* The albums that did not move after they were found. *)
Still == Album \ touched

(* A value of the queue at time t: of albums that were seen; those that stood
   still are ascending and none of them newer than its time; and that is not in
   the future. *)
Ordered(la, m, t, seen, still) ==
  /\ In(la) \subseteq seen
  /\ \A i, j \in 1..Len(la.queue) :
       i < j /\ la.queue[i] \in still /\ la.queue[j] \in still => m[la.queue[i]] < m[la.queue[j]]
  /\ \A i \in 1..Len(la.queue) : la.queue[i] \in still => m[la.queue[i]] <= la.time
  /\ la.time <= t

(* A computed value adds only newer albums to the value it was computed from. *)
Follows(la, lb, m, still) ==
  /\ la.time <= lb.time
  /\ \A a \in In(lb) \cap still : a \in In(la) \/ m[a] > la.time

(* Every value there is, current, saved, read or to be set, is such a value. *)
Times ==
  /\ \A a \in Album : mtime[a] <= clock
  /\ \A a \in exists : mtime[a] > 0
  /\ \A v \in Updater : \A a \in walked[v] : mtime[a] > 0
  /\ Ordered(value, mtime, clock, Seen, Still)
  /\ disk # NoFile => Ordered(disk, mtime, clock, Seen, Still)
  /\ \A r \in Request : /\ Ordered(base[r], mtime, clock, Seen, Still)
                        /\ Ordered(next[r], mtime, clock, Seen, Still)
                        /\ Follows(base[r], next[r], mtime, Still)

(* A request between its read and its answer, and what a dequeue takes. *)
Computed(r) == pc[r] \in {"read", "setting"}
Turns ==
  /\ saving # NoCall => value = next[saving]
  /\ \A d \in Dequeuer :
       /\ pc[d] = "idle" => out[d] = NoAlbum
       /\ out[d] # NoAlbum => out[d] \in Seen
       /\ Computed(d) => /\ out[d] \in In(base[d])
                         /\ out[d] \in Still => Gone(out[d], next[d], mtime)

(* The dequeues whose value is saved, and those whose value is current. *)
Saved == {d \in Dequeuer : pc[d] = "done" /\ out[d] # NoAlbum}
Through == Saved \cup {d \in Dequeuer : d = saving}

(* Until some set overwrites a newer value, what was handed out and stood still
   has left the queue for good, in the file too, and was handed out once. *)
Handed ==
  ~raced =>
    /\ \A d \in Through : out[d] \in Still => Gone(out[d], value, mtime)
    /\ \A d \in Saved : out[d] \in Still => disk # NoFile /\ Gone(out[d], disk, mtime)
    /\ \A d, e \in Through : out[d] = out[e] /\ out[d] \in Still => d = e

(* The albums the code answers for; the dequeues that are over, with or without
   an error; and where a value leaves the albums. *)
Claimed == exists \ excused
Over == {d \in Dequeuer : pc[d] \in {"done", "failed"}}
Accounted(la, D) ==
  \A a \in Claimed : mtime[a] > la.time \/ a \in In(la) \/ \E d \in D : out[d] = a

(* What was computed drops no album but the one handed out. *)
Covers(r) ==
  \A a \in Claimed :
    a \in In(base[r]) \/ mtime[a] > base[r].time =>
      mtime[a] > next[r].time \/ a \in In(next[r]) \/ (r \in Dequeuer /\ out[r] = a)

(* While an update enqueues one by one, what it has not reached yet comes before
   anything newer. *)
Ahead(u) ==
  /\ In(base[u]) \subseteq In(next[u])
  /\ \A a \in Claimed : mtime[a] > base[u].time =>
       \/ a \in In(next[u])
       \/ /\ mtime[a] > next[u].time
          /\ \A i \in 1..Len(todo[u]) :
               mtime[todo[u][i]] < mtime[a] \/ \E j \in 1..i : todo[u][j] = a

(* A scan some update waits for: it started no later than the current value,
   and what it did not find, being newer than that, is newer than all it found. *)
Pending(v) ==
  \E u \in Updater :
    pc[u] = "asking" /\ status[u] \in {"aboard", "answered"} /\ servedBy[u] = v
Scanned(v) ==
  /\ found[v] = "walking" => since[v] <= value.time
  /\ found[v] = "done" /\ Pending(v) =>
       \A a \in Claimed : mtime[a] > value.time =>
         a \in walked[v] \/ \A b \in walked[v] : mtime[b] < mtime[a]

(* No album the code answers for shares its time with another. *)
Apart == \A a \in Claimed, b \in Album : mtime[a] = mtime[b] => a = b

(* Until some set overwrites a newer value, no scan misses an album and no value
   loses one. What was computed from an older value will not be set. *)
Remembered ==
  ~raced =>
    /\ \A v \in Updater : Scanned(v)
    /\ \A r \in Request :
         /\ Computed(r) \/ pc[r] = "folding" => base[r].time <= value.time
         /\ base[r].time = value.time => /\ Computed(r) => Covers(r)
                                         /\ r \in Updater /\ pc[r] = "folding" => Ahead(r)
    /\ Accounted(value, Over \cup {d \in Dequeuer : d = saving})
    /\ disk # NoFile => Accounted(disk, Over)
-----------------------------------------------------------------------------
(* Values and their queues. *)

(* A sequence without its first i elements. *)
LEMMA Dropped ==
  ASSUME NEW S, NEW s \in Seq(S), NEW i \in 1..Len(s)
  PROVE  LET t == SubSeq(s, i + 1, Len(s))
         IN /\ t \in Seq(S) /\ Len(t) = Len(s) - i
            /\ \A j \in 1..Len(s) - i : t[j] = s[i + j]
<1> DEFINE t == SubSeq(s, i + 1, Len(s))
<1>1. Len(s) \in Nat /\ i \in Nat /\ i <= Len(s)
  OBVIOUS
<1>2. t \in Seq(S)
  <2>1. \A j \in i + 1..Len(s) : s[j] \in S
    BY <1>1
  <2> QED
    BY <1>1, <2>1
<1>3. Len(t) = Len(s) - i
  BY <1>1
<1>4. ASSUME NEW j \in 1..Len(s) - i PROVE t[j] = s[i + j]
  <2>1. i + 1 + j - 1 = i + j
    BY <1>1
  <2> QED
    BY <1>1, <1>3, <2>1
<1> QED
  BY <1>2, <1>3, <1>4

(* A value with another queue. *)
LEMMA Requeued ==
  ASSUME NEW la \in State, NEW q \in Seq(Album)
  PROVE  LET lb == [la EXCEPT !.queue = q]
         IN lb \in State /\ lb.queue = q /\ lb.time = la.time
BY DEF State

(* What is read from the constants. *)
LEMMA Values ==
  /\ MaxTime \in Nat /\ 1 \in 0..MaxTime /\ MaxRestarts \in Nat /\ MaxChanges \in Nat
  /\ Updater \subseteq Request /\ Dequeuer \subseteq Request /\ NoCall \notin Request
  /\ NoFile \notin State /\ NoAlbum \notin Album
  /\ \A u \in Updater : u \notin Dequeuer
BY LastAlbumsAssumption DEF Request, State

(* The albums of a queue are albums. *)
LEMMA InType ==
  ASSUME NEW la \in State
  PROVE  /\ In(la) \subseteq Album /\ la.time \in Nat /\ la.time \in 0..MaxTime
         /\ la.queue \in Seq(Album) /\ Len(la.queue) \in Nat
         /\ \A i \in 1..Len(la.queue) : la.queue[i] \in Album /\ la.queue[i] \in In(la)
BY Values DEF State, In

(* The head of a sequence, and its tail. *)
LEMMA Mailbox ==
  ASSUME NEW S, NEW q \in Seq(S), q # <<>>
  PROVE  /\ Head(q) \in S /\ Head(q) = q[1] /\ Tail(q) \in Seq(S)
         /\ Len(q) \in Nat /\ Len(q) >= 1 /\ Len(Tail(q)) = Len(q) - 1
         /\ \A i \in 1..Len(q) - 1 : Tail(q)[i] = q[i + 1]
OBVIOUS

(* Zero, and what a request has before it reads, are ordered values. *)
LEMMA ZeroValue ==
  ASSUME NEW m, NEW seen, NEW still, NEW t \in 1..MaxTime
  PROVE  /\ [queue |-> <<>>, time |-> t] \in State
         /\ Ordered([queue |-> <<>>, time |-> t], m, t, seen, still)
         /\ NoState \in State /\ Ordered(NoState, m, t, seen, still)
         /\ Follows(NoState, NoState, m, still) /\ In(NoState) = {}
BY Values DEF NoState, State, Ordered, In, Follows
-----------------------------------------------------------------------------
(* The pure operations of class LastAlbums. *)

(* A sorted sequence has all the albums in it, each once. *)
LEMMA SortedValue ==
  ASSUME NEW albums \in SUBSET Album, NEW q \in Sorted(albums)
  PROVE  /\ q \in Seq(Album)
         /\ \A i \in 1..Len(q) : q[i] \in albums
         /\ \A i, j \in 1..Len(q) : i < j => mtime[q[i]] <= mtime[q[j]] /\ q[i] # q[j]
         /\ \A a \in albums : \E i \in 1..Len(q) : q[i] = a
<1> DEFINE n == Cardinality(albums)
<1>1. IsFiniteSet(albums) /\ n \in Nat
  BY FS_Subset, FS_CardinalityType, LastAlbumsAssumption
<1>2. /\ q \in [1..n -> albums]
      /\ \A i, j \in DOMAIN q : i < j => mtime[q[i]] <= mtime[q[j]] /\ q[i] # q[j]
  BY DEF Sorted
<1>3. Cardinality(1..n) = n
  BY <1>1, FS_Interval
<1> HIDE DEF n
<1>4. q \in Seq(Album) /\ Len(q) = n /\ DOMAIN q = 1..n /\ \A i \in 1..n : q[i] \in albums
  BY <1>1, <1>2
<1>5. ASSUME NEW i \in 1..n, NEW j \in 1..n, q[i] = q[j] PROVE i = j
  <2>1. ~(i < j) /\ ~(j < i)
    BY <1>2, <1>4, <1>5
  <2> QED
    BY <1>1, <2>1
<1>6. q \in Injection(1..n, albums)
  BY <1>2, <1>4, <1>5 DEF Injection, IsInjective
<1>7. q \in Surjection(1..n, albums)
  BY <1>1, <1>3, <1>6, FS_Injection DEF n
<1>8. \A a \in albums : \E i \in 1..n : q[i] = a
  BY <1>7 DEF Surjection
<1> QED
  BY <1>2, <1>4, <1>8

(* enqueue yields an ordered value that follows the one it was given, keeps what
   was in it and adds the album if it is newer. *)
LEMMA EnqueuedValue ==
  ASSUME NEW la \in State, NEW a \in Album, mtime \in [Album -> 0..MaxTime]
  PROVE  LET lb == Enqueued(la, a)
         IN /\ lb \in State /\ la.time <= lb.time
            /\ In(lb) = IF mtime[a] <= la.time THEN In(la) ELSE In(la) \cup {a}
            /\ lb.time = IF mtime[a] <= la.time THEN la.time ELSE mtime[a]
            /\ \A seen, still, t : /\ Ordered(la, mtime, t, seen, still) /\ a \in seen
                                   /\ t \in Nat /\ mtime[a] <= t
                                   => Ordered(lb, mtime, t, seen, still)
<1> DEFINE lb == Enqueued(la, a)
           q == la.queue
<1>0. /\ q \in Seq(Album) /\ la.time \in Nat /\ Len(q) \in Nat /\ mtime[a] \in 0..MaxTime
      /\ mtime[a] \in Nat /\ \A i \in 1..Len(q) : q[i] \in Album
      /\ \A b \in Album : mtime[b] \in Nat
  BY InType, Values
<1>1. CASE mtime[a] <= la.time
  BY <1>0, <1>1 DEF Enqueued
<1>2. CASE ~(mtime[a] <= la.time)
  <2>1. lb = [queue |-> Append(q, a), time |-> mtime[a]]
    BY <1>2 DEF Enqueued
  <2>2. /\ Append(q, a) \in Seq(Album) /\ Len(Append(q, a)) = Len(q) + 1
        /\ \A i \in 1..Len(q) : Append(q, a)[i] = q[i]
        /\ Append(q, a)[Len(q) + 1] = a
    BY <1>0
  <2>3. lb \in State /\ lb.queue = Append(q, a) /\ lb.time = mtime[a]
    BY <1>0, <2>1, <2>2 DEF State
  <2> HIDE DEF lb
  <2>4. 1..Len(lb.queue) = 1..Len(q) \cup {Len(q) + 1}
    BY <1>0, <2>2, <2>3
  <2>5. In(lb) = In(la) \cup {a}
    BY <2>2, <2>3, <2>4 DEF In
  <2>6. ASSUME NEW seen, NEW still, NEW t, Ordered(la, mtime, t, seen, still), a \in seen,
               t \in Nat, mtime[a] <= t
        PROVE  Ordered(lb, mtime, t, seen, still)
    <3>1. In(lb) \subseteq seen
      BY <2>5, <2>6 DEF Ordered
    <3>2. \A i \in 1..Len(q) : lb.queue[i] = q[i]
      BY <2>2, <2>3
    <3>3. lb.queue[Len(q) + 1] = a
      BY <2>2, <2>3
    <3>4. \A i \in 1..Len(q) : q[i] \in still => mtime[q[i]] <= la.time
      BY <2>6 DEF Ordered
    <3>5. ASSUME NEW i \in 1..Len(lb.queue), lb.queue[i] \in still
          PROVE  mtime[lb.queue[i]] <= lb.time
      BY <1>0, <1>2, <2>3, <2>4, <3>2, <3>3, <3>4, <3>5
    <3>6. ASSUME NEW i \in 1..Len(lb.queue), NEW j \in 1..Len(lb.queue), i < j,
                 lb.queue[i] \in still, lb.queue[j] \in still
          PROVE  mtime[lb.queue[i]] < mtime[lb.queue[j]]
      <4>0. i \in 1..Len(q) + 1 /\ j \in 1..Len(q) + 1
        BY <2>2, <2>3
      <4>1. i \in 1..Len(q)
        BY ONLY <1>0, <3>6, <4>0
      <4>2. CASE j \in 1..Len(q)
        BY <2>6, <3>2, <3>6, <4>1, <4>2 DEF Ordered
      <4>3. CASE j = Len(q) + 1
        <5>1. /\ lb.queue[i] = q[i] /\ lb.queue[j] = a /\ mtime[q[i]] <= la.time
              /\ mtime[q[i]] \in Nat
          BY <1>0, <3>2, <3>3, <3>4, <3>6, <4>1, <4>3
        <5> QED
          BY ONLY <1>0, <1>2, <5>1
      <4> QED
        BY <2>4, <4>2, <4>3
    <3> QED
      BY <2>3, <2>6, <3>1, <3>5, <3>6 DEF Ordered
  <2>7. lb.time >= la.time
    BY <1>0, <1>2, <2>3
  <2> QED
    BY <1>0, <1>2, <2>3, <2>5, <2>6, <2>7 DEF lb
<1> QED
  BY <1>1, <1>2

(* dequeue keeps the order and the time; the album it yields has left for good
   if it stood still, and those skipped were not there any more. *)
LEMMA DequeuedValue ==
  ASSUME NEW la \in State, NEW i \in FirstPresent(la), mtime \in [Album -> Nat]
  PROVE  LET lb == AfterDequeue(la, i)
             a == la.queue[i]
         IN /\ lb \in State /\ lb.time = la.time /\ a \in Album /\ a \in In(la) /\ a \in exists
            /\ In(lb) \subseteq In(la)
            /\ \A b \in In(la) : b \in exists => b = a \/ b \in In(lb)
            /\ \A seen, still, t : Ordered(la, mtime, t, seen, still) =>
                 /\ Ordered(lb, mtime, t, seen, still)
                 /\ a \in still /\ mtime[a] > 0 => Gone(a, lb, mtime)
<1> DEFINE lb == AfterDequeue(la, i)
           q == la.queue
<1>0. /\ q \in Seq(Album) /\ la.time \in Nat /\ Len(q) \in Nat
      /\ i \in 1..Len(q) /\ i \in Nat /\ q[i] \in exists
      /\ \A j \in 1..Len(q) : q[j] \in exists => i <= j
      /\ \A j \in 1..Len(q) : q[j] \in Album
  BY InType DEF FirstPresent, Present
<1>1. SubSeq(q, i + 1, Len(q)) \in Seq(Album)
  BY <1>0, Dropped
<1>2. lb \in State /\ lb.time = la.time /\ lb.queue = SubSeq(q, i + 1, Len(q))
  BY <1>1, Requeued DEF AfterDequeue
<1>3. /\ lb.queue \in Seq(Album) /\ Len(lb.queue) = Len(q) - i
      /\ \A j \in 1..Len(q) - i : lb.queue[j] = q[i + j]
  BY <1>0, <1>2, Dropped
<1>4. \A j \in 1..Len(q) - i : i + j \in 1..Len(q) /\ i + j > i
  BY <1>0
<1> HIDE DEF lb
<1>5. In(lb) \subseteq In(la)
  BY <1>3, <1>4 DEF In
<1>6. ASSUME NEW seen, NEW still, NEW t, Ordered(la, mtime, t, seen, still)
      PROVE  /\ Ordered(lb, mtime, t, seen, still)
             /\ q[i] \in still /\ mtime[q[i]] > 0 => Gone(q[i], lb, mtime)
  <2>1. ASSUME NEW j \in 1..Len(q) - i, NEW k \in 1..Len(q) - i, j < k,
               lb.queue[j] \in still, lb.queue[k] \in still
        PROVE  mtime[lb.queue[j]] < mtime[lb.queue[k]]
    <3>1. i + j < i + k
      BY <1>0, <2>1
    <3> QED
      BY <1>3, <1>4, <1>6, <2>1, <3>1 DEF Ordered
  <2>2. ASSUME NEW j \in 1..Len(q) - i, lb.queue[j] \in still
        PROVE  mtime[lb.queue[j]] <= lb.time
    BY <1>3, <1>4, <1>2, <1>6, <2>2 DEF Ordered
  <2>3. Ordered(lb, mtime, t, seen, still)
    BY <1>3, <1>2, <1>5, <1>6, <2>1, <2>2 DEF Ordered
  <2>4. ASSUME q[i] \in still, mtime[q[i]] > 0 PROVE Gone(q[i], lb, mtime)
    <3>1. mtime[q[i]] <= la.time
      BY <1>0, <1>6, <2>4 DEF Ordered
    <3>2. ASSUME NEW j \in 1..Len(q) - i PROVE lb.queue[j] # q[i]
      <4>1. SUFFICES ASSUME q[i + j] = q[i] PROVE FALSE
        BY <1>3
      <4>2. mtime[q[i]] < mtime[q[i + j]]
        BY <1>0, <1>4, <1>6, <2>4, <4>1 DEF Ordered
      <4> QED
        BY <1>0, <1>4, <4>1, <4>2
    <3> QED
      BY <1>3, <1>2, <2>4, <3>1, <3>2 DEF Gone, In
  <2> QED
    BY <2>3, <2>4
<1>8. ASSUME NEW b \in In(la), b \in exists PROVE b = q[i] \/ b \in In(lb)
  <2>1. PICK j \in 1..Len(q) : b = q[j]
    BY DEF In
  <2>2. i <= j
    BY <1>0, <1>8, <2>1
  <2>3. CASE j > i
    <3>1. j - i \in 1..Len(q) - i /\ i + (j - i) = j
      BY <1>0, <2>3
    <3> QED
      BY <1>3, <2>1, <3>1 DEF In
  <2> QED
    BY <1>0, <2>1, <2>2, <2>3
<1>9. q[i] \in Album /\ q[i] \in In(la)
  BY <1>0 DEF In
<1> QED
  BY <1>0, <1>2, <1>5, <1>6, <1>8, <1>9 DEF lb
-----------------------------------------------------------------------------
(* Layer 1: types, and who a run serves. *)

(* Types, Line and Basis hold when the program is first started. *)
LEMMA TypeInit == Init => TypeOK /\ Line /\ Basis
<1> SUFFICES ASSUME Init PROVE TypeOK /\ Line /\ Basis
  OBVIOUS
<1>1. clock = 1 /\ clock \in 1..MaxTime
  BY LastAlbumsAssumption DEF Init
<1>2. Zero \in State /\ NoState \in State
  BY <1>1, ZeroValue DEF Zero
<1>3. Unique!TypeOK
  BY DEF Init, Unique!Init, Unique!TypeOK, Unique!Status
<1>4. TypeOK
  <2>1. /\ clock \in 1..MaxTime /\ mtime \in [Album -> 0..MaxTime] /\ exists \subseteq Album
        /\ value \in State /\ (disk = NoFile \/ disk \in State)
        /\ mailbox \in Seq(Request) /\ saving \in Request \cup {NoCall}
    BY <1>1, <1>2, Values DEF Init
  <2>2. /\ since \in [Updater -> 0..MaxTime] /\ walked \in [Updater -> SUBSET Album]
        /\ found \in [Updater -> {"none", "walking", "failed", "done"}]
        /\ pc \in [Request -> {"idle", "asking", "folding", "read", "setting", "done",
                               "failed", "lost"}]
        /\ out \in [Dequeuer -> Album \cup {NoAlbum}]
    BY Values DEF Init
  <2>3. base \in [Request -> State] /\ next \in [Request -> State] /\ todo \in [Updater -> Seq(Album)]
    BY <1>2 DEF Init
  <2>4. /\ restarts \in 0..MaxRestarts /\ raced \in BOOLEAN /\ excused \subseteq Album
        /\ changes \in 0..MaxChanges /\ touched \subseteq Album
    <3>1. restarts = 0 /\ raced = FALSE /\ excused = {} /\ changes = 0 /\ touched = {}
      BY DEF Init
    <3>2. 0 \in 0..MaxRestarts /\ 0 \in 0..MaxChanges
      BY Values
    <3> QED
      BY <3>1, <3>2
  <2> QED
    BY <1>3, <2>1, <2>2, <2>3, <2>4 DEF TypeOK
<1>5. Basis
  <2>1. \A u \in Updater : /\ pc[u] = "idle" /\ status[u] = "idle" /\ found[u] = "none"
                           /\ walked[u] = {}
    BY Values DEF Init, Unique!Init
  <2> QED
    BY <2>1 DEF Basis
<1>6. Line
  <2>1. saving = NoCall /\ Len(mailbox) = 0
    BY DEF Init
  <2> QED
    BY <2>1 DEF Line
<1> QED
  BY <1>4, <1>5, <1>6

(* Every step keeps the types. *)
LEMMA TypeNext == TypeOK /\ Line /\ Basis /\ [Next]_vars => TypeOK'
<1> SUFFICES ASSUME TypeOK, Line, Basis, [Next]_vars PROVE TypeOK'
  OBVIOUS
<1> USE DEF TypeOK, files, actor, unique, scans, requests, history, Unique!TypeOK
<1>0. NoState \in State /\ Updater \subseteq Request /\ Dequeuer \subseteq Request
  BY Values, ZeroValue DEF NoState, State
<1>a. ASSUME NEW R, Forget(R)
      PROVE  /\ base' \in [Request -> State] /\ next' \in [Request -> State]
             /\ todo' \in [Updater -> Seq(Album)]
  BY <1>0, <1>a DEF Forget
<1>b. ASSUME NEW r \in Request, NEW how \in {"done", "failed"}, Finish(r, how) PROVE TypeOK'
  BY <1>a, <1>b DEF Finish
<1>1. ASSUME NEW a \in Album, Written(a) PROVE TypeOK'
  <2>1. PICK t \in {clock, clock + 1} \cap 1..MaxTime :
          /\ clock' = t /\ mtime' = [mtime EXCEPT ![a] = t]
          /\ excused' \subseteq Album /\ touched' \subseteq Album
    BY <1>1 DEF Written
  <2>2. changes' \in 0..MaxChanges
    BY <1>1, Values DEF Written
  <2> QED
    BY <1>1, <2>1, <2>2, Values DEF Written
<1>2. ASSUME NEW a \in Album, Deleted(a) PROVE TypeOK'
  <2>1. changes' \in 0..MaxChanges
    BY <1>2, Values DEF Deleted
  <2> QED
    BY <1>2, <2>1 DEF Deleted
<1>3. ASSUME NEW u \in Updater, Update(u) PROVE TypeOK'
  BY <1>3, Values DEF Update, Unique!Invoke, Unique!Status
<1>4. ASSUME NEW u \in Updater, ScanStart(u) PROVE TypeOK'
  BY <1>4 DEF ScanStart, Unique!Lead, Unique!Board, Unique!Status, State
<1>5. ASSUME NEW u \in Updater, ScanShared(u) PROVE TypeOK'
  BY <1>5 DEF ScanShared, Unique!Join, Unique!Board, Unique!Status
<1>6. ASSUME NEW u \in Updater, ScanEnd(u) PROVE TypeOK'
  <2>1. 0 \in 0..MaxTime
    BY Values
  <2> QED
    BY <1>6, <2>1 DEF ScanEnd
<1>7. ASSUME NEW u \in Updater, ScanFails(u) PROVE TypeOK'
  <2>1. 0 \in 0..MaxTime
    BY Values
  <2> QED
    BY <1>7, <2>1 DEF ScanFails
<1>8. ASSUME NEW u \in Updater, ScanAnswered(u) PROVE TypeOK'
  BY <1>8 DEF ScanAnswered, Unique!Land, Unique!Status
<1>9. ASSUME NEW u \in Updater, UpdateRead(u) PROVE TypeOK'
  <2>1. PICK q \in Sorted(walked[servedBy[u]]) :
          /\ todo' = [todo EXCEPT ![u] = q]
          /\ pc' = [pc EXCEPT ![u] = IF q = <<>> THEN "read" ELSE "folding"]
    BY <1>9 DEF UpdateRead
  <2>2. walked[servedBy[u]] \subseteq Album
    BY <1>9 DEF UpdateRead, Basis
  <2>3. q \in Seq(Album)
    BY <2>2, SortedValue
  <2> QED
    BY <1>0, <1>9, <2>1, <2>3 DEF UpdateRead
<1>10. ASSUME NEW u \in Updater, UpdateFold(u) PROVE TypeOK'
  <2>1. Head(todo[u]) \in Album /\ Tail(todo[u]) \in Seq(Album)
    BY <1>10, Mailbox DEF UpdateFold, Basis
  <2>2. Enqueued(next[u], Head(todo[u])) \in State
    BY <1>0, <2>1, EnqueuedValue
  <2> QED
    BY <1>0, <1>10, <2>1, <2>2 DEF UpdateFold
<1>11. ASSUME NEW u \in Updater, UpdateFails(u) PROVE TypeOK'
  BY <1>0, <1>b, <1>11 DEF UpdateFails
<1>12. ASSUME NEW d \in Dequeuer, DequeueRead(d) PROVE TypeOK'
  <2>1. PICK i \in FirstPresent(value) : /\ next' = [next EXCEPT ![d] = AfterDequeue(value, i)]
                                         /\ out' = [out EXCEPT ![d] = value.queue[i]]
    BY <1>12 DEF DequeueRead
  <2>2. mtime \in [Album -> Nat]
    BY Values
  <2>3. AfterDequeue(value, i) \in State /\ value.queue[i] \in Album
    BY <2>2, DequeuedValue
  <2> QED
    BY <1>0, <1>12, <2>1, <2>3 DEF DequeueRead
<1>13. ASSUME NEW d \in Dequeuer, DequeueEmpty(d) PROVE TypeOK'
  BY <1>0, <1>b, <1>13 DEF DequeueEmpty
<1>14. ASSUME NEW r \in Request, Set(r) PROVE TypeOK'
  BY <1>14 DEF Set
<1>15. CASE Assign
  <2>1. Head(mailbox) \in Request
    BY <1>15, Mailbox DEF Assign
  <2> QED
    BY <1>15, <2>1 DEF Assign
<1>16. CASE Keep
  <2>1. Head(mailbox) \in Request /\ Tail(mailbox) \in Seq(Request)
    BY <1>16, Mailbox DEF Keep
  <2> QED
    BY <1>a, <1>16, <2>1 DEF Keep
<1>17. ASSUME NEW how \in {"done", "failed"}, Answer(how)
       PROVE  /\ pc' \in [Request -> {"idle", "asking", "folding", "read", "setting", "done",
                                      "failed", "lost"}]
              /\ mailbox' \in Seq(Request) /\ saving' \in Request \cup {NoCall}
  <2>1. mailbox # <<>> /\ saving \in Request /\ Tail(mailbox) \in Seq(Request)
    BY <1>17, Mailbox DEF Answer, Line
  <2> QED
    BY <1>17, <2>1 DEF Answer
<1>18. CASE Save
  BY <1>a, <1>17, <1>18 DEF Save, Answer
<1>19. CASE SaveFails
  BY <1>17, <1>19 DEF SaveFails, Answer
<1>20. CASE Restart
  <2>1. value' \in State
    BY <1>20, ZeroValue DEF Restart, Zero
  <2>2. 0 \in 0..MaxTime /\ restarts' \in 0..MaxRestarts
    BY <1>20, Values DEF Restart
  <2> QED
    BY <1>a, <1>20, <2>1, <2>2, Values DEF Restart, Unique!Status
<1>21. CASE UNCHANGED vars
  BY <1>21 DEF vars
<1> QED
  BY <1>1, <1>2, <1>3, <1>4, <1>5, <1>6, <1>7, <1>8, <1>9, <1>10, <1>11, <1>12, <1>13,
     <1>14, <1>15, <1>16, <1>18, <1>19, <1>20, <1>21 DEF Next

(* The mailbox and its head, without the head. *)
LEMMA Served ==
  ASSUME TypeOK, Line, mailbox # <<>>, NEW r, r = Head(mailbox)
  PROVE  /\ r \in Request /\ pc[r] = "setting"
         /\ Tail(mailbox) \in Seq(Request)
         /\ \A i \in 1..Len(Tail(mailbox)) :
              Tail(mailbox)[i] # r /\ pc[Tail(mailbox)[i]] = "setting"
         /\ \A i, j \in 1..Len(Tail(mailbox)) : Tail(mailbox)[i] = Tail(mailbox)[j] => i = j
<1>1. /\ r \in Request /\ r = mailbox[1] /\ Tail(mailbox) \in Seq(Request)
      /\ Len(mailbox) \in Nat /\ Len(mailbox) >= 1 /\ Len(Tail(mailbox)) = Len(mailbox) - 1
      /\ \A i \in 1..Len(mailbox) - 1 : Tail(mailbox)[i] = mailbox[i + 1]
  BY Mailbox DEF TypeOK
<1>2. /\ \A i \in 1..Len(mailbox) : pc[mailbox[i]] = "setting"
      /\ \A i, j \in 1..Len(mailbox) : mailbox[i] = mailbox[j] => i = j
  BY DEF Line
<1>3. 1 \in 1..Len(mailbox)
  BY <1>1
<1>4. \A i \in 1..Len(mailbox) - 1 : i + 1 \in 1..Len(mailbox) /\ i + 1 # 1
  BY <1>1
<1>5. \A i, j \in 1..Len(mailbox) - 1 : i + 1 = j + 1 => i = j
  BY <1>1
<1> QED
  BY <1>1, <1>2, <1>3, <1>4, <1>5

(* Every request has one place in the mailbox. *)
LEMMA LineNext == TypeOK /\ Line /\ [Next]_vars => Line'
<1> SUFFICES ASSUME TypeOK, Line, [Next]_vars PROVE Line'
  OBVIOUS
<1> USE DEF files, actor, unique, scans, requests, history
<1>0. /\ mailbox \in Seq(Request) /\ pc \in [Request -> {"idle", "asking", "folding", "read",
           "setting", "done", "failed", "lost"}]
      /\ saving \in Request \cup {NoCall} /\ NoCall \notin Request
      /\ Updater \subseteq Request /\ Dequeuer \subseteq Request
      /\ \A i \in 1..Len(mailbox) : mailbox[i] \in Request
  BY Values DEF TypeOK
<1>1. ASSUME UNCHANGED <<mailbox, saving>>,
             \A r \in Request : pc[r] = "setting" => pc'[r] = "setting"
      PROVE  Line'
  BY <1>0, <1>1 DEF Line
<1>2. ASSUME NEW a \in Album, Written(a) \/ Deleted(a) PROVE Line'
  BY <1>1, <1>2 DEF Written, Deleted
<1>3. ASSUME NEW u \in Updater, ScanStart(u) \/ ScanShared(u) \/ ScanEnd(u) \/ ScanFails(u)
                               \/ ScanAnswered(u)
      PROVE  Line'
  BY <1>1, <1>3 DEF ScanStart, ScanShared, ScanEnd, ScanFails, ScanAnswered
<1>4. ASSUME NEW u \in Updater, Update(u) \/ UpdateRead(u) \/ UpdateFold(u) \/ UpdateFails(u)
      PROVE  Line'
  <2>1. UNCHANGED <<mailbox, saving>> /\ pc[u] # "setting"
        /\ \A r \in Request : r # u => pc'[r] = pc[r]
    BY <1>0, <1>4 DEF Update, UpdateRead, UpdateFold, UpdateFails, Finish
  <2> QED
    BY <1>1, <2>1
<1>5. ASSUME NEW d \in Dequeuer, DequeueRead(d) \/ DequeueEmpty(d) PROVE Line'
  <2>1. UNCHANGED <<mailbox, saving>> /\ pc[d] # "setting"
        /\ \A r \in Request : r # d => pc'[r] = pc[r]
    BY <1>0, <1>5 DEF DequeueRead, DequeueEmpty, Finish
  <2> QED
    BY <1>1, <2>1
<1>6. ASSUME NEW r \in Request, Set(r) PROVE Line'
  <2>1. /\ pc[r] = "read" /\ pc' = [pc EXCEPT ![r] = "setting"] /\ mailbox' = Append(mailbox, r)
        /\ UNCHANGED saving
    BY <1>6 DEF Set
  <2>2. /\ Len(mailbox') = Len(mailbox) + 1 /\ Len(mailbox) \in Nat
        /\ mailbox'[Len(mailbox) + 1] = r
        /\ \A i \in 1..Len(mailbox) : mailbox'[i] = mailbox[i]
        /\ mailbox # <<>> => mailbox' # <<>> /\ Head(mailbox') = Head(mailbox)
    BY <1>0, <2>1
  <2>3. \A i \in 1..Len(mailbox) : mailbox[i] # r
    BY <1>0, <2>1 DEF Line
  <2>4. 1..Len(mailbox') = 1..Len(mailbox) \cup {Len(mailbox) + 1}
    BY <2>2
  <2>5. ASSUME NEW i \in 1..Len(mailbox') PROVE pc'[mailbox'[i]] = "setting"
    BY <1>0, <2>1, <2>2, <2>3, <2>4 DEF Line
  <2>6. ASSUME NEW i \in 1..Len(mailbox'), NEW j \in 1..Len(mailbox'), mailbox'[i] = mailbox'[j]
        PROVE  i = j
    BY <2>2, <2>3, <2>4, <2>6 DEF Line
  <2> QED
    BY <2>1, <2>2, <2>5, <2>6 DEF Line
<1>7. CASE Assign
  BY <1>7 DEF Assign, Line
<1>8. ASSUME mailbox # <<>>, mailbox' = Tail(mailbox), NEW how,
             pc' = [pc EXCEPT ![Head(mailbox)] = how], saving' = NoCall
      PROVE  Line'
  <2>1. /\ \A i \in 1..Len(mailbox') :
             mailbox'[i] # Head(mailbox) /\ pc[mailbox'[i]] = "setting" /\ mailbox'[i] \in Request
        /\ \A i, j \in 1..Len(mailbox') : mailbox'[i] = mailbox'[j] => i = j
    <3>1. /\ Tail(mailbox) \in Seq(Request)
          /\ \A i \in 1..Len(Tail(mailbox)) :
               Tail(mailbox)[i] # Head(mailbox) /\ pc[Tail(mailbox)[i]] = "setting"
          /\ \A i, j \in 1..Len(Tail(mailbox)) : Tail(mailbox)[i] = Tail(mailbox)[j] => i = j
      BY <1>8, Served
    <3>2. \A i \in 1..Len(Tail(mailbox)) : Tail(mailbox)[i] \in Request
      BY <3>1
    <3> QED
      BY <1>8, <3>1, <3>2
  <2>2. \A i \in 1..Len(mailbox') : pc'[mailbox'[i]] = "setting"
    BY <1>0, <1>8, <2>1
  <2> QED
    BY <1>8, <2>1, <2>2 DEF Line
<1>9. CASE Keep
  BY <1>8, <1>9 DEF Keep
<1>10. CASE Save \/ SaveFails
  BY <1>8, <1>10 DEF Save, SaveFails, Answer, Line
<1>11. CASE Restart
  <2>1. mailbox' = <<>> /\ saving' = NoCall /\ Len(mailbox') = 0
    BY <1>11 DEF Restart
  <2> QED
    BY <2>1 DEF Line
<1>12. CASE UNCHANGED vars
  BY <1>1, <1>12 DEF vars
<1> QED
  BY <1>2, <1>3, <1>4, <1>5, <1>6, <1>7, <1>9, <1>10, <1>11, <1>12 DEF Next

(* Every step keeps to what a run serves and found. *)
LEMMA BasisNext == TypeOK /\ Line /\ Basis /\ [Next]_vars => Basis'
<1> SUFFICES ASSUME TypeOK, Line, Basis, [Next]_vars PROVE Basis'
  OBVIOUS
<1> USE DEF Basis, files, actor, unique, scans, requests, history
<1>0. /\ mailbox \in Seq(Request) /\ pc \in [Request -> {"idle", "asking", "folding", "read",
           "setting", "done", "failed", "lost"}]
      /\ status \in [Updater -> Unique!Status] /\ servedBy \in [Updater -> Updater \cup {NoCall}]
      /\ found \in [Updater -> {"none", "walking", "failed", "done"}]
      /\ walked \in [Updater -> SUBSET Album] /\ todo \in [Updater -> Seq(Album)]
      /\ saving \in Request \cup {NoCall} /\ NoCall \notin Request
      /\ Updater \subseteq Request /\ Dequeuer \subseteq Request
      /\ \A u \in Updater : u \notin Dequeuer
  BY Values DEF TypeOK, Unique!TypeOK
<1>1. CASE UNCHANGED <<pc, status, servedBy, found, walked, todo>>
  BY <1>1
<1>2. ASSUME NEW a \in Album, Written(a) PROVE Basis'
  BY <1>1, <1>2 DEF Written
<1>3. ASSUME NEW a \in Album, Deleted(a) PROVE Basis'
  BY <1>0, <1>3 DEF Deleted
<1>4. ASSUME NEW u \in Updater, Update(u) PROVE Basis'
  BY <1>0, <1>4 DEF Update, Unique!Invoke
<1>5. ASSUME NEW u \in Updater, ScanStart(u) PROVE Basis'
  BY <1>0, <1>5 DEF ScanStart, Unique!Open, Unique!Lead, Unique!Board
<1>6. ASSUME NEW u \in Updater, ScanShared(u) PROVE Basis'
  BY <1>0, <1>6 DEF ScanShared, Unique!Join, Unique!Board, Unique!Open
<1>7. ASSUME NEW u \in Updater, ScanEnd(u) \/ ScanFails(u) PROVE Basis'
  <2>1. /\ found[u] = "walking" /\ found'[u] \in {"done", "failed"}
        /\ \A v \in Updater : v # u => found'[v] = found[v] /\ walked'[v] = walked[v]
        /\ UNCHANGED <<pc, status, servedBy, todo>>
    BY <1>0, <1>7 DEF ScanEnd, ScanFails
  <2>2. status[u] \notin {"idle", "waiting"} /\ pc[u] # "idle"
    BY <2>1
  <2>3. \A v \in Updater : pc[v] = "folding" => servedBy[v] # u
    BY <2>1
  <2> QED
    BY <1>0, <2>1, <2>2, <2>3
<1>8. ASSUME NEW u \in Updater, ScanAnswered(u) PROVE Basis'
  BY <1>0, <1>8 DEF ScanAnswered, Unique!Land
<1>9. ASSUME NEW u \in Updater, UpdateRead(u) PROVE Basis'
  <2>1. PICK q \in Sorted(walked[servedBy[u]]) :
          /\ todo' = [todo EXCEPT ![u] = q]
          /\ pc' = [pc EXCEPT ![u] = IF q = <<>> THEN "read" ELSE "folding"]
    BY <1>9 DEF UpdateRead
  <2>2. walked[servedBy[u]] \subseteq Album /\ servedBy[u] \in Updater
    BY <1>0, <1>9 DEF UpdateRead
  <2>3. \A i \in 1..Len(q) : q[i] \in walked[servedBy[u]]
    BY <2>2, SortedValue
  <2> QED
    BY <1>0, <1>9, <2>1, <2>2, <2>3 DEF UpdateRead
<1>10. ASSUME NEW u \in Updater, UpdateFold(u) PROVE Basis'
  <2>1. todo[u] # <<>> /\ todo[u] \in Seq(Album)
        /\ \A i \in 1..Len(todo[u]) : todo[u][i] \in walked[servedBy[u]]
    BY <1>0, <1>10 DEF UpdateFold
  <2>2. \A i \in 1..Len(Tail(todo[u])) : Tail(todo[u])[i] \in walked[servedBy[u]]
    BY <2>1, Mailbox
  <2> QED
    BY <1>0, <1>10, <2>2 DEF UpdateFold
<1>11. ASSUME NEW r \in Request, NEW how \in {"done", "failed"}, pc' = [pc EXCEPT ![r] = how],
              pc[r] = "idle" => r \notin Updater,
              r \in Updater => status[r] \notin {"waiting", "aboard"}, Forget({r}),
              UNCHANGED <<status, servedBy, found, walked>>
       PROVE  Basis'
  BY <1>0, <1>11 DEF Forget
<1>12. ASSUME NEW u \in Updater, UpdateFails(u) PROVE Basis'
  BY <1>0, <1>11, <1>12 DEF UpdateFails, Finish
<1>13. ASSUME NEW d \in Dequeuer, DequeueEmpty(d) PROVE Basis'
  BY <1>0, <1>11, <1>13 DEF DequeueEmpty, Finish
<1>14. ASSUME NEW d \in Dequeuer, DequeueRead(d) PROVE Basis'
  BY <1>0, <1>14 DEF DequeueRead
<1>15. ASSUME NEW r \in Request, Set(r) PROVE Basis'
  BY <1>0, <1>15 DEF Set
<1>16. CASE Assign
  BY <1>1, <1>16 DEF Assign
<1>17. CASE Keep
  <2>1. Head(mailbox) \in Request /\ pc[Head(mailbox)] = "setting"
    BY <1>17, Served DEF Keep
  <2> QED
    BY <1>0, <1>11, <1>17, <2>1 DEF Keep
<1>18. CASE Save
  <2>1. saving \in Request /\ pc[saving] = "setting"
    BY <1>18, Served DEF Save, Answer, Line
  <2> QED
    BY <1>0, <1>11, <1>18, <2>1 DEF Save, Answer
<1>19. CASE SaveFails
  <2>1. saving \in Request /\ pc[saving] = "setting"
    BY <1>19, Served DEF SaveFails, Answer, Line
  <2>2. /\ UNCHANGED <<status, servedBy, found, walked, todo>>
        /\ pc' = [pc EXCEPT ![saving] = "failed"]
    BY <1>19 DEF SaveFails, Answer
  <2> QED
    BY <1>0, <2>1, <2>2
<1>20. CASE Restart
  BY <1>0, <1>20 DEF Restart
<1>21. CASE UNCHANGED vars
  BY <1>1, <1>21 DEF vars
<1> QED
  BY <1>2, <1>3, <1>4, <1>5, <1>6, <1>7, <1>8, <1>9, <1>10, <1>12, <1>13, <1>14, <1>15,
     <1>16, <1>17, <1>18, <1>19, <1>20, <1>21 DEF Next

(* Layer 1 holds in every state. *)
Layer1 == TypeOK /\ Line /\ Basis
LEMMA Layer1Invariance == Spec => []Layer1
<1>1. Init => Layer1
  BY TypeInit DEF Layer1
<1>2. Layer1 /\ [Next]_vars => Layer1'
  BY TypeNext, LineNext, BasisNext DEF Layer1
<1> QED
  BY <1>1, <1>2, PTL DEF Spec

(* Every variable of the queue, its file, its actor, the scans and the requests
   keeps its type. *)
THEOREM TypeCorrect == Spec => []TypeOK
<1>1. Layer1 => TypeOK
  BY DEF Layer1
<1> QED
  BY <1>1, Layer1Invariance, PTL
-----------------------------------------------------------------------------
(* Layer 2: the order of every value there is. *)

(* What is known of a value stays known as time goes by, more albums are seen
   and some of those move. *)
LEMMA Later ==
  ASSUME NEW m \in [Album -> Nat], NEW n \in [Album -> Nat],
         NEW t \in Nat, NEW u \in Nat, t <= u,
         NEW seen, NEW more, seen \subseteq more, NEW still, NEW less, less \subseteq still,
         \A a \in seen \cap less : n[a] = m[a]
  PROVE  /\ \A la \in State : Ordered(la, m, t, seen, still) => Ordered(la, n, u, more, less)
         /\ \A la \in State, a \in seen \cap less : Gone(a, la, m) => Gone(a, la, n)
         /\ \A la \in State, lb \in State :
              Ordered(lb, m, t, seen, still) /\ Follows(la, lb, m, still) => Follows(la, lb, n, less)
<1>1. ASSUME NEW la \in State, Ordered(la, m, t, seen, still) PROVE Ordered(la, n, u, more, less)
  <2>1. la.time \in Nat /\ \A i \in 1..Len(la.queue) : la.queue[i] \in In(la)
    BY InType
  <2>2. \A i \in 1..Len(la.queue) : la.queue[i] \in less =>
          la.queue[i] \in still /\ n[la.queue[i]] = m[la.queue[i]]
    BY <1>1, <2>1 DEF Ordered
  <2>3. la.time <= u /\ In(la) \subseteq more
    BY <1>1, <2>1 DEF Ordered
  <2> QED
    BY <1>1, <2>2, <2>3 DEF Ordered
<1>2. ASSUME NEW la \in State, NEW a \in seen \cap less, Gone(a, la, m) PROVE Gone(a, la, n)
  BY <1>2 DEF Gone
<1>3. ASSUME NEW la \in State, NEW lb \in State, Ordered(lb, m, t, seen, still),
             Follows(la, lb, m, still)
      PROVE  Follows(la, lb, n, less)
  BY <1>3 DEF Follows, Ordered
<1> QED
  BY <1>1, <1>2, <1>3

(* Writing to an album gives it the time of the write, which is not before any
   other, and notes whether it had been found. *)
LEMMA Writing ==
  ASSUME TypeOK, NEW a \in Album, Written(a)
  PROVE  /\ clock' \in {clock, clock + 1} /\ exists' = exists \cup {a}
         /\ mtime'[a] = clock' /\ \A b \in Album : b # a => mtime'[b] = mtime[b]
         /\ (a \in Seen /\ mtime'[a] # mtime[a]) /\ mtime[a] <= clock => a \in touched'
         /\ touched \subseteq touched'
<1>1. PICK t \in {clock, clock + 1} \cap 1..MaxTime :
        /\ clock' = t /\ mtime' = [mtime EXCEPT ![a] = t]
        /\ touched' = IF a \in Seen /\ mtime[a] < t THEN touched \cup {a} ELSE touched
  BY DEF Written
<1>2. /\ mtime'[a] = clock' /\ mtime[a] \in Nat /\ clock \in Nat
      /\ \A b \in Album : b # a => mtime'[b] = mtime[b]
  BY <1>1, Values DEF TypeOK
<1>3. mtime[a] <= clock /\ mtime'[a] # mtime[a] => mtime[a] < t
  BY <1>1, <1>2
<1> QED
  BY <1>1, <1>2, <1>3 DEF Written

(* A step takes nothing from what walks have found, and what has been found and
   stands still keeps its time. *)
LEMMA Steady ==
  ASSUME Layer1, Times, [Next]_vars
  PROVE  /\ mtime \in [Album -> Nat] /\ mtime' \in [Album -> Nat]
         /\ clock \in Nat /\ clock' \in Nat /\ clock <= clock'
         /\ Seen \subseteq Seen' /\ Still' \subseteq Still
         /\ \A a \in Seen \cap Still' : mtime'[a] = mtime[a]
         /\ \A a \in Album : mtime'[a] <= clock' /\ (mtime[a] > 0 => mtime'[a] > 0)
         /\ \A a \in exists' : mtime'[a] > 0
<1> USE DEF files, actor, unique, scans, requests, history
<1>1. /\ mtime \in [Album -> Nat] /\ clock \in Nat /\ clock >= 1 /\ exists \subseteq Album
      /\ \A a \in Album : mtime[a] <= clock /\ mtime[a] \in Nat
      /\ \A a \in exists : mtime[a] > 0
      /\ found \in [Updater -> {"none", "walking", "failed", "done"}]
      /\ walked \in [Updater -> SUBSET Album] /\ touched \subseteq Album
  BY Values DEF Layer1, TypeOK, Times
<1>2. mtime' \in [Album -> Nat] /\ clock' \in Nat
  BY TypeNext, Values DEF Layer1, TypeOK
<1> DEFINE Quiet == UNCHANGED <<clock, mtime, touched>> /\ exists' \subseteq exists
           Grown == \A v \in Updater : found[v] # "walking" =>
                      walked[v] = {} \/ (walked[v] \subseteq walked'[v] /\ found'[v] # "walking")
<1>3. ASSUME Grown PROVE Seen \subseteq Seen'
  BY <1>3 DEF Seen
<1>4. ASSUME Quiet, Grown
      PROVE  /\ clock <= clock' /\ Seen \subseteq Seen' /\ Still' \subseteq Still
             /\ \A a \in Seen \cap Still' : mtime'[a] = mtime[a]
             /\ \A a \in Album : mtime'[a] <= clock' /\ (mtime[a] > 0 => mtime'[a] > 0)
             /\ \A a \in exists' : mtime'[a] > 0
  BY <1>1, <1>3, <1>4 DEF Still
<1> DEFINE Goal == /\ clock <= clock' /\ Seen \subseteq Seen' /\ Still' \subseteq Still
                   /\ \A a \in Seen \cap Still' : mtime'[a] = mtime[a]
                   /\ \A a \in Album : mtime'[a] <= clock' /\ (mtime[a] > 0 => mtime'[a] > 0)
                   /\ \A a \in exists' : mtime'[a] > 0
<1> SUFFICES Goal
  BY <1>1, <1>2
<1>5. ASSUME NEW a \in Album, Written(a) PROVE Goal
  <2>1. /\ clock' \in {clock, clock + 1} /\ exists' = exists \cup {a}
        /\ mtime'[a] = clock' /\ \A b \in Album : b # a => mtime'[b] = mtime[b]
        /\ a \in Seen /\ mtime'[a] # mtime[a] => a \in touched'
        /\ touched \subseteq touched'
    BY <1>1, <1>5, Writing DEF Layer1
  <2>2. UNCHANGED <<found, walked>>
    BY <1>5 DEF Written
  <2>3. Seen' = Seen /\ Still' \subseteq Still
    BY <2>1, <2>2 DEF Seen, Still
  <2>4. Seen \subseteq Album
    BY <1>1 DEF Seen
  <2>5. \A b \in Seen \cap Still' : mtime'[b] = mtime[b]
    BY <2>1, <2>4 DEF Still
  <2>6. ASSUME NEW b \in Album PROVE mtime'[b] <= clock' /\ (mtime[b] > 0 => mtime'[b] > 0)
    <3>1. CASE b = a
      BY <1>1, <2>1, <3>1
    <3>2. CASE b # a
      BY <1>1, <2>1, <3>2
    <3> QED
      BY <3>1, <3>2
  <2>7. \A b \in exists' : mtime'[b] > 0
    BY <1>1, <2>1
  <2> QED
    BY <1>1, <2>1, <2>3, <2>5, <2>6, <2>7
<1> HIDE DEF Goal
<1>6. ASSUME NEW a \in Album, Deleted(a) PROVE Quiet /\ Grown
  BY <1>1, <1>6 DEF Deleted
<1>7. ASSUME UNCHANGED <<files, scans, touched>> PROVE Quiet /\ Grown
  BY <1>7
<1>8. ASSUME NEW u \in Updater, ScanStart(u) PROVE Quiet /\ Grown
  <2>1. walked[u] = {}
    BY <1>8 DEF ScanStart, Unique!Lead, Unique!Board, Layer1, Basis
  <2> QED
    BY <1>1, <1>8, <2>1 DEF ScanStart
<1>9. ASSUME NEW u \in Updater, ScanEnd(u) \/ ScanFails(u) PROVE Quiet /\ Grown
  BY <1>1, <1>9 DEF ScanEnd, ScanFails
<1>10. ASSUME NEW u \in Updater, Update(u) \/ ScanShared(u) \/ ScanAnswered(u) \/ UpdateRead(u)
                                \/ UpdateFold(u) \/ UpdateFails(u)
       PROVE  Quiet /\ Grown
  BY <1>7, <1>10 DEF Update, ScanShared, ScanAnswered, UpdateRead, UpdateFold, UpdateFails, Finish
<1>11. ASSUME NEW d \in Dequeuer, DequeueRead(d) \/ DequeueEmpty(d) PROVE Quiet /\ Grown
  BY <1>7, <1>11 DEF DequeueRead, DequeueEmpty, Finish
<1>12. ASSUME NEW r \in Request, Set(r) PROVE Quiet /\ Grown
  BY <1>7, <1>12 DEF Set
<1>13. ASSUME Assign \/ Keep \/ Save \/ SaveFails PROVE Quiet /\ Grown
  BY <1>7, <1>13 DEF Assign, Keep, Save, SaveFails, Answer
<1>14. ASSUME Restart PROVE Quiet /\ Grown
  BY <1>1, <1>14 DEF Restart
<1>15. ASSUME UNCHANGED vars PROVE Quiet /\ Grown
  BY <1>7, <1>15 DEF vars
<1> HIDE DEF Quiet, Grown
<1>16. Goal \/ (Quiet /\ Grown)
  BY <1>5, <1>6, <1>8, <1>9, <1>10, <1>11, <1>12, <1>13, <1>14, <1>15 DEF Next
<1> QED
  BY <1>4, <1>16 DEF Goal

(* Every step computes ordered values only, and leaves the others ordered. *)
LEMMA TimesNext == Layer1 /\ Times /\ [Next]_vars => Times'
<1> SUFFICES ASSUME Layer1, Times, [Next]_vars PROVE Times'
  OBVIOUS
<1> DEFINE New(la) == Ordered(la, mtime', clock', Seen', Still')
           Pair(la, lb) == New(la) /\ New(lb) /\ Follows(la, lb, mtime', Still')
           Old(la) == Ordered(la, mtime, clock, Seen, Still)
<1>0. /\ value \in State /\ (disk # NoFile => disk \in State)
      /\ base \in [Request -> State] /\ next \in [Request -> State]
      /\ Updater \subseteq Request /\ Dequeuer \subseteq Request
      /\ exists \subseteq Album /\ walked \in [Updater -> SUBSET Album]
      /\ mtime \in [Album -> 0..MaxTime] /\ todo \in [Updater -> Seq(Album)]
  BY Values DEF Layer1, TypeOK
<1>1. /\ mtime \in [Album -> Nat] /\ mtime' \in [Album -> Nat]
      /\ clock \in Nat /\ clock' \in Nat /\ clock <= clock'
      /\ Seen \subseteq Seen' /\ Still' \subseteq Still
      /\ \A a \in Seen \cap Still' : mtime'[a] = mtime[a]
      /\ \A a \in Album : mtime'[a] <= clock' /\ (mtime[a] > 0 => mtime'[a] > 0)
      /\ \A a \in exists' : mtime'[a] > 0
  BY Steady
<1>2. /\ \A la \in State : Old(la) => New(la)
      /\ \A la \in State, lb \in State :
           Old(lb) /\ Follows(la, lb, mtime, Still) => Follows(la, lb, mtime', Still')
  BY <1>1, Later
<1>3. \A r \in Request : Pair(base[r], next[r]) /\ Old(base[r]) /\ Old(next[r])
  BY <1>0, <1>2 DEF Times
<1>4. /\ New(value) /\ Old(value) /\ Pair(value, value)
      /\ (disk # NoFile => New(disk) /\ Old(disk))
  <2>1. Old(value) /\ (disk # NoFile => Old(disk))
    BY DEF Times
  <2>2. Follows(value, value, mtime', Still')
    BY <1>0, InType DEF Follows
  <2> QED
    BY <1>0, <1>2, <2>1, <2>2
<1>5. /\ Pair(NoState, NoState) /\ New([queue |-> <<>>, time |-> clock'])
      /\ clock' \in 1..MaxTime
  <2>1. clock' \in 1..MaxTime
    BY TypeNext DEF Layer1, TypeOK
  <2> QED
    BY <2>1, ZeroValue
<1> HIDE DEF Old, New, Pair
<1>6. ASSUME New(value'), disk' # NoFile => New(disk'),
             \A r \in Request : Pair(base'[r], next'[r]),
             \A v \in Updater : \A a \in walked'[v] : mtime'[a] > 0
      PROVE  Times'
  BY <1>1, <1>6 DEF Times, New, Pair
<1>7. \A v \in Updater : \A a \in walked[v] : mtime'[a] > 0
  BY <1>0, <1>1 DEF Times
<1> USE DEF files, actor, unique, scans, requests, history
<1>8. ASSUME UNCHANGED <<value, disk, base, next>>,
             \A v \in Updater : walked'[v] \subseteq walked[v] \cup exists'
      PROVE  Times'
  BY <1>1, <1>3, <1>4, <1>6, <1>7, <1>8
<1>9. ASSUME UNCHANGED <<value, walked>>, disk' \in {disk, value}, NEW R, Forget(R)
      PROVE  Times'
  <2>1. \A r \in Request : Pair(base'[r], next'[r])
    BY <1>3, <1>5, <1>9 DEF Forget
  <2> QED
    BY <1>4, <1>6, <1>7, <1>9, <2>1
<1>10. ASSUME UNCHANGED <<value, disk, walked>>, NEW r \in Request, NEW la, NEW lb, Pair(la, lb),
              base' = [base EXCEPT ![r] = la], next' = [next EXCEPT ![r] = lb]
       PROVE  Times'
  <2>1. \A q \in Request : Pair(base'[q], next'[q])
    BY <1>0, <1>3, <1>10
  <2> QED
    BY <1>4, <1>6, <1>7, <1>10, <2>1
<1>11. ASSUME NEW a \in Album, Written(a) \/ Deleted(a) PROVE Times'
  BY <1>0, <1>8, <1>11 DEF Written, Deleted
<1>12. ASSUME NEW u \in Updater, Update(u) \/ ScanStart(u) \/ ScanShared(u) \/ ScanEnd(u)
                                \/ ScanFails(u) \/ ScanAnswered(u)
       PROVE  Times'
  <2>1. UNCHANGED <<value, disk, base, next, exists>>
    BY <1>12 DEF Update, ScanStart, ScanShared, ScanEnd, ScanFails, ScanAnswered
  <2>2. \A v \in Updater : walked'[v] \subseteq walked[v] \cup exists
    <3>1. CASE ScanStart(u)
      BY <1>0, <3>1 DEF ScanStart
    <3>2. CASE ScanEnd(u)
      BY <1>0, <3>2 DEF ScanEnd
    <3>3. CASE ScanFails(u)
      BY <1>0, <3>3 DEF ScanFails
    <3>4. CASE Update(u) \/ ScanShared(u) \/ ScanAnswered(u)
      BY <3>4 DEF Update, ScanShared, ScanAnswered
    <3> QED
      BY <1>12, <3>1, <3>2, <3>3, <3>4
  <2> QED
    BY <1>8, <2>1, <2>2
<1>13. ASSUME NEW u \in Updater, UpdateRead(u) PROVE Times'
  BY <1>0, <1>4, <1>10, <1>13 DEF UpdateRead
<1>14. ASSUME NEW u \in Updater, UpdateFold(u) PROVE Times'
  <2> DEFINE a == Head(todo[u])
             la == next[u]
             lb == Enqueued(la, a)
  <2>1. /\ UNCHANGED <<mtime, clock, touched, found, walked>>
        /\ base' = base /\ next' = [next EXCEPT ![u] = lb]
    BY <1>14 DEF UpdateFold
  <2>2. UNCHANGED <<mtime, clock, Seen, Still>>
    BY <2>1 DEF Seen, Still
  <2>3. a \in Album /\ a \in walked[servedBy[u]] /\ servedBy[u] \in Updater
        /\ found[servedBy[u]] = "done"
    <3>1. todo[u] # <<>> /\ todo[u] \in Seq(Album) /\ servedBy[u] \in Updater
          /\ found[servedBy[u]] = "done"
          /\ \A i \in 1..Len(todo[u]) : todo[u][i] \in walked[servedBy[u]]
      BY <1>0, <1>14 DEF UpdateFold, Layer1, Basis
    <3> QED
      BY <3>1, Mailbox
  <2>4. a \in Seen /\ mtime[a] <= clock /\ mtime[a] \in Nat
    BY <1>1, <2>3 DEF Seen, Times
  <2>5. la \in State /\ Old(la) /\ Follows(base[u], la, mtime, Still) /\ base[u] \in State
    BY <1>0, <1>3 DEF Times
  <2> HIDE DEF a, la
  <2>6. /\ lb \in State /\ la.time <= lb.time /\ Old(lb)
        /\ In(lb) = IF mtime[a] <= la.time THEN In(la) ELSE In(la) \cup {a}
    BY <1>0, <1>1, <2>3, <2>4, <2>5, EnqueuedValue DEF Old
  <2> HIDE DEF lb
  <2>7. Follows(base[u], lb, mtime, Still)
    <3>1. base[u].time \in Nat /\ la.time \in Nat /\ lb.time \in Nat
      BY <2>5, <2>6, InType
    <3>2. base[u].time <= la.time /\ \A b \in In(la) \cap Still : b \in In(base[u]) \/ mtime[b] > base[u].time
      BY <2>5 DEF Follows
    <3>3. ASSUME NEW b \in In(lb) \cap Still PROVE b \in In(base[u]) \/ mtime[b] > base[u].time
      <4>1. CASE b \in In(la)
        BY <3>2, <3>3, <4>1
      <4>2. CASE b \notin In(la)
        <5>1. b = a /\ ~(mtime[a] <= la.time)
          BY <2>6, <3>3, <4>2
        <5> QED
          BY <2>4, <3>1, <3>2, <5>1
      <4> QED
        BY <4>1, <4>2
    <3>4. base[u].time <= lb.time
      BY <2>6, <3>1, <3>2
    <3> QED
      BY <3>3, <3>4 DEF Follows
  <2>8. Pair(base[u], lb)
    BY <1>0, <1>2, <1>3, <2>5, <2>6, <2>7 DEF Pair
  <2>9. base' = [base EXCEPT ![u] = base[u]]
    BY <1>0, <2>1
  <2> QED
    BY <1>0, <1>10, <1>14, <2>1, <2>8, <2>9 DEF UpdateFold
<1>15. ASSUME NEW u \in Updater, UpdateFails(u) PROVE Times'
  BY <1>9, <1>15 DEF UpdateFails, Finish
<1>16. ASSUME NEW d \in Dequeuer, DequeueRead(d) PROVE Times'
  <2>1. PICK i \in FirstPresent(value) : next' = [next EXCEPT ![d] = AfterDequeue(value, i)]
    BY <1>16 DEF DequeueRead
  <2> DEFINE lb == AfterDequeue(value, i)
  <2>2. lb \in State /\ Old(lb) /\ In(lb) \subseteq In(value) /\ lb.time = value.time
    BY <1>0, <1>1, <1>4, DequeuedValue DEF Old
  <2>3. UNCHANGED <<value, disk, walked>> /\ base' = [base EXCEPT ![d] = value]
    BY <1>16 DEF DequeueRead
  <2>4. next' = [next EXCEPT ![d] = lb]
    BY <2>1
  <2> HIDE DEF lb
  <2>5. Follows(value, lb, mtime', Still')
    BY <1>0, <2>2, InType DEF Follows
  <2>6. Pair(value, lb)
    BY <1>2, <1>4, <2>2, <2>5 DEF Pair
  <2> QED
    BY <1>0, <1>10, <2>3, <2>4, <2>6
<1>17. ASSUME NEW d \in Dequeuer, DequeueEmpty(d) PROVE Times'
  BY <1>9, <1>17 DEF DequeueEmpty, Finish
<1>18. ASSUME NEW r \in Request, Set(r) PROVE Times'
  BY <1>8, <1>18 DEF Set
<1>19. CASE Assign
  <2>1. Head(mailbox) \in Request
    BY <1>19, Mailbox DEF Assign, Layer1, TypeOK
  <2>2. New(next[Head(mailbox)])
    BY <1>3, <2>1 DEF Pair
  <2> QED
    BY <1>3, <1>4, <1>6, <1>7, <1>19, <2>2 DEF Assign
<1>20. CASE Keep
  BY <1>9, <1>20 DEF Keep
<1>21. CASE Save
  BY <1>9, <1>21 DEF Save, Answer
<1>22. CASE SaveFails
  BY <1>8, <1>22 DEF SaveFails, Answer
<1>23. CASE Restart
  <2>1. \A r \in Request : Pair(base'[r], next'[r])
    BY <1>3, <1>5, <1>23 DEF Restart, Forget
  <2>2. New(value') /\ disk' = disk
    BY <1>4, <1>5, <1>23 DEF Restart, Zero
  <2>3. \A v \in Updater : walked'[v] \subseteq walked[v]
    BY <1>23 DEF Restart
  <2> QED
    BY <1>4, <1>6, <1>7, <2>1, <2>2, <2>3
<1>24. CASE UNCHANGED vars
  BY <1>8, <1>24 DEF vars
<1> QED
  BY <1>11, <1>12, <1>13, <1>14, <1>15, <1>16, <1>17, <1>18, <1>19, <1>20, <1>21, <1>22,
     <1>23, <1>24 DEF Next

(* Layers 1 and 2 hold in every state. *)
Layer2 == Layer1 /\ Times
LEMMA Layer2Invariance == Spec => []Layer2
<1>1. Init => Times
  <2> SUFFICES ASSUME Init PROVE Times
    OBVIOUS
  <2>1. /\ clock = 1 /\ clock \in 1..MaxTime /\ exists = {} /\ disk = NoFile
        /\ value = [queue |-> <<>>, time |-> clock]
        /\ \A a \in Album : mtime[a] = 0
        /\ \A v \in Updater : walked[v] = {}
        /\ \A r \in Request : base[r] = NoState /\ next[r] = NoState
    BY LastAlbumsAssumption DEF Init, Zero
  <2>2. /\ Ordered(value, mtime, clock, Seen, Still) /\ Ordered(NoState, mtime, clock, Seen, Still)
        /\ Follows(NoState, NoState, mtime, Still)
    BY <2>1, ZeroValue
  <2> QED
    BY <2>1, <2>2 DEF Times
<1>2. Layer1 /\ Times /\ [Next]_vars => Times'
  BY TimesNext
<1> QED
  BY <1>1, <1>2, Layer1Invariance, PTL DEF Spec, Layer2

(* The albums of the queue that stood still since they were found are ordered by
   modification time and not newer than lastUpdateTime, whatever values were
   computed from, and whatever moved among them (LastAlbums.enqueueAll). *)
THEOREM OrderedQueue == Spec => []QueueIsOrdered
<1>1. Layer2 => QueueIsOrdered
  <2> SUFFICES ASSUME Layer2 PROVE QueueIsOrdered
    OBVIOUS
  <2>1. \A i \in 1..Len(value.queue) : value.queue[i] \in Album
    BY InType DEF Layer2, Layer1, TypeOK
  <2>2. Ordered(value, mtime, clock, Seen, Still)
    BY DEF Layer2, Times
  <2>3. \A i \in 1..Len(value.queue) : value.queue[i] \notin touched => value.queue[i] \in Still
    BY <2>1 DEF Still
  <2> QED
    BY <2>2, <2>3 DEF Ordered, QueueIsOrdered
<1> QED
  BY <1>1, Layer2Invariance, PTL
-----------------------------------------------------------------------------
(* Layer 3: what a dequeue has computed, and what is being saved. *)

(* The request whose value is being saved is setting it. *)
LEMMA SavingType ==
  ASSUME Layer1, saving # NoCall
  PROVE  saving \in Request /\ pc[saving] = "setting" /\ mailbox # <<>> /\ saving = Head(mailbox)
BY Served DEF Layer1, Line

(* Nothing but its own read changes what a dequeue takes, and nothing but the
   end of the save what is being saved. *)
LEMMA TurnsNext == Layer2 /\ Turns /\ [Next]_vars => Turns'
<1> SUFFICES ASSUME Layer2, Turns, [Next]_vars PROVE Turns'
  OBVIOUS
<1> USE DEF files, actor, unique, scans, requests, history
<1>0. /\ value \in State /\ base \in [Request -> State] /\ next \in [Request -> State]
      /\ pc \in [Request -> {"idle", "asking", "folding", "read", "setting", "done", "failed",
                             "lost"}]
      /\ out \in [Dequeuer -> Album \cup {NoAlbum}]
      /\ Updater \subseteq Request /\ Dequeuer \subseteq Request /\ NoCall \notin Request
      /\ \A u \in Updater : u \notin Dequeuer
      /\ NoAlbum \notin Album /\ mailbox \in Seq(Request)
  BY Values DEF Layer2, Layer1, TypeOK
<1>1. /\ mtime \in [Album -> Nat] /\ Seen \subseteq Seen' /\ Still' \subseteq Still
      /\ \A la \in State, a \in Seen \cap Still' : Gone(a, la, mtime) => Gone(a, la, mtime')
  BY Steady, Later DEF Layer2
<1>2. saving # NoCall => saving \in Request /\ pc[saving] = "setting"
  BY SavingType DEF Layer2
<1> DEFINE Kept(d) == /\ pc'[d] = "idle" => pc[d] = "idle"
                      /\ Computed(d)' => /\ Computed(d)
                                         /\ base'[d] = base[d] /\ next'[d] = next[d]
<1>3. ASSUME NEW d \in Dequeuer, out'[d] = out[d], Kept(d)
      PROVE  /\ pc'[d] = "idle" => out'[d] = NoAlbum
             /\ out'[d] # NoAlbum => out'[d] \in Seen'
             /\ Computed(d)' => /\ out'[d] \in In(base'[d])
                                /\ out'[d] \in Still' => Gone(out'[d], next'[d], mtime')
  <2>1. /\ pc'[d] = "idle" => out'[d] = NoAlbum
        /\ out'[d] # NoAlbum => out'[d] \in Seen'
    BY <1>1, <1>3 DEF Turns
  <2>2. ASSUME Computed(d)'
        PROVE  /\ out'[d] \in In(base'[d])
               /\ out'[d] \in Still' => Gone(out'[d], next'[d], mtime')
    <3>1. /\ out[d] \in In(base[d]) /\ base'[d] = base[d] /\ next'[d] = next[d]
          /\ out[d] \in Still => Gone(out[d], next[d], mtime)
      BY <1>3, <2>2 DEF Turns
    <3>2. out[d] \in Album /\ next[d] \in State
      BY <1>0, <3>1, InType
    <3>3. out[d] \in Seen
      BY <1>0, <3>2 DEF Turns
    <3> QED
      BY <1>1, <1>3, <3>1, <3>2, <3>3
  <2> QED
    BY <2>1, <2>2
<1> HIDE DEF Kept
<1>4. ASSUME out' = out, \A d \in Dequeuer : Kept(d), saving' # NoCall => value' = next'[saving']
      PROVE  Turns'
  BY <1>3, <1>4 DEF Turns
<1>5. ASSUME UNCHANGED <<value, saving, pc, base, next, out>> PROVE Turns'
  BY <1>4, <1>5 DEF Turns, Kept, Computed
<1>6. ASSUME NEW a \in Album, Written(a) \/ Deleted(a) PROVE Turns'
  BY <1>5, <1>6 DEF Written, Deleted
<1>7. ASSUME NEW u \in Updater, ScanStart(u) \/ ScanShared(u) \/ ScanEnd(u)
                               \/ ScanFails(u) \/ ScanAnswered(u)
      PROVE  Turns'
  BY <1>5, <1>7 DEF ScanStart, ScanShared, ScanEnd, ScanFails, ScanAnswered
<1>8. ASSUME NEW r \in Request, pc[r] # "setting", pc'[r] \notin {"idle", "read", "setting"},
             UNCHANGED <<value, saving, out>>,
             \A q \in Request : q # r => UNCHANGED <<pc[q], base[q], next[q]>>
      PROVE  Turns'
  <2>1. \A d \in Dequeuer : Kept(d)
    BY <1>0, <1>8 DEF Kept, Computed
  <2>2. saving # NoCall => saving # r /\ next'[saving] = next[saving]
    BY <1>2, <1>8
  <2> QED
    BY <1>4, <1>8, <2>1, <2>2 DEF Turns
<1>9. ASSUME NEW u \in Updater, pc[u] # "setting",
             UNCHANGED <<value, saving, out>>,
             \A q \in Request : q # u => UNCHANGED <<pc[q], base[q], next[q]>>
      PROVE  Turns'
  <2>1. \A d \in Dequeuer : Kept(d)
    BY <1>0, <1>9 DEF Kept, Computed
  <2>2. saving # NoCall => saving # u /\ next'[saving] = next[saving]
    BY <1>2, <1>9
  <2> QED
    BY <1>4, <1>9, <2>1, <2>2 DEF Turns
<1>10. ASSUME NEW u \in Updater, Update(u) \/ UpdateRead(u) \/ UpdateFold(u) \/ UpdateFails(u)
       PROVE  Turns'
  <2>1. pc[u] # "setting" /\ UNCHANGED <<value, saving, out>>
    BY <1>10 DEF Update, UpdateRead, UpdateFold, UpdateFails, Finish
  <2>2. \A q \in Request : q # u => UNCHANGED <<pc[q], base[q], next[q]>>
    BY <1>0, <1>10 DEF Update, UpdateRead, UpdateFold, UpdateFails, Finish, Forget
  <2> QED
    BY <1>9, <2>1, <2>2
<1>11. ASSUME NEW d \in Dequeuer, DequeueEmpty(d) PROVE Turns'
  BY <1>0, <1>8, <1>11 DEF DequeueEmpty, Finish, Forget
<1>12. ASSUME NEW d \in Dequeuer, DequeueRead(d) PROVE Turns'
  <2>1. PICK i \in FirstPresent(value) : /\ next' = [next EXCEPT ![d] = AfterDequeue(value, i)]
                                         /\ out' = [out EXCEPT ![d] = value.queue[i]]
    BY <1>12 DEF DequeueRead
  <2> DEFINE lb == AfterDequeue(value, i)
             a == value.queue[i]
  <2>2. /\ a \in Album /\ a \in In(value) /\ a \in exists
        /\ a \in Still /\ mtime[a] > 0 => Gone(a, lb, mtime)
    BY <1>0, <1>1, DequeuedValue DEF Layer2, Times
  <2>3. next' = [next EXCEPT ![d] = lb] /\ out' = [out EXCEPT ![d] = a]
    BY <2>1
  <2> HIDE DEF lb, a
  <2>4. /\ pc[d] = "idle" /\ pc' = [pc EXCEPT ![d] = "read"] /\ base' = [base EXCEPT ![d] = value]
        /\ UNCHANGED <<mtime, touched, found, walked, value, saving>>
    BY <1>12 DEF DequeueRead
  <2>5. mtime[a] > 0 /\ a \in Seen
    BY <2>2 DEF Layer2, Times, Ordered
  <2>6. /\ pc'[d] = "read" /\ out'[d] = a /\ base'[d] = value /\ next'[d] = lb
        /\ \A q \in Request : q # d => UNCHANGED <<pc[q], base[q], next[q]>>
        /\ \A e \in Dequeuer : e # d => out'[e] = out[e]
    BY <1>0, <2>3, <2>4
  <2>7. Still' = Still
    BY <2>4 DEF Still
  <2>8. \A e \in Dequeuer : e # d => Kept(e)
    BY <1>0, <2>6 DEF Kept, Computed
  <2>9. ASSUME NEW e \in Dequeuer
        PROVE  /\ pc'[e] = "idle" => out'[e] = NoAlbum
               /\ out'[e] # NoAlbum => out'[e] \in Seen'
               /\ Computed(e)' => /\ out'[e] \in In(base'[e])
                                  /\ out'[e] \in Still' => Gone(out'[e], next'[e], mtime')
    <3>1. CASE e # d
      BY <1>3, <2>6, <2>8, <3>1
    <3>2. CASE e = d
      BY <1>1, <2>2, <2>4, <2>5, <2>6, <2>7, <3>2
    <3> QED
      BY <3>1, <3>2
  <2>10. saving # NoCall => saving # d /\ next'[saving] = next[saving]
    BY <1>2, <2>4, <2>6
  <2>11. saving' # NoCall => value' = next'[saving']
    BY <2>4, <2>10 DEF Turns
  <2> QED
    BY <2>9, <2>11 DEF Turns
<1>13. ASSUME NEW r \in Request, Set(r) PROVE Turns'
  <2>1. /\ pc[r] = "read" /\ pc' = [pc EXCEPT ![r] = "setting"]
        /\ UNCHANGED <<value, saving, base, next, out>>
    BY <1>13 DEF Set
  <2>2. \A d \in Dequeuer : Kept(d)
    BY <1>0, <2>1 DEF Kept, Computed
  <2> QED
    BY <1>4, <2>1, <2>2 DEF Turns
<1>14. CASE Assign
  BY <1>4, <1>14 DEF Assign, Kept, Computed
<1>15. ASSUME NEW r \in Request, NEW how \in {"done", "failed"}, pc' = [pc EXCEPT ![r] = how],
              UNCHANGED out, saving' = NoCall,
              \A q \in Request : q # r => UNCHANGED <<base[q], next[q]>>
       PROVE  Turns'
  <2>1. \A d \in Dequeuer : Kept(d)
    BY <1>0, <1>15 DEF Kept, Computed
  <2> QED
    BY <1>4, <1>15, <2>1
<1>16. CASE Keep
  <2>1. Head(mailbox) \in Request
    BY <1>0, <1>16, Mailbox DEF Keep
  <2> QED
    BY <1>15, <1>16, <2>1 DEF Keep, Forget
<1>17. CASE Save
  BY <1>2, <1>15, <1>17 DEF Save, Answer, Forget
<1>18. CASE SaveFails
  BY <1>2, <1>15, <1>18 DEF SaveFails, Answer
<1>19. CASE Restart
  <2>1. \A d \in Dequeuer : Kept(d)
    BY <1>0, <1>19 DEF Restart, Kept, Computed
  <2> QED
    BY <1>4, <1>19, <2>1 DEF Restart
<1>20. CASE UNCHANGED vars
  BY <1>5, <1>20 DEF vars
<1> QED
  BY <1>6, <1>7, <1>10, <1>11, <1>12, <1>13, <1>14, <1>16, <1>17, <1>18, <1>19, <1>20
  DEF Next

(* Layers 1 to 3 hold in every state. *)
Layer3 == Layer2 /\ Turns
LEMMA Layer3Invariance == Spec => []Layer3
<1>1. Init => Turns
  <2> SUFFICES ASSUME Init PROVE Turns
    OBVIOUS
  <2>1. saving = NoCall /\ (\A r \in Request : pc[r] = "idle")
        /\ (\A d \in Dequeuer : out[d] = NoAlbum)
    BY DEF Init
  <2> QED
    BY <2>1, Values DEF Turns, Computed
<1>2. Layer2 /\ Turns /\ [Next]_vars => Turns'
  BY TurnsNext
<1> QED
  BY <1>1, <1>2, Layer2Invariance, PTL DEF Spec, Layer3

(* Between two writes of its actor the file holds the current value, or whoever
   set the value was told that it does not, so what a request was told survives
   a restart (JsonableCOWImpl.set, JsonableSaver.save). *)
THEOREM Durable == Spec => []AnsweredIsSaved
<1>1. Init => AnsweredIsSaved
  BY DEF Init, AnsweredIsSaved, Zero
<1>2. Layer3 /\ AnsweredIsSaved /\ [Next]_vars => AnsweredIsSaved'
  <2> SUFFICES ASSUME Layer3, AnsweredIsSaved, [Next]_vars PROVE AnsweredIsSaved'
    OBVIOUS
  <2> USE DEF files, actor, unique, scans, requests, history
  <2>0. /\ pc \in [Request -> {"idle", "asking", "folding", "read", "setting", "done", "failed",
                              "lost"}]
        /\ base \in [Request -> State] /\ next \in [Request -> State]
        /\ Updater \subseteq Request /\ Dequeuer \subseteq Request
    BY Values DEF Layer3, Layer2, Layer1, TypeOK
  <2>1. ASSUME UNCHANGED <<value, disk, saving>>,
               \A r \in Request : pc[r] = "failed" => pc'[r] = "failed" /\ next'[r] = next[r]
        PROVE  AnsweredIsSaved'
    BY <2>1 DEF AnsweredIsSaved
  <2>2. ASSUME UNCHANGED <<value, disk, saving>>, NEW r \in Request, pc[r] # "failed",
               \A q \in Request : q # r => pc'[q] = pc[q] /\ next'[q] = next[q]
        PROVE  AnsweredIsSaved'
    BY <2>1, <2>2
  <2>3. CASE Assign
    <3>1. saving' # NoCall
      BY <2>3, Mailbox, Values DEF Assign, Layer3, Layer2, Layer1, TypeOK
    <3> QED
      BY <3>1 DEF AnsweredIsSaved
  <2>4. CASE Keep
    <3>1. Head(mailbox) \in Request /\ pc[Head(mailbox)] = "setting"
      BY <2>4, Served DEF Keep, Layer3, Layer2, Layer1
    <3> QED
      BY <2>0, <2>2, <2>4, <3>1 DEF Keep, Forget
  <2>5. CASE Save
    BY <2>5 DEF Save, Answer, AnsweredIsSaved
  <2>6. CASE SaveFails
    <3>1. saving # NoCall /\ pc' = [pc EXCEPT ![saving] = "failed"] /\ UNCHANGED <<value, next>>
      BY <2>6 DEF SaveFails, Answer
    <3>2. saving \in Request /\ value = next[saving]
      BY <3>1, SavingType DEF Layer3, Layer2, Turns
    <3>3. pc'[saving] = "failed" /\ next'[saving] = value'
      BY <2>0, <3>1, <3>2
    <3> QED
      BY <3>2, <3>3 DEF AnsweredIsSaved
  <2>7. CASE Restart
    BY <2>7 DEF Restart, Zero, AnsweredIsSaved
  <2>8. ASSUME NEW a \in Album, Written(a) \/ Deleted(a) PROVE AnsweredIsSaved'
    BY <2>1, <2>8 DEF Written, Deleted
  <2>9. ASSUME NEW u \in Updater,
               ScanStart(u) \/ ScanShared(u) \/ ScanEnd(u) \/ ScanFails(u) \/ ScanAnswered(u)
        PROVE  AnsweredIsSaved'
    BY <2>1, <2>9 DEF ScanStart, ScanShared, ScanEnd, ScanFails, ScanAnswered
  <2>10. ASSUME NEW u \in Updater, Update(u) \/ UpdateRead(u) \/ UpdateFold(u) \/ UpdateFails(u)
         PROVE  AnsweredIsSaved'
    <3>1. pc[u] # "failed" /\ UNCHANGED <<value, disk, saving>>
      BY <2>10 DEF Update, UpdateRead, UpdateFold, UpdateFails, Finish
    <3>2. \A q \in Request : q # u => pc'[q] = pc[q] /\ next'[q] = next[q]
      BY <2>0, <2>10 DEF Update, UpdateRead, UpdateFold, UpdateFails, Finish, Forget
    <3> QED
      BY <2>0, <2>2, <3>1, <3>2
  <2>11. ASSUME NEW d \in Dequeuer, DequeueRead(d) \/ DequeueEmpty(d) PROVE AnsweredIsSaved'
    <3>1. pc[d] # "failed" /\ UNCHANGED <<value, disk, saving>>
      BY <2>11 DEF DequeueRead, DequeueEmpty, Finish
    <3>2. \A q \in Request : q # d => pc'[q] = pc[q] /\ next'[q] = next[q]
      BY <2>0, <2>11 DEF DequeueRead, DequeueEmpty, Finish, Forget
    <3> QED
      BY <2>0, <2>2, <3>1, <3>2
  <2>12. ASSUME NEW r \in Request, Set(r) PROVE AnsweredIsSaved'
    BY <2>0, <2>2, <2>12 DEF Set
  <2>13. CASE UNCHANGED vars
    BY <2>1, <2>13 DEF vars
  <2> QED
    BY <2>3, <2>4, <2>5, <2>6, <2>7, <2>8, <2>9, <2>10, <2>11, <2>12, <2>13 DEF Next
<1> QED
  BY <1>1, <1>2, Layer3Invariance, PTL DEF Spec
-----------------------------------------------------------------------------
(* Layer 4: what was handed out. *)

(* A dequeue whose value is current, saved or not, has an album that was found. *)
LEMMA ThroughType ==
  ASSUME Layer3
  PROVE  /\ \A d \in Through : d \in Dequeuer /\ out[d] \in Album /\ out[d] # NoAlbum
                               /\ out[d] \in Seen
         /\ saving # NoCall => saving \in Request /\ pc[saving] = "setting"
         /\ Saved \subseteq Through
<1>1. /\ out \in [Dequeuer -> Album \cup {NoAlbum}] /\ base \in [Request -> State]
      /\ Dequeuer \subseteq Request /\ NoCall \notin Request /\ NoAlbum \notin Album
  BY Values DEF Layer3, Layer2, Layer1, TypeOK
<1>2. saving # NoCall => saving \in Request /\ pc[saving] = "setting"
  BY SavingType DEF Layer3, Layer2
<1>3. ASSUME NEW d \in Dequeuer, d = saving PROVE out[d] \in Album
  <2>1. Computed(d)
    BY <1>1, <1>2, <1>3 DEF Computed
  <2>2. out[d] \in In(base[d]) /\ base[d] \in State
    BY <1>1, <2>1 DEF Layer3, Turns
  <2> QED
    BY <2>2, InType
<1>4. \A d \in Through : d \in Dequeuer /\ out[d] \in Album /\ out[d] # NoAlbum
  BY <1>1, <1>3 DEF Through, Saved
<1> QED
  BY <1>1, <1>2, <1>4 DEF Through, Layer3, Turns

(* A value computed from the current one keeps out what has left that. *)
LEMMA StaysGone ==
  ASSUME NEW la \in State, NEW lb \in State, mtime \in [Album -> Nat], NEW still,
         Follows(la, lb, mtime, still), NEW a \in Album \cap still, Gone(a, la, mtime)
  PROVE  Gone(a, lb, mtime)
<1>1. la.time \in Nat /\ lb.time \in Nat /\ mtime[a] \in Nat
  BY InType
<1> QED
  BY <1>1 DEF Gone, Follows

(* While no set overwrites a newer value, an album is taken from the current
   value, and no value it is in comes back. *)
LEMMA HandedNext == Layer3 /\ Handed /\ [Next]_vars => Handed'
<1> DEFINE Goal == /\ \A d \in Through' : out'[d] \in Still' => Gone(out'[d], value', mtime')
                   /\ \A d \in Saved' : out'[d] \in Still' =>
                        disk' # NoFile /\ Gone(out'[d], disk', mtime')
                   /\ \A d, e \in Through' : out'[d] = out'[e] /\ out'[d] \in Still' => d = e
<1> SUFFICES ASSUME Layer3, Handed, [Next]_vars, ~raced' PROVE Goal
  BY DEF Handed
<1> USE DEF files, actor, unique, scans, requests, history
<1>0. /\ value \in State /\ (disk # NoFile => disk \in State) /\ raced \in BOOLEAN
      /\ base \in [Request -> State] /\ next \in [Request -> State]
      /\ pc \in [Request -> {"idle", "asking", "folding", "read", "setting", "done", "failed",
                             "lost"}]
      /\ out \in [Dequeuer -> Album \cup {NoAlbum}]
      /\ Updater \subseteq Request /\ Dequeuer \subseteq Request /\ NoCall \notin Request
      /\ \A u \in Updater : u \notin Dequeuer
  BY Values DEF Layer3, Layer2, Layer1, TypeOK
<1>1. ASSUME ~raced
      PROVE  /\ \A d \in Through : out[d] \in Still => Gone(out[d], value, mtime)
             /\ \A d \in Saved : out[d] \in Still => disk # NoFile /\ Gone(out[d], disk, mtime)
             /\ \A d, e \in Through : out[d] = out[e] /\ out[d] \in Still => d = e
  BY <1>1 DEF Handed
<1>2. /\ mtime \in [Album -> Nat] /\ Still' \subseteq Still
      /\ \A la \in State, a \in Seen \cap Still' : Gone(a, la, mtime) => Gone(a, la, mtime')
  BY Steady, Later DEF Layer3, Layer2
<1>3. /\ \A d \in Through : d \in Dequeuer /\ out[d] \in Album /\ out[d] # NoAlbum /\ out[d] \in Seen
      /\ saving # NoCall => saving \in Request /\ pc[saving] = "setting"
      /\ Saved \subseteq Through
  BY ThroughType
<1>4. ASSUME UNCHANGED <<value, disk, raced>>,
             \A d \in Through' : out'[d] \in Still' => d \in Through /\ out'[d] = out[d],
             \A d \in Saved' : out'[d] \in Still' => d \in Saved
      PROVE  Goal
  <2>1. Saved' \subseteq Through'
    BY DEF Through
  <2>2. ASSUME NEW d \in Through', out'[d] \in Still' PROVE Gone(out'[d], value', mtime')
    BY <1>0, <1>1, <1>2, <1>3, <1>4, <2>2
  <2>3. ASSUME NEW d \in Saved', out'[d] \in Still'
        PROVE  disk' # NoFile /\ Gone(out'[d], disk', mtime')
    BY <1>0, <1>1, <1>2, <1>3, <1>4, <2>1, <2>3
  <2>4. ASSUME NEW d \in Through', NEW e \in Through', out'[d] = out'[e], out'[d] \in Still'
        PROVE  d = e
    BY <1>1, <1>2, <1>4, <2>4
  <2> QED
    BY <2>2, <2>3, <2>4
<1> HIDE DEF Goal
<1>5. ASSUME UNCHANGED <<value, disk, raced, saving, out>>,
             \A d \in Dequeuer : out[d] # NoAlbum => (pc'[d] = "done" => pc[d] = "done")
      PROVE  Goal
  <2>1. Saved' \subseteq Saved /\ Through' \subseteq Through
    BY <1>5 DEF Saved, Through
  <2> QED
    BY <1>4, <1>5, <2>1
<1>6. ASSUME NEW a \in Album, Written(a) \/ Deleted(a) PROVE Goal
  BY <1>5, <1>6 DEF Written, Deleted
<1>7. ASSUME NEW u \in Updater, ScanStart(u) \/ ScanShared(u) \/ ScanEnd(u)
                               \/ ScanFails(u) \/ ScanAnswered(u)
      PROVE  Goal
  BY <1>5, <1>7 DEF ScanStart, ScanShared, ScanEnd, ScanFails, ScanAnswered
<1>8. ASSUME NEW u \in Updater, Update(u) \/ UpdateRead(u) \/ UpdateFold(u) \/ UpdateFails(u)
      PROVE  Goal
  <2>1. UNCHANGED <<value, disk, raced, saving, out>> /\ \A d \in Dequeuer : pc'[d] = pc[d]
    BY <1>0, <1>8 DEF Update, UpdateRead, UpdateFold, UpdateFails, Finish
  <2> QED
    BY <1>5, <2>1
<1>9. ASSUME NEW d \in Dequeuer, DequeueRead(d) PROVE Goal
  <2>1. /\ pc[d] = "idle" /\ pc' = [pc EXCEPT ![d] = "read"]
        /\ UNCHANGED <<value, disk, raced, saving>>
        /\ \A e \in Dequeuer : e # d => out'[e] = out[e]
    BY <1>0, <1>9 DEF DequeueRead
  <2>2. d # saving
    BY <1>0, <1>3, <2>1
  <2>3. Saved' = Saved /\ d \notin Saved
    BY <1>0, <2>1 DEF Saved
  <2>4. Through' = Through /\ d \notin Through
    BY <2>1, <2>2, <2>3 DEF Through
  <2> QED
    BY <1>3, <1>4, <2>1, <2>3, <2>4
<1>10. ASSUME NEW d \in Dequeuer, DequeueEmpty(d) PROVE Goal
  <2>1. out[d] = NoAlbum
    BY <1>0, <1>10 DEF DequeueEmpty, Turns, Layer3
  <2> QED
    BY <1>0, <1>5, <1>10, <2>1 DEF DequeueEmpty, Finish
<1>11. ASSUME NEW r \in Request, Set(r) PROVE Goal
  BY <1>0, <1>5, <1>11 DEF Set
<1>12. CASE Assign
  <2> DEFINE r == Head(mailbox)
  <2>1. /\ saving = NoCall /\ saving' = r /\ value' = next[r] /\ mailbox # <<>>
        /\ ~raced /\ base[r] = value
        /\ UNCHANGED <<disk, mtime, touched, pc, out>>
    BY <1>12 DEF Assign
  <2>2. r \in Request /\ pc[r] = "setting"
    BY <2>1, Served DEF Layer3, Layer2, Layer1
  <2> HIDE DEF r
  <2>3. /\ Saved' = Saved /\ Through = Saved /\ Through' = Saved \cup {d \in Dequeuer : d = r}
        /\ Still' = Still
    BY <1>0, <2>1 DEF Saved, Through, Still
  <2>4. Follows(value, next[r], mtime, Still) /\ next[r] \in State
    BY <1>0, <2>1, <2>2 DEF Layer3, Layer2, Times
  <2>5. r \in Dequeuer => /\ out[r] \in In(value)
                          /\ out[r] \in Still => Gone(out[r], next[r], mtime)
    BY <1>0, <2>1, <2>2 DEF Layer3, Turns, Computed
  <2>6. ASSUME NEW d \in Saved, out[d] \in Still
        PROVE  Gone(out[d], next[r], mtime) /\ out[d] \notin In(value)
    <3>1. Gone(out[d], value, mtime) /\ out[d] \in Album
      BY <1>1, <1>3, <2>1, <2>6
    <3> QED
      BY <1>0, <1>2, <2>4, <2>6, <3>1, StaysGone DEF Gone
  <2>7. \A d \in Through' : out'[d] \in Still' => Gone(out'[d], value', mtime')
    BY <2>1, <2>3, <2>5, <2>6
  <2>8. \A d \in Saved' : out'[d] \in Still' => disk' # NoFile /\ Gone(out'[d], disk', mtime')
    BY <1>1, <2>1, <2>3
  <2>9. \A d, e \in Through' : out'[d] = out'[e] /\ out'[d] \in Still' => d = e
    BY <1>1, <2>1, <2>3, <2>5, <2>6
  <2> QED
    BY <2>7, <2>8, <2>9 DEF Goal
<1>13. CASE Keep
  <2> DEFINE r == Head(mailbox)
  <2>1. /\ mailbox # <<>> /\ base[r] = value /\ next[r] = value /\ pc' = [pc EXCEPT ![r] = "done"]
        /\ UNCHANGED <<value, disk, mtime, touched, raced, saving, out>>
    BY <1>13 DEF Keep, Same
  <2>2. r \in Request /\ pc[r] = "setting"
    BY <2>1, Served DEF Layer3, Layer2, Layer1
  <2> HIDE DEF r
  <2>3. Still' = Still
    BY <2>1 DEF Still
  <2>4. ~(r \in Dequeuer /\ out[r] \in Still)
    <3>1. ASSUME r \in Dequeuer, out[r] \in Still PROVE FALSE
      <4>1. out[r] \in In(base[r]) /\ Gone(out[r], next[r], mtime)
        BY <2>2, <3>1 DEF Layer3, Turns, Computed
      <4> QED
        BY <2>1, <4>1 DEF Gone
    <3> QED
      BY <3>1
  <2>5. /\ \A d \in Saved' : d # r => d \in Saved
        /\ \A d \in Through' : d # r => d \in Through
        /\ \A d \in Through' : d \in Dequeuer
    BY <1>0, <2>1 DEF Saved, Through
  <2>6. /\ \A d \in Through' : out'[d] \in Still' => d \in Through /\ out'[d] = out[d]
        /\ \A d \in Saved' : out'[d] \in Still' => d \in Saved
    BY <2>1, <2>3, <2>4, <2>5 DEF Through
  <2> QED
    BY <1>4, <2>1, <2>6
<1>14. CASE Save
  <2>1. /\ saving # NoCall /\ saving' = NoCall /\ disk' = value
        /\ pc' = [pc EXCEPT ![saving] = "done"]
        /\ UNCHANGED <<value, mtime, touched, raced, out>>
    BY <1>14 DEF Save, Answer
  <2>2. saving \in Request /\ (saving \in Dequeuer => out[saving] # NoAlbum)
    BY <1>3, <2>1 DEF Through
  <2>3. Saved' = Through /\ Through' = Through /\ Still' = Still
    BY <1>0, <2>1, <2>2 DEF Saved, Through, Still
  <2> QED
    BY <1>0, <1>1, <2>1, <2>3, Values DEF Goal
<1>15. CASE SaveFails
  <2>1. /\ saving # NoCall /\ saving' = NoCall
        /\ pc' = [pc EXCEPT ![saving] = "failed"]
        /\ UNCHANGED <<value, disk, raced, out>>
    BY <1>15 DEF SaveFails, Answer
  <2>2. Saved' \subseteq Saved /\ Through' \subseteq Through
    BY <1>0, <1>3, <2>1 DEF Saved, Through
  <2> QED
    BY <1>4, <2>1, <2>2
<1>16. CASE Restart
  <2>1. /\ saving' = NoCall /\ value' = (IF disk = NoFile THEN Zero ELSE disk)
        /\ UNCHANGED <<disk, mtime, touched, raced, out>>
        /\ \A r \in Request : pc'[r] = "done" <=> pc[r] = "done"
    BY <1>0, <1>16 DEF Restart
  <2>2. Saved' = Saved /\ Still' = Still
    BY <1>0, <2>1 DEF Saved, Still
  <2>3. Through' = Saved
    BY <1>0, <2>1, <2>2 DEF Through
  <2> QED
    BY <1>1, <1>3, <2>1, <2>2, <2>3 DEF Goal
<1>17. CASE UNCHANGED vars
  BY <1>5, <1>17 DEF vars
<1> QED
  BY <1>6, <1>7, <1>8, <1>9, <1>10, <1>11, <1>12, <1>13, <1>14, <1>15, <1>16, <1>17 DEF Next

(* No two answered dequeues have one album, unless some set overwrote a newer
   value or the album was written to after it was found, also when saves fail
   (LastAlbumsState.dequeue). *)
THEOREM HandedOutOnce == Spec => []TwiceOnlyAfterRace
<1>1. Init => Handed
  <2> SUFFICES ASSUME Init PROVE Handed
    OBVIOUS
  <2>1. Through = {} /\ Saved = {}
    BY Values DEF Init, Through, Saved
  <2> QED
    BY <2>1 DEF Handed
<1>2. Layer3 /\ Handed /\ [Next]_vars => Handed'
  BY HandedNext
<1>3. Layer3 /\ Handed => TwiceOnlyAfterRace
  <2> SUFFICES ASSUME Layer3, Handed, ~raced, NEW a \in Album \ touched
               PROVE  Cardinality(HandedOut(a)) <= 1
    BY DEF TwiceOnlyAfterRace
  <2>1. HandedOut(a) \subseteq Through
    BY LastAlbumsAssumption DEF HandedOut, Through, Saved
  <2>2. \A d, e \in HandedOut(a) : d = e
    BY <2>1 DEF Handed, HandedOut, Still
  <2>3. CASE HandedOut(a) = {}
    BY <2>3, FS_EmptySet
  <2>4. CASE HandedOut(a) # {}
    <3>1. PICK d \in HandedOut(a) : HandedOut(a) = {d}
      BY <2>2, <2>4
    <3>2. Cardinality({d}) = 1
      BY FS_Singleton
    <3> QED
      BY <3>1, <3>2
  <2> QED
    BY <2>3, <2>4
<1> QED
  BY <1>1, <1>2, <1>3, Layer3Invariance, PTL DEF Spec
-----------------------------------------------------------------------------
(* Layer 5: no album is forgotten. *)

(* An album the code answers for is as it was, or was just written and is newer
   than all others; in the first case, if it was newer than the current value,
   nothing moved that an update has still to enqueue. *)
LEMMA Renewed ==
  ASSUME Layer2, [Next]_vars
  PROVE  /\ \A b \in Claimed' :
              /\ b \in Album /\ b \in exists'
              /\ (b \in Claimed /\ mtime'[b] = mtime[b]) \/ mtime'[b] > clock
              /\ mtime'[b] > clock => \A c \in Album : c # b => mtime'[c] < mtime'[b]
              /\ ~(mtime'[b] > clock) /\ mtime[b] > value.time =>
                   \A c \in Awaited : mtime'[c] = mtime[c]
         /\ Apart => Apart'
<1> USE DEF files, actor, unique, scans, requests, history
<1>1. /\ mtime \in [Album -> Nat] /\ clock \in Nat /\ exists \subseteq Album
      /\ excused \subseteq Album /\ \A c \in Album : mtime[c] <= clock /\ mtime[c] \in Nat
      /\ walked \in [Updater -> SUBSET Album]
  BY Values DEF Layer2, Layer1, TypeOK, Times
<1>2. Awaited \subseteq Album
  BY <1>1 DEF Awaited
<1>3. ASSUME mtime' = mtime, exists' \subseteq exists, excused \subseteq excused'
      PROVE  /\ \A b \in Claimed' : b \in Album /\ b \in exists' /\ b \in Claimed
             /\ \A b \in Claimed' : ~(mtime'[b] > clock)
             /\ Apart => Apart'
  BY <1>1, <1>3 DEF Claimed, Apart
<1>4. ASSUME NEW a \in Album, Written(a)
      PROVE  /\ \A b \in Claimed' :
                  /\ b \in Album /\ b \in exists'
                  /\ (b \in Claimed /\ mtime'[b] = mtime[b]) \/ mtime'[b] > clock
                  /\ mtime'[b] > clock => \A c \in Album : c # b => mtime'[c] < mtime'[b]
                  /\ ~(mtime'[b] > clock) /\ mtime[b] > value.time =>
                       \A c \in Awaited : mtime'[c] = mtime[c]
             /\ Apart => Apart'
  <2>1. PICK t \in {clock, clock + 1} :
          /\ mtime' = [mtime EXCEPT ![a] = t] /\ exists' = exists \cup {a}
          /\ excused' = excused
               \cup (IF t > clock THEN {} ELSE {a} \cup {b \in Album : mtime[b] = t})
               \cup (IF a \in Awaited THEN {b \in Album : mtime[b] > value.time} ELSE {})
    BY <1>4 DEF Written
  <2>2. mtime'[a] = t /\ t \in Nat /\ \A c \in Album : c # a => mtime'[c] = mtime[c]
    BY <1>1, <2>1
  <2>3. ASSUME NEW b \in Claimed'
        PROVE  /\ b \in Album /\ b \in exists'
               /\ b # a => /\ b \in Claimed /\ mtime[b] # t
                           /\ a \in Awaited => ~(mtime[b] > value.time)
               /\ b = a => t = clock + 1
    <3>1. b \in exists \cup {a} /\ b \notin excused' /\ b \in Album /\ b \in exists'
      BY <1>1, <2>1 DEF Claimed
    <3>2. excused \subseteq excused'
      BY <2>1
    <3>3. ASSUME b # a, mtime[b] = t PROVE FALSE
      <4>1. mtime[b] <= clock
        BY <1>1, <3>1
      <4>2. ~(t > clock)
        BY <1>1, <3>1, <3>3, <4>1
      <4> QED
        BY <2>1, <3>1, <3>3, <4>2
    <3>4. ASSUME a \in Awaited, mtime[b] > value.time PROVE FALSE
      BY <2>1, <3>1, <3>4
    <3>5. ASSUME b = a, t = clock PROVE FALSE
      <4>1. ~(t > clock)
        BY <1>1, <3>5
      <4> QED
        BY <2>1, <3>1, <3>5, <4>1
    <3> QED
      BY <2>1, <3>1, <3>2, <3>3, <3>4, <3>5 DEF Claimed
  <2>4. ASSUME NEW b \in Claimed'
        PROVE  /\ (b \in Claimed /\ mtime'[b] = mtime[b]) \/ mtime'[b] > clock
               /\ mtime'[b] > clock => \A c \in Album : c # b => mtime'[c] < mtime'[b]
               /\ ~(mtime'[b] > clock) /\ mtime[b] > value.time =>
                    \A c \in Awaited : mtime'[c] = mtime[c]
    <3>1. CASE b = a
      <4>1. mtime'[b] = clock + 1
        BY <2>2, <2>3, <3>1
      <4>2. mtime'[b] > clock
        BY <1>1, <4>1
      <4>3. ASSUME NEW c \in Album, c # b PROVE mtime'[c] < mtime'[b]
        <5>1. mtime'[c] = mtime[c] /\ mtime[c] <= clock /\ mtime[c] \in Nat
          BY <1>1, <2>2, <3>1, <4>3
        <5> QED
          BY <1>1, <4>1, <5>1
      <4> QED
        BY <4>2, <4>3
    <3>2. CASE b # a
      <4>1. b \in Album /\ b \in Claimed /\ mtime'[b] = mtime[b] /\ ~(mtime'[b] > clock)
        BY <1>1, <2>2, <2>3, <3>2
      <4>2. ASSUME mtime[b] > value.time, NEW c \in Awaited PROVE mtime'[c] = mtime[c]
        BY <1>2, <2>2, <2>3, <3>2, <4>2
      <4> QED
        BY <4>1, <4>2
    <3> QED
      BY <3>1, <3>2
  <2>5. ASSUME Apart, NEW b \in Claimed', NEW c \in Album, mtime'[b] = mtime'[c] PROVE b = c
    <3>1. CASE b = a
      <4>1. SUFFICES ASSUME c # b PROVE FALSE
        OBVIOUS
      <4>2. mtime'[b] = clock + 1 /\ mtime'[c] = mtime[c] /\ mtime[c] <= clock /\ mtime[c] \in Nat
        BY <1>1, <2>2, <2>3, <3>1, <4>1
      <4>3. mtime'[b] = mtime'[c] /\ clock \in Nat
        BY <1>1, <2>5
      <4> QED
        BY ONLY <4>2, <4>3
    <3>2. CASE b # a
      <4>1. b \in Claimed /\ mtime'[b] = mtime[b] /\ mtime[b] # t
        BY <2>2, <2>3, <3>2
      <4>2. c # a /\ mtime'[c] = mtime[c]
        BY <2>2, <2>5, <4>1
      <4> QED
        BY <2>5, <4>1, <4>2 DEF Apart
    <3> QED
      BY <3>1, <3>2
  <2> QED
    BY <2>3, <2>4, <2>5 DEF Apart
<1>5. ASSUME NEW a \in Album, Deleted(a)
      PROVE  mtime' = mtime /\ exists' \subseteq exists /\ excused \subseteq excused'
  BY <1>5 DEF Deleted
<1>6. ASSUME NEW u \in Updater,
             Update(u) \/ ScanStart(u) \/ ScanShared(u) \/ ScanEnd(u) \/ ScanFails(u)
             \/ ScanAnswered(u) \/ UpdateRead(u) \/ UpdateFold(u) \/ UpdateFails(u)
      PROVE  mtime' = mtime /\ exists' \subseteq exists /\ excused \subseteq excused'
  BY <1>6 DEF Update, ScanStart, ScanShared, ScanEnd, ScanFails, ScanAnswered, UpdateRead,
     UpdateFold, UpdateFails, Finish
<1>7. ASSUME \/ \E d \in Dequeuer : DequeueRead(d) \/ DequeueEmpty(d)
             \/ \E r \in Request : Set(r)
             \/ Assign \/ Keep \/ Save \/ SaveFails \/ Restart \/ UNCHANGED vars
      PROVE  mtime' = mtime /\ exists' \subseteq exists /\ excused \subseteq excused'
  BY <1>7 DEF DequeueRead, DequeueEmpty, Finish, Set, Assign, Keep, Save, SaveFails, Answer,
     Restart, vars
<1>8. \/ \E a \in Album : Written(a)
      \/ mtime' = mtime /\ exists' \subseteq exists /\ excused \subseteq excused'
  BY <1>5, <1>6, <1>7 DEF Next
<1>9. CASE \E a \in Album : Written(a)
  BY <1>4, <1>9
<1>10. CASE mtime' = mtime /\ exists' \subseteq exists /\ excused \subseteq excused'
  BY <1>3, <1>10
<1> QED
  BY <1>8, <1>9, <1>10

(* While no set overwrites a newer value, lastUpdateTime only grows, up to a
   restart. *)
LEMMA Growing ==
  ASSUME Layer2, [Next]_vars, ~raced'
  PROVE  ~raced /\ (Restart \/ value.time <= value'.time)
<1> USE DEF files, actor, unique, scans, requests, history
<1>0. value \in State /\ raced \in BOOLEAN /\ value.time <= value.time
  BY InType DEF Layer2, Layer1, TypeOK
<1>1. CASE Assign
  <2>1. /\ value' = next[Head(mailbox)] /\ base[Head(mailbox)] = value /\ ~raced
        /\ Head(mailbox) \in Request
    BY <1>1, Mailbox DEF Assign, Layer2, Layer1, TypeOK
  <2>2. Follows(base[Head(mailbox)], next[Head(mailbox)], mtime, Still)
    BY <2>1 DEF Layer2, Times
  <2> QED
    BY <2>1, <2>2 DEF Follows
<1>2. CASE Restart
  BY <1>2 DEF Restart
<1>3. CASE UNCHANGED <<value, raced>>
  BY <1>0, <1>3
<1>4. ASSUME NEW a \in Album, Written(a) \/ Deleted(a) PROVE UNCHANGED <<value, raced>>
  BY <1>4 DEF Written, Deleted
<1>5. ASSUME NEW u \in Updater,
             Update(u) \/ ScanStart(u) \/ ScanShared(u) \/ ScanEnd(u) \/ ScanFails(u)
             \/ ScanAnswered(u) \/ UpdateRead(u) \/ UpdateFold(u) \/ UpdateFails(u)
      PROVE  UNCHANGED <<value, raced>>
  BY <1>5 DEF Update, ScanStart, ScanShared, ScanEnd, ScanFails, ScanAnswered, UpdateRead,
     UpdateFold, UpdateFails, Finish
<1>6. ASSUME \/ \E d \in Dequeuer : DequeueRead(d) \/ DequeueEmpty(d)
             \/ \E r \in Request : Set(r)
             \/ Keep \/ Save \/ SaveFails \/ UNCHANGED vars
      PROVE  UNCHANGED <<value, raced>>
  BY <1>6 DEF DequeueRead, DequeueEmpty, Finish, Set, Keep, Save, SaveFails, Answer, vars
<1> QED
  BY <1>1, <1>2, <1>3, <1>4, <1>5, <1>6 DEF Next

(* How a scan comes to be walking, and to be waited for once it is done. *)
LEMMA ScanSteps ==
  ASSUME Layer1, [Next]_vars, NEW v \in Updater
  PROVE  /\ found'[v] = "walking" => \/ found[v] = "walking" /\ since'[v] = since[v]
                                     \/ since'[v] = value.time /\ value' = value
         /\ found'[v] = "done" /\ Pending(v)' =>
              \/ found[v] = "done" /\ Pending(v) /\ walked'[v] = walked[v]
              \/ ScanEnd(v)
         /\ Restart => found'[v] \notin {"walking", "done"}
<1> USE DEF files, actor, unique, scans, requests, history
<1>0. /\ pc \in [Request -> {"idle", "asking", "folding", "read", "setting", "done", "failed",
                             "lost"}]
      /\ status \in [Updater -> Unique!Status] /\ servedBy \in [Updater -> Updater \cup {NoCall}]
      /\ found \in [Updater -> {"none", "walking", "failed", "done"}]
      /\ walked \in [Updater -> SUBSET Album] /\ since \in [Updater -> 0..MaxTime]
      /\ Updater \subseteq Request /\ Dequeuer \subseteq Request
      /\ \A u \in Updater : u \notin Dequeuer
      /\ \A u \in Updater : /\ pc[u] = "idle" => status[u] = "idle"
                            /\ status[u] \in {"waiting", "aboard"} => pc[u] = "asking"
  BY Values DEF Layer1, TypeOK, Unique!TypeOK, Basis
<1> DEFINE Goal == /\ found'[v] = "walking" => \/ found[v] = "walking" /\ since'[v] = since[v]
                                               \/ since'[v] = value.time /\ value' = value
                   /\ found'[v] = "done" /\ Pending(v)' =>
                        \/ found[v] = "done" /\ Pending(v) /\ walked'[v] = walked[v]
                        \/ ScanEnd(v)
                   /\ Restart => found'[v] \notin {"walking", "done"}
<1>1. CASE Restart
  BY <1>0, <1>1 DEF Restart
<1> SUFFICES ASSUME ~Restart PROVE Goal
  BY <1>1
<1> DEFINE Less == \A u \in Updater :
                     pc'[u] = "asking" /\ status'[u] \in {"aboard", "answered"} =>
                       /\ pc[u] = "asking" /\ status[u] \in {"aboard", "answered"}
                       /\ servedBy'[u] = servedBy[u]
           Kept == found'[v] = found[v] /\ walked'[v] = walked[v] /\ since'[v] = since[v]
<1>2. ASSUME Less PROVE Pending(v)' => Pending(v)
  BY <1>2 DEF Pending
<1>3. ASSUME Kept, Pending(v)' => Pending(v) PROVE Goal
  BY <1>3
<1>4. ASSUME Less, Kept PROVE Goal
  BY <1>2, <1>3, <1>4
<1> HIDE DEF Goal
<1>5. ASSUME UNCHANGED <<scans, unique, pc>> PROVE Goal
  BY <1>4, <1>5
<1>6. ASSUME NEW a \in Album, Written(a) PROVE Goal
  BY <1>5, <1>6 DEF Written
<1>7. ASSUME NEW a \in Album, Deleted(a) PROVE Goal
  <2>1. Less /\ found'[v] = found[v] /\ since'[v] = since[v]
        /\ (found[v] = "done" => walked'[v] = walked[v])
    BY <1>0, <1>7 DEF Deleted
  <2> QED
    BY <1>2, <2>1 DEF Goal
<1>8. ASSUME NEW u \in Updater, Update(u) PROVE Goal
  <2>1. Less /\ Kept
    BY <1>0, <1>8 DEF Update, Unique!Invoke
  <2> QED
    BY <1>4, <2>1
<1>9. ASSUME NEW u \in Updater, ScanStart(u) PROVE Goal
  <2>1. /\ value' = value /\ pc' = pc /\ since' = [since EXCEPT ![u] = value.time]
        /\ found' = [found EXCEPT ![u] = "walking"]
        /\ \A w \in Updater : w # u => walked'[w] = walked[w] /\ status'[w] = status[w]
                                       /\ servedBy'[w] = servedBy[w]
        /\ servedBy'[u] = u
    BY <1>0, <1>9 DEF ScanStart, Unique!Lead, Unique!Board
  <2>2. CASE v = u
    BY <1>0, <2>1, <2>2 DEF Goal
  <2>3. CASE v # u
    <3>1. Pending(v)' => Pending(v)
      BY <2>1, <2>3 DEF Pending
    <3>2. Kept
      BY <1>0, <2>1, <2>3
    <3> QED
      BY <1>3, <3>1, <3>2
  <2> QED
    BY <2>2, <2>3
<1>10. ASSUME NEW u \in Updater, ScanShared(u) PROVE Goal
  <2>1. PICK d \in Updater : Unique!Open(d) /\ Unique!Board(u, Unit, d)
    BY <1>10 DEF ScanShared, Unique!Join
  <2>2. /\ pc' = pc /\ Kept
        /\ \A w \in Updater : w # u => status'[w] = status[w] /\ servedBy'[w] = servedBy[w]
        /\ servedBy'[u] = d
    BY <1>0, <1>10, <2>1 DEF ScanShared, Unique!Board
  <2>3. Pending(d)
    BY <1>0, <2>1 DEF Pending, Unique!Open
  <2>4. Pending(v)' => Pending(v)
    <3>1. CASE v = d
      BY <2>3, <3>1
    <3>2. CASE v # d
      BY <2>2, <3>2 DEF Pending
    <3> QED
      BY <3>1, <3>2
  <2> QED
    BY <1>3, <2>2, <2>4
<1>11. ASSUME NEW u \in Updater, ScanEnd(u) \/ ScanFails(u) PROVE Goal
  <2>1. CASE v # u
    <3>1. Less /\ Kept
      BY <1>0, <1>11, <2>1 DEF ScanEnd, ScanFails
    <3> QED
      BY <1>4, <3>1
  <2>2. CASE v = u
    BY <1>0, <1>11, <2>2 DEF ScanEnd, ScanFails, Goal
  <2> QED
    BY <2>1, <2>2
<1>12. ASSUME NEW u \in Updater, ScanAnswered(u) PROVE Goal
  <2>1. Less /\ Kept
    BY <1>0, <1>12 DEF ScanAnswered, Unique!Land
  <2> QED
    BY <1>4, <2>1
<1>13. ASSUME UNCHANGED <<scans, unique>>, NEW r \in Request, NEW how, how # "asking",
              pc' = [pc EXCEPT ![r] = how]
       PROVE  Goal
  BY <1>0, <1>4, <1>13
<1>14. ASSUME NEW u \in Updater, UpdateRead(u) PROVE Goal
  <2>1. PICK q : pc' = [pc EXCEPT ![u] = IF q = <<>> THEN "read" ELSE "folding"]
    BY <1>14 DEF UpdateRead
  <2>2. UNCHANGED <<scans, unique>>
    BY <1>14 DEF UpdateRead
  <2> QED
    BY <1>0, <1>13, <2>1, <2>2
<1>15. ASSUME NEW u \in Updater, UpdateFold(u) PROVE Goal
  BY <1>0, <1>13, <1>15 DEF UpdateFold
<1>16. ASSUME NEW u \in Updater, UpdateFails(u) PROVE Goal
  BY <1>0, <1>13, <1>16 DEF UpdateFails, Finish
<1>17. ASSUME NEW d \in Dequeuer, DequeueRead(d) PROVE Goal
  BY <1>0, <1>13, <1>17 DEF DequeueRead
<1>18. ASSUME NEW d \in Dequeuer, DequeueEmpty(d) PROVE Goal
  BY <1>0, <1>13, <1>18 DEF DequeueEmpty, Finish
<1>19. ASSUME NEW r \in Request, Set(r) PROVE Goal
  BY <1>13, <1>19 DEF Set
<1>20. CASE Assign
  BY <1>5, <1>20 DEF Assign
<1>21. CASE Keep
  <2>1. Head(mailbox) \in Request
    BY <1>21, Mailbox DEF Keep, Layer1, TypeOK
  <2> QED
    BY <1>13, <1>21, <2>1 DEF Keep
<1>22. CASE Save \/ SaveFails
  <2>1. saving \in Request
    BY <1>22, SavingType DEF Save, SaveFails, Answer
  <2> QED
    BY <1>13, <1>22, <2>1 DEF Save, SaveFails, Answer
<1>23. CASE UNCHANGED vars
  BY <1>5, <1>23 DEF vars
<1> QED
  BY <1>6, <1>7, <1>8, <1>9, <1>10, <1>11, <1>12, <1>14, <1>15, <1>16, <1>17, <1>18, <1>19,
     <1>20, <1>21, <1>22, <1>23 DEF Next

(* Every scan starts no later than the current value, and has met what is newer
   than that, or is older than it. *)
LEMMA ScannedNext ==
  ASSUME Layer2, Remembered, [Next]_vars, ~raced', NEW v \in Updater
  PROVE  Scanned(v)'
<1>0. /\ since \in [Updater -> 0..MaxTime] /\ walked \in [Updater -> SUBSET Album]
      /\ value.time \in Nat /\ value'.time \in Nat /\ since[v] \in Nat
      /\ \A a \in Album : mtime[a] \in Nat
      /\ mtime \in [Album -> Nat] /\ mtime' \in [Album -> Nat]
  <2>1. value \in State /\ value' \in State
    BY TypeNext DEF Layer2, Layer1, TypeOK
  <2> QED
    BY <2>1, InType, Steady, Values DEF Layer2, Layer1, TypeOK
<1>1. ~raced /\ (Restart \/ value.time <= value'.time)
  BY Growing
<1>2. Scanned(v)
  BY <1>1 DEF Remembered
<1>3. /\ found'[v] = "walking" => \/ found[v] = "walking" /\ since'[v] = since[v]
                                  \/ since'[v] = value.time /\ value' = value
      /\ found'[v] = "done" /\ Pending(v)' =>
           \/ found[v] = "done" /\ Pending(v) /\ walked'[v] = walked[v]
           \/ ScanEnd(v)
      /\ Restart => found'[v] \notin {"walking", "done"}
  BY ScanSteps DEF Layer2
<1>4. found'[v] = "walking" => since'[v] <= value'.time
  <2>1. ASSUME found'[v] = "walking" PROVE since'[v] <= value'.time
    <3>1. value.time <= value'.time
      BY <1>1, <1>3, <2>1
    <3>2. CASE found[v] = "walking" /\ since'[v] = since[v]
      <4>1. since[v] <= value.time
        BY <1>2, <3>2 DEF Scanned
      <4> QED
        BY <1>0, <3>1, <3>2, <4>1
    <3>3. CASE since'[v] = value.time /\ value' = value
      BY <1>0, <3>1, <3>3
    <3> QED
      BY <1>3, <2>1, <3>2, <3>3
  <2> QED
    BY <2>1
<1>5. ASSUME found'[v] = "done", Pending(v)', NEW a \in Claimed', mtime'[a] > value'.time
      PROVE  a \in walked'[v] \/ \A b \in walked'[v] : mtime'[b] < mtime'[a]
  <2>1. value.time <= value'.time
    BY <1>1, <1>3, <1>5
  <2>2. /\ a \in Album /\ a \in exists'
        /\ (a \in Claimed /\ mtime'[a] = mtime[a]) \/ mtime'[a] > clock
        /\ mtime'[a] > clock => \A c \in Album : c # a => mtime'[c] < mtime'[a]
        /\ ~(mtime'[a] > clock) /\ mtime[a] > value.time => \A c \in Awaited : mtime'[c] = mtime[c]
    BY Renewed
  <2>3. CASE ScanEnd(v)
    <3>1. /\ UNCHANGED <<value, mtime, exists>> /\ found[v] = "walking"
          /\ \E met \in SUBSET {b \in exists \ walked[v] : mtime[b] >= since[v]} :
               /\ walked' = [walked EXCEPT ![v] = @ \cup met]
               /\ excused' = excused \cup ({b \in exists \ walked[v] : mtime[b] >= since[v]} \ met)
      BY <2>3 DEF ScanEnd, files
    <3>2. since[v] <= value.time
      BY <1>2, <3>1 DEF Scanned
    <3>3. mtime[a] >= since[v] /\ a \in exists /\ a \notin excused'
      BY <1>0, <1>5, <2>2, <3>1, <3>2 DEF Claimed
    <3> QED
      BY <1>0, <3>1, <3>3
  <2>4. CASE found[v] = "done" /\ Pending(v) /\ walked'[v] = walked[v]
    <3>1. walked[v] \subseteq Album
      BY <1>0
    <3>2. CASE mtime'[a] > clock
      BY <2>2, <2>4, <3>1, <3>2
    <3>3. CASE ~(mtime'[a] > clock)
      <4>1. a \in Claimed /\ mtime'[a] = mtime[a]
        BY <2>2, <3>3
      <4>2. mtime[a] > value.time
        BY <1>0, <1>5, <2>1, <2>2, <4>1
      <4>3. a \in walked[v] \/ \A b \in walked[v] : mtime[b] < mtime[a]
        BY <1>2, <2>4, <4>1, <4>2 DEF Scanned
      <4>4. walked[v] \subseteq Awaited
        BY <2>4 DEF Pending, Awaited
      <4> QED
        BY <2>2, <2>4, <3>3, <4>1, <4>2, <4>3, <4>4
    <3> QED
      BY <3>2, <3>3
  <2> QED
    BY <1>3, <1>5, <2>3, <2>4
<1> QED
  BY <1>4, <1>5 DEF Scanned

(* How a request comes to be enqueueing, or to have computed a value. *)
LEMMA ComputedSteps ==
  ASSUME Layer2, [Next]_vars, NEW r \in Request, Computed(r)' \/ pc'[r] = "folding"
  PROVE  /\ ~Restart
         /\ \/ /\ Computed(r)' => Computed(r)
               /\ pc'[r] = "folding" => pc[r] = "folding"
               /\ r \in Updater /\ pc'[r] = "folding" => todo'[r] = todo[r]
               /\ base'[r] = base[r] /\ next'[r] = next[r]
               /\ r \in Dequeuer => out'[r] = out[r]
            \/ r \in Updater /\ (UpdateRead(r) \/ UpdateFold(r))
            \/ r \in Dequeuer /\ DequeueRead(r)
<1> USE DEF files, actor, unique, scans, requests, history
<1>0. /\ pc \in [Request -> {"idle", "asking", "folding", "read", "setting", "done", "failed",
                             "lost"}]
      /\ base \in [Request -> State] /\ next \in [Request -> State]
      /\ todo \in [Updater -> Seq(Album)] /\ out \in [Dequeuer -> Album \cup {NoAlbum}]
      /\ Updater \subseteq Request /\ Dequeuer \subseteq Request
      /\ \A u \in Updater : u \notin Dequeuer
      /\ Request = Updater \cup Dequeuer
      /\ \A u \in Updater : pc[u] = "folding" => todo[u] # <<>>
  BY Values DEF Layer2, Layer1, TypeOK, Basis, Request
<1>1. ~Restart
  BY <1>0 DEF Restart, Computed
<1> DEFINE Stays == /\ Computed(r)' => Computed(r)
                    /\ pc'[r] = "folding" => pc[r] = "folding"
                    /\ r \in Updater /\ pc'[r] = "folding" => todo'[r] = todo[r]
                    /\ base'[r] = base[r] /\ next'[r] = next[r]
                    /\ r \in Dequeuer => out'[r] = out[r]
           Goal == \/ Stays
                   \/ r \in Updater /\ (UpdateRead(r) \/ UpdateFold(r))
                   \/ r \in Dequeuer /\ DequeueRead(r)
<1> SUFFICES Goal
  BY <1>1
<1>2. ASSUME UNCHANGED <<pc, base, next, todo, out>> PROVE Goal
  BY <1>0, <1>2 DEF Computed
<1>3. ASSUME NEW q \in Request, q # r => /\ pc'[r] = pc[r] /\ base'[r] = base[r]
                                         /\ next'[r] = next[r]
                                         /\ r \in Updater => todo'[r] = todo[r]
                                         /\ r \in Dequeuer => out'[r] = out[r],
             q = r => Goal
      PROVE  Goal
  <2>1. CASE q = r
    BY <1>3, <2>1
  <2>2. CASE q # r
    <3>1. /\ pc'[r] = pc[r] /\ base'[r] = base[r] /\ next'[r] = next[r]
          /\ r \in Updater => todo'[r] = todo[r]
          /\ r \in Dequeuer => out'[r] = out[r]
      BY <1>3, <2>2
    <3> QED
      BY <3>1 DEF Computed
  <2> QED
    BY <2>1, <2>2
<1>4. ASSUME NEW a \in Album, Written(a) \/ Deleted(a) PROVE Goal
  BY <1>2, <1>4 DEF Written, Deleted
<1>5. ASSUME NEW u \in Updater, ScanStart(u) \/ ScanShared(u) \/ ScanEnd(u) \/ ScanFails(u)
                               \/ ScanAnswered(u)
      PROVE  Goal
  BY <1>2, <1>5 DEF ScanStart, ScanShared, ScanEnd, ScanFails, ScanAnswered
<1> HIDE DEF Goal
<1>6. ASSUME NEW q \in Request, NEW how, how \notin {"folding", "read", "setting"},
             pc' = [pc EXCEPT ![q] = how], UNCHANGED out,
             \A o \in Request : o # q => /\ base'[o] = base[o] /\ next'[o] = next[o]
                                         /\ o \in Updater => todo'[o] = todo[o]
      PROVE  Goal
  <2>1. q # r
    BY <1>0, <1>6 DEF Computed
  <2>2. /\ pc'[r] = pc[r] /\ base'[r] = base[r] /\ next'[r] = next[r]
        /\ r \in Updater => todo'[r] = todo[r]
        /\ r \in Dequeuer => out'[r] = out[r]
    <3>1. pc'[r] = pc[r]
      BY <1>0, <1>6, <2>1
    <3>2. /\ base'[r] = base[r] /\ next'[r] = next[r]
          /\ r \in Updater => todo'[r] = todo[r]
      BY <1>6, <2>1
    <3>3. r \in Dequeuer => out'[r] = out[r]
      BY <1>6
    <3> QED
      BY <3>1, <3>2, <3>3
  <2> QED
    BY <1>3, <2>1, <2>2
<1>7. ASSUME NEW u \in Updater, Update(u) PROVE Goal
  BY <1>0, <1>6, <1>7 DEF Update
<1>8. ASSUME NEW q \in Request, NEW how, how \notin {"folding", "read", "setting"}, Finish(q, how)
      PROVE  Goal
  BY <1>0, <1>6, <1>8 DEF Finish, Forget
<1>9. ASSUME NEW u \in Updater, UpdateRead(u) \/ UpdateFold(u) PROVE Goal
  <2>1. u = r => Goal
    BY <1>9 DEF Goal
  <2>2. u # r => /\ pc'[r] = pc[r] /\ base'[r] = base[r] /\ next'[r] = next[r]
                 /\ r \in Updater => todo'[r] = todo[r]
                 /\ r \in Dequeuer => out'[r] = out[r]
    <3>1. CASE UpdateRead(u)
      BY <1>0, <3>1 DEF UpdateRead
    <3>2. CASE UpdateFold(u)
      BY <1>0, <3>2 DEF UpdateFold
    <3> QED
      BY <1>9, <3>1, <3>2
  <2> QED
    BY <1>0, <1>3, <2>1, <2>2
<1>10. ASSUME NEW u \in Updater, UpdateFails(u) PROVE Goal
  BY <1>0, <1>8, <1>10 DEF UpdateFails
<1>11. ASSUME NEW d \in Dequeuer, DequeueRead(d) PROVE Goal
  <2>1. d = r => Goal
    BY <1>11 DEF Goal
  <2>2. d # r => /\ pc'[r] = pc[r] /\ base'[r] = base[r] /\ next'[r] = next[r]
                 /\ r \in Updater => todo'[r] = todo[r]
                 /\ r \in Dequeuer => out'[r] = out[r]
    BY <1>0, <1>11 DEF DequeueRead
  <2> QED
    BY <1>0, <1>3, <2>1, <2>2
<1>12. ASSUME NEW d \in Dequeuer, DequeueEmpty(d) PROVE Goal
  BY <1>0, <1>8, <1>12 DEF DequeueEmpty
<1>13. ASSUME NEW q \in Request, Set(q) PROVE Goal
  <2>1. pc[q] = "read" /\ pc' = [pc EXCEPT ![q] = "setting"] /\ UNCHANGED <<base, next, todo, out>>
    BY <1>13 DEF Set
  <2> QED
    BY <1>0, <2>1 DEF Goal, Computed
<1>14. CASE Assign
  BY <1>2, <1>14 DEF Assign
<1>15. CASE Keep
  <2>1. Head(mailbox) \in Request
    BY <1>15, Mailbox DEF Keep, Layer2, Layer1, TypeOK
  <2> QED
    BY <1>6, <1>15, <2>1 DEF Keep, Forget
<1>16. CASE Save \/ SaveFails
  <2>1. saving \in Request
    BY <1>16, SavingType DEF Save, SaveFails, Answer, Layer2
  <2>2. CASE Save
    BY <1>6, <2>1, <2>2 DEF Save, Answer, Forget
  <2>3. CASE SaveFails
    BY <1>6, <2>1, <2>3 DEF SaveFails, Answer
  <2> QED
    BY <1>16, <2>2, <2>3
<1>17. CASE UNCHANGED vars
  BY <1>2, <1>17 DEF vars
<1> QED
  BY <1>1, <1>4, <1>5, <1>7, <1>9, <1>10, <1>11, <1>12, <1>13, <1>14, <1>15, <1>16, <1>17
  DEF Next

(* What a request has computed still loses nothing when it only waits. *)
LEMMA ComputedWaits ==
  ASSUME Layer2, Remembered, [Next]_vars, ~raced, value.time <= value'.time,
         NEW r \in Request, Computed(r)' \/ pc'[r] = "folding",
         Computed(r)' => Computed(r),
         pc'[r] = "folding" => pc[r] = "folding",
         r \in Updater /\ pc'[r] = "folding" => todo'[r] = todo[r],
         base'[r] = base[r], next'[r] = next[r],
         r \in Dequeuer => out'[r] = out[r]
  PROVE  /\ base'[r].time <= value'.time
         /\ base'[r].time = value'.time => /\ Computed(r)' => Covers(r)'
                                           /\ r \in Updater /\ pc'[r] = "folding" => Ahead(r)'
<1>0. /\ value.time \in Nat /\ value'.time \in Nat /\ base[r].time \in Nat /\ next[r].time \in Nat
      /\ next[r].time <= clock /\ base[r].time <= clock /\ clock \in Nat
      /\ \A a \in Album : mtime[a] \in Nat /\ mtime'[a] \in Nat
      /\ walked \in [Updater -> SUBSET Album]
  <2>1. /\ value \in State /\ value' \in State /\ base[r] \in State /\ next[r] \in State
        /\ Ordered(base[r], mtime, clock, Seen, Still) /\ Ordered(next[r], mtime, clock, Seen, Still)
    BY TypeNext DEF Layer2, Layer1, TypeOK, Times
  <2>2. /\ mtime \in [Album -> Nat] /\ mtime' \in [Album -> Nat] /\ clock \in Nat
    BY Steady DEF Layer2
  <2> QED
    BY <2>1, <2>2, InType DEF Ordered, Layer2, Layer1, TypeOK
<1>1. base[r].time <= value.time
  BY DEF Remembered
<1>2. base'[r].time <= value'.time
  BY <1>0, <1>1
<1>3. ASSUME base'[r].time = value'.time
      PROVE  value.time = base[r].time /\ (Computed(r) => Covers(r))
             /\ (r \in Updater /\ pc[r] = "folding" => Ahead(r))
  <2>1. value.time = base[r].time
    BY <1>0, <1>1, <1>3
  <2> QED
    BY <2>1 DEF Remembered
<1>4. ASSUME NEW a \in Claimed'
      PROVE  /\ a \in Album
             /\ \/ a \in Claimed /\ mtime'[a] = mtime[a] /\ ~(mtime'[a] > clock)
                \/ mtime'[a] > clock /\ \A c \in Album : c # a => mtime'[c] < mtime'[a]
             /\ ~(mtime'[a] > clock) /\ mtime[a] > value.time =>
                  \A c \in Awaited : mtime'[c] = mtime[c]
  BY Renewed
<1>5. ASSUME base'[r].time = value'.time, Computed(r)' PROVE Covers(r)'
  <2>1. Covers(r)
    BY <1>3, <1>5
  <2>2. ASSUME NEW a \in Claimed', a \in In(base[r]) \/ mtime'[a] > base[r].time
        PROVE  mtime'[a] > next[r].time \/ a \in In(next[r]) \/ (r \in Dequeuer /\ out[r] = a)
    <3>1. CASE mtime'[a] > clock
      BY <1>0, <1>4, <3>1
    <3>2. CASE a \in Claimed /\ mtime'[a] = mtime[a]
      BY <2>1, <2>2, <3>2 DEF Covers
    <3> QED
      BY <1>4, <3>1, <3>2
  <2>3. In(base[r])' = In(base[r]) /\ In(next[r])' = In(next[r])
    BY DEF In
  <2> QED
    BY <2>2, <2>3 DEF Covers
<1>6. ASSUME base'[r].time = value'.time, r \in Updater, pc'[r] = "folding" PROVE Ahead(r)'
  <2>1. /\ Ahead(r) /\ value.time = base[r].time
        /\ \A i \in 1..Len(todo[r]) : todo[r][i] \in Awaited /\ todo[r][i] \in Album
    <3>1. /\ servedBy[r] \in Updater /\ found[servedBy[r]] = "done" /\ pc[r] = "folding"
          /\ \A i \in 1..Len(todo[r]) : todo[r][i] \in walked[servedBy[r]]
      BY <1>6 DEF Layer2, Layer1, Basis
    <3>2. walked[servedBy[r]] \subseteq Awaited
      BY <1>6, <3>1 DEF Awaited
    <3>3. walked[servedBy[r]] \subseteq Album
      BY <1>0, <3>1
    <3> QED
      BY <1>3, <1>6, <3>1, <3>2, <3>3
  <2>2. ASSUME NEW a \in Claimed', mtime'[a] > base[r].time
        PROVE  \/ a \in In(next[r])
               \/ /\ mtime'[a] > next[r].time
                  /\ \A i \in 1..Len(todo[r]) :
                       mtime'[todo[r][i]] < mtime'[a] \/ \E j \in 1..i : todo[r][j] = a
    <3>1. CASE mtime'[a] > clock
      <4>1. mtime'[a] > next[r].time
        BY <1>0, <1>4, <3>1
      <4>2. ASSUME NEW i \in 1..Len(todo[r])
            PROVE  mtime'[todo[r][i]] < mtime'[a] \/ \E j \in 1..i : todo[r][j] = a
        <5>1. CASE todo[r][i] = a
          <6>1. i \in 1..i
            OBVIOUS
          <6> QED
            BY <5>1, <6>1
        <5>2. CASE todo[r][i] # a
          BY <1>4, <2>1, <3>1, <5>2
        <5> QED
          BY <5>1, <5>2
      <4> QED
        BY <4>1, <4>2
    <3>2. CASE ~(mtime'[a] > clock)
      <4>1. a \in Claimed /\ mtime'[a] = mtime[a] /\ mtime[a] > base[r].time
        BY <1>4, <2>2, <3>2
      <4>2. \A i \in 1..Len(todo[r]) : mtime'[todo[r][i]] = mtime[todo[r][i]]
        BY <1>4, <2>1, <3>2, <4>1
      <4>3. \/ a \in In(next[r])
            \/ /\ mtime[a] > next[r].time
               /\ \A i \in 1..Len(todo[r]) :
                    mtime[todo[r][i]] < mtime[a] \/ \E j \in 1..i : todo[r][j] = a
        BY <2>1, <4>1 DEF Ahead
      <4> QED
        BY <4>1, <4>2, <4>3
    <3> QED
      BY <3>1, <3>2
  <2>3. In(base[r])' = In(base[r]) /\ In(next[r])' = In(next[r]) /\ todo'[r] = todo[r]
    BY <1>6 DEF In
  <2> QED
    BY <2>1, <2>2, <2>3 DEF Ahead
<1> QED
  BY <1>2, <1>5, <1>6

(* What an update reads is ahead of what it has to enqueue. *)
LEMMA ReadAhead ==
  ASSUME Layer2, Apart, Remembered, ~raced, NEW u \in Updater, UpdateRead(u)
  PROVE  /\ base'[u].time <= value'.time
         /\ Computed(u)' => Covers(u)'
         /\ pc'[u] = "folding" => Ahead(u)'
<1>0. /\ value \in State /\ value.time \in Nat /\ u \in Request
      /\ pc \in [Request -> {"idle", "asking", "folding", "read", "setting", "done", "failed",
                             "lost"}]
      /\ base \in [Request -> State] /\ next \in [Request -> State]
      /\ todo \in [Updater -> Seq(Album)] /\ walked \in [Updater -> SUBSET Album]
      /\ \A a \in Album : mtime[a] \in Nat
      /\ servedBy[u] \in Updater
  <2>1. servedBy[u] \in Updater
    BY DEF Layer2, Layer1, Basis, UpdateRead
  <2> QED
    BY <2>1, InType, Values DEF Layer2, Layer1, TypeOK
<1>1. PICK q \in Sorted(walked[servedBy[u]]) :
        /\ todo' = [todo EXCEPT ![u] = q]
        /\ pc' = [pc EXCEPT ![u] = IF q = <<>> THEN "read" ELSE "folding"]
  BY DEF UpdateRead
<1>2. /\ base'[u] = value /\ next'[u] = value /\ todo'[u] = q /\ UNCHANGED <<value, mtime, exists, excused>>
      /\ pc[u] = "asking" /\ status[u] = "answered" /\ found[servedBy[u]] = "done"
  BY <1>0, <1>1 DEF UpdateRead, files, history
<1>3. Claimed' = Claimed /\ In(base[u])' = In(value) /\ In(next[u])' = In(value)
  BY <1>2 DEF Claimed, In
<1>4. base'[u].time <= value'.time
  BY <1>0, <1>2
<1>5. ASSUME NEW a \in Claimed, mtime[a] > value.time, NEW i \in 1..Len(q)
      PROVE  mtime[q[i]] < mtime[a] \/ \E j \in 1..i : q[j] = a
  <2>1. walked[servedBy[u]] \subseteq Album
    BY <1>0
  <2>2. /\ q \in Seq(Album) /\ \A k \in 1..Len(q) : q[k] \in walked[servedBy[u]]
        /\ \A k, j \in 1..Len(q) : k < j => mtime[q[k]] <= mtime[q[j]] /\ q[k] # q[j]
        /\ \A b \in walked[servedBy[u]] : \E k \in 1..Len(q) : q[k] = b
    BY <2>1, SortedValue
  <2>3. a \in walked[servedBy[u]] \/ \A b \in walked[servedBy[u]] : mtime[b] < mtime[a]
    <3>1. Pending(servedBy[u])
      BY <1>2 DEF Pending
    <3> QED
      BY <1>0, <1>2, <1>5, <3>1 DEF Remembered, Scanned
  <2>4. CASE a \in walked[servedBy[u]]
    <3>1. PICK k \in 1..Len(q) : q[k] = a
      BY <2>2, <2>4
    <3>2. CASE k <= i
      <4>1. k \in 1..i
        BY <3>2
      <4> QED
        BY <3>1, <4>1
    <3>3. CASE i < k
      <4>1. mtime[q[i]] <= mtime[a] /\ q[i] # a /\ q[i] \in Album
        BY <2>1, <2>2, <3>1, <3>3
      <4>2. mtime[q[i]] # mtime[a]
        BY <4>1 DEF Apart
      <4>3. mtime[q[i]] \in Nat /\ mtime[a] \in Nat
        BY <1>0, <2>1, <2>4, <4>1
      <4> QED
        BY <4>1, <4>2, <4>3
    <3> QED
      BY <3>2, <3>3
  <2>5. CASE \A b \in walked[servedBy[u]] : mtime[b] < mtime[a]
    BY <2>2, <2>5
  <2> QED
    BY <2>3, <2>4, <2>5
<1> QED
  BY <1>2, <1>3, <1>4, <1>5 DEF Covers, Ahead

(* Enqueueing the next album keeps what is ahead. *)
LEMMA FoldAhead ==
  ASSUME Layer2, Remembered, ~raced, NEW u \in Updater, UpdateFold(u)
  PROVE  /\ base'[u].time <= value'.time
         /\ base'[u].time = value'.time => /\ Computed(u)' => Covers(u)'
                                           /\ pc'[u] = "folding" => Ahead(u)'
<1> DEFINE b == Head(todo[u])
           q == todo[u]
<1>0. /\ u \in Request /\ base[u] \in State /\ next[u] \in State /\ next[u].time \in Nat
      /\ pc \in [Request -> {"idle", "asking", "folding", "read", "setting", "done", "failed",
                             "lost"}]
      /\ next \in [Request -> State] /\ todo \in [Updater -> Seq(Album)]
      /\ q \in Seq(Album) /\ q # <<>> /\ mtime \in [Album -> 0..MaxTime]
      /\ \A a \in Album : mtime[a] \in Nat
      /\ exists \subseteq Album
  <2>1. /\ u \in Request /\ base[u] \in State /\ next[u] \in State /\ q \in Seq(Album) /\ q # <<>>
    BY Values DEF Layer2, Layer1, TypeOK, Basis, UpdateFold
  <2> QED
    BY <2>1, InType, Values DEF Layer2, Layer1, TypeOK
<1>1. /\ base' = base /\ UNCHANGED <<value, mtime, exists, excused>>
      /\ next'[u] = Enqueued(next[u], b) /\ todo'[u] = Tail(q)
      /\ pc[u] = "folding"
      /\ pc'[u] = IF Tail(q) = <<>> THEN "read" ELSE "folding"
  BY <1>0 DEF UpdateFold, files, history
<1>2. /\ b \in Album /\ b = q[1] /\ Tail(q) \in Seq(Album) /\ Len(q) \in Nat /\ Len(q) >= 1
      /\ Len(Tail(q)) = Len(q) - 1 /\ \A i \in 1..Len(q) - 1 : Tail(q)[i] = q[i + 1]
  BY <1>0, Mailbox
<1>3. /\ In(Enqueued(next[u], b)) = IF mtime[b] <= next[u].time THEN In(next[u])
                                    ELSE In(next[u]) \cup {b}
      /\ Enqueued(next[u], b).time = IF mtime[b] <= next[u].time THEN next[u].time ELSE mtime[b]
  BY <1>0, <1>2, EnqueuedValue
<1> HIDE DEF b, q
<1>4. Claimed' = Claimed /\ In(base[u])' = In(base[u]) /\ In(next[u])' = In(Enqueued(next[u], b))
  BY <1>1 DEF Claimed, In
<1>5. base'[u].time <= value'.time
  <2>1. base[u].time <= value.time
    BY <1>0, <1>1 DEF Remembered
  <2> QED
    BY <1>1, <2>1
<1>6. ASSUME base'[u].time = value'.time
      PROVE  /\ In(base[u]) \subseteq In(Enqueued(next[u], b))
             /\ \A a \in Claimed : mtime[a] > base[u].time =>
                  \/ a \in In(Enqueued(next[u], b))
                  \/ /\ mtime[a] > Enqueued(next[u], b).time
                     /\ \A i \in 1..Len(Tail(q)) :
                          mtime[Tail(q)[i]] < mtime[a] \/ \E j \in 1..i : Tail(q)[j] = a
  <2>1. Ahead(u)
    <3>1. base[u].time = value.time
      BY <1>1, <1>6
    <3> QED
      BY <1>0, <1>1, <3>1 DEF Remembered
  <2>2. In(next[u]) \subseteq In(Enqueued(next[u], b))
    BY <1>3
  <2>3. ASSUME NEW a \in Claimed, mtime[a] > base[u].time, a \notin In(Enqueued(next[u], b))
        PROVE  /\ mtime[a] > Enqueued(next[u], b).time
               /\ \A i \in 1..Len(Tail(q)) :
                    mtime[Tail(q)[i]] < mtime[a] \/ \E j \in 1..i : Tail(q)[j] = a
    <3>1. /\ mtime[a] > next[u].time
          /\ \A i \in 1..Len(q) : mtime[q[i]] < mtime[a] \/ \E j \in 1..i : q[j] = a
      BY <2>1, <2>2, <2>3 DEF Ahead, q
    <3>2. mtime[a] \in Nat /\ mtime[b] \in Nat /\ next[u].time \in Nat
      BY <1>0, <1>2 DEF Claimed
    <3>3. b # a
      BY <1>3, <2>3, <3>1, <3>2
    <3>4. mtime[b] < mtime[a]
      <4>1. 1 \in 1..Len(q) /\ \A j \in 1..1 : j = 1
        BY <1>2
      <4> QED
        BY <1>2, <3>1, <3>3, <4>1
    <3>5. ASSUME NEW i \in 1..Len(Tail(q))
          PROVE  mtime[Tail(q)[i]] < mtime[a] \/ \E j \in 1..i : Tail(q)[j] = a
      <4>1. i \in 1..Len(q) - 1 /\ i + 1 \in 1..Len(q) /\ Tail(q)[i] = q[i + 1]
        BY <1>2
      <4>2. CASE mtime[q[i + 1]] < mtime[a]
        BY <4>1, <4>2
      <4>3. CASE \E j \in 1..i + 1 : q[j] = a
        <5>1. PICK j \in 1..i + 1 : q[j] = a
          BY <4>3
        <5>2. j # 1
          BY <1>2, <3>3, <5>1
        <5>3. j - 1 \in 1..i /\ j - 1 \in 1..Len(q) - 1 /\ (j - 1) + 1 = j
          BY <1>2, <4>1, <5>2
        <5>4. Tail(q)[j - 1] = q[j]
          BY <1>2, <5>3
        <5> QED
          BY <5>1, <5>3, <5>4
      <4> QED
        BY <3>1, <4>1, <4>2, <4>3
    <3> QED
      BY <1>3, <3>1, <3>4, <3>5
  <2> QED
    BY <2>1, <2>2, <2>3 DEF Ahead
<1>7. ASSUME base'[u].time = value'.time, Computed(u)' PROVE Covers(u)'
  BY <1>1, <1>4, <1>6, <1>7 DEF Covers
<1>8. ASSUME base'[u].time = value'.time, pc'[u] = "folding" PROVE Ahead(u)'
  <2> DEFINE p == Tail(q)
             n == Enqueued(next[u], b)
  <2>1. /\ In(base[u]) \subseteq In(n)
        /\ \A a \in Claimed : mtime[a] > base[u].time =>
             \/ a \in In(n)
             \/ /\ mtime[a] > n.time
                /\ \A i \in 1..Len(p) :
                     mtime[p[i]] < mtime[a] \/ \E j \in 1..i : p[j] = a
    BY <1>6, <1>8
  <2>2. next'[u] = n /\ todo'[u] = p /\ mtime' = mtime /\ base'[u] = base[u]
    BY <1>1
  <2>3. In(next[u])' = In(n) /\ In(base[u])' = In(base[u]) /\ Claimed' = Claimed
    BY <1>4
  <2> HIDE DEF p, n
  <2> QED
    BY <2>1, <2>2, <2>3 DEF Ahead
<1> QED
  BY <1>5, <1>7, <1>8

(* A dequeue drops only the album it hands out, of those that are there. *)
LEMMA DequeueCovers ==
  ASSUME Layer2, NEW d \in Dequeuer, DequeueRead(d)
  PROVE  base'[d].time <= value'.time /\ Covers(d)'
<1>0. /\ d \in Request /\ value \in State /\ value.time \in Nat /\ mtime \in [Album -> Nat]
      /\ base \in [Request -> State] /\ next \in [Request -> State]
      /\ out \in [Dequeuer -> Album \cup {NoAlbum}]
  BY InType, Steady, Values DEF Layer2, Layer1, TypeOK
<1>1. PICK i \in FirstPresent(value) :
        /\ next' = [next EXCEPT ![d] = AfterDequeue(value, i)]
        /\ out' = [out EXCEPT ![d] = value.queue[i]]
  BY DEF DequeueRead
<1>2. /\ base'[d] = value /\ next'[d] = AfterDequeue(value, i) /\ out'[d] = value.queue[i]
      /\ UNCHANGED <<value, mtime, exists, excused>>
  BY <1>0, <1>1 DEF DequeueRead, files, history
<1>3. /\ AfterDequeue(value, i).time = value.time
      /\ \A b \in In(value) : b \in exists =>
           b = value.queue[i] \/ b \in In(AfterDequeue(value, i))
  BY <1>0, DequeuedValue
<1>4. /\ Claimed' = Claimed /\ In(base[d])' = In(value)
      /\ In(next[d])' = In(AfterDequeue(value, i))
  BY <1>2 DEF Claimed, In
<1>5. Covers(d)'
  BY <1>2, <1>3, <1>4 DEF Covers, Claimed
<1> QED
  BY <1>0, <1>2, <1>5

(* No value a request computes loses an album. *)
LEMMA ComputedNext ==
  ASSUME Layer2, Apart, Remembered, [Next]_vars, ~raced', NEW r \in Request
  PROVE  /\ Computed(r)' \/ pc'[r] = "folding" => base'[r].time <= value'.time
         /\ base'[r].time = value'.time => /\ Computed(r)' => Covers(r)'
                                           /\ r \in Updater /\ pc'[r] = "folding" => Ahead(r)'
<1> SUFFICES ASSUME Computed(r)' \/ pc'[r] = "folding"
             PROVE  /\ base'[r].time <= value'.time
                    /\ base'[r].time = value'.time =>
                         /\ Computed(r)' => Covers(r)'
                         /\ r \in Updater /\ pc'[r] = "folding" => Ahead(r)'
  OBVIOUS
<1>1. ~raced /\ value.time <= value'.time
  BY ComputedSteps, Growing
<1>2. CASE /\ Computed(r)' => Computed(r)
           /\ pc'[r] = "folding" => pc[r] = "folding"
           /\ r \in Updater /\ pc'[r] = "folding" => todo'[r] = todo[r]
           /\ base'[r] = base[r] /\ next'[r] = next[r]
           /\ r \in Dequeuer => out'[r] = out[r]
  BY <1>1, <1>2, ComputedWaits
<1>3. CASE r \in Updater /\ UpdateRead(r)
  BY <1>1, <1>3, ReadAhead
<1>4. CASE r \in Updater /\ UpdateFold(r)
  BY <1>1, <1>4, FoldAhead
<1>5. CASE r \in Dequeuer /\ DequeueRead(r)
  <2>1. r \notin Updater
    BY <1>5, Values
  <2> QED
    BY <1>5, <2>1, DequeueCovers
<1> QED
  BY <1>2, <1>3, <1>4, <1>5, ComputedSteps

(* A dequeue that is over stays over, and so does what it handed out; one that
   is being saved is next, unless the process dies. *)
LEMMA OverNext ==
  ASSUME Layer2, [Next]_vars
  PROVE  /\ \A d \in Over : d \in Over' /\ out'[d] = out[d]
         /\ \A d \in Dequeuer : d = saving =>
              out'[d] = out[d] /\ (d \in Over' \/ d = saving' \/ Restart)
<1> USE DEF files, actor, unique, scans, requests, history
<1>0. /\ pc \in [Request -> {"idle", "asking", "folding", "read", "setting", "done", "failed",
                             "lost"}]
      /\ out \in [Dequeuer -> Album \cup {NoAlbum}]
      /\ Updater \subseteq Request /\ Dequeuer \subseteq Request /\ NoCall \notin Request
      /\ \A u \in Updater : u \notin Dequeuer
      /\ saving # NoCall => saving \in Request /\ pc[saving] = "setting"
  BY Values, SavingType DEF Layer2, Layer1, TypeOK
<1> DEFINE Goal == /\ \A d \in Over : d \in Over' /\ out'[d] = out[d]
                   /\ \A d \in Dequeuer : d = saving =>
                        out'[d] = out[d] /\ (d \in Over' \/ d = saving' \/ Restart)
<1>1. ASSUME UNCHANGED <<saving, out>>,
             \A d \in Dequeuer : pc[d] \in {"done", "failed"} => pc'[d] \in {"done", "failed"}
      PROVE  Goal
  BY <1>1 DEF Over
<1> HIDE DEF Goal
<1>2. ASSUME NEW a \in Album, Written(a) \/ Deleted(a) PROVE Goal
  BY <1>1, <1>2 DEF Written, Deleted
<1>3. ASSUME NEW u \in Updater, ScanStart(u) \/ ScanShared(u) \/ ScanEnd(u)
                               \/ ScanFails(u) \/ ScanAnswered(u)
      PROVE  Goal
  BY <1>1, <1>3 DEF ScanStart, ScanShared, ScanEnd, ScanFails, ScanAnswered
<1>4. ASSUME NEW u \in Updater, Update(u) \/ UpdateRead(u) \/ UpdateFold(u) \/ UpdateFails(u)
      PROVE  Goal
  <2>1. UNCHANGED <<saving, out>> /\ \A d \in Dequeuer : pc'[d] = pc[d]
    BY <1>0, <1>4 DEF Update, UpdateRead, UpdateFold, UpdateFails, Finish
  <2> QED
    BY <1>1, <2>1
<1>5. ASSUME NEW d \in Dequeuer, DequeueRead(d) PROVE Goal
  <2>1. /\ pc[d] = "idle" /\ pc' = [pc EXCEPT ![d] = "read"] /\ saving' = saving
        /\ \A e \in Dequeuer : e # d => out'[e] = out[e]
    BY <1>0, <1>5 DEF DequeueRead
  <2>2. d # saving /\ d \notin Over
    BY <1>0, <2>1 DEF Over
  <2>3. \A e \in Over : e \in Dequeuer /\ e # d /\ e \in Over'
    BY <1>0, <2>1, <2>2 DEF Over
  <2> QED
    BY <2>1, <2>2, <2>3 DEF Goal
<1>6. ASSUME NEW d \in Dequeuer, DequeueEmpty(d) PROVE Goal
  BY <1>0, <1>1, <1>6 DEF DequeueEmpty, Finish
<1>7. ASSUME NEW r \in Request, Set(r) PROVE Goal
  BY <1>0, <1>1, <1>7 DEF Set
<1>8. CASE Assign
  <2>1. saving = NoCall /\ UNCHANGED <<pc, out>>
    BY <1>8 DEF Assign
  <2> QED
    BY <1>0, <2>1 DEF Goal, Over
<1>9. CASE Keep
  <2>1. UNCHANGED <<saving, out>> /\ pc' = [pc EXCEPT ![Head(mailbox)] = "done"]
    BY <1>9 DEF Keep
  <2>2. \A d \in Dequeuer : pc[d] \in {"done", "failed"} => pc'[d] \in {"done", "failed"}
    BY <1>0, <2>1
  <2> QED
    BY <1>1, <2>1, <2>2 DEF Goal
<1>10. CASE Save \/ SaveFails
  <2>1. PICK how \in {"done", "failed"} :
          saving # NoCall /\ pc' = [pc EXCEPT ![saving] = how] /\ out' = out
    BY <1>10 DEF Save, SaveFails, Answer
  <2>2. \A d \in Dequeuer : d \in Over \/ d = saving => d \in Over'
    BY <1>0, <2>1 DEF Over
  <2> QED
    BY <2>1, <2>2 DEF Goal, Over
<1>11. CASE Restart
  <2>1. out' = out /\ \A d \in Dequeuer : d \in Over => d \in Over'
    BY <1>0, <1>11 DEF Restart, Over
  <2> QED
    BY <1>11, <2>1 DEF Goal, Over
<1>12. CASE UNCHANGED vars
  <2>1. saving' = saving /\ out' = out /\ pc' = pc
    BY <1>12 DEF vars
  <2> QED
    BY <1>1, <2>1 DEF Goal
<1> QED
  BY <1>2, <1>3, <1>4, <1>5, <1>6, <1>7, <1>8, <1>9, <1>10, <1>11, <1>12 DEF Next, Goal

(* Neither the current value nor the file loses an album. *)
LEMMA AccountedNext ==
  ASSUME Layer2, Remembered, [Next]_vars, ~raced'
  PROVE  /\ Accounted(value, Over \cup {d \in Dequeuer : d = saving})'
         /\ disk' # NoFile => Accounted(disk, Over)'
<1> USE DEF files, actor, unique, scans, requests, history
<1> DEFINE Current == Over \cup {d \in Dequeuer : d = saving}
           Kept(la, D) == \A a \in Claimed' :
             mtime'[a] > la.time \/ a \in In(la) \/ \E d \in D : out'[d] = a
<1>0. /\ ~raced /\ value \in State /\ disk \in State \cup {NoFile} /\ clock \in Nat
      /\ mtime \in [Album -> Nat] /\ mtime' \in [Album -> Nat]
      /\ Ordered(value, mtime, clock, Seen, Still)
      /\ disk # NoFile => Ordered(disk, mtime, clock, Seen, Still)
      /\ Accounted(value, Current) /\ (disk # NoFile => Accounted(disk, Over))
      /\ NoCall \notin Dequeuer
  BY Growing, Steady, Values DEF Layer2, Layer1, TypeOK, Times, Remembered
<1>1. /\ \A d \in Over : d \in Over' /\ out'[d] = out[d]
      /\ \A d \in Dequeuer : d = saving =>
           out'[d] = out[d] /\ (d \in Over' \/ d = saving' \/ Restart)
  BY OverNext
<1>2. ASSUME NEW la \in State, Ordered(la, mtime, clock, Seen, Still), NEW D, Accounted(la, D),
             NEW E, \A d \in D : d \in E /\ out'[d] = out[d]
      PROVE  Kept(la, E)
  <2> SUFFICES ASSUME NEW a \in Claimed'
               PROVE  mtime'[a] > la.time \/ a \in In(la) \/ \E d \in E : out'[d] = a
    OBVIOUS
  <2>1. a \in Album /\ ((a \in Claimed /\ mtime'[a] = mtime[a]) \/ mtime'[a] > clock)
    BY Renewed
  <2>2. CASE mtime'[a] > clock
    <3>1. la.time <= clock /\ la.time \in Nat /\ mtime'[a] \in Nat
      BY <1>0, <1>2, <2>1, InType DEF Ordered
    <3> QED
      BY <1>0, <2>2, <3>1
  <2>3. CASE a \in Claimed /\ mtime'[a] = mtime[a]
    <3>1. mtime[a] > la.time \/ a \in In(la) \/ \E d \in D : out[d] = a
      BY <1>2, <2>3 DEF Accounted
    <3> QED
      BY <1>2, <2>3, <3>1
  <2> QED
    BY <2>1, <2>2, <2>3
<1>3. disk # NoFile => Kept(disk, Over')
  BY <1>0, <1>1, <1>2
<1>4. ~Restart => Kept(value, Over' \cup {d \in Dequeuer : d = saving'})
  BY <1>0, <1>1, <1>2
<1>5. saving # NoCall /\ saving' = NoCall /\ ~Restart => Kept(value, Over')
  BY <1>0, <1>4
<1> HIDE DEF Kept
<1> DEFINE Goal == /\ Kept(value', Over' \cup {d \in Dequeuer : d = saving'})
                   /\ disk' # NoFile => Kept(disk', Over')
<1>6. SUFFICES Goal
  BY <1>6 DEF Kept, Accounted, In
<1>7. CASE Restart
  <2>1. /\ saving' = NoCall /\ disk' = disk /\ UNCHANGED <<mtime, exists>>
        /\ value' = IF disk = NoFile THEN Zero ELSE disk
        /\ disk = NoFile => excused' = {a \in Album : mtime[a] > 0} \cup excused
    BY <1>7 DEF Restart
  <2>2. CASE disk # NoFile
    <3>1. {d \in Dequeuer : d = saving'} = {}
      BY <1>0, <2>1
    <3> QED
      BY <1>3, <2>1, <2>2, <3>1
  <2>3. CASE disk = NoFile
    <3>1. Claimed' = {}
      BY <2>1, <2>3 DEF Claimed, Layer2, Layer1, TypeOK, Times
    <3> QED
      BY <2>1, <2>3, <3>1 DEF Kept
  <2> QED
    BY <2>2, <2>3
<1>8. CASE Assign
  <2> DEFINE r == Head(mailbox)
  <2>1. /\ saving = NoCall /\ saving' = r /\ value' = next[r] /\ mailbox # <<>>
        /\ base[r] = value
        /\ UNCHANGED <<disk, mtime, exists, excused, pc, out>>
    BY <1>8 DEF Assign
  <2>2. r \in Request /\ Computed(r)
    BY <2>1, Served DEF Layer2, Layer1, Computed
  <2> HIDE DEF r
  <2>3. Covers(r) /\ Claimed' = Claimed /\ Over' = Over
    BY <1>0, <2>1, <2>2 DEF Remembered, Claimed, Over
  <2>4. Kept(value', Over' \cup {d \in Dequeuer : d = saving'})
    <3>1. ASSUME NEW a \in Claimed
          PROVE  \/ mtime[a] > next[r].time \/ a \in In(next[r])
                 \/ \E d \in Over \cup {e \in Dequeuer : e = r} : out[d] = a
      <4>1. mtime[a] > value.time \/ a \in In(value) \/ \E d \in Over : out[d] = a
        BY <1>0, <2>1 DEF Accounted
      <4> QED
        BY <2>1, <2>3, <4>1 DEF Covers
    <3> QED
      BY <2>1, <2>3, <3>1 DEF Kept
  <2> QED
    BY <1>3, <2>1, <2>4
<1>9. CASE Save
  <2>1. saving # NoCall /\ saving' = NoCall /\ disk' = value /\ value' = value
    BY <1>9 DEF Save, Answer
  <2> QED
    BY <1>4, <1>5, <1>7, <2>1
<1>10. ASSUME UNCHANGED <<value, disk>> PROVE Goal
  BY <1>3, <1>4, <1>7, <1>10
<1> HIDE DEF Goal
<1>11. ASSUME NEW a \in Album, Written(a) \/ Deleted(a) PROVE UNCHANGED <<value, disk>>
  BY <1>11 DEF Written, Deleted
<1>12. ASSUME NEW u \in Updater,
              Update(u) \/ ScanStart(u) \/ ScanShared(u) \/ ScanEnd(u) \/ ScanFails(u)
              \/ ScanAnswered(u) \/ UpdateRead(u) \/ UpdateFold(u) \/ UpdateFails(u)
      PROVE   UNCHANGED <<value, disk>>
  BY <1>12 DEF Update, ScanStart, ScanShared, ScanEnd, ScanFails, ScanAnswered, UpdateRead,
     UpdateFold, UpdateFails, Finish
<1>13. ASSUME \/ \E d \in Dequeuer : DequeueRead(d) \/ DequeueEmpty(d)
              \/ \E r \in Request : Set(r)
              \/ Keep \/ SaveFails \/ UNCHANGED vars
      PROVE   UNCHANGED <<value, disk>>
  BY <1>13 DEF DequeueRead, DequeueEmpty, Finish, Set, Keep, SaveFails, Answer, vars
<1> QED
  BY <1>7, <1>8, <1>9, <1>10, <1>11, <1>12, <1>13 DEF Next

(* Until a set overwrites a newer value, an album that is on disk is still to
   be found by the next scan, queued or was taken by a dequeue, through failed
   and shared scans, skipped directories, directories that are written to again,
   failed saves and restarts (LastAlbumsState.update, dequeue). *)
THEOREM NothingForgotten == Spec => []NoAlbumForgotten
<1>1. Init => Apart /\ Remembered
  <2> SUFFICES ASSUME Init PROVE Apart /\ Remembered
    OBVIOUS
  <2>1. /\ Claimed = {} /\ (\A r \in Request : pc[r] = "idle") /\ disk = NoFile
        /\ \A v \in Updater : found[v] = "none"
    BY DEF Init, Claimed
  <2> QED
    BY <2>1 DEF Apart, Scanned, Remembered, Computed, Accounted
<1>2. Layer2 /\ Apart /\ Remembered /\ [Next]_vars => (Apart /\ Remembered)'
  <2> SUFFICES ASSUME Layer2, Apart, Remembered, [Next]_vars PROVE (Apart /\ Remembered)'
    OBVIOUS
  <2>1. Apart'
    BY Renewed
  <2>2. Remembered'
    <3> SUFFICES ASSUME ~raced' PROVE Remembered'
      BY DEF Remembered
    <3>1. \A v \in Updater : Scanned(v)'
      BY ScannedNext
    <3>2. \A r \in Request :
            /\ Computed(r)' \/ pc'[r] = "folding" => base'[r].time <= value'.time
            /\ base'[r].time = value'.time => /\ Computed(r)' => Covers(r)'
                                              /\ r \in Updater /\ pc'[r] = "folding" => Ahead(r)'
      BY ComputedNext
    <3>3. /\ Accounted(value, Over \cup {d \in Dequeuer : d = saving})'
          /\ disk' # NoFile => Accounted(disk, Over)'
      BY AccountedNext
    <3> QED
      BY <3>1, <3>2, <3>3 DEF Remembered
  <2> QED
    BY <2>1, <2>2
<1>3. Layer2 /\ Remembered => NoAlbumForgotten
  <2> SUFFICES ASSUME Layer2, Remembered, ~raced, NEW a \in exists \ excused
               PROVE  \/ mtime[a] > value.time
                      \/ a \in Queued
                      \/ \E d \in Dequeuer : out[d] = a /\ pc[d] \in {"setting", "done", "failed"}
    BY DEF NoAlbumForgotten
  <2>1. \/ mtime[a] > value.time \/ a \in In(value)
        \/ \E d \in Over \cup {e \in Dequeuer : e = saving} : out[d] = a
    BY DEF Remembered, Accounted, Claimed
  <2>2. \A d \in Dequeuer : d = saving => pc[d] = "setting"
    BY SavingType, Values DEF Layer2
  <2> QED
    BY <2>1, <2>2 DEF Queued, In, Over
<1> QED
  BY <1>1, <1>2, <1>3, Layer2Invariance, PTL DEF Spec
=============================================================================
