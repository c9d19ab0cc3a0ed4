--------------------------- MODULE NewAlbums_proofs -------------------------
(***************************************************************************)
(* Proofs about NewAlbums for any requests, albums, IDs and releases: type *)
(* correctness, that an ignored artist stays ignored, that a recent fetch  *)
(* means that its albums are stored, that they are those of the artist's   *)
(* ID, and that only requests that overlap fail on a row.                  *)
(***************************************************************************)
EXTENDS NewAlbums, TLAPS

(* The first step of a request is one it can be at, and not one of a fetch. *)
LEMMA Firsts ==
  ASSUME NEW k \in Kind
  PROVE  /\ First[k] \in {"look", "remove", "delete", "find", "clear"}
         /\ First[k] = "clear" <=> k = "updateRecon"
BY DEF Kind, First

(* The insert stores some of the albums found, none of which was there and for
   all of which the artist has a row; it fails unless it stores them all. *)
LEMMA Inserts ==
  ASSUME TypeOK, NEW c \in Call, Insert(c)
  PROVE  \E albums \in SUBSET found[c] :
           /\ albums \cap Stored = {} /\ (albums # {} => fetched # "none")
           /\ Store(c, albums)
           /\ \/ Goes(c, "touch") /\ albums = found[c]
              \/ Goes(c, "failed") /\ \E a \in found[c] : ~Insertable(a)
<1>1. CASE \A a \in found[c] : Insertable(a)
  <2>1. Store(c, found[c]) /\ Goes(c, "touch")
    BY <1>1 DEF Insert
  <2>2. found[c] \cap Stored = {} /\ (found[c] # {} => fetched # "none")
    BY <1>1 DEF Insertable, Stored
  <2> QED
    BY <2>1, <2>2
<1>2. CASE ~\A a \in found[c] : Insertable(a)
  <2>1. PICK albums \in SUBSET {a \in found[c] : Insertable(a)} : Store(c, albums)
    BY <1>2 DEF Insert
  <2>2. Goes(c, "failed")
    BY <1>2 DEF Insert
  <2>3. albums \subseteq found[c] /\ albums \cap Stored = {} /\ (albums # {} => fetched # "none")
    BY DEF Insertable, Stored
  <2> QED
    BY <1>2, <2>1, <2>2, <2>3
<1> QED
  BY <1>1, <1>2

(* Storing albums adds them to those that are stored. *)
LEMMA Stores ==
  ASSUME TypeOK, NEW c \in Call, NEW albums \in SUBSET Album, Store(c, albums)
  PROVE  /\ row' \in [Album -> Row] /\ Stored' = Stored \cup albums
         /\ pure' \in BOOLEAN
         /\ pure' => pure /\ (albums = {} \/ (c \in clean /\ \A d \in Call : at[d] # "update"))
<1>1. row' \in [Album -> Row] /\ Stored' = Stored \cup albums
  BY DEF TypeOK, Store, Stored, Row
<1>2. pure' = (pure /\ (albums = {} \/ (c \in clean /\ \A d \in Call : at[d] # "update")))
  BY DEF Store
<1> QED
  BY <1>1, <1>2 DEF TypeOK

(* Removing, ignoring and unremoving albums stores and deletes none. *)
LEMMA FlagsOnly ==
  ASSUME TypeOK, NEW c \in Call,
         UnremoveAll(c) \/ RemoveArtist(c) \/ RemoveAlbum(c) \/ IgnoreAlbum(c)
  PROVE  row' \in [Album -> Row] /\ Stored' = Stored
BY DEF TypeOK, UnremoveAll, RemoveArtist, RemoveAlbum, IgnoreAlbum, Find, Mark, Stored, Row,
   tables
-----------------------------------------------------------------------------
(* Types. What a fetch and an update of the ID rely on when they write: the
   artist has a row, and the argument is an ID. *)
Located ==
  \A c \in Call : /\ at[c] \in {"clear", "update"} => arg[c] \in Recon
                  /\ at[c] \in Fetching => recon # NoRecon

Typed == TypeOK /\ Located

(* The variables have their types when the program is first started. *)
LEMMA TypedInit == Init => Typed
BY NewAlbumsAssumption
DEF Init, Typed, TypeOK, Located, Fetched, Row, At, Fetching, Over, Stored

(* Every step keeps the types. *)
LEMMA TypedNext == Typed /\ [Next]_vars => Typed'
<1> SUFFICES ASSUME Typed, [Next]_vars PROVE Typed'
  OBVIOUS
<1> USE DEF Typed, TypeOK, Located, Goes, tables, locals, history
<1>1. ASSUME NEW c \in Call, Request(c) PROVE Typed'
  <2>1. PICK k \in Kind : \E x \in Args(k) :
          /\ kind' = [kind EXCEPT ![c] = k] /\ arg' = [arg EXCEPT ![c] = x]
          /\ at' = [at EXCEPT ![c] = First[k]]
    BY <1>1 DEF Request
  <2>2. PICK x \in Args(k) :
          /\ kind' = [kind EXCEPT ![c] = k] /\ arg' = [arg EXCEPT ![c] = x]
          /\ at' = [at EXCEPT ![c] = First[k]]
    BY <2>1
  <2>3. /\ x \in Album \cup Recon \cup {NoArg} /\ (k = "updateRecon" => x \in Recon)
        /\ First[k] \in At /\ First[k] \notin Fetching \cup {"update"}
    BY <2>1, Firsts DEF Args, At, Fetching
  <2>4. crowded' \subseteq Call
    BY <1>1 DEF Request, Busy
  <2> QED
    BY <1>1, <2>2, <2>3, <2>4, Firsts DEF Request, Stored
<1>2. ASSUME NEW c \in Call, Get(c) PROVE Typed'
  <2>1. CASE Look(c) \/ Count(c) \/ Fresh(c) \/ List(c)
    BY <1>2, <2>1 DEF Look, Count, Fresh, List, At, Fetching, Over, Stored, Fetched
  <2>2. CASE Reset(c)
    BY <2>2 DEF Reset, ResetToEpoch, At, Fetching, Over, Stored, Fetched
  <2>3. CASE UnremoveAll(c)
    BY <2>3 DEF UnremoveAll, At, Fetching, Over, Stored, Row
  <2>4. CASE Reconcile(c) \/ Metadata(c) \/ Validate(c)
    BY <2>4, NewAlbumsAssumption
    DEF Reconcile, Metadata, Validate, At, Fetching, Over, Stored, ReleasedBy
  <2>5. CASE Insert(c)
    <3>1. PICK albums \in SUBSET found[c] :
            /\ albums # {} => fetched # "none"
            /\ Store(c, albums) /\ (Goes(c, "touch") \/ Goes(c, "failed"))
      BY <2>5, Inserts
    <3>2. /\ row' \in [Album -> Row] /\ Stored' = Stored \cup albums
          /\ pure' \in BOOLEAN
      BY <3>1, Stores
    <3>3. at' \in [Call -> At] /\ \A d \in Call : at'[d] \in Fetching => d = c \/ at[d] \in Fetching
      BY <3>1 DEF At, Fetching, Over
    <3>4. \A d \in Call : at'[d] \in {"clear", "update"} => at[d] \in {"clear", "update"}
      BY <3>1
    <3> QED
      BY <2>5, <3>1, <3>2, <3>3, <3>4 DEF Insert, Fetching
  <2>6. CASE Touch(c)
    BY <2>6 DEF Touch, At, Fetching, Over, Stored, Fetched
  <2> QED
    BY <1>2, <2>1, <2>2, <2>3, <2>4, <2>5, <2>6 DEF Get
<1>3. ASSUME NEW c \in Call, RemoveArtist(c) \/ Delete(c) \/ StoreForever(c) PROVE Typed'
  <2>1. CASE RemoveArtist(c)
    BY <2>1 DEF RemoveArtist, At, Fetching, Over, Stored, Row
  <2>2. CASE Delete(c)
    BY <2>2 DEF Delete, Deleted, At, Fetching, Over, Stored, Row, Fetched
  <2>3. CASE StoreForever(c)
    BY <2>3 DEF StoreForever, At, Fetching, Over, Stored, Fetched
  <2> QED
    BY <1>3, <2>1, <2>2, <2>3
<1>4. ASSUME NEW c \in Call, RemoveAlbum(c) \/ IgnoreAlbum(c) PROVE Typed'
  BY <1>4 DEF RemoveAlbum, IgnoreAlbum, Find, Mark, At, Fetching, Over, Stored, Row
<1>5. ASSUME NEW c \in Call, Clear(c) \/ UpdateRecon(c) PROVE Typed'
  BY <1>5, NewAlbumsAssumption
  DEF Clear, Deleted, UpdateRecon, At, Fetching, Over, Stored, Row
<1>6. CASE Reconciled
  BY <1>6, NewAlbumsAssumption DEF Reconciled, Stored
<1>7. CASE Age
  BY <1>7 DEF Age, Fetched, Stored
<1>8. CASE Crash
  BY <1>8 DEF Crash, Busy, At, Fetching, Over, Stored
<1>9. CASE UNCHANGED vars
  BY <1>9 DEF vars, Stored
<1> QED
  BY <1>1, <1>2, <1>3, <1>4, <1>5, <1>6, <1>7, <1>8, <1>9 DEF Next

(* In every reachable state the tables and the requests are well typed. *)
THEOREM TypeCorrect == Spec => []TypeOK
BY TypedInit, TypedNext, PTL DEF Spec, Typed
-----------------------------------------------------------------------------
(* An artist that was ignored while nothing was fetched: what could make it
   anything else is a fetch, and none begins for an artist without a date. *)
Hold ==
  promised /\ ~overtaken => fetched = "ignored" /\ \A c \in Call : at[c] \notin Fetching

(* Nobody was promised anything when the program is first started. *)
LEMMA HoldInit == Init => Hold
BY DEF Init, Hold

(* Every step keeps the promise, or ends it, or is of a fetch that was there
   when the artist was ignored. *)
LEMMA HoldNext == Typed /\ Hold /\ [Next]_vars => Hold'
<1> SUFFICES ASSUME Typed, Hold, [Next]_vars, promised', ~overtaken'
             PROVE  fetched' = "ignored" /\ \A c \in Call : at'[c] \notin Fetching
  BY DEF Hold
<1> USE DEF Typed, TypeOK, Goes, tables, locals, history
<1>1. ASSUME promised, ~overtaken
      PROVE  fetched = "ignored" /\ \A c \in Call : at[c] \notin Fetching
  BY <1>1 DEF Hold
<1>2. ASSUME NEW c \in Call, Request(c)
      PROVE  fetched' = "ignored" /\ \A d \in Call : at'[d] \notin Fetching
  BY <1>1, <1>2, Firsts DEF Request, Fetching
<1>3. ASSUME NEW c \in Call, Get(c)
      PROVE  fetched' = "ignored" /\ \A d \in Call : at'[d] \notin Fetching
  <2>1. promised /\ ~overtaken
    BY <1>3 DEF Get, Look, Reset, ResetToEpoch, Count, Fresh, UnremoveAll, Reconcile, Metadata,
       Validate, Insert, Touch, List
  <2>2. fetched = "ignored" /\ at[c] \notin Fetching /\ \A d \in Call : at[d] \notin Fetching
    BY <1>1, <2>1
  <2>3. Look(c) \/ Reset(c) \/ Count(c) \/ Fresh(c) \/ List(c)
    BY <1>3, <2>2
    DEF Get, UnremoveAll, Reconcile, Metadata, Validate, Insert, Touch, Fetching
  <2> QED
    BY <2>2, <2>3 DEF Look, Reset, ResetToEpoch, Count, Fresh, List, Fetching
<1>4. ASSUME NEW c \in Call, StoreForever(c)
      PROVE  fetched' = "ignored" /\ \A d \in Call : at'[d] \notin Fetching
  BY <1>1, <1>4 DEF StoreForever, Fetching
<1>5. ASSUME NEW c \in Call, Delete(c) PROVE FALSE
  BY <1>5 DEF Delete, Deleted
<1>6. ASSUME NEW c \in Call, RemoveArtist(c) \/ RemoveAlbum(c) \/ IgnoreAlbum(c)
      PROVE  fetched' = "ignored" /\ \A d \in Call : at'[d] \notin Fetching
  BY <1>1, <1>6 DEF RemoveArtist, RemoveAlbum, IgnoreAlbum, Find, Mark, Fetching
<1>7. ASSUME NEW c \in Call, Clear(c) \/ UpdateRecon(c)
      PROVE  fetched' = "ignored" /\ \A d \in Call : at'[d] \notin Fetching
  BY <1>1, <1>7 DEF Clear, Deleted, UpdateRecon, Fetching
<1>8. CASE Reconciled \/ Age \/ Crash
  BY <1>1, <1>8 DEF Reconciled, Age, Crash, Fetching
<1>9. CASE UNCHANGED vars
  BY <1>1, <1>9 DEF vars
<1> QED
  BY <1>2, <1>3, <1>4, <1>5, <1>6, <1>7, <1>8, <1>9 DEF Next

(* An artist that was ignored while none of its albums were fetched stays
   ignored until somebody ignores or unignores it again. *)
THEOREM IgnoredStaysIgnored == Spec => []IgnoreHolds
<1>1. Hold => IgnoreHolds
  BY DEF Hold, IgnoreHolds, IgnoreIsForever
<1> QED
  BY <1>1, TypedInit, TypedNext, HoldInit, HoldNext, PTL DEF Spec
-----------------------------------------------------------------------------
(* What a fetch that no delete and no new ID met has found, step by step: the
   albums of the artist's ID, which are stored by the time of the date. *)
OnItsWay(c) ==
  /\ recon # NoRecon
  /\ at[c] = "metadata" => arg[c] = recon
  /\ at[c] = "validate" => found[c] = ReleasedBy(recon)
  /\ at[c] = "insert" => /\ found[c] \subseteq ReleasedBy(recon)
                         /\ ReleasedBy(recon) \subseteq Stored \cup found[c]
  /\ at[c] = "touch" => ReleasedBy(recon) \subseteq Stored

FetchedAll ==
  /\ whole => recon # NoRecon /\ ReleasedBy(recon) \subseteq Stored
  /\ \A c \in clean : OnItsWay(c)

(* Nothing is fetched when the program is first started. *)
LEMMA FetchedAllInit == Init => FetchedAll
BY DEF Init, FetchedAll

(* What others store or mark leaves a fetch on its way. *)
LEMMA FetchedAllFrame ==
  ASSUME Typed, FetchedAll, NEW c \in Call, Stored \subseteq Stored',
         recon' = recon, arg' = arg, found' = found, whole' = whole, clean' = clean,
         \E step \in At \ {"metadata", "validate", "insert", "touch"} : Goes(c, step)
  PROVE  FetchedAll'
BY DEF Typed, TypeOK, FetchedAll, OnItsWay, Goes, ReleasedBy

(* Every step leaves the fetches on their way, or they are none any more. *)
LEMMA FetchedAllNext == Typed /\ FetchedAll /\ [Next]_vars => FetchedAll'
<1> SUFFICES ASSUME Typed, FetchedAll, [Next]_vars PROVE FetchedAll'
  OBVIOUS
<1> USE DEF Typed, TypeOK, tables, locals, history
<1>1. ASSUME NEW c \in Call, Request(c) PROVE FetchedAll'
  BY <1>1, Firsts DEF Request, FetchedAll, OnItsWay, ReleasedBy, Goes, Stored
<1>2. ASSUME NEW c \in Call, Look(c) \/ Reset(c) \/ Count(c) \/ Fresh(c) \/ List(c)
      PROVE  FetchedAll'
  <2>1. Stored' = Stored
    BY <1>2 DEF Look, Reset, ResetToEpoch, Count, Fresh, List, Stored
  <2> QED
    BY <1>2, <2>1, FetchedAllFrame
    DEF Look, Reset, ResetToEpoch, Count, Fresh, List, At, Fetching, Over
<1>3. ASSUME NEW c \in Call, UnremoveAll(c) \/ RemoveArtist(c) \/ RemoveAlbum(c) \/ IgnoreAlbum(c)
      PROVE  FetchedAll'
  BY <1>3, FlagsOnly, FetchedAllFrame
  DEF UnremoveAll, RemoveArtist, RemoveAlbum, IgnoreAlbum, Find, Mark, At, Fetching, Over
<1>4. ASSUME NEW c \in Call, Reconcile(c) PROVE FetchedAll'
  BY <1>4 DEF Reconcile, FetchedAll, OnItsWay, ReleasedBy, Goes, Stored, Located, Fetching
<1>5. ASSUME NEW c \in Call, Metadata(c) \/ Validate(c) PROVE FetchedAll'
  <2>1. Stored' = Stored /\ recon' = recon /\ whole' = whole /\ clean' = clean
    BY <1>5 DEF Metadata, Validate, Stored
  <2>2. ASSUME NEW d \in clean, d # c PROVE OnItsWay(d)'
    BY <1>5, <2>1, <2>2 DEF FetchedAll, OnItsWay, Metadata, Validate, Goes
  <2>3. ASSUME c \in clean PROVE OnItsWay(c)'
    <3>1. OnItsWay(c)
      BY <2>3 DEF FetchedAll
    <3>2. CASE Metadata(c)
      BY <2>1, <3>1, <3>2 DEF OnItsWay, Metadata, Goes
    <3>3. CASE Validate(c)
      BY <2>1, <3>1, <3>3 DEF OnItsWay, Validate, Goes
    <3> QED
      BY <1>5, <3>2, <3>3
  <2> QED
    BY <2>1, <2>2, <2>3 DEF FetchedAll
<1>6. ASSUME NEW c \in Call, Insert(c) PROVE FetchedAll'
  <2>1. PICK albums \in SUBSET found[c] :
          /\ Store(c, albums)
          /\ (Goes(c, "touch") /\ albums = found[c]) \/ Goes(c, "failed")
    BY <1>6, Inserts
  <2>2. Stored' = Stored \cup albums
    BY <2>1, Stores
  <2> QED
    BY <1>6, <2>1, <2>2 DEF Insert, FetchedAll, OnItsWay, ReleasedBy, Goes
<1>7. ASSUME NEW c \in Call, Touch(c) PROVE FetchedAll'
  BY <1>7 DEF Touch, FetchedAll, OnItsWay, ReleasedBy, Goes, Stored
<1>8. ASSUME NEW c \in Call, Delete(c) \/ Clear(c) \/ UpdateRecon(c) PROVE FetchedAll'
  BY <1>8 DEF Delete, Clear, Deleted, UpdateRecon, FetchedAll
<1>9. ASSUME NEW c \in Call, StoreForever(c) PROVE FetchedAll'
  <2>1. Stored' = Stored
    BY <1>9 DEF StoreForever, Stored
  <2> QED
    BY <1>9, <2>1, FetchedAllFrame DEF StoreForever, At, Over
<1>10. CASE Reconciled
  BY <1>10 DEF Reconciled, FetchedAll, OnItsWay
<1>11. CASE Age \/ UNCHANGED vars
  BY <1>11 DEF Age, vars, FetchedAll, OnItsWay, ReleasedBy, Stored
<1>12. CASE Crash
  BY <1>12 DEF Crash, FetchedAll, OnItsWay, ReleasedBy, Stored
<1> QED
  BY <1>1, <1>2, <1>3, <1>4, <1>5, <1>6, <1>7, <1>8, <1>9, <1>10, <1>11, <1>12 DEF Next, Get

(* When the last fetch, which no delete and no new ID has met, is recent, all
   albums of the artist are stored. *)
THEOREM StoredBeforeRecent == Spec => []RecentMeansStored
<1>1. FetchedAll => RecentMeansStored
  BY DEF FetchedAll, RecentMeansStored
<1> QED
  BY <1>1, TypedInit, TypedNext, FetchedAllInit, FetchedAllNext, PTL DEF Spec
-----------------------------------------------------------------------------
(* The albums are those of the ID, and none while the ID is about to change:
   only a fetch that no update met can store more. *)
OfTheArtist ==
  pure => /\ Stored \subseteq ReleasedBy(recon)
          /\ (\E c \in Call : at[c] = "update") => Stored = {}

(* No album is stored when the program is first started. *)
LEMMA OfTheArtistInit == Init => OfTheArtist
BY DEF Init, OfTheArtist, Stored

(* Every step keeps the albums those of the ID, unless a fetch stores others
   than it met the update with. *)
LEMMA OfTheArtistNext == Typed /\ FetchedAll /\ OfTheArtist /\ [Next]_vars => OfTheArtist'
<1> SUFFICES ASSUME Typed, FetchedAll, OfTheArtist, [Next]_vars PROVE OfTheArtist'
  OBVIOUS
<1> USE DEF Typed, TypeOK, tables, locals, history
<1>1. ASSUME pure' = pure, recon' = recon, Stored' = Stored, NEW c \in Call,
             \E step \in At \ {"update"} : Goes(c, step)
      PROVE  OfTheArtist'
  BY <1>1 DEF OfTheArtist, Goes
<1>2. ASSUME NEW c \in Call, Request(c) PROVE OfTheArtist'
  BY <1>2, Firsts DEF Request, OfTheArtist, Goes, Stored
<1>3. ASSUME NEW c \in Call,
             \/ Look(c) \/ Reset(c) \/ Count(c) \/ Fresh(c) \/ Reconcile(c) \/ Metadata(c)
             \/ Validate(c) \/ Touch(c) \/ List(c) \/ StoreForever(c)
      PROVE  OfTheArtist'
  <2>1. pure' = pure /\ recon' = recon /\ Stored' = Stored
    BY <1>3 DEF Look, Reset, ResetToEpoch, Count, Fresh, Reconcile, Metadata, Validate, Touch,
       List, StoreForever, Stored
  <2>2. \E step \in At \ {"update"} : Goes(c, step)
    BY <1>3 DEF Look, Reset, ResetToEpoch, Count, Fresh, Reconcile, Metadata, Validate, Touch,
       List, StoreForever, At, Fetching, Over
  <2> QED
    BY <1>1, <2>1, <2>2
<1>4. ASSUME NEW c \in Call, UnremoveAll(c) \/ RemoveArtist(c) \/ RemoveAlbum(c) \/ IgnoreAlbum(c)
      PROVE  OfTheArtist'
  <2>1. pure' = pure /\ recon' = recon
    BY <1>4 DEF UnremoveAll, RemoveArtist, RemoveAlbum, IgnoreAlbum, Find, Mark
  <2>2. \E step \in At \ {"update"} : Goes(c, step)
    BY <1>4 DEF UnremoveAll, RemoveArtist, RemoveAlbum, IgnoreAlbum, Find, Mark, At, Fetching,
       Over
  <2> QED
    BY <1>1, <1>4, <2>1, <2>2, FlagsOnly
<1>5. ASSUME NEW c \in Call, Insert(c) PROVE OfTheArtist'
  <2>1. PICK albums \in SUBSET found[c] :
          Store(c, albums) /\ (Goes(c, "touch") \/ Goes(c, "failed"))
    BY <1>5, Inserts
  <2>2. /\ Stored' = Stored \cup albums
        /\ pure' => pure /\ (albums = {} \/ (c \in clean /\ \A d \in Call : at[d] # "update"))
    BY <2>1, Stores
  <2>3. recon' = recon /\ \A d \in Call : at'[d] = "update" => at[d] = "update"
    BY <1>5, <2>1 DEF Insert, Goes
  <2>4. c \in clean => found[c] \subseteq ReleasedBy(recon)
    BY <1>5 DEF FetchedAll, OnItsWay, Insert
  <2> QED
    BY <2>1, <2>2, <2>3, <2>4 DEF OfTheArtist
<1>6. ASSUME NEW c \in Call, Delete(c) \/ Clear(c) PROVE OfTheArtist'
  <2>1. Stored' = {}
    BY <1>6 DEF Delete, Clear, Stored
  <2> QED
    BY <2>1 DEF OfTheArtist
<1>7. ASSUME NEW c \in Call, UpdateRecon(c) PROVE OfTheArtist'
  BY <1>7 DEF UpdateRecon, OfTheArtist, Goes, Stored
<1>8. CASE Reconciled
  BY <1>8 DEF Reconciled, OfTheArtist, Stored
<1>9. CASE Age \/ Crash \/ UNCHANGED vars
  BY <1>9 DEF Age, Crash, vars, OfTheArtist, Stored
<1> QED
  BY <1>2, <1>3, <1>4, <1>5, <1>6, <1>7, <1>8, <1>9 DEF Next, Get

(* The albums of an artist whose ID was updated are those of the new ID, unless
   a fetch met the update. *)
THEOREM NoOtherAlbums == Spec => []AlbumsAreTheArtists
<1>1. OfTheArtist => AlbumsAreTheArtists
  BY DEF OfTheArtist, AlbumsAreTheArtists
<1> QED
  BY <1>1, TypedInit, TypedNext, FetchedAllInit, FetchedAllNext, OfTheArtistInit,
     OfTheArtistNext, PTL DEF Spec
-----------------------------------------------------------------------------
(* A request that no other has overlapped finds the rows as it left them. *)
Undisturbed(c) ==
  /\ Busy = {c}
  /\ at[c] \in {"reset", "resetToEpoch", "store"} => fetched = "none"
  /\ at[c] \in Fetching => fetched # "none"
  /\ at[c] = "insert" => found[c] \cap Stored = {}

Alone ==
  /\ \A c \in Busy \ crowded : Undisturbed(c)
  /\ \A c \in Call : at[c] = "failed" => c \in crowded

(* There are no requests when the program is first started. *)
LEMMA AloneInit == Init => Alone
BY DEF Init, Alone, Busy

(* A request that begins is alone, or makes all there are crowded. *)
LEMMA AloneRequest ==
  ASSUME Typed, Alone, NEW c \in Call, Request(c)
  PROVE  Alone'
<1> USE DEF Typed, TypeOK, tables
<1>1. PICK k \in Kind : Goes(c, First[k])
  BY DEF Request
<1>2. at[c] = "idle" /\ at'[c] \notin {"reset", "resetToEpoch", "store", "failed"} \cup Fetching
  BY <1>1, Firsts DEF Request, Goes, Fetching
<1>3. Busy' \subseteq Busy \cup {c} /\ \A d \in Call : d # c => at'[d] = at[d]
  BY <1>1 DEF Busy, Goes
<1>4. CASE Busy = {}
  BY <1>1, <1>2, <1>3, <1>4, Firsts
  DEF Request, Alone, Undisturbed, Busy, Over, Goes, Fetching
<1>5. CASE Busy # {}
  <2>1. crowded' = crowded \cup Busy \cup {c}
    BY <1>5 DEF Request
  <2> QED
    BY <1>2, <1>3, <2>1 DEF Alone
<1> QED
  BY <1>4, <1>5

(* A step of a request is safe if it leaves that request undisturbed whenever
   it was alone before, and does not fail then. *)
LEMMA AloneStep ==
  ASSUME Typed, Alone, NEW c \in Call, at[c] \notin {"idle"} \cup Over, crowded' = crowded,
         NEW step \in At \ {"idle"}, Goes(c, step),
         Undisturbed(c) => /\ step # "failed"
                           /\ step \in {"reset", "resetToEpoch", "store"} => fetched' = "none"
                           /\ step \in Fetching => fetched' # "none"
                           /\ step = "insert" => found'[c] \cap Stored' = {}
  PROVE  Alone'
<1>1. c \in Busy /\ Busy' \subseteq Busy /\ (step \notin Over => c \in Busy')
  BY DEF Typed, TypeOK, Busy, Goes, Over
<1>2. at'[c] = step /\ \A d \in Call : d # c => at'[d] = at[d]
  BY DEF Typed, TypeOK, Goes
<1>3. ASSUME NEW d \in Busy' \ crowded' PROVE Undisturbed(d)'
  <2>1. Undisturbed(d) /\ d = c
    BY <1>1, <1>3 DEF Alone, Undisturbed
  <2>2. Busy' = {d}
    BY <1>1, <1>3, <2>1 DEF Undisturbed
  <2> QED
    BY <1>2, <2>1, <2>2 DEF Undisturbed
<1>4. ASSUME NEW d \in Call, at'[d] = "failed" PROVE d \in crowded'
  BY <1>1, <1>2, <1>4 DEF Alone
<1> QED
  BY <1>3, <1>4 DEF Alone

(* Every step leaves the requests that are alone undisturbed. *)
LEMMA AloneNext == Typed /\ Alone /\ [Next]_vars => Alone'
<1> SUFFICES ASSUME Typed, Alone, [Next]_vars PROVE Alone'
  OBVIOUS
<1> USE DEF tables, locals, history
<1>1. ASSUME NEW c \in Call, Look(c) PROVE Alone'
  BY <1>1, AloneStep DEF Look, At, Over, Fetching
<1>2. ASSUME NEW c \in Call, Reset(c) PROVE Alone'
  BY <1>2, AloneStep DEF Reset, ResetToEpoch, Undisturbed, At, Over, Fetching
<1>3. ASSUME NEW c \in Call, Count(c) \/ List(c) PROVE Alone'
  BY <1>3, AloneStep DEF Count, List, At, Over, Fetching
<1>4. ASSUME NEW c \in Call, Fresh(c) PROVE Alone'
  BY <1>4, AloneStep DEF Fresh, At, Over, Fetching
<1>5. ASSUME NEW c \in Call, UnremoveAll(c) \/ Reconcile(c) \/ Metadata(c) PROVE Alone'
  BY <1>5, AloneStep DEF UnremoveAll, Reconcile, Metadata, Undisturbed, At, Over, Fetching
<1>6. ASSUME NEW c \in Call, Validate(c) PROVE Alone'
  <2>1. found'[c] \cap Stored' = {}
    BY <1>6 DEF Typed, TypeOK, Validate, Stored
  <2> QED
    BY <1>6, <2>1, AloneStep DEF Validate, Undisturbed, At, Over, Fetching
<1>7. ASSUME NEW c \in Call, Insert(c) PROVE Alone'
  <2>1. \/ Goes(c, "touch")
        \/ Goes(c, "failed") /\ \E a \in found[c] : ~Insertable(a)
    BY <1>7, Inserts DEF Typed
  <2>2. Undisturbed(c) => \A a \in found[c] : Insertable(a)
    BY <1>7 DEF Typed, TypeOK, Insert, Undisturbed, Insertable, Stored, Fetching
  <2> QED
    BY <1>7, <2>1, <2>2, AloneStep DEF Insert, Undisturbed, At, Over, Fetching
<1>8. ASSUME NEW c \in Call, Touch(c) \/ RemoveArtist(c) PROVE Alone'
  BY <1>8, AloneStep DEF Touch, RemoveArtist, At, Over, Fetching
<1>9. ASSUME NEW c \in Call, Delete(c) PROVE Alone'
  BY <1>9, AloneStep DEF Delete, Deleted, At, Over, Fetching
<1>10. ASSUME NEW c \in Call, StoreForever(c) PROVE Alone'
  BY <1>10, AloneStep DEF StoreForever, Undisturbed, At, Over, Fetching
<1>11. ASSUME NEW c \in Call, RemoveAlbum(c) \/ IgnoreAlbum(c) PROVE Alone'
  BY <1>11, AloneStep DEF RemoveAlbum, IgnoreAlbum, Find, Mark, At, Over, Fetching
<1>12. ASSUME NEW c \in Call, Clear(c) \/ UpdateRecon(c) PROVE Alone'
  BY <1>12, AloneStep DEF Clear, Deleted, UpdateRecon, At, Over, Fetching
<1>13. CASE Reconciled \/ Age \/ UNCHANGED vars
  BY <1>13 DEF Reconciled, Age, vars, Alone, Undisturbed, Busy, Stored
<1>14. CASE Crash
  BY <1>14 DEF Typed, TypeOK, Crash, Alone, Busy, Over
<1> QED
  BY <1>1, <1>2, <1>3, <1>4, <1>5, <1>6, <1>7, <1>8, <1>9, <1>10, <1>11, <1>12, <1>13, <1>14,
     AloneRequest DEF Next, Get

(* A request that overlaps no other never fails on a row. *)
THEOREM OnlyRacesCanFail == Spec => []OnlyRacesFail
<1>1. Alone => OnlyRacesFail
  BY DEF Alone, OnlyRacesFail
<1> QED
  BY <1>1, TypedInit, TypedNext, AloneInit, AloneNext, PTL DEF Spec
=============================================================================
