------------------------------ MODULE NewAlbums ------------------------------
(***************************************************************************)
(* backend/new_albums: the albums an artist has released that are not in   *)
(* the collection. A request for them fetches anew what was last fetched   *)
(* more than 90 days ago; others remove or ignore an album or the artist,  *)
(* or change the artist's MusicBrainz ID.                                  *)
(*                                                                         *)
(* The rows of one artist: no statement but those on its albums' IDs reads *)
(* the rows of another. A request is a chain of futures, and each of its   *)
(* database statements is an action; no two are one transaction, and the   *)
(* finisher actor does not wait for the future of one message before it    *)
(* takes the next. Foreign keys are enforced, and deletes cascade          *)
(* (RealModule): the albums' rows hang on the row of the last fetch, and   *)
(* that on the artist's.                                                   *)
(***************************************************************************)
EXTENDS Integers, FiniteSets

CONSTANTS Call,      \* requests
          Album,     \* release groups of MusicBrainz
          Recon,     \* MusicBrainz IDs of artists
          Released,  \* the albums MusicBrainz has for each of these
          MaxCached, \* 10: with more albums to offer than this nothing is fetched
          NoRecon, NullRecon, \* no row in `artist`; a row without an ID (StoredNull)
          NoArg

ASSUME NewAlbumsAssumption ==
  /\ Released \in [Recon -> SUBSET Album]
  /\ MaxCached \in Nat
  /\ NoRecon # NullRecon /\ {NoRecon, NullRecon} \cap Recon = {}

VARIABLES recon,    \* table artist
          fetched,  \* table artist_last_album_update, with the age of the date
          row,      \* table new_album
          kind, at, arg, found, \* the requests: what they ask, where they are, locals
          promised,  \* history: the artist was ignored, and nobody touched that since
          overtaken, \* history: when it was, a fetch was in progress
          clean,     \* history: fetches in progress that no delete or update met
          whole,     \* history: the last fetch was one of these, and no delete followed
          pure,      \* history: since the last delete only these stored albums
          crowded    \* history: requests that have overlapped another

tables == <<recon, fetched, row>>
locals == <<kind, arg, found>>
history == <<promised, overtaken, clean, whole, pure, crowded>>
vars == <<tables, locals, at, history>>

Kind == {"get", "removeArtist", "ignoreArtist", "unignoreArtist", "removeAlbum",
         "ignoreAlbum", "updateRecon"}

(* LastFetchTime: no row, no date (AlwaysFresh), or a date that is more than
   90 days ago, as is the epoch, or is not. *)
Fetched == {"none", "ignored", "stale", "recent"}

(* is_removed and is_ignored. An ignored album is hidden and stays out of
   unremoveAll whatever its is_removed. *)
Row == {"none", "shown", "removed", "ignored"}

(* AlbumFetcher.getAlbumsMetadata; there is nothing to fetch without an ID. *)
ReleasedBy(r) == IF r \in Recon THEN Released[r] ELSE {}

Over == {"over", "failed", "rejected"}
Fetching == {"unremove", "reconcile", "metadata", "validate", "insert", "touch"}
At == {"idle", "look", "reset", "count", "fresh", "resetToEpoch", "list", "remove", "delete",
       "store", "find", "mark", "findAgain", "ignore", "clear", "update"} \cup Fetching \cup Over

Stored == {a \in Album : row[a] # "none"}
Shown == {a \in Album : row[a] = "shown"}
Busy == {c \in Call : at[c] \notin {"idle"} \cup Over}

TypeOK ==
  /\ recon \in Recon \cup {NoRecon, NullRecon}
  /\ fetched \in Fetched /\ (recon = NoRecon => fetched = "none")
  /\ row \in [Album -> Row] /\ (fetched = "none" => Stored = {})
  /\ kind \in [Call -> Kind \cup {NoArg}] /\ at \in [Call -> At]
  /\ arg \in [Call -> Album \cup Recon \cup {NoRecon, NullRecon, NoArg}]
  /\ found \in [Call -> SUBSET Album]
  /\ clean \subseteq Call /\ crowded \subseteq Call
  /\ promised \in BOOLEAN /\ overtaken \in BOOLEAN /\ whole \in BOOLEAN /\ pure \in BOOLEAN

Init ==
  /\ recon \in Recon \cup {NoRecon, NullRecon}
  /\ fetched = "none" /\ row = [a \in Album |-> "none"]
  /\ kind = [c \in Call |-> NoArg] /\ at = [c \in Call |-> "idle"]
  /\ arg = [c \in Call |-> NoArg] /\ found = [c \in Call |-> {}]
  /\ promised = FALSE /\ overtaken = FALSE
  /\ clean = {} /\ whole = FALSE /\ pure = TRUE /\ crowded = {}

Goes(c, step) == at' = [at EXCEPT ![c] = step]
-----------------------------------------------------------------------------
(* Seeded fault: `ignore` does not delete the row there is. *)
FirstIgnoreStores ==
  [get |-> "look", removeArtist |-> "remove", ignoreArtist |-> "store",
   unignoreArtist |-> "delete", removeAlbum |-> "find", ignoreAlbum |-> "find",
   updateRecon |-> "clear"]

(* NewAlbumHttpRoutes and MbExternalLinksProvider.updateRecon: where a request
   of each kind begins. *)
First ==
  [get |-> "look", removeArtist |-> "remove", ignoreArtist |-> "delete",
   unignoreArtist |-> "delete", removeAlbum |-> "find", ignoreAlbum |-> "find",
   updateRecon |-> "clear"]

Args(k) == IF k \in {"removeAlbum", "ignoreAlbum"} THEN Album
           ELSE IF k = "updateRecon" THEN Recon ELSE {NoArg}

Request(c) ==
  /\ at[c] = "idle"
  /\ \E k \in Kind : \E x \in Args(k) :
       /\ kind' = [kind EXCEPT ![c] = k]
       /\ arg' = [arg EXCEPT ![c] = x]
       /\ Goes(c, First[k])
  /\ crowded' = IF Busy = {} THEN crowded ELSE crowded \cup Busy \cup {c}
  /\ UNCHANGED <<tables, found, promised, overtaken, clean, whole, pure>>

(* NewAlbumsModel.forArtist, isIgnored. An artist without a row of a last fetch
   is looked up, and gets one unless it is not reconciled (LastFetchTime.freshness). *)
Look(c) ==
  /\ at[c] = "look"
  /\ \/ fetched = "ignored" /\ Goes(c, "over")
     \/ fetched \in {"stale", "recent"} /\ Goes(c, "count")
     \/ fetched = "none" /\ Goes(c, IF recon = NoRecon THEN "remove" ELSE "reset")
  /\ UNCHANGED <<tables, locals, history>>

(* LastFetchTime.resetToEpoch: `store` fails where there is a row. *)
ResetToEpoch(c, from, to) ==
  /\ at[c] = from
  /\ \/ /\ recon = NoRecon
        /\ Goes(c, "rejected") /\ UNCHANGED fetched
     \/ /\ recon # NoRecon /\ fetched # "none"
        /\ Goes(c, "failed") /\ UNCHANGED fetched
     \/ /\ recon # NoRecon /\ fetched = "none"
        /\ fetched' = "stale" /\ Goes(c, to)
  /\ UNCHANGED <<recon, row, locals, history>>

Reset(c) == ResetToEpoch(c, "reset", "count") \/ ResetToEpoch(c, "resetToEpoch", "unremove")

(* NewAlbumFiller.update: the albums to offer, those shown that are of type Album
   and not in the collection (FilterExistingAlbums), *)
Count(c) ==
  /\ at[c] = "count"
  /\ \E offered \in SUBSET Shown :
       Goes(c, IF Cardinality(offered) > MaxCached THEN "list" ELSE "fresh")
  /\ UNCHANGED <<tables, locals, history>>

(* Seeded fault: an artist without a date is as one with the epoch. *)
FreshForgetsIgnored(c) ==
  /\ at[c] = "fresh"
  /\ \/ fetched = "recent" /\ Goes(c, "list")
     \/ fetched \in {"stale", "ignored"} /\ Goes(c, "unremove")
     \/ fetched = "none" /\ Goes(c, "resetToEpoch")
  /\ UNCHANGED <<tables, locals, history>>

(* and the age of the last fetch. *)
Fresh(c) ==
  /\ at[c] = "fresh"
  /\ \/ fetched \in {"ignored", "recent"} /\ Goes(c, "list")
     \/ fetched = "stale" /\ Goes(c, "unremove")
     \/ fetched = "none" /\ Goes(c, "resetToEpoch")
  /\ UNCHANGED <<tables, locals, history>>

UnremoveAll(c) ==
  /\ at[c] = "unremove"
  /\ row' = [a \in Album |-> IF row[a] = "removed" THEN "shown" ELSE row[a]]
  /\ Goes(c, "reconcile")
  /\ UNCHANGED <<recon, fetched, locals, history>>

(* NewAlbumFetcher: the artist's ID, from the row that is there by now, *)
Reconcile(c) ==
  /\ at[c] = "reconcile"
  /\ arg' = [arg EXCEPT ![c] = recon]
  /\ clean' = clean \cup {c}
  /\ Goes(c, "metadata")
  /\ UNCHANGED <<tables, kind, found, promised, overtaken, whole, pure, crowded>>

(* and its albums. MusicBrainz may fail, or (storeNew) have an album twice. *)
Metadata(c) ==
  /\ at[c] = "metadata"
  /\ \/ /\ found' = [found EXCEPT ![c] = ReleasedBy(arg[c])]
        /\ Goes(c, "validate")
     \/ Goes(c, "rejected") /\ UNCHANGED found
  /\ UNCHANGED <<tables, kind, arg, history>>

(* SlickNewAlbumStorage.storeNew: the albums that are not there yet *)
Validate(c) ==
  /\ at[c] = "validate"
  /\ found' = [found EXCEPT ![c] = @ \ Stored]
  /\ Goes(c, "insert")
  /\ UNCHANGED <<tables, kind, arg, history>>

Store(c, albums) ==
  /\ row' = [a \in Album |-> IF a \in albums THEN "shown" ELSE row[a]]
  /\ pure' = (pure /\ (albums = {} \/ (c \in clean /\ \A d \in Call : at[d] # "update")))

Insertable(a) == row[a] = "none" /\ fetched # "none"

(* Seeded fault: the date is updated when the insert fails, too. *)
InsertOrNot(c) ==
  /\ at[c] = "insert"
  /\ \E albums \in SUBSET {a \in found[c] : Insertable(a)} : Store(c, albums)
  /\ Goes(c, "touch")
  /\ UNCHANGED <<recon, fetched, locals, promised, overtaken, clean, whole, crowded>>

(* are inserted. One that is there after all, or an artist whose row is gone,
   fails the insert; some of the albums may be stored by then. *)
Insert(c) ==
  /\ at[c] = "insert"
  /\ IF \A a \in found[c] : Insertable(a)
     THEN Store(c, found[c]) /\ Goes(c, "touch")
     ELSE /\ \E albums \in SUBSET {a \in found[c] : Insertable(a)} : Store(c, albums)
          /\ Goes(c, "failed")
  /\ UNCHANGED <<recon, fetched, locals, promised, overtaken, clean, whole, crowded>>

(* lastFetchTime.update: the row gets the date, whether or not there is one. *)
Touch(c) ==
  /\ at[c] = "touch"
  /\ fetched' = "recent"
  /\ whole' = (whole \/ c \in clean)
  /\ Goes(c, "list")
  /\ UNCHANGED <<recon, row, locals, promised, overtaken, clean, pure, crowded>>

(* storage.forArtist: what is left to be answered. *)
List(c) ==
  /\ at[c] = "list"
  /\ Goes(c, "over")
  /\ UNCHANGED <<tables, locals, history>>
-----------------------------------------------------------------------------
(* removeArtist, and the answer to `get` for an artist that is not reconciled. *)
RemoveArtist(c) ==
  /\ at[c] = "remove"
  /\ row' = [a \in Album |-> IF row[a] = "shown" THEN "removed" ELSE row[a]]
  /\ Goes(c, "over")
  /\ UNCHANGED <<recon, fetched, locals, history>>

(* Rows are deleted: what the fetches in progress have found is no longer new. *)
Deleted(keepsPromise) ==
  /\ promised' = (promised /\ keepsPromise)
  /\ clean' = {} /\ whole' = FALSE
  /\ pure' = TRUE
  /\ UNCHANGED <<overtaken, crowded>>

(* LastFetchTime.ignore and unignore: the row is deleted, and the albums with it, *)
Delete(c) ==
  /\ at[c] = "delete"
  /\ fetched' = "none" /\ row' = [a \in Album |-> "none"]
  /\ Goes(c, IF kind[c] = "ignoreArtist" THEN "store" ELSE "reset")
  /\ Deleted(FALSE)
  /\ UNCHANGED <<recon, locals>>

(* and foreverFresh stores one without a date. *)
StoreForever(c) ==
  /\ at[c] = "store"
  /\ \/ /\ recon = NoRecon
        /\ Goes(c, "rejected") /\ UNCHANGED <<fetched, promised, overtaken>>
     \/ /\ recon # NoRecon /\ fetched # "none"
        /\ Goes(c, "failed") /\ UNCHANGED <<fetched, promised, overtaken>>
     \/ /\ recon # NoRecon /\ fetched = "none"
        /\ fetched' = "ignored" /\ Goes(c, "over")
        /\ promised' = TRUE
        /\ overtaken' = \E d \in Call : at[d] \in Fetching
  /\ UNCHANGED <<recon, row, locals, clean, whole, pure, crowded>>

(* SlickNewAlbumStorage.updateAlbum, for removeAlbum and twice for ignoreAlbum. *)
Find(c, from, to) ==
  /\ at[c] = from
  /\ Goes(c, IF arg[c] \in Stored THEN to ELSE "rejected")
  /\ UNCHANGED <<tables, locals, history>>

Mark(c, from, flag, to) ==
  /\ at[c] = from
  /\ row' = [row EXCEPT ![arg[c]] = IF @ \in {"none", "ignored"} THEN @ ELSE flag]
  /\ Goes(c, to)
  /\ UNCHANGED <<recon, fetched, locals, history>>

RemoveAlbum(c) ==
  \/ Find(c, "find", "mark")
  \/ Mark(c, "mark", "removed", IF kind[c] = "ignoreAlbum" THEN "findAgain" ELSE "over")

IgnoreAlbum(c) == Find(c, "findAgain", "ignore") \/ Mark(c, "ignore", "ignored", "over")

(* Seeded fault: the albums of the old ID are kept. *)
ClearNothing(c) ==
  /\ at[c] = "clear"
  /\ Goes(c, "update")
  /\ Deleted(TRUE)
  /\ UNCHANGED <<tables, locals>>

(* updateRecon: the albums are deleted, *)
Clear(c) ==
  /\ at[c] = "clear"
  /\ row' = [a \in Album |-> "none"]
  /\ Goes(c, "update")
  /\ Deleted(TRUE)
  /\ UNCHANGED <<recon, fetched, locals>>

(* and the artist has another ID. The date of the last fetch stays. *)
UpdateRecon(c) ==
  /\ at[c] = "update"
  /\ recon' = arg[c]
  /\ clean' = {} /\ whole' = FALSE
  /\ Goes(c, "over")
  /\ UNCHANGED <<fetched, row, locals, promised, overtaken, pure, crowded>>
-----------------------------------------------------------------------------
(* Another part of the program reconciles the artist (ReconcilerCacher). *)
Reconciled ==
  /\ recon = NoRecon
  /\ recon' \in Recon \cup {NullRecon}
  /\ UNCHANGED <<fetched, row, locals, at, history>>

(* maxAge passes. *)
Age ==
  /\ fetched = "recent" /\ fetched' = "stale"
  /\ UNCHANGED <<recon, row, locals, at, history>>

(* The process dies, and with it the requests. *)
Crash ==
  /\ Busy # {}
  /\ at' = [c \in Call |-> IF c \in Busy THEN "over" ELSE at[c]]
  /\ UNCHANGED <<tables, locals, history>>

Get(c) ==
  \/ Look(c) \/ Reset(c) \/ Count(c) \/ Fresh(c) \/ UnremoveAll(c) \/ Reconcile(c)
  \/ Metadata(c) \/ Validate(c) \/ Insert(c) \/ Touch(c) \/ List(c)

Next ==
  \/ \E c \in Call : Request(c) \/ Get(c) \/ RemoveArtist(c) \/ Delete(c) \/ StoreForever(c)
                     \/ RemoveAlbum(c) \/ IgnoreAlbum(c) \/ Clear(c) \/ UpdateRecon(c)
  \/ Reconciled \/ Age \/ Crash

Spec == Init /\ [][Next]_vars
-----------------------------------------------------------------------------
(* FilledStorage.scala:14, "ignore is forever": an artist that was ignored stays
   ignored until a request ignores or unignores it again. *)
IgnoreIsForever == promised => fetched = "ignored"

(* The same, but for artists that were ignored during a fetch of their albums:
   no request that came to look at the artist before or during the two steps of
   `ignore`, or that comes after them, can undo it. *)
IgnoreHolds == overtaken \/ IgnoreIsForever

(* Albums are not fetched for 90 days only when all of them are stored, however
   fetches, their failures and the other requests interleave; a fetch that a
   delete or a new ID has met is excepted. *)
RecentMeansStored ==
  fetched = "recent" /\ whole => ReleasedBy(recon) \subseteq Stored

(* NewAlbumCleaner: the albums of an artist whose ID was updated are those of its
   new ID, unless a fetch met the update. *)
AlbumsAreTheArtists == pure => Stored \subseteq ReleasedBy(recon)

(* A request that no other overlaps never fails on a row that is, or is not,
   there: "Throws on repeats" is not for it. *)
OnlyRacesFail == \A c \in Call : at[c] = "failed" => c \in crowded
=============================================================================
