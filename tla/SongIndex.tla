------------------------------ MODULE SongIndex ------------------------------
(***************************************************************************)
(* backend/search: how the search index follows the music files. A request *)
(* for `index` goes through a unique actor keyed by its force flag         *)
(* (SingleFlight), so a forced and a plain run may overlap. A run loads    *)
(* SongCaches.avro, walks the files, parses those that need it, overwrites *)
(* SongCaches.avro and then the three index files one after the other, and *)
(* finally has SearchState reload them. Nothing makes the saves atomic,    *)
(* and the walk, each save and each load may fail.                         *)
(*                                                                         *)
(* A snapshot maps every file to the contents it stands for; the songs,    *)
(* albums and artists files are each a snapshot, since the albums and      *)
(* artists are computed from the songs.                                    *)
(***************************************************************************)
EXTENDS Integers, Sequences, FiniteSets

CONSTANTS File,        \* song files
          Call, Forced,\* requests for an index, and those with force
          MaxChanges,  \* bound on the changes of the music files
          MaxTime,     \* bound on the clock
          MaxRestarts, \* bound on restarts of the process
          Absent,      \* the contents of a file that is not there
          NoEntry, NoFile, NoMsg, NoCall

ASSUME IndexAssumption ==
  /\ Forced \subseteq Call
  /\ MaxChanges \in Nat /\ MaxTime \in Nat \ {0} /\ MaxRestarts \in Nat
  /\ Absent \notin Nat
  /\ NoEntry \notin [song : 0..MaxChanges, updateTime : 0..MaxTime]
  /\ NoFile \notin [File -> [song : 0..MaxChanges, updateTime : 0..MaxTime] \cup {NoEntry}]
  /\ NoFile \notin [File -> 0..MaxChanges \cup {Absent}]

VARIABLES clock, changes, content, mtime,  \* the music files
          cache,                   \* SongCaches.avro
          index,                   \* Songs.avro, AlbumDirs.avro, ArtistDirs.avro
          search, up,              \* SearchState: its index, if it could be made
          updates, loading,        \* the proxy's updates, and the files the first has loaded
          status, topic, servedBy, \* the unique actor of IndexerUniqifier
          stage, original, listed, result, parsing,  \* the run with each flag
          restarts,
          alone,                   \* history: the last run to start, if it met no other
          since,                   \* history: each file's contents since it started
          last,                    \* history: that run, once it has ended well
          torn,                    \* history: the saves of a run are incomplete or mixed
          behind                   \* history: a save, or the last update, has failed

files == <<clock, changes, content, mtime>>
disk == <<cache, index>>
state == <<search, up, updates, loading>>
unique == <<status, topic, servedBy>>
runs == <<stage, original, listed, result, parsing>>
history == <<since, alone, last, torn, behind>>
vars == <<files, disk, state, unique, runs, restarts, history>>

(* forceRefresh, false and true. *)
Flag == {"plain", "forced"}
FlagOf(c) == IF c \in Forced THEN "forced" ELSE "plain"

Unique == INSTANCE SingleFlight WITH Msg <- Flag

Part == {"songs", "albums", "artists"}
Content == 0..MaxChanges
Time == 0..MaxTime
Entry == [song : Content, updateTime : Time]
SongCache == [File -> Entry \cup {NoEntry}]
Snapshot == [File -> Content \cup {Absent}]

NoSongs == [f \in File |-> NoEntry]
Nothing == [f \in File |-> Absent]
SongsOf(sc) == [f \in File |-> IF sc[f] = NoEntry THEN Absent ELSE sc[f].song]

Saving == Part
Running == {"scanning", "updating"} \cup Saving
Stage == {"none", "ok", "failed", "hung"} \cup Running
Nobody == "nobody"

TypeOK ==
  /\ clock \in Time /\ changes \in 0..MaxChanges /\ content \in Snapshot /\ mtime \in [File -> Time]
  /\ cache \in SongCache \cup {NoFile}
  /\ index \in [Part -> Snapshot \cup {NoFile}]
  /\ search \in [Part -> Snapshot] /\ up \in BOOLEAN
  /\ updates \in Seq(Flag \cup {Nobody}) /\ loading \in Seq(Snapshot)
  /\ Unique!TypeOK
  /\ stage \in [Flag -> Stage]
  /\ original \in [Flag -> SongCache] /\ result \in [Flag -> SongCache]
  /\ listed \in [Flag -> SUBSET File]
  /\ parsing \in [Flag -> (File \X Time) \cup {NoEntry}]
  /\ restarts \in 0..MaxRestarts
  /\ since \in [File -> SUBSET (Content \cup {Absent})]
  /\ alone \subseteq Flag /\ last \subseteq Flag /\ torn \in BOOLEAN /\ behind \in BOOLEAN

InProgress == {r \in Flag : stage[r] \in Running}

Init ==
  /\ clock = 0 /\ changes = 0
  /\ content \in [File -> {Absent, 0}] /\ mtime = [f \in File |-> 0]
  /\ cache = NoFile /\ index = [p \in Part |-> NoFile]
  /\ search = [p \in Part |-> Nothing] /\ up = TRUE
  /\ updates = <<>> /\ loading = <<>>
  /\ Unique!Init
  /\ stage = [r \in Flag |-> "none"]
  /\ original = [r \in Flag |-> NoSongs] /\ result = [r \in Flag |-> NoSongs]
  /\ listed = [r \in Flag |-> {}]
  /\ parsing = [r \in Flag |-> NoEntry]
  /\ restarts = 0
  /\ since = [f \in File |-> {}]
  /\ alone = {} /\ last = {} /\ torn = FALSE /\ behind = FALSE
-----------------------------------------------------------------------------
(* What the time may be when it is looked at next. *)
Now == {t \in Time : clock <= t}

(* The music files. What is written is new, and gets the time of the write. *)
Becomes(f, v) ==
  /\ changes < MaxChanges
  /\ changes' = changes + 1
  /\ content' = [content EXCEPT ![f] = v]
  /\ since' = [since EXCEPT ![f] = IF alone = {} THEN @ ELSE @ \cup {v}]
  /\ UNCHANGED <<disk, state, unique, runs, restarts, alone, last, torn, behind>>

Write(f) ==
  /\ \E t \in Now : clock' = t /\ mtime' = [mtime EXCEPT ![f] = t]
  /\ Becomes(f, changes + 1)

Delete(f) ==
  /\ content[f] # Absent
  /\ Becomes(f, Absent)
  /\ UNCHANGED <<clock, mtime>>
-----------------------------------------------------------------------------
(* Indexer.index. *)
Index(c) ==
  /\ Unique!Invoke(c)
  /\ UNCHANGED <<files, disk, state, runs, restarts, history>>

(* A call with the same flag is answered by the run that is open. *)
Share(c) ==
  /\ Unique!Join(c, FlagOf(c))
  /\ UNCHANGED <<files, disk, state, runs, restarts, history>>

(* SongCacheUpdater.go: the cache is loaded, and the walk begins. *)
Start(c) ==
  LET r == FlagOf(c) IN
  /\ Unique!Lead(c, r)
  /\ stage' = [stage EXCEPT ![r] = "scanning"]
  /\ original' = [original EXCEPT ![r] = IF cache = NoFile THEN NoSongs ELSE cache]
  /\ listed' = [listed EXCEPT ![r] = {f \in File : content[f] # Absent}]
  /\ since' = [f \in File |-> IF InProgress = {} THEN {content[f]} ELSE {}]
  /\ alone' = IF InProgress = {} THEN {r} ELSE {}
  /\ last' = {}
  /\ UNCHANGED <<files, disk, state, result, parsing, restarts, torn, behind>>

(* Seeded fault: < for <=. *)
NeedsUpdateStrict(sc, f) == sc[f] = NoEntry \/ sc[f].updateTime < mtime[f]

NeedsUpdate(sc, f) == sc[f] = NoEntry \/ sc[f].updateTime <= mtime[f]

(* What `go` kept for these runs is garbage. *)
Forget(R) ==
  /\ original' = [r \in Flag |-> IF r \in R THEN NoSongs ELSE original[r]]
  /\ listed' = [r \in Flag |-> IF r \in R THEN {} ELSE listed[r]]
  /\ result' = [r \in Flag |-> IF r \in R THEN NoSongs ELSE result[r]]
  /\ parsing' = [r \in Flag |-> IF r \in R THEN NoEntry ELSE parsing[r]]

(* The walk meets a file: the old entry will do, or the clock is read. *)
Meet(r, f) ==
  /\ stage[r] = "scanning" /\ parsing[r] = NoEntry
  /\ content[f] # Absent /\ result[r][f] = NoEntry
  /\ IF NeedsUpdate(original[r], f)
     THEN /\ \E t \in Now : clock' = t /\ parsing' = [parsing EXCEPT ![r] = <<f, t>>]
          /\ UNCHANGED result
     ELSE /\ result' = [result EXCEPT ![r][f] = original[r][f]]
          /\ UNCHANGED <<clock, parsing>>
  /\ UNCHANGED <<changes, content, mtime, disk, state, unique, stage, original, listed, restarts, history>>

(* songTagParser reads the file, after the clock. *)
Parse(r) ==
  LET f == parsing[r][1] IN
  /\ stage[r] = "scanning" /\ parsing[r] # NoEntry
  /\ content[f] # Absent
  /\ result' = [result EXCEPT ![r][f] = [song |-> content[f], updateTime |-> parsing[r][2]]]
  /\ parsing' = [parsing EXCEPT ![r] = NoEntry]
  /\ UNCHANGED <<files, disk, state, unique, stage, original, listed, restarts, history>>

(* The cache cannot be loaded, the walk throws, or a file cannot be parsed (or
   is gone): the whole run fails. *)
ScanFails(r) ==
  /\ stage[r] = "scanning"
  /\ stage' = [stage EXCEPT ![r] = "failed"]
  /\ Forget({r})
  /\ UNCHANGED <<files, disk, state, unique, restarts, history>>

(* The walk is over; files that appeared behind it have not been met. *)
Walked(r) ==
  /\ stage[r] = "scanning" /\ parsing[r] = NoEntry
  /\ \A f \in listed[r] : result[r][f] # NoEntry \/ content[f] = Absent

(* Seeded fault: the caches are compared by their files alone. *)
NothingToSaveSameFiles(r) ==
  /\ \A f \in File : original[r][f] = NoEntry <=> result[r][f] = NoEntry
  /\ cache # NoFile /\ \A p \in Part : index[p] # NoFile
  /\ r = "plain"

NothingToSave(r) ==
  /\ original[r] = result[r]
  /\ cache # NoFile /\ \A p \in Part : index[p] # NoFile
  /\ r = "plain"

(* SearchState.update: the proxy's actor is asked for one more update. *)
AskFor(r) == updates' = Append(updates, r) /\ UNCHANGED <<search, up, loading>>

(* onCompleted, no change: nothing is saved. *)
Unchanged(r) ==
  /\ Walked(r) /\ NothingToSave(r)
  /\ stage' = [stage EXCEPT ![r] = "updating"]
  /\ AskFor(r) /\ Forget({r})
  /\ UNCHANGED <<files, disk, unique, restarts, history>>

(* onCompleted: result.save. The index files will be rewritten from it. *)
SaveCache(r) ==
  /\ Walked(r) /\ ~NothingToSave(r)
  /\ cache' = result[r]
  /\ stage' = [stage EXCEPT ![r] = "songs"]
  /\ torn' = TRUE
  /\ UNCHANGED <<files, index, state, unique, original, listed, result, parsing, restarts,
                 since, alone, last, behind>>

(* Seeded fault: the songs of the cache that was loaded are saved. *)
SavePartOfOriginal(r, p, then) ==
  /\ stage[r] = p
  /\ index' = [index EXCEPT ![p] = SongsOf(original[r])]
  /\ stage' = [stage EXCEPT ![r] = then]
  /\ Forget(IF then = "updating" THEN {r} ELSE {})
  /\ UNCHANGED <<files, cache, unique, restarts, since, alone, last, behind>>

(* SongCacheSaver: the three files in turn. (The message to ArtistDirsIndex,
   before the last, is fire and forget and not modelled here.) *)
SavePart(r, p, then) ==
  /\ stage[r] = p
  /\ index' = [index EXCEPT ![p] = SongsOf(result[r])]
  /\ stage' = [stage EXCEPT ![r] = then]
  /\ Forget(IF then = "updating" THEN {r} ELSE {})
  /\ UNCHANGED <<files, cache, unique, restarts, since, alone, last, behind>>

SaveSongs(r) == SavePart(r, "songs", "albums") /\ UNCHANGED <<state, torn>>
SaveAlbums(r) == SavePart(r, "albums", "artists") /\ UNCHANGED <<state, torn>>
SaveArtists(r) ==
  /\ SavePart(r, "artists", "updating")
  /\ AskFor(r)
  /\ torn' = (torn /\ r \notin alone)

(* A save throws: what was saved so far stays, and nothing asks the search for
   an update. The throw is the observer's, and whether the run then fails or
   never ends is up to the library that calls it. *)
SaveFails(r) ==
  /\ (Walked(r) /\ ~NothingToSave(r)) \/ stage[r] \in Saving
  /\ \E outcome \in {"failed", "hung"} : stage' = [stage EXCEPT ![r] = outcome]
  /\ Forget({r})
  /\ behind' = (behind \/ stage[r] \in {"albums", "artists"})
  /\ UNCHANGED <<files, disk, state, unique, restarts, since, alone, last, torn>>
-----------------------------------------------------------------------------
(* SearchState.update, on the UpdatableProxy's actor, one at a time: the three
   files are loaded one after the other and the new index replaces the old. *)
LoadOrder == <<"songs", "albums">>

Loaded(p) == IF index[p] = NoFile THEN Nothing ELSE index[p]

Load ==
  /\ up /\ updates # <<>> /\ Len(loading) < 2
  /\ loading' = Append(loading, Loaded(LoadOrder[Len(loading) + 1]))
  /\ behind' = (behind /\ loading # <<>>)
  /\ UNCHANGED <<files, disk, search, up, updates, unique, runs, restarts, since, alone,
                 last, torn>>

(* The first update is over; who asked for it is told, unless it has gone. *)
Updated(outcome) ==
  LET r == Head(updates) IN
  /\ updates' = Tail(updates) /\ loading' = <<>>
  /\ IF r = Nobody THEN UNCHANGED <<stage, last>>
     ELSE /\ stage' = [stage EXCEPT ![r] = outcome]
          /\ last' = IF outcome = "ok" THEN alone ELSE {}
  /\ UNCHANGED <<files, disk, up, unique, original, listed, result, parsing, restarts,
                 since, alone, torn>>

(* Seeded fault: the proxy does not keep what it computed. *)
FinishUnassigned ==
  /\ updates # <<>> /\ Len(loading) = 2
  /\ Updated("ok")
  /\ UNCHANGED <<search, behind>>

(* The last file is loaded and the proxy has its new state. The run is over: the
   updates of SongSelectorState and LastAlbumsState have ended before. *)
Finish ==
  /\ updates # <<>> /\ Len(loading) = 2
  /\ search' = [songs |-> loading[1], albums |-> loading[2], artists |-> Loaded("artists")]
  /\ Updated("ok")
  /\ UNCHANGED behind

(* A file cannot be loaded, or the index cannot be built from it: the search
   stays as it was. So it does for ever if it could not be made at the start. *)
LoadFails ==
  /\ updates # <<>>
  /\ Updated("failed")
  /\ behind' = TRUE
  /\ UNCHANGED search

(* The update of SongSelectorState or of LastAlbumsState fails: the run is over,
   and its update of the search goes on for nobody. *)
SiblingFails(r) ==
  /\ stage[r] = "updating"
  /\ stage' = [stage EXCEPT ![r] = "failed"]
  /\ updates' = [i \in DOMAIN updates |-> IF updates[i] = r THEN Nobody ELSE updates[i]]
  /\ UNCHANGED <<files, disk, search, up, loading, unique, original, listed, result, parsing,
                 restarts, history>>

(* The unique actor hands the outcome to the calls aboard. *)
Answer(c) ==
  LET r == FlagOf(c) IN
  /\ stage[r] \in {"ok", "failed"}
  /\ Unique!Land(c)
  /\ stage' = [stage EXCEPT ![r] = "none"]
  /\ UNCHANGED <<files, disk, state, original, listed, result, parsing, restarts, history>>

(* The process dies and, later, starts again: the runs are gone, SearchState is
   made from the files as they are, unless they cannot be loaded. *)
Restart ==
  /\ restarts < MaxRestarts
  /\ restarts' = restarts + 1
  /\ clock' \in Now \ {clock}
  /\ stage' = [r \in Flag |-> "none"]
  /\ Forget(Flag)
  /\ status' = [c \in Call |-> IF status[c] = "idle" THEN "idle" ELSE "answered"]
  /\ up' \in BOOLEAN /\ behind' = ~up'
  /\ search' = [p \in Part |-> IF up' THEN Loaded(p) ELSE Nothing]
  /\ updates' = <<>> /\ loading' = <<>>
  /\ alone' = {} /\ last' = {} /\ since' = [f \in File |-> {}]
  /\ UNCHANGED <<changes, content, mtime, disk, topic, servedBy, torn>>

Run(r) ==
  \/ \E c \in Call : FlagOf(c) = r /\ (Start(c) \/ Answer(c))
  \/ (\E f \in File : Meet(r, f)) \/ Parse(r) \/ ScanFails(r)
  \/ Unchanged(r) \/ SaveCache(r) \/ SaveSongs(r) \/ SaveAlbums(r)
  \/ SaveArtists(r) \/ SaveFails(r) \/ SiblingFails(r)

Next ==
  \/ \E f \in File : Write(f) \/ Delete(f)
  \/ \E c \in Call : Index(c) \/ Share(c)
  \/ \E r \in Flag : Run(r)
  \/ Load \/ Finish \/ LoadFails
  \/ Restart

Spec == Init /\ [][Next]_vars
-----------------------------------------------------------------------------
(* SongCache.needsUpdate: an entry that would be kept is the file as it is.
   `updateTime` is read before the parse and compared with <=, so a write that
   races with the parse, even within one tick, is noticed by the next run. *)
NoStaleEntryTrusted ==
  cache # NoFile => \A f \in File :
    content[f] # Absent /\ ~NeedsUpdate(cache, f) => cache[f].song = content[f]

(* The index files say what the cache says, unless a run died in the middle of
   its saves or shared them with another run. *)
IndexMatchesCache ==
  ~torn => \A p \in Part : index[p] = IF cache = NoFile THEN NoFile ELSE SongsOf(cache)

(* When no run is saving and no update is to come, the search index is that of
   the files on disk, however the saves of one run and the loads of another
   were interleaved and whichever of them failed, unless the failure is the
   last that happened: a run that saved some of the files and no more, or an
   update that could not load them. The next update makes up for either. *)
SearchFollowsIndex ==
  updates = <<>> /\ (\A r \in Flag : stage[r] \notin Saving) /\ ~behind =>
    \A p \in Part : search[p] = Loaded(p)

(* IndexHttpRoutes.scala:14, "Used for updating the search index from the
   client": once a run that no other overlapped is over, what can be searched
   is, file by file, something the file contained since that run began. *)
IndexedMeansSearchable ==
  last # {} => \A p \in Part, f \in File : search[p][f] \in since[f]

(* The same, but for the runs that find nothing to save after another run died
   between its saves, or mixed its saves with those of a run with the other flag. *)
FreshUnlessTorn == torn \/ IndexedMeansSearchable
=============================================================================
