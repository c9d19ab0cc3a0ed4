--------------------------- MODULE SongIndex_proofs -------------------------
(***************************************************************************)
(* Proofs about SongIndex for any files, calls and bounds: type            *)
(* correctness, that no stale entry of the cache is trusted, that the      *)
(* index files match the cache, that the search index follows the files,   *)
(* and that an index run makes what it met searchable.                     *)
(*                                                                         *)
(* The invariants are layered: each layer is inductive given those below.  *)
(***************************************************************************)
EXTENDS SongIndex, TLAPS, SequenceTheorems

(* What is read from the constants: the members of the small sets, and that
   the markers for nothing are not values. *)
LEMMA Values ==
  /\ Flag = {"plain", "forced"} /\ \A c \in Call : FlagOf(c) \in Flag
  /\ Part = {"songs", "albums", "artists"} /\ Part \subseteq Stage
  /\ NoEntry \notin Entry /\ NoFile \notin SongCache /\ NoFile \notin Snapshot
  /\ Absent \notin Content /\ Nobody \notin Flag
BY IndexAssumption
DEF Flag, FlagOf, Running, Saving, Part, Entry, SongCache, Snapshot, Content, Time, Stage, Nobody

(* The update at the head of the proxy's queue, and those behind it. *)
LEMMA FirstUpdate ==
  ASSUME TypeOK, updates # <<>>
  PROVE  /\ Head(updates) \in Flag \cup {Nobody} /\ Head(updates) = updates[1]
         /\ Tail(updates) \in Seq(Flag \cup {Nobody})
         /\ Len(updates) \in Nat /\ Len(updates) > 0 /\ Len(Tail(updates)) = Len(updates) - 1
         /\ \A i \in 1..Len(Tail(updates)) : Tail(updates)[i] = updates[i + 1]
BY HeadTailProperties DEF TypeOK

(* SongCache.songs of a cache is a snapshot of the files. *)
LEMMA SongsOfType ==
  ASSUME NEW sc \in SongCache
  PROVE  SongsOf(sc) \in Snapshot
BY DEF SongCache, SongsOf, Snapshot, Entry

(* AvroableSaver.load yields a snapshot, also when there is no file. *)
LEMMA LoadedType ==
  ASSUME TypeOK, NEW p \in Part
  PROVE  Loaded(p) \in Snapshot
BY DEF TypeOK, Loaded, Nothing, Snapshot
-----------------------------------------------------------------------------
(* Layer 1: types. *)

(* The variables have their types when the program is first started. *)
LEMMA TypeInit == Init => TypeOK
<1> SUFFICES ASSUME Init PROVE TypeOK
  OBVIOUS
<1>1. clock \in Time /\ changes \in 0..MaxChanges /\ content \in Snapshot
      /\ mtime \in [File -> Time] /\ restarts \in 0..MaxRestarts
  BY IndexAssumption DEF Init, Snapshot, Content, Time
<1>2. cache \in SongCache \cup {NoFile} /\ index \in [Part -> Snapshot \cup {NoFile}]
      /\ search \in [Part -> Snapshot] /\ loading \in Seq(Snapshot)
      /\ up \in BOOLEAN /\ updates \in Seq(Flag \cup {Nobody})
  BY DEF Init, Nothing, Snapshot
<1>3. Unique!TypeOK
  BY DEF Init, Unique!Init, Unique!TypeOK, Unique!Status
<1>4. /\ stage \in [Flag -> Stage] /\ original \in [Flag -> SongCache]
      /\ result \in [Flag -> SongCache] /\ listed \in [Flag -> SUBSET File]
      /\ parsing \in [Flag -> (File \X Time) \cup {NoEntry}]
  BY DEF Init, NoSongs, SongCache, Stage
<1>5. /\ since \in [File -> SUBSET (Content \cup {Absent})]
      /\ alone \subseteq Flag /\ last \subseteq Flag /\ torn \in BOOLEAN /\ behind \in BOOLEAN
  BY DEF Init
<1> QED
  BY <1>1, <1>2, <1>3, <1>4, <1>5 DEF TypeOK

(* Every step keeps the types. *)
LEMMA TypeNext == TypeOK /\ [Next]_vars => TypeOK'
<1> SUFFICES ASSUME TypeOK, [Next]_vars PROVE TypeOK'
  OBVIOUS
<1>1. ASSUME NEW f \in File, Write(f) PROVE TypeOK'
  BY <1>1, IndexAssumption DEF TypeOK, Write, Now, Becomes, disk, state, unique, runs,
     Unique!TypeOK, Snapshot, Content, Time
<1>2. ASSUME NEW f \in File, Delete(f) PROVE TypeOK'
  BY <1>2, IndexAssumption DEF TypeOK, Delete, Becomes, disk, state, unique, runs,
     Unique!TypeOK, Snapshot, Content
<1>3. ASSUME NEW c \in Call, Index(c) PROVE TypeOK'
  BY <1>3 DEF TypeOK, Index, Unique!Invoke, files, disk, state, runs, history,
     Unique!TypeOK, Unique!Status
<1>4. ASSUME NEW c \in Call, Share(c) PROVE TypeOK'
  BY <1>4, Values DEF TypeOK, Share, Unique!Join, Unique!Board, files, disk, state, runs,
     history, Unique!TypeOK, Unique!Status
<1>5. ASSUME NEW c \in Call, Start(c) PROVE TypeOK'
  BY <1>5, Values DEF TypeOK, Start, Unique!Lead, Unique!Board, files, disk, state,
     Unique!TypeOK, Unique!Status, Snapshot, Stage, Running, SongCache, NoSongs
<1>6. ASSUME NEW c \in Call, Answer(c) PROVE TypeOK'
  BY <1>6, Values DEF TypeOK, Answer, Unique!Land, files, disk, state, history,
     Unique!TypeOK, Unique!Status, Stage
<1>7. ASSUME NEW r \in Flag, NEW f \in File, Meet(r, f) PROVE TypeOK'
  <2>1. original[r][f] \in Entry \cup {NoEntry} /\ Now \subseteq Time
    BY <1>7 DEF TypeOK, SongCache, Now
  <2>2. parsing' \in [Flag -> (File \X Time) \cup {NoEntry}] /\ clock' \in Time
    BY <1>7, <2>1 DEF TypeOK, Meet
  <2>3. result' \in [Flag -> SongCache]
    <3>1. \/ result' = result
          \/ result' = [result EXCEPT ![r] = [@ EXCEPT ![f] = original[r][f]]]
      BY <1>7 DEF Meet
    <3>2. [result[r] EXCEPT ![f] = original[r][f]] \in SongCache
      BY <2>1 DEF TypeOK, SongCache
    <3> QED
      BY <3>1, <3>2 DEF TypeOK
  <2> QED
    BY <1>7, <2>2, <2>3 DEF TypeOK, Meet, disk, state, unique, history, Unique!TypeOK
<1>8. ASSUME NEW r \in Flag, Parse(r) PROVE TypeOK'
  BY <1>8 DEF TypeOK, Parse, files, disk, state, unique, history, Unique!TypeOK,
     SongCache, Entry, Snapshot
<1>9. ASSUME NEW r \in Flag, ScanFails(r) PROVE TypeOK'
  BY <1>9 DEF TypeOK, ScanFails, Forget, files, disk, state, unique, history,
     Unique!TypeOK, NoSongs, SongCache, Stage
<1>10. ASSUME NEW r \in Flag, Unchanged(r) PROVE TypeOK'
  <2>1. updates' \in Seq(Flag \cup {Nobody})
    BY <1>10 DEF TypeOK, Unchanged, AskFor
  <2> QED
    BY <1>10, <2>1 DEF TypeOK, Unchanged, AskFor, Forget, files, disk, unique, history,
       Unique!TypeOK, NoSongs, SongCache, Stage, Running
<1>11. ASSUME NEW r \in Flag, SaveCache(r) PROVE TypeOK'
  BY <1>11, Values DEF TypeOK, SaveCache, files, state, unique, Unique!TypeOK
<1>12. ASSUME NEW r \in Flag, SaveSongs(r) \/ SaveAlbums(r) \/ SaveArtists(r) PROVE TypeOK'
  <2>1. ASSUME NEW p \in Part, NEW then \in Stage, SavePart(r, p, then), torn' \in BOOLEAN,
               UNCHANGED <<search, up, loading>>, updates' \in Seq(Flag \cup {Nobody})
        PROVE  TypeOK'
    BY <2>1, SongsOfType DEF TypeOK, SavePart, Forget, files, unique,
       Unique!TypeOK, NoSongs, SongCache
  <2>2. /\ torn' \in BOOLEAN /\ UNCHANGED <<search, up, loading>>
        /\ updates' \in Seq(Flag \cup {Nobody})
    <3>1. /\ torn' \in BOOLEAN /\ UNCHANGED <<search, up, loading>>
          /\ updates' = updates \/ updates' = Append(updates, r)
      BY <1>12 DEF TypeOK, SaveSongs, SaveAlbums, SaveArtists, AskFor, state
    <3>2. Append(updates, r) \in Seq(Flag \cup {Nobody})
      BY DEF TypeOK
    <3> QED
      BY <3>1, <3>2 DEF TypeOK
  <2> QED
    BY <1>12, <2>1, <2>2, Values DEF SaveSongs, SaveAlbums, SaveArtists, Stage, Running
<1>13. ASSUME NEW r \in Flag, SaveFails(r) PROVE TypeOK'
  BY <1>13 DEF TypeOK, SaveFails, Forget, files, disk, state, unique,
     Unique!TypeOK, NoSongs, SongCache, Stage
<1>14. ASSUME NEW r \in Flag, SiblingFails(r) PROVE TypeOK'
  <2>1. updates' \in Seq(Flag \cup {Nobody})
    <3>1. /\ updates \in Seq(Flag \cup {Nobody}) /\ DOMAIN updates = 1..Len(updates)
          /\ Len(updates) \in Nat
      BY DEF TypeOK
    <3>2. updates' \in [1..Len(updates) -> Flag \cup {Nobody}]
      BY <1>14, <3>1 DEF SiblingFails
    <3> QED
      BY <3>1, <3>2
  <2> QED
    BY <1>14, <2>1 DEF TypeOK, SiblingFails, files, disk, unique, history, Unique!TypeOK, Stage
<1>15. ASSUME NEW outcome \in {"ok", "failed"}, Updated(outcome), updates # <<>>,
              search' \in [Part -> Snapshot], behind' \in BOOLEAN
       PROVE  TypeOK'
  <2>1. Head(updates) \in Flag \cup {Nobody} /\ updates' \in Seq(Flag \cup {Nobody})
    BY <1>15, FirstUpdate DEF Updated
  <2>2. stage' \in [Flag -> Stage] /\ last' \subseteq Flag
    BY <1>15, <2>1 DEF TypeOK, Updated, Stage
  <2> QED
    BY <1>15, <2>1, <2>2 DEF TypeOK, Updated, files, disk, unique, Unique!TypeOK
<1>16. ASSUME Load PROVE TypeOK'
  BY <1>16, LoadedType DEF TypeOK, Load, LoadOrder, Part, files, disk, unique, runs,
     Unique!TypeOK
<1>17. ASSUME LoadFails PROVE TypeOK'
  BY <1>15, <1>17 DEF TypeOK, LoadFails
<1>18. ASSUME Finish PROVE TypeOK'
  <2>1. loading \in Seq(Snapshot) /\ 1 \in 1..Len(loading) /\ 2 \in 1..Len(loading)
    BY <1>18 DEF TypeOK, Finish
  <2>2. loading[1] \in Snapshot /\ loading[2] \in Snapshot
    BY <2>1
  <2>3. Loaded("artists") \in Snapshot
    BY LoadedType, Values
  <2>4. search' \in [Part -> Snapshot]
    BY <1>18, <2>2, <2>3 DEF Finish, Part
  <2> QED
    BY <1>15, <1>18, <2>4 DEF TypeOK, Finish
<1>19. ASSUME Restart PROVE TypeOK'
  BY <1>19, LoadedType, IndexAssumption DEF TypeOK, Restart, Now, Forget, disk,
     Unique!TypeOK, Unique!Status, Stage, NoSongs, SongCache, Nothing, Snapshot
<1>20. ASSUME UNCHANGED vars PROVE TypeOK'
  BY <1>20 DEF TypeOK, vars, files, disk, state, unique, runs, history, Unique!TypeOK
<1> QED
  BY <1>1, <1>2, <1>3, <1>4, <1>5, <1>6, <1>7, <1>8, <1>9, <1>10, <1>11, <1>12, <1>13,
     <1>14, <1>16, <1>17, <1>18, <1>19, <1>20 DEF Next, Run

(* Every variable of the song index keeps its type. *)
THEOREM TypeCorrect == Spec => []TypeOK
BY TypeInit, TypeNext, PTL DEF Spec
-----------------------------------------------------------------------------
(* Layer 2: the stamps of the entries, wherever they are kept. An entry whose
   song is not what its file contains has a stamp the file's time has reached,
   because the clock was read before the file was parsed. *)
Sound(sc) == \A f \in File : sc[f] # NoEntry =>
  /\ sc[f].updateTime <= clock
  /\ content[f] # Absent /\ sc[f].song # content[f] => sc[f].updateTime <= mtime[f]

Stamps ==
  /\ \A f \in File : mtime[f] <= clock
  /\ cache # NoFile => Sound(cache)
  /\ \A r \in Flag : Sound(original[r]) /\ Sound(result[r])
  /\ \A r \in Flag : parsing[r] # NoEntry => parsing[r][2] <= clock

(* There is nothing in an empty cache to be wrong about. *)
LEMMA NoSongsSound == Sound(NoSongs)
BY DEF Sound, NoSongs

(* A write stamps its file with a time no entry's stamp is beyond. *)
LEMMA SoundAfterChange ==
  ASSUME TypeOK, \A f \in File : mtime[f] <= clock,
         NEW f \in File, Write(f) \/ Delete(f), NEW sc \in SongCache, Sound(sc)
  PROVE  Sound(sc)'
<1> SUFFICES ASSUME NEW g \in File, sc[g] # NoEntry
             PROVE  /\ sc[g].updateTime <= clock'
                    /\ content'[g] # Absent /\ sc[g].song # content'[g]
                         => sc[g].updateTime <= mtime'[g]
  BY DEF Sound
<1>1. /\ sc[g].updateTime \in Int /\ clock \in Int /\ clock' \in Int /\ mtime[g] \in Int
      /\ clock <= clock'
  BY DEF TypeOK, SongCache, Entry, Time, Now, Write, Delete
<1>2. /\ sc[g].updateTime <= clock
      /\ content[g] # Absent /\ sc[g].song # content[g] => sc[g].updateTime <= mtime[g]
  BY DEF Sound
<1>3. CASE Write(f)
  BY <1>1, <1>2, <1>3 DEF TypeOK, Write, Now, Becomes, Time, Snapshot
<1>4. CASE Delete(f)
  BY <1>1, <1>2, <1>4 DEF TypeOK, Delete, Becomes, Snapshot
<1> QED
  BY <1>3, <1>4

(* Nor is an entry's stamp beyond the clock when time has passed. *)
LEMMA SoundLater ==
  ASSUME TypeOK, clock' \in Now, UNCHANGED <<content, mtime>>, NEW sc \in SongCache, Sound(sc)
  PROVE  Sound(sc)'
BY DEF TypeOK, SongCache, Entry, Time, Now, Sound

(* What the walk keeps of the old cache is the entry of the file it meets. *)
LEMMA MeetResult ==
  ASSUME TypeOK, NEW r \in Flag, NEW f \in File, Meet(r, f)
  PROVE  \A q \in Flag : \A g \in File :
           \/ result'[q][g] = result[q][g]
           \/ /\ q = r /\ g = f /\ ~NeedsUpdate(original[r], f)
              /\ result'[q][g] = original[r][f]
<1>1. CASE result' = result
  BY <1>1
<1>2. CASE /\ ~NeedsUpdate(original[r], f)
           /\ result' = [result EXCEPT ![r] = [@ EXCEPT ![f] = original[r][f]]]
  <2>1. /\ result \in [Flag -> SongCache] /\ result[r] \in SongCache
        /\ \A q \in Flag : result'[q] = IF q = r THEN [result[r] EXCEPT ![f] = original[r][f]]
                                                 ELSE result[q]
    BY <1>2 DEF TypeOK
  <2>2. \A g \in File : [result[r] EXCEPT ![f] = original[r][f]][g] =
                          IF g = f THEN original[r][f] ELSE result[r][g]
    BY <2>1 DEF SongCache
  <2> QED
    BY <1>2, <2>1, <2>2
<1> QED
  BY <1>1, <1>2 DEF Meet

(* The stamps are sound before the first run. *)
LEMMA StampsInit == Init => Stamps
BY NoSongsSound DEF Init, Stamps

(* Every step keeps the stamps sound. *)
LEMMA StampsNext == TypeOK /\ Stamps /\ [Next]_vars => Stamps'
<1> SUFFICES ASSUME TypeOK, Stamps, [Next]_vars PROVE Stamps'
  OBVIOUS
<1>1. ASSUME NEW f \in File, Write(f) \/ Delete(f) PROVE Stamps'
  <2>1. /\ cache' = cache /\ original' = original /\ result' = result /\ parsing' = parsing
        /\ clock \in Int /\ clock' \in Int /\ clock <= clock'
    BY <1>1 DEF TypeOK, Write, Delete, Becomes, Now, disk, runs, Time
  <2>2. \A g \in File : mtime'[g] <= clock'
    BY <1>1 DEF Stamps, TypeOK, Write, Delete, Now, Time
  <2>3. cache' # NoFile => Sound(cache)'
    BY <1>1, <2>1, SoundAfterChange DEF Stamps, TypeOK, Sound
  <2>4. \A r \in Flag : Sound(original[r])' /\ Sound(result[r])'
    BY <1>1, <2>1, SoundAfterChange DEF Stamps, TypeOK, Sound
  <2>5. \A r \in Flag : parsing'[r] # NoEntry => parsing'[r][2] <= clock'
    BY <2>1 DEF Stamps, TypeOK, Time
  <2> QED
    BY <2>2, <2>3, <2>4, <2>5 DEF Stamps
<1>2. ASSUME NEW c \in Call, Start(c) PROVE Stamps'
  <2>1. \A r \in Flag : original'[r] \in {original[r], NoSongs} \cup
                                        (IF cache = NoFile THEN {} ELSE {cache})
    BY <1>2, Values DEF Start, TypeOK
  <2> QED
    BY <1>2, <2>1, NoSongsSound DEF Start, Stamps, Sound, files, disk
<1>3. ASSUME NEW r \in Flag, NEW f \in File, Meet(r, f) PROVE Stamps'
  <2>1. /\ clock' \in Now /\ clock \in Int /\ clock' \in Int /\ clock <= clock'
        /\ UNCHANGED <<content, mtime, cache, original>>
    BY <1>3 DEF Meet, TypeOK, Time, Now, disk
  <2>2. \A q \in Flag : parsing'[q] # NoEntry => parsing'[q][2] <= clock'
    BY <1>3, <2>1 DEF Meet, Stamps, TypeOK, Time, Now
  <2>3. \A q \in Flag : Sound(original[q])' /\ \A sc \in SongCache : sc = result[q] => Sound(sc)'
    BY <2>1, SoundLater DEF Stamps, TypeOK, Sound
  <2>4. cache' # NoFile => Sound(cache)'
    BY <2>1, SoundLater DEF Stamps, TypeOK, Sound
  <2>5. \A q \in Flag : \A g \in File : result'[q][g] \in {result[q][g], original[q][g]}
    BY <1>3, MeetResult
  <2>6. \A q \in Flag : Sound(result[q])'
    BY <2>1, <2>3, <2>5 DEF Sound, TypeOK
  <2>7. \A g \in File : mtime'[g] <= clock'
    BY <2>1 DEF Stamps, TypeOK, Time
  <2> QED
    BY <2>2, <2>3, <2>4, <2>6, <2>7 DEF Stamps
<1>4. ASSUME NEW r \in Flag, Parse(r) PROVE Stamps'
  <2> DEFINE f == parsing[r][1]
             new == [song |-> content[f], updateTime |-> parsing[r][2]]
  <2>1. f \in File /\ new.updateTime <= clock /\ new.song = content[f]
    BY <1>4 DEF Parse, Stamps, TypeOK
  <2>2. \A q \in Flag : \A g \in File :
          result'[q][g] = result[q][g] \/ (g = f /\ result'[q][g] = new)
    BY <1>4 DEF Parse, TypeOK, SongCache
  <2>3. \A q \in Flag : Sound(result[q])'
    BY <1>4, <2>1, <2>2 DEF Parse, Stamps, Sound, files
  <2> QED
    BY <1>4, <2>3 DEF Parse, Stamps, Sound, TypeOK, files, disk
<1>5. ASSUME NEW R \in SUBSET Flag, Forget(R),
             UNCHANGED <<content, mtime>>, clock' \in Now, cache' = cache PROVE Stamps'
  <2>1. \A f \in File : mtime'[f] <= clock'
    BY <1>5 DEF Stamps, TypeOK, Time, Now
  <2>2. cache' # NoFile => Sound(cache)'
    BY <1>5, SoundLater DEF Stamps, TypeOK, Sound
  <2>3. \A r \in Flag : Sound(original[r])' /\ Sound(result[r])'
    <3>1. \A sc \in SongCache : Sound(sc) => Sound(sc)'
      BY <1>5, SoundLater
    <3>2. NoSongs \in SongCache /\ Sound(NoSongs)
      BY NoSongsSound DEF NoSongs, SongCache
    <3>3. \A r \in Flag : /\ original'[r] \in {NoSongs, original[r]}
                          /\ result'[r] \in {NoSongs, result[r]}
      BY <1>5 DEF Forget
    <3> QED
      BY <3>1, <3>2, <3>3 DEF Stamps, TypeOK, Sound
  <2>4. \A r \in Flag : parsing'[r] # NoEntry => parsing'[r][2] <= clock'
    BY <1>5 DEF Forget, Stamps, TypeOK, Time, Now
  <2> QED
    BY <2>1, <2>2, <2>3, <2>4 DEF Stamps
<1>6. ASSUME UNCHANGED <<files, original, result, parsing>>,
             cache' = cache \/ \E r \in Flag : cache' = result[r] PROVE Stamps'
  BY <1>6 DEF Stamps, Sound, files
<1>7. ASSUME NEW r \in Flag, Run(r) PROVE Stamps'
  <2>1. ASSUME NEW c \in Call, Answer(c) PROVE Stamps'
    BY <1>6, <2>1 DEF Answer, disk
  <2>2. CASE ScanFails(r) \/ Unchanged(r) \/ SaveFails(r)
    <3>1. clock \in Now
      BY DEF TypeOK, Now, Time
    <3> QED
      BY <1>5, <2>2, <3>1 DEF ScanFails, Unchanged, SaveFails, files, disk
  <2>3. CASE SaveCache(r)
    BY <1>6, <2>3 DEF SaveCache
  <2>4. CASE SaveSongs(r) \/ SaveAlbums(r) \/ SaveArtists(r)
    <3>1. ASSUME NEW p, NEW then, SavePart(r, p, then) PROVE Stamps'
      <4>1. clock \in Now
        BY DEF TypeOK, Now, Time
      <4> QED
        BY <1>5, <3>1, <4>1 DEF SavePart, files
    <3> QED
      BY <2>4, <3>1 DEF SaveSongs, SaveAlbums, SaveArtists
  <2>5. CASE SiblingFails(r)
    BY <1>6, <2>5 DEF SiblingFails, disk
  <2> QED
    BY <1>2, <1>3, <1>4, <1>7, <2>1, <2>2, <2>3, <2>4, <2>5 DEF Run
<1>8. ASSUME NEW c \in Call, Index(c) \/ Share(c) PROVE Stamps'
  BY <1>6, <1>8 DEF Index, Share, disk, runs
<1>9. CASE Restart
  BY <1>5, <1>9 DEF Restart, disk
<1>10. CASE Load \/ Finish \/ LoadFails
  BY <1>6, <1>10 DEF Load, Finish, LoadFails, Updated, disk, runs
<1>11. CASE UNCHANGED vars
  BY <1>6, <1>11 DEF vars, disk, runs
<1> QED
  BY <1>1, <1>7, <1>8, <1>9, <1>10, <1>11 DEF Next

(* The stamps are sound in every reachable state. *)
LEMMA StampsInvariance == Spec => []Stamps
BY TypeCorrect, StampsInit, StampsNext, PTL DEF Spec

(* SongCache.needsUpdate keeps only entries that are what the file contains. *)
THEOREM TrustedEntries == Spec => []NoStaleEntryTrusted
<1>1. TypeOK /\ Stamps => NoStaleEntryTrusted
  BY DEF TypeOK, Stamps, Sound, NoStaleEntryTrusted, NeedsUpdate, SongCache, Entry, Time
<1> QED
  BY <1>1, TypeCorrect, StampsInvariance, PTL
-----------------------------------------------------------------------------
(* Layer 3: the unique actor. A run that is not over has an open call, and
   every call boards the run with its own flag; so no run is started while the
   one before it with the same flag is anywhere in its stages. Whoever has an
   update in the proxy's queue has one, and is waiting for it. *)
RunsAreOpen ==
  /\ \A c \in Call : status[c] = "aboard" => topic[c] = FlagOf(c)
  /\ \A r \in Flag : stage[r] # "none" => \E c \in Call : Unique!Open(c) /\ topic[c] = r

Asked ==
  /\ \A i \in 1..Len(updates) : updates[i] # Nobody => stage[updates[i]] = "updating"
  /\ \A i, j \in 1..Len(updates) : updates[i] # Nobody /\ updates[i] = updates[j] => i = j

(* Nothing is open before the first request. *)
LEMMA OpenInit == Init => RunsAreOpen /\ Asked
BY DEF Init, Unique!Init, RunsAreOpen, Asked

(* The end of an update is the end of a run that waits for it, or of none. *)
LEMMA UpdatedStage ==
  ASSUME TypeOK, Asked, updates # <<>>, NEW outcome, Updated(outcome)
  PROVE  \/ Head(updates) = Nobody /\ stage' = stage /\ last' = last
         \/ \E r \in Flag : /\ Head(updates) = r /\ stage[r] = "updating"
                            /\ stage' = [stage EXCEPT ![r] = outcome]
                            /\ last' = (IF outcome = "ok" THEN alone ELSE {})
<1>1. Head(updates) \in Flag \cup {Nobody} /\ Head(updates) = updates[1] /\ 1 \in 1..Len(updates)
  BY FirstUpdate
<1>2. Head(updates) # Nobody => stage[Head(updates)] = "updating"
  BY <1>1 DEF Asked
<1> QED
  BY <1>1, <1>2 DEF Updated

(* A run starts only when the one before it with its flag is over. *)
LEMMA StartsFromNone ==
  ASSUME TypeOK, RunsAreOpen, NEW c \in Call, Start(c)
  PROVE  stage[FlagOf(c)] = "none"
BY Values DEF Start, Unique!Lead, RunsAreOpen

(* Every step keeps the stages and the unique actor together. *)
LEMMA OpenNext == TypeOK /\ RunsAreOpen /\ Asked /\ [Next]_vars => RunsAreOpen'
<1> SUFFICES ASSUME TypeOK, RunsAreOpen, Asked, [Next]_vars PROVE RunsAreOpen'
  OBVIOUS
<1>1. ASSUME UNCHANGED unique, \A q \in Flag : stage[q] = "none" => stage'[q] = "none"
      PROVE  RunsAreOpen'
  BY <1>1 DEF RunsAreOpen, Unique!Open, unique
<1>2. ASSUME NEW c \in Call, Index(c) PROVE RunsAreOpen'
  BY <1>2 DEF TypeOK, Unique!TypeOK, RunsAreOpen, Unique!Open, Index, Unique!Invoke, runs
<1>3. ASSUME NEW c \in Call, Share(c) PROVE RunsAreOpen'
  BY <1>3 DEF TypeOK, Unique!TypeOK, RunsAreOpen, Unique!Open, Share, Unique!Join,
     Unique!Board, runs
<1>4. ASSUME NEW c \in Call, Start(c) PROVE RunsAreOpen'
  BY <1>4, Values DEF TypeOK, Unique!TypeOK, RunsAreOpen, Unique!Open, Start, Unique!Lead,
     Unique!Board
<1>5. ASSUME NEW c \in Call, Answer(c) PROVE RunsAreOpen'
  <2>1. /\ Unique!Open(c) /\ topic[c] = FlagOf(c) /\ FlagOf(c) \in Flag
        /\ topic' = topic /\ servedBy' = servedBy
        /\ stage' = [stage EXCEPT ![FlagOf(c)] = "none"]
    BY <1>5, Values DEF Answer, Unique!Land, Unique!Open, RunsAreOpen
  <2>2. \A d \in Call : Unique!Open(d) /\ d # c => Unique!Open(d)'
    BY <1>5 DEF Answer, Unique!Land, Unique!Open, TypeOK, Unique!TypeOK
  <2>3. \A d \in Call : status'[d] = "aboard" => status[d] = "aboard"
    BY <1>5 DEF Answer, Unique!Land, TypeOK, Unique!TypeOK
  <2> QED
    BY <2>1, <2>2, <2>3 DEF RunsAreOpen, TypeOK
<1>6. ASSUME NEW r \in Flag, NEW f \in File, Meet(r, f) PROVE RunsAreOpen'
  BY <1>1, <1>6 DEF Meet
<1>7. ASSUME NEW r \in Flag, Run(r) PROVE RunsAreOpen'
  <2>1. CASE Parse(r) \/ ScanFails(r)
    BY <1>1, <2>1 DEF Parse, ScanFails, TypeOK
  <2>2. CASE Unchanged(r) \/ SaveCache(r)
    BY <1>1, <2>2 DEF Unchanged, SaveCache, Walked, TypeOK
  <2>3. CASE SaveSongs(r) \/ SaveAlbums(r) \/ SaveArtists(r)
    BY <1>1, <2>3 DEF SaveSongs, SaveAlbums, SaveArtists, SavePart, TypeOK
  <2>4. CASE SaveFails(r) \/ SiblingFails(r)
    <3>1. UNCHANGED unique /\ stage[r] # "none" /\ \A q \in Flag : q # r => stage'[q] = stage[q]
      BY <2>4, Values DEF SaveFails, SiblingFails, Walked, Saving, TypeOK
    <3> QED
      BY <1>1, <3>1
  <2> QED
    BY <1>4, <1>5, <1>6, <1>7, <2>1, <2>2, <2>3, <2>4 DEF Run
<1>8. ASSUME NEW f \in File, Write(f) \/ Delete(f) PROVE RunsAreOpen'
  BY <1>1, <1>8 DEF Write, Delete, Becomes, runs
<1>9. CASE Restart
  BY <1>9 DEF Restart, RunsAreOpen
<1>10. ASSUME NEW outcome, Updated(outcome), updates # <<>> PROVE RunsAreOpen'
  <2>1. UNCHANGED unique /\ \A q \in Flag : stage[q] = "none" => stage'[q] = "none"
    BY <1>10, UpdatedStage DEF Updated, TypeOK
  <2> QED
    BY <1>1, <2>1
<1>11. CASE Load \/ Finish \/ LoadFails
  BY <1>1, <1>10, <1>11 DEF Load, Finish, LoadFails, runs
<1>12. CASE UNCHANGED vars
  BY <1>1, <1>12 DEF vars, runs
<1> QED
  BY <1>2, <1>3, <1>7, <1>8, <1>9, <1>11, <1>12 DEF Next

(* A run that is not waiting for an update asks for one. *)
LEMMA AskedMore ==
  ASSUME TypeOK, Asked, NEW r \in Flag, stage[r] # "updating",
         stage' = [stage EXCEPT ![r] = "updating"], updates' = Append(updates, r)
  PROVE  Asked'
<1>1. /\ updates \in Seq(Flag \cup {Nobody}) /\ Len(updates') = Len(updates) + 1
      /\ Len(updates) \in Nat /\ updates'[Len(updates) + 1] = r
      /\ \A i \in 1..Len(updates) : updates'[i] = updates[i] /\ updates[i] \in Flag \cup {Nobody}
  BY AppendProperties DEF TypeOK
<1>2. \A i \in 1..Len(updates) : updates[i] # r
  BY Values DEF Asked
<1>3. \A i \in 1..Len(updates') : i = Len(updates) + 1 \/ i \in 1..Len(updates)
  BY <1>1
<1>4. \A i \in 1..Len(updates') : updates'[i] # Nobody => stage'[updates'[i]] = "updating"
  BY <1>1, <1>2, <1>3 DEF Asked, TypeOK
<1>5. \A i, j \in 1..Len(updates') : updates'[i] # Nobody /\ updates'[i] = updates'[j] => i = j
  BY <1>1, <1>2, <1>3 DEF Asked
<1> QED
  BY <1>4, <1>5 DEF Asked

(* Every step keeps the updates those of the runs that wait for them. *)
LEMMA AskedNext == TypeOK /\ RunsAreOpen /\ Asked /\ [Next]_vars => Asked'
<1> SUFFICES ASSUME TypeOK, RunsAreOpen, Asked, [Next]_vars PROVE Asked'
  OBVIOUS
<1>0. \A i \in 1..Len(updates) : updates[i] \in Flag \cup {Nobody}
  BY DEF TypeOK
<1>1. ASSUME updates' = updates, \A q \in Flag : stage[q] = "updating" => stage'[q] = "updating"
      PROVE  Asked'
  BY <1>0, <1>1 DEF Asked
<1>2. ASSUME NEW c \in Call, Start(c) PROVE Asked'
  <2>1. updates' = updates /\ stage[FlagOf(c)] = "none"
        /\ stage' = [stage EXCEPT ![FlagOf(c)] = "scanning"]
    BY <1>2, StartsFromNone DEF Start, state
  <2> QED
    BY <1>1, <2>1 DEF TypeOK
<1>3. ASSUME NEW c \in Call, Answer(c) PROVE Asked'
  BY <1>1, <1>3, Values DEF Answer, state, TypeOK
<1>4. ASSUME NEW r \in Flag, NEW f \in File, Meet(r, f) PROVE Asked'
  BY <1>1, <1>4 DEF Meet, state
<1>5. ASSUME NEW r \in Flag, Parse(r) \/ ScanFails(r) \/ SaveCache(r) PROVE Asked'
  BY <1>1, <1>5 DEF Parse, ScanFails, SaveCache, Walked, state, TypeOK
<1>6. ASSUME NEW r \in Flag, SaveSongs(r) \/ SaveAlbums(r) PROVE Asked'
  BY <1>1, <1>6 DEF SaveSongs, SaveAlbums, SavePart, state, TypeOK
<1>7. ASSUME NEW r \in Flag, Unchanged(r) \/ SaveArtists(r) PROVE Asked'
  <2>1. /\ stage[r] # "updating" /\ updates' = Append(updates, r)
        /\ stage' = [stage EXCEPT ![r] = "updating"]
    BY <1>7 DEF Unchanged, Walked, SaveArtists, SavePart, AskFor
  <2> QED
    BY <2>1, AskedMore
<1>8. ASSUME NEW r \in Flag, SaveFails(r) PROVE Asked'
  <2>1. updates' = updates /\ stage[r] # "updating" /\ \A q \in Flag : q # r => stage'[q] = stage[q]
    BY <1>8, Values DEF SaveFails, Walked, Saving, Part, state, TypeOK
  <2> QED
    BY <1>1, <2>1
<1>9. ASSUME NEW r \in Flag, SiblingFails(r) PROVE Asked'
  <2>1. /\ Len(updates') = Len(updates)
        /\ \A i \in 1..Len(updates) : updates'[i] = IF updates[i] = r THEN Nobody ELSE updates[i]
        /\ \A q \in Flag : q # r => stage'[q] = stage[q]
    <3>1. updates \in Seq(Flag \cup {Nobody}) /\ DOMAIN updates = 1..Len(updates) /\ Len(updates) \in Nat
      BY DEF TypeOK
    <3>2. updates' = [i \in 1..Len(updates) |-> IF updates[i] = r THEN Nobody ELSE updates[i]]
      BY <1>9, <3>1 DEF SiblingFails
    <3>3. Len(updates') = Len(updates)
      BY <3>1, <3>2
    <3> QED
      BY <1>9, <3>2, <3>3 DEF SiblingFails, TypeOK
  <2> QED
    BY <1>0, <2>1 DEF Asked
<1>10. ASSUME NEW outcome, Updated(outcome), updates # <<>> PROVE Asked'
  <2>1. /\ updates' = Tail(updates) /\ Len(updates') = Len(updates) - 1 /\ Len(updates) \in Nat
        /\ \A i \in 1..Len(updates') : updates'[i] = updates[i + 1]
        /\ updates[1] = Head(updates) /\ 1 \in 1..Len(updates)
    BY <1>10, FirstUpdate DEF Updated
  <2>2. \A i \in 1..Len(updates') : i + 1 \in 1..Len(updates) /\ i + 1 # 1
    BY <2>1
  <2>3. \A i \in 1..Len(updates') : updates'[i] # Nobody => updates'[i] # Head(updates)
    BY <2>1, <2>2 DEF Asked
  <2>4. \A q \in Flag : q # Head(updates) => stage'[q] = stage[q]
    BY <1>10, UpdatedStage DEF TypeOK
  <2>5. \A i \in 1..Len(updates') : updates'[i] # Nobody => stage'[updates'[i]] = "updating"
    BY <1>0, <2>1, <2>2, <2>3, <2>4 DEF Asked
  <2>6. \A i, j \in 1..Len(updates') : updates'[i] # Nobody /\ updates'[i] = updates'[j] => i = j
    <3> SUFFICES ASSUME NEW i \in 1..Len(updates'), NEW j \in 1..Len(updates'),
                        updates'[i] # Nobody, updates'[i] = updates'[j]
                 PROVE  i = j
      OBVIOUS
    <3>1. updates[i + 1] # Nobody /\ updates[i + 1] = updates[j + 1]
      BY <2>1
    <3>2. i + 1 = j + 1
      BY <2>2, <3>1 DEF Asked
    <3> QED
      BY <2>1, <3>2
  <2> QED
    BY <2>5, <2>6 DEF Asked
<1>11. CASE Load \/ Finish \/ LoadFails
  BY <1>1, <1>10, <1>11 DEF Load, Finish, LoadFails, runs
<1>12. ASSUME NEW f \in File, Write(f) \/ Delete(f) PROVE Asked'
  BY <1>1, <1>12 DEF Write, Delete, Becomes, state, runs
<1>13. ASSUME NEW c \in Call, Index(c) \/ Share(c) PROVE Asked'
  BY <1>1, <1>13 DEF Index, Share, state, runs
<1>14. CASE Restart
  BY <1>14 DEF Restart, Asked
<1>15. CASE UNCHANGED vars
  BY <1>1, <1>15 DEF vars, state, runs
<1>16. ASSUME NEW r \in Flag, Run(r) PROVE Asked'
  BY <1>2, <1>3, <1>4, <1>5, <1>6, <1>7, <1>8, <1>9, <1>16 DEF Run
<1> QED
  BY <1>11, <1>12, <1>13, <1>14, <1>15, <1>16 DEF Next

(* A run that is not over has an open call, in every reachable state. *)
LEMMA OpenInvariance == Spec => [](RunsAreOpen /\ Asked)
BY TypeCorrect, OpenInit, OpenNext, AskedNext, PTL DEF Spec

-----------------------------------------------------------------------------
(* Layer 4: the saves. From its first save to its last a run leaves the files
   torn; a run in `alone` is the only one in progress, so while it saves the
   cache is its result and the files saved so far are made from it. *)
AloneIsAlone == \A r \in alone : \A q \in Flag : stage[q] \in Running => q = r

AloneSaves == \A r \in alone : stage[r] \in Saving =>
  /\ cache = result[r]
  /\ stage[r] \in {"albums", "artists"} => index["songs"] = SongsOf(cache)
  /\ stage[r] = "artists" => index["albums"] = SongsOf(cache)

Saves ==
  /\ \A r \in Flag : stage[r] \in Saving => torn
  /\ AloneIsAlone
  /\ AloneSaves
  /\ IndexMatchesCache

(* No file is there at first. *)
LEMMA SavesInit == Init => Saves
BY DEF Init, Saves, AloneIsAlone, AloneSaves, IndexMatchesCache, Saving, Part

(* A run that goes on without saving changes nothing of this. *)
LEMMA SavesKept ==
  ASSUME TypeOK, Saves, NEW r \in Flag, stage[r] \in Running,
         NEW s \in Stage \ Saving, stage' = [stage EXCEPT ![r] = s],
         UNCHANGED <<disk, alone, torn>>, \A q \in Flag : q # r => result'[q] = result[q]
  PROVE  Saves'
<1>1. \A q \in Flag : stage'[q] \in Saving => q # r /\ stage[q] \in Saving
  BY DEF TypeOK
<1>2. AloneIsAlone'
  BY DEF TypeOK, Saves, AloneIsAlone
<1>3. AloneSaves'
  BY <1>1 DEF TypeOK, Saves, AloneSaves, disk
<1> QED
  BY <1>1, <1>2, <1>3 DEF Saves, IndexMatchesCache, disk

(* Every step keeps the saves consistent. *)
LEMMA SavesNext == TypeOK /\ TypeOK' /\ Asked /\ Saves /\ [Next]_vars => Saves'
<1> SUFFICES ASSUME TypeOK, TypeOK', Asked, Saves, [Next]_vars PROVE Saves'
  OBVIOUS
<1> USE DEF Saving
<1>1. ASSUME UNCHANGED <<disk, stage, result, alone, torn>> PROVE Saves'
  BY <1>1 DEF Saves, AloneIsAlone, AloneSaves, IndexMatchesCache, disk
<1>2. ASSUME NEW c \in Call, Start(c) PROVE Saves'
  BY <1>2, Values DEF Start, TypeOK, Saves, AloneIsAlone, AloneSaves, IndexMatchesCache,
     InProgress, disk
<1>3. ASSUME NEW c \in Call, Answer(c) PROVE Saves'
  BY <1>3, Values DEF Answer, TypeOK, Saves, AloneIsAlone, AloneSaves, IndexMatchesCache,
     disk, history, Running
<1>4. ASSUME NEW r \in Flag, NEW f \in File, Meet(r, f) PROVE Saves'
  <2>1. \A q \in Flag : stage[q] \in Saving => result'[q] = result[q]
    BY <1>4, Values DEF Meet, TypeOK
  <2> QED
    BY <1>4, <2>1 DEF Meet, TypeOK, Saves, AloneIsAlone, AloneSaves, IndexMatchesCache,
       disk, history
<1>5. ASSUME NEW r \in Flag, Parse(r) PROVE Saves'
  <2>1. \A q \in Flag : stage[q] \in Saving => result'[q] = result[q]
    BY <1>5, Values DEF Parse, TypeOK
  <2> QED
    BY <1>5, <2>1 DEF Parse, TypeOK, Saves, AloneIsAlone, AloneSaves, IndexMatchesCache,
       disk, history
<1>6. ASSUME NEW r \in Flag, ScanFails(r) \/ Unchanged(r) PROVE Saves'
  BY <1>6, SavesKept, Values DEF ScanFails, Unchanged, Walked, Forget, TypeOK, Stage, Running,
     history
<1>7. ASSUME NEW r \in Flag, SaveFails(r) \/ SiblingFails(r) PROVE Saves'
  <2>1. /\ stage[r] \in Running /\ UNCHANGED <<disk, alone, torn>>
        /\ \A q \in Flag : q # r => result'[q] = result[q]
    BY <1>7 DEF SaveFails, SiblingFails, Walked, Forget, Running, history
  <2>2. \E s \in {"failed", "hung"} : stage' = [stage EXCEPT ![r] = s]
    BY <1>7 DEF SaveFails, SiblingFails
  <2>3. "failed" \in Stage \ Saving /\ "hung" \in Stage \ Saving
    BY Values DEF Stage
  <2> QED
    BY <2>1, <2>2, <2>3, SavesKept
<1>8. ASSUME NEW r \in Flag, SaveCache(r) PROVE Saves'
  <2>1. AloneIsAlone' /\ AloneSaves'
    BY <1>8, Values DEF SaveCache, Walked, TypeOK, Saves, AloneIsAlone, AloneSaves, Running
  <2> QED
    BY <1>8, <2>1 DEF SaveCache, Saves, IndexMatchesCache
<1>9. ASSUME NEW r \in Flag, SaveSongs(r) \/ SaveAlbums(r) PROVE Saves'
  <2>1. AloneIsAlone'
    BY <1>9, Values DEF SaveSongs, SaveAlbums, SavePart, TypeOK, Saves, AloneIsAlone, Running
  <2>2. AloneSaves'
    BY <1>9, Values DEF SaveSongs, SaveAlbums, SavePart, Forget, TypeOK, Saves,
       AloneIsAlone, AloneSaves, Running
  <2>3. torn /\ torn' /\ \A q \in Flag : stage'[q] \in Saving => torn'
    BY <1>9, Values DEF SaveSongs, SaveAlbums, SavePart, Saves
  <2> QED
    BY <2>1, <2>2, <2>3 DEF Saves, IndexMatchesCache
<1>10. ASSUME NEW r \in Flag, SaveArtists(r) PROVE Saves'
  <2>1. /\ stage[r] = "artists" /\ torn /\ torn' = (r \notin alone) /\ alone' = alone
        /\ cache' = cache
        /\ index' = [index EXCEPT !["artists"] = SongsOf(result[r])]
        /\ stage' = [stage EXCEPT ![r] = "updating"]
        /\ \A q \in Flag : q # r => result'[q] = result[q]
    BY <1>10, Values DEF SaveArtists, SavePart, Forget, TypeOK, Saves
  <2>2. \A q \in Flag : r \in alone /\ q # r => stage[q] \notin Running
    BY <2>1 DEF Saves, AloneIsAlone
  <2>3. \A q \in Flag : stage'[q] \in Saving => torn'
    BY <2>1, <2>2, Values DEF TypeOK, Running
  <2>4. AloneIsAlone'
    BY <2>1, Values DEF TypeOK, Saves, AloneIsAlone, Running
  <2>5. AloneSaves'
    BY <2>1, Values DEF TypeOK, Saves, AloneIsAlone, AloneSaves, Running
  <2>6. IndexMatchesCache'
    <3> SUFFICES ASSUME r \in alone, NEW p \in Part
                 PROVE  index'[p] = IF cache = NoFile THEN NoFile ELSE SongsOf(cache)
      BY <2>1 DEF IndexMatchesCache
    <3>1. cache = result[r] /\ index["songs"] = SongsOf(cache) /\ index["albums"] = SongsOf(cache)
      BY <2>1, Values DEF Saves, AloneSaves
    <3>2. cache # NoFile
      BY <3>1, Values DEF TypeOK
    <3> QED
      BY <2>1, <3>1, <3>2, Values DEF TypeOK
  <2> QED
    BY <2>3, <2>4, <2>5, <2>6 DEF Saves
<1>11. ASSUME NEW outcome \in {"ok", "failed"}, Updated(outcome), updates # <<>> PROVE Saves'
  <2>1. UNCHANGED <<disk, alone, torn, result>>
    BY <1>11 DEF Updated
  <2>2. CASE stage' = stage
    BY <1>1, <2>1, <2>2
  <2>3. ASSUME NEW r \in Flag, stage[r] = "updating", stage' = [stage EXCEPT ![r] = outcome]
        PROVE  Saves'
    <3>1. stage[r] \in Running /\ outcome \in Stage \ Saving
      BY <2>3, Values DEF Running, Stage
    <3> QED
      BY <2>1, <2>3, <3>1, SavesKept
  <2> QED
    BY <1>11, <2>2, <2>3, UpdatedStage
<1>12. CASE Load \/ Finish \/ LoadFails
  BY <1>1, <1>11, <1>12 DEF Load, Finish, LoadFails, runs
<1>13. ASSUME NEW r \in Flag, Run(r) PROVE Saves'
  BY <1>2, <1>3, <1>4, <1>5, <1>6, <1>8, <1>9, <1>10, <1>13, <1>7 DEF Run
<1>14. ASSUME NEW f \in File, Write(f) \/ Delete(f) PROVE Saves'
  BY <1>1, <1>14 DEF Write, Delete, Becomes, runs
<1>15. ASSUME NEW c \in Call, Index(c) \/ Share(c) PROVE Saves'
  BY <1>1, <1>15 DEF Index, Share, runs, history
<1>16. CASE Restart
  BY <1>16, Values DEF Restart, Saves, AloneIsAlone, AloneSaves, IndexMatchesCache, disk, Running
<1>17. CASE UNCHANGED vars
  BY <1>1, <1>17 DEF vars, runs, history
<1> QED
  BY <1>13, <1>14, <1>15, <1>16, <1>17, <1>12 DEF Next

(* The saves are consistent in every reachable state. *)
LEMMA SavesInvariance == Spec => []Saves
BY TypeCorrect, OpenInvariance, SavesInit, SavesNext, PTL DEF Spec

(* Unless saves were torn, the index files are made from the saved cache. *)
THEOREM IndexFiles == Spec => []IndexMatchesCache
<1>1. Saves => IndexMatchesCache
  BY DEF Saves
<1> QED
  BY <1>1, SavesInvariance, PTL
-----------------------------------------------------------------------------
(* Layer 5: the search index. What is searched is out of date only while a run
   is between its saves or an update is to come, or after a failure; and what
   the first update has loaded is, only while there is another one behind it. *)
Pending == \E q \in Flag : stage[q] \in {"albums", "artists"}

LoadsAreCurrent ==
  \A i \in 1..2 : i <= Len(loading) =>
    loading[i] = Loaded(LoadOrder[i]) \/ Pending \/ Len(updates) > 1 \/ behind

SearchIsCurrent ==
  \A p \in Part : search[p] = Loaded(p) \/ Pending \/ updates # <<>> \/ behind

Current ==
  /\ loading # <<>> => updates # <<>>
  /\ LoadsAreCurrent
  /\ SearchIsCurrent

(* There is nothing to search in at first, and nothing to load. *)
LEMMA CurrentInit == Init => Current
BY DEF Init, Current, LoadsAreCurrent, SearchIsCurrent, Loaded

(* Asking for one more update leaves whatever was loaded, or is searched, with
   an update to come. *)
LEMMA CurrentAsked ==
  ASSUME TypeOK, Current, NEW r \in Flag, AskFor(r)
  PROVE  Current'
<1>1. Len(updates') = Len(updates) + 1 /\ Len(updates) \in Nat /\ updates' # <<>>
  BY DEF TypeOK, AskFor
<1>2. loading # <<>> => Len(updates') > 1
  BY <1>1 DEF TypeOK, Current
<1>3. loading' = loading
  BY DEF AskFor
<1>4. ASSUME NEW i \in 1..2, i <= Len(loading) PROVE loading # <<>>
  BY <1>4 DEF TypeOK
<1> QED
  BY <1>1, <1>2, <1>3, <1>4 DEF Current, LoadsAreCurrent, SearchIsCurrent

(* One more file is loaded: it is the one on disk. *)
LEMMA CurrentLoad == TypeOK /\ Current /\ Load => Current'
<1> SUFFICES ASSUME TypeOK, Current, Load PROVE Current'
  OBVIOUS
<1>1. /\ UNCHANGED <<index, search, updates, stage>> /\ updates # <<>>
      /\ loading' = Append(loading, Loaded(LoadOrder[Len(loading) + 1]))
      /\ Len(loading) < 2 /\ loading \in Seq(Snapshot) /\ Len(loading) \in Nat
      /\ behind' = (behind /\ loading # <<>>)
  BY DEF Load, disk, runs, TypeOK
<1>2. SearchIsCurrent'
  BY <1>1 DEF SearchIsCurrent
<1>3. \A p \in Part : Loaded(p)' = Loaded(p)
  BY <1>1 DEF Loaded
<1>4. CASE loading = <<>>
  <2>1. Len(loading') = 1 /\ loading'[1] = Loaded("songs")
    BY <1>1, <1>4 DEF LoadOrder
  <2> QED
    BY <1>1, <1>2, <1>3, <2>1, Values DEF Current, LoadsAreCurrent, LoadOrder
<1>5. CASE loading # <<>>
  <2>1. Len(loading) = 1 /\ behind' = behind
    <3>1. Len(loading) # 0
      BY <1>1, <1>5
    <3>2. behind' = (behind /\ TRUE) /\ behind \in BOOLEAN
      BY <1>1, <1>5 DEF TypeOK
    <3>3. Len(loading) = 1
      <4> DEFINE n == Len(loading)
      <4>1. n \in Nat /\ n < 2 /\ n # 0
        BY <1>1, <3>1
      <4> HIDE DEF n
      <4>2. n = 1
        BY <4>1
      <4> QED
        BY <4>2 DEF n
    <3>4. behind' = behind
      BY <3>2
    <3> QED
      BY <3>3, <3>4
  <2>2. Len(loading') = 2 /\ loading'[1] = loading[1] /\ loading'[2] = Loaded("albums")
    <3>1. loading' = Append(loading, Loaded("albums")) /\ Loaded("albums") \in Snapshot
      BY <1>1, <2>1, LoadedType, Values DEF LoadOrder
    <3>2. 1 \in 1..Len(loading)
      BY <2>1
    <3>3. Len(loading') = Len(loading) + 1 /\ loading'[Len(loading) + 1] = Loaded("albums")
      BY <1>1, <3>1, AppendProperties
    <3>4. loading'[1] = loading[1]
      BY <1>1, <3>1, <3>2, AppendProperties
    <3> QED
      BY <2>1, <3>3, <3>4
  <2>3. loading[1] = Loaded("songs") \/ Pending \/ Len(updates) > 1 \/ behind
    BY <2>1 DEF Current, LoadsAreCurrent, LoadOrder
  <2>4. Pending' = Pending
    BY <1>1 DEF Pending
  <2>5. \/ loading'[1] = Loaded("songs")' \/ Pending' \/ Len(updates') > 1 \/ behind'
    BY <1>1, <1>3, <2>1, <2>2, <2>3, <2>4, Values
  <2>6. loading'[2] = Loaded("albums")'
    BY <1>3, <2>2, Values
  <2> QED
    BY <1>1, <1>2, <2>5, <2>6 DEF Current, LoadsAreCurrent, LoadOrder
<1> QED
  BY <1>4, <1>5

(* The first update ends: with what it loaded, which was current, or behind. *)
LEMMA CurrentFinish == TypeOK /\ Asked /\ Current /\ (Finish \/ LoadFails) => Current'
<1> SUFFICES ASSUME TypeOK, Asked, Current, Finish \/ LoadFails PROVE Current'
  OBVIOUS
<1>1. /\ loading' = <<>> /\ index' = index /\ updates' = Tail(updates) /\ updates # <<>>
      /\ \E outcome \in {"ok", "failed"} : Updated(outcome)
  BY DEF Finish, LoadFails, Updated, disk
<1>2. Pending => Pending'
  BY <1>1, UpdatedStage DEF Pending, TypeOK
<1>3. Len(updates) > 1 => updates' # <<>>
  <2>1. Len(updates') = Len(updates) - 1 /\ Len(updates) \in Nat
    BY <1>1, FirstUpdate
  <2>2. Len(updates) > 1 => Len(updates') # 0
    BY <2>1
  <2> QED
    BY <2>2
<1>4. \A p \in Part : Loaded(p)' = Loaded(p)
  BY <1>1 DEF Loaded
<1>5. SearchIsCurrent'
  <2>1. CASE Finish
    <3>1. /\ search' = [songs |-> loading[1], albums |-> loading[2], artists |-> Loaded("artists")]
          /\ Len(loading) = 2 /\ behind' = behind
      BY <2>1 DEF Finish
    <3>2. /\ loading[1] = Loaded("songs") \/ Pending \/ Len(updates) > 1 \/ behind
          /\ loading[2] = Loaded("albums") \/ Pending \/ Len(updates) > 1 \/ behind
      BY <3>1 DEF Current, LoadsAreCurrent, LoadOrder
    <3>3. \A p \in Part : search'[p] = Loaded(p) \/ Pending \/ Len(updates) > 1 \/ behind
      BY <3>1, <3>2, Values
    <3> QED
      BY <1>2, <1>3, <1>4, <3>1, <3>3 DEF SearchIsCurrent
  <2>2. CASE LoadFails
    BY <2>2 DEF LoadFails, SearchIsCurrent
  <2> QED
    BY <2>1, <2>2
<1> QED
  BY <1>1, <1>5 DEF Current, LoadsAreCurrent

(* Every step keeps what is searched as current as the updates make it. *)
LEMMA CurrentNext == TypeOK /\ RunsAreOpen /\ Asked /\ Current /\ [Next]_vars => Current'
<1> SUFFICES ASSUME TypeOK, RunsAreOpen, Asked, Current, [Next]_vars PROVE Current'
  OBVIOUS
<1>1. ASSUME UNCHANGED <<index, state>>, behind => behind', Pending => Pending' \/ behind'
      PROVE  Current'
  BY <1>1 DEF Current, LoadsAreCurrent, SearchIsCurrent, Loaded, LoadOrder, state
<1>2. ASSUME UNCHANGED <<index, state, behind>>,
             \A q \in Flag : stage[q] \in {"albums", "artists"} => stage'[q] = stage[q]
      PROVE  Current'
  <2>1. Pending => Pending'
    BY <1>2 DEF Pending
  <2> QED
    BY <1>1, <1>2, <2>1
<1>3. ASSUME NEW c \in Call, Start(c) PROVE Current'
  BY <1>2, <1>3, StartsFromNone, Values DEF Start, TypeOK, disk
<1>4. ASSUME NEW c \in Call, Answer(c) PROVE Current'
  BY <1>2, <1>4, Values DEF Answer, TypeOK, disk, history
<1>5. ASSUME NEW r \in Flag, NEW f \in File, Meet(r, f) PROVE Current'
  BY <1>2, <1>5 DEF Meet, disk, history
<1>6. ASSUME NEW r \in Flag, Parse(r) \/ ScanFails(r) PROVE Current'
  BY <1>2, <1>6, Values DEF Parse, ScanFails, TypeOK, disk, history
<1>7. ASSUME NEW r \in Flag, Unchanged(r) PROVE Current'
  BY <1>7, CurrentAsked DEF Unchanged
<1>8. ASSUME NEW r \in Flag, SaveCache(r) PROVE Current'
  BY <1>2, <1>8, Values DEF SaveCache, Walked, TypeOK
<1>9. ASSUME NEW r \in Flag, SaveSongs(r) \/ SaveAlbums(r) PROVE Current'
  <2>1. stage'[r] \in {"albums", "artists"} /\ UNCHANGED state
    BY <1>9, Values DEF SaveSongs, SaveAlbums, SavePart, TypeOK
  <2>2. Pending'
    BY <2>1 DEF Pending
  <2> QED
    BY <2>1, <2>2 DEF Current, LoadsAreCurrent, SearchIsCurrent, state
<1>10. ASSUME NEW r \in Flag, SaveArtists(r) PROVE Current'
  BY <1>10, CurrentAsked DEF SaveArtists
<1>11. ASSUME NEW r \in Flag, SaveFails(r) PROVE Current'
  <2>1. /\ UNCHANGED <<index, state>>
        /\ behind' = (behind \/ stage[r] \in {"albums", "artists"})
        /\ \A q \in Flag : q # r => stage'[q] = stage[q]
    BY <1>11 DEF SaveFails, disk, TypeOK
  <2>2. Pending => Pending' \/ behind'
    BY <2>1 DEF Pending
  <2> QED
    BY <1>1, <2>1, <2>2
<1>12. ASSUME NEW r \in Flag, SiblingFails(r) PROVE Current'
  <2>1. DOMAIN updates = 1..Len(updates) /\ Len(updates) \in Nat
    BY DEF TypeOK
  <2>2. updates' = [i \in 1..Len(updates) |-> IF updates[i] = r THEN Nobody ELSE updates[i]]
    BY <1>12, <2>1 DEF SiblingFails
  <2>3. Len(updates') = Len(updates)
    BY <2>1, <2>2
  <2>4. updates # <<>> => updates' # <<>>
    BY <2>1, <2>3 DEF TypeOK
  <2>5. UNCHANGED <<index, search, loading, behind>>
    BY <1>12 DEF SiblingFails, disk, history
  <2>6. Pending => Pending'
    BY <1>12, Values DEF SiblingFails, TypeOK, Pending
  <2> QED
    BY <2>3, <2>4, <2>5, <2>6 DEF Current, LoadsAreCurrent, SearchIsCurrent, Loaded, LoadOrder
<1>13. ASSUME NEW r \in Flag, Run(r) PROVE Current'
  BY <1>3, <1>4, <1>5, <1>6, <1>7, <1>8, <1>9, <1>10, <1>11, <1>12, <1>13 DEF Run
<1>14. ASSUME NEW f \in File, Write(f) \/ Delete(f) PROVE Current'
  BY <1>2, <1>14 DEF Write, Delete, Becomes, disk, runs
<1>15. ASSUME NEW c \in Call, Index(c) \/ Share(c) PROVE Current'
  BY <1>2, <1>15 DEF Index, Share, disk, runs, history
<1>16. CASE Load \/ Finish \/ LoadFails
  BY <1>16, CurrentLoad, CurrentFinish
<1>17. CASE Restart
  <2>1. /\ loading' = <<>> /\ \A p \in Part : Loaded(p)' = Loaded(p)
        /\ \A p \in Part : search'[p] = Loaded(p) \/ behind'
    BY <1>17 DEF Restart, disk, Loaded, TypeOK
  <2> QED
    BY <2>1 DEF Current, LoadsAreCurrent, SearchIsCurrent
<1>18. CASE UNCHANGED vars
  BY <1>2, <1>18 DEF vars, disk, runs, history
<1> QED
  BY <1>13, <1>14, <1>15, <1>16, <1>17, <1>18 DEF Next

(* What is searched is as current as that in every reachable state. *)
LEMMA CurrentInvariance == Spec => []Current
BY TypeCorrect, OpenInvariance, CurrentInit, CurrentNext, PTL DEF Spec

(* Whenever no run is between its saves and no update is to come, the search
   index is the one on disk, however the saves of one run and the loads of
   another met and whichever failed, unless the last thing to happen was a
   failure that left the files ahead of it. *)
THEOREM SearchFollows == Spec => []SearchFollowsIndex
<1>1. Current => SearchFollowsIndex
  BY DEF Current, SearchIsCurrent, SearchFollowsIndex, Pending, Saving, Part
<1> QED
  BY <1>1, CurrentInvariance, PTL
-----------------------------------------------------------------------------
(* Layer 6: what the last run has met. A run that no other overlaps has, from
   its walk to its update, only songs that were in the files since it began. *)
Forgotten == \A r \in Flag : stage[r] \notin {"scanning"} \cup Saving => result[r] = NoSongs

SeesAll == alone # {} => \A f \in File : content[f] \in since[f]

ScanIsFresh(r) == stage[r] = "scanning" =>
  /\ original[r] = IF cache = NoFile THEN NoSongs ELSE cache
  /\ \A f \in File : result[r][f] # NoEntry => result[r][f].song \in since[f]
  /\ \A f \in File : f \notin listed[r] => Absent \in since[f]

SavesAreFresh(r) == stage[r] \in Saving => \A f \in File : SongsOf(result[r])[f] \in since[f]

CacheIsFresh == cache # NoFile /\ \A f \in File : SongsOf(cache)[f] \in since[f]

SavedIsFresh(r) == stage[r] = "updating" => torn \/ CacheIsFresh

Fresh ==
  /\ Forgotten /\ SeesAll
  /\ \A r \in alone : ScanIsFresh(r) /\ SavesAreFresh(r) /\ SavedIsFresh(r)
  /\ last # {} => InProgress = {} /\ (torn \/ CacheIsFresh)

(* No run has begun at first. *)
LEMMA FreshInit == Init => Fresh
BY DEF Init, Fresh, Forgotten, SeesAll

(* The songs of a cache whose entries the run has all met. *)
LEMMA WalkedIsFresh ==
  ASSUME TypeOK, Fresh, NEW r \in alone, Walked(r)
  PROVE  \A f \in File : SongsOf(result[r])[f] \in since[f]
<1> SUFFICES ASSUME NEW f \in File PROVE SongsOf(result[r])[f] \in since[f]
  OBVIOUS
<1>1. ScanIsFresh(r) /\ stage[r] = "scanning" /\ content[f] \in since[f]
  BY DEF Fresh, SeesAll, Walked
<1>2. CASE result[r][f] # NoEntry
  BY <1>1, <1>2 DEF ScanIsFresh, SongsOf
<1>3. CASE result[r][f] = NoEntry
  BY <1>1, <1>3 DEF ScanIsFresh, SongsOf, Walked
<1> QED
  BY <1>2, <1>3

(* A change of a file only adds to what the run may meet. *)
LEMMA FreshAfterChange ==
  ASSUME TypeOK, Fresh, NEW f \in File, Write(f) \/ Delete(f)
  PROVE  Fresh'
<1>1. UNCHANGED <<cache, stage, original, listed, result, alone, last, torn>>
  BY DEF Write, Delete, Becomes, disk, runs
<1>2. \A g \in File : since[g] \subseteq since'[g]
  <2>1. since = [g \in File |-> since[g]]
    BY DEF TypeOK
  <2>2. PICK v : since' = [since EXCEPT ![f] = IF alone = {} THEN @ ELSE @ \cup {v}]
    BY DEF Write, Delete, Becomes
  <2> QED
    BY <2>1, <2>2
<1>3. SeesAll'
  <2>1. PICK v : /\ content' = [content EXCEPT ![f] = v]
                 /\ since' = [since EXCEPT ![f] = IF alone = {} THEN @ ELSE @ \cup {v}]
    BY DEF Write, Delete, Becomes
  <2> QED
    BY <1>1, <2>1 DEF Fresh, SeesAll, TypeOK, Snapshot
<1>4. \A r \in alone : ScanIsFresh(r)' /\ SavesAreFresh(r)' /\ SavedIsFresh(r)'
  BY <1>1, <1>2 DEF Fresh, ScanIsFresh, SavesAreFresh, SavedIsFresh, CacheIsFresh, SongsOf
<1>5. last' # {} => InProgress' = {} /\ (torn' \/ CacheIsFresh')
  BY <1>1, <1>2 DEF Fresh, CacheIsFresh, InProgress, SongsOf
<1> QED
  BY <1>1, <1>3, <1>4, <1>5 DEF Fresh, Forgotten

(* Every step keeps the last run's songs fresh. *)
LEMMA FreshNext ==
  TypeOK /\ Stamps /\ RunsAreOpen /\ Asked /\ Saves /\ Fresh /\ [Next]_vars => Fresh'
<1> SUFFICES ASSUME TypeOK, Stamps, RunsAreOpen, Asked, Saves, Fresh, [Next]_vars
             PROVE  Fresh'
  OBVIOUS
<1> USE DEF Saving
<1>1. ASSUME UNCHANGED <<content, cache, stage, original, listed, result, since, alone,
                         last, torn>>
      PROVE  Fresh'
  BY <1>1 DEF Fresh, Forgotten, SeesAll, ScanIsFresh, SavesAreFresh, SavedIsFresh,
     CacheIsFresh, SongsOf, InProgress
<1>2. ASSUME NEW c \in Call, Start(c) PROVE Fresh'
  <2> DEFINE r == FlagOf(c)
  <2>1. /\ r \in Flag /\ stage[r] = "none" /\ result[r] = NoSongs
        /\ stage'[r] = "scanning" /\ \A q \in Flag : q # r => stage'[q] = stage[q]
        /\ original'[r] = (IF cache = NoFile THEN NoSongs ELSE cache)
        /\ listed'[r] = {f \in File : content[f] # Absent}
        /\ UNCHANGED <<content, cache, result, torn>>
        /\ last' = {}
    BY <1>2, StartsFromNone, Values DEF Start, TypeOK, Fresh, Forgotten, files, disk
  <2>2. CASE InProgress = {}
    <3>1. alone' = {r} /\ \A f \in File : since'[f] = {content[f]}
      BY <1>2, <2>2 DEF Start
    <3>2. ScanIsFresh(r)'
      BY <2>1, <3>1 DEF ScanIsFresh, NoSongs
    <3> QED
      BY <2>1, <3>1, <3>2, Values DEF Fresh, Forgotten, SeesAll, SavesAreFresh, SavedIsFresh
  <2>3. CASE InProgress # {}
    <3>1. alone' = {}
      BY <1>2, <2>3 DEF Start
    <3> QED
      BY <2>1, <3>1, Values DEF Fresh, Forgotten, SeesAll
  <2> QED
    BY <2>2, <2>3
<1>3. ASSUME NEW c \in Call, Answer(c) PROVE Fresh'
  <2> DEFINE r == FlagOf(c)
  <2>1. /\ r \in Flag /\ stage[r] \in {"ok", "failed"} /\ stage'[r] = "none"
        /\ \A q \in Flag : q # r => stage'[q] = stage[q]
        /\ UNCHANGED <<content, cache, original, listed, result, since, alone, last, torn>>
    BY <1>3, Values DEF Answer, TypeOK, files, disk, history
  <2>2. InProgress' = InProgress
    BY <2>1, Values DEF InProgress, Running
  <2>3. \A q \in alone : ScanIsFresh(q)' /\ SavesAreFresh(q)' /\ SavedIsFresh(q)'
    <3> SUFFICES ASSUME NEW q \in alone
                 PROVE  ScanIsFresh(q)' /\ SavesAreFresh(q)' /\ SavedIsFresh(q)'
      OBVIOUS
    <3>1. CASE q = r
      BY <2>1, <3>1, Values DEF Fresh, ScanIsFresh, SavesAreFresh, SavedIsFresh,
         CacheIsFresh, SongsOf
    <3>2. CASE q # r
      BY <2>1, <3>2 DEF Fresh, TypeOK, ScanIsFresh, SavesAreFresh, SavedIsFresh,
         CacheIsFresh, SongsOf
    <3> QED
      BY <3>1, <3>2
  <2> QED
    BY <2>1, <2>2, <2>3, Values DEF Fresh, Forgotten, SeesAll, CacheIsFresh, SongsOf
<1>4. ASSUME NEW r \in Flag, NEW f \in File, Meet(r, f) PROVE Fresh'
  <2>1. /\ stage[r] = "scanning" /\ content[f] # Absent
        /\ UNCHANGED <<content, mtime, cache, stage, original, listed, since, alone, last, torn>>
        /\ \A q \in Flag : q # r => result'[q] = result[q]
    BY <1>4 DEF Meet, TypeOK, files, disk, history
  <2>2. ASSUME r \in alone, NEW g \in File, result'[r][g] # NoEntry
        PROVE  result'[r][g].song \in since[g]
    <3>1. CASE result'[r][g] = result[r][g]
      BY <2>1, <2>2, <3>1 DEF Fresh, ScanIsFresh
    <3>2. CASE /\ g = f /\ ~NeedsUpdate(original[r], f) /\ result'[r][g] = original[r][f]
      <4>1. /\ original[r][f] # NoEntry /\ original[r][f].updateTime \in Int
            /\ mtime[f] \in Int /\ mtime[f] < original[r][f].updateTime
        BY <3>2 DEF NeedsUpdate, TypeOK, SongCache, Entry, Time
      <4>2. original[r][f].song = content[f]
        BY <2>1, <4>1 DEF Stamps, Sound
      <4> QED
        BY <2>2, <3>2, <4>2 DEF Fresh, SeesAll
    <3> QED
      BY <1>4, <3>1, <3>2, MeetResult
  <2>3. \A q \in alone : ScanIsFresh(q)' /\ SavesAreFresh(q)' /\ SavedIsFresh(q)'
    <3> SUFFICES ASSUME NEW q \in alone
                 PROVE  ScanIsFresh(q)' /\ SavesAreFresh(q)' /\ SavedIsFresh(q)'
      OBVIOUS
    <3>1. CASE q = r
      BY <2>1, <2>2, <3>1, Values DEF Fresh, ScanIsFresh, SavesAreFresh, SavedIsFresh
    <3>2. CASE q # r
      BY <2>1, <3>2 DEF Fresh, TypeOK, ScanIsFresh, SavesAreFresh, SavedIsFresh,
         CacheIsFresh, SongsOf
    <3> QED
      BY <3>1, <3>2
  <2> QED
    BY <2>1, <2>3 DEF Fresh, Forgotten, SeesAll, CacheIsFresh, SongsOf, InProgress
<1>5. ASSUME NEW r \in Flag, Parse(r) PROVE Fresh'
  <2> DEFINE f == parsing[r][1]
  <2>1. /\ stage[r] = "scanning" /\ f \in File
        /\ UNCHANGED <<content, cache, stage, original, listed, since, alone, last, torn>>
        /\ \A q \in Flag : q # r => result'[q] = result[q]
    BY <1>5 DEF Parse, TypeOK, files, disk, history
  <2>2. ASSUME r \in alone, NEW g \in File, result'[r][g] # NoEntry
        PROVE  result'[r][g].song \in since[g]
    <3>1. \/ result'[r][g] = result[r][g]
          \/ g = f /\ result'[r][g].song = content[f]
      BY <1>5 DEF Parse, TypeOK, SongCache
    <3> QED
      BY <2>1, <2>2, <3>1 DEF Fresh, ScanIsFresh, SeesAll
  <2>3. \A q \in alone : ScanIsFresh(q)' /\ SavesAreFresh(q)' /\ SavedIsFresh(q)'
    <3> SUFFICES ASSUME NEW q \in alone
                 PROVE  ScanIsFresh(q)' /\ SavesAreFresh(q)' /\ SavedIsFresh(q)'
      OBVIOUS
    <3>1. CASE q = r
      BY <2>1, <2>2, <3>1, Values DEF Fresh, ScanIsFresh, SavesAreFresh, SavedIsFresh
    <3>2. CASE q # r
      BY <2>1, <3>2 DEF Fresh, TypeOK, ScanIsFresh, SavesAreFresh, SavedIsFresh,
         CacheIsFresh, SongsOf
    <3> QED
      BY <3>1, <3>2
  <2> QED
    BY <2>1, <2>3 DEF Fresh, Forgotten, SeesAll, CacheIsFresh, SongsOf, InProgress
<1>6. ASSUME NEW r \in Flag, ScanFails(r) \/ SaveFails(r) \/ SiblingFails(r) PROVE Fresh'
  <2>1. /\ stage'[r] \in {"failed", "hung"} /\ stage[r] \in Running
        /\ \A q \in Flag : q # r => stage'[q] = stage[q]
        /\ UNCHANGED <<content, cache, since, alone, last, torn>>
    BY <1>6, Values DEF ScanFails, SaveFails, SiblingFails, Walked, TypeOK, Running, files, disk,
       history
  <2>2. /\ result'[r] = NoSongs
        /\ \A q \in Flag : q # r => result'[q] = result[q] /\ original'[q] = original[q]
                                    /\ listed'[q] = listed[q]
    <3>1. CASE ScanFails(r) \/ SaveFails(r)
      BY <3>1 DEF ScanFails, SaveFails, Forget
    <3>2. CASE SiblingFails(r)
      BY <3>2, Values DEF SiblingFails, Fresh, Forgotten
    <3> QED
      BY <1>6, <3>1, <3>2
  <2>3. \A q \in alone : ScanIsFresh(q)' /\ SavesAreFresh(q)' /\ SavedIsFresh(q)'
    <3> SUFFICES ASSUME NEW q \in alone
                 PROVE  ScanIsFresh(q)' /\ SavesAreFresh(q)' /\ SavedIsFresh(q)'
      OBVIOUS
    <3>1. CASE q = r
      BY <2>1, <3>1, Values DEF ScanIsFresh, SavesAreFresh, SavedIsFresh
    <3>2. CASE q # r
      BY <2>1, <2>2, <3>2 DEF Fresh, TypeOK, ScanIsFresh, SavesAreFresh, SavedIsFresh,
         CacheIsFresh, SongsOf
    <3> QED
      BY <3>1, <3>2
  <2>4. last = {}
    BY <2>1 DEF Fresh, InProgress
  <2> QED
    BY <2>1, <2>2, <2>3, <2>4, Values DEF Fresh, Forgotten, SeesAll
<1>7. ASSUME NEW r \in Flag, stage[r] \in Running
      PROVE  last = {} /\ \A q \in alone : q # r => stage[q] \notin Running
  BY <1>7 DEF Fresh, InProgress, Saves, AloneIsAlone, TypeOK
<1>8. ASSUME NEW r \in Flag, Unchanged(r) PROVE Fresh'
  <2>1. /\ Walked(r) /\ stage[r] = "scanning" /\ original[r] = result[r] /\ cache # NoFile
        /\ stage'[r] = "updating" /\ result'[r] = NoSongs
        /\ \A q \in Flag : q # r => stage'[q] = stage[q] /\ result'[q] = result[q]
        /\ UNCHANGED <<content, cache, since, alone, last, torn>>
    BY <1>8 DEF Unchanged, Walked, NothingToSave, Forget, TypeOK, files, disk, history
  <2>2. last = {} /\ \A q \in alone : q # r => stage[q] \notin Running
    BY <1>7, <2>1 DEF Running
  <2>3. r \in alone => CacheIsFresh'
    BY <2>1, WalkedIsFresh DEF Fresh, ScanIsFresh, CacheIsFresh, SongsOf
  <2>4. \A q \in alone : ScanIsFresh(q)' /\ SavesAreFresh(q)' /\ SavedIsFresh(q)'
    BY <2>1, <2>2, <2>3, Values DEF TypeOK, ScanIsFresh, SavesAreFresh, SavedIsFresh, Running
  <2> QED
    BY <2>1, <2>2, <2>4 DEF Fresh, Forgotten, SeesAll
<1>9. ASSUME NEW r \in Flag, SaveCache(r) PROVE Fresh'
  <2>1. /\ Walked(r) /\ stage[r] = "scanning" /\ stage'[r] = "songs"
        /\ \A q \in Flag : q # r => stage'[q] = stage[q]
        /\ UNCHANGED <<content, result, since, alone, last>>
    BY <1>9 DEF SaveCache, Walked, TypeOK, files
  <2>2. last = {} /\ \A q \in alone : q # r => stage[q] \notin Running
    BY <1>7, <2>1 DEF Running
  <2>3. r \in alone => SavesAreFresh(r)'
    BY <2>1, WalkedIsFresh DEF SavesAreFresh, SongsOf
  <2>4. \A q \in alone : ScanIsFresh(q)' /\ SavesAreFresh(q)' /\ SavedIsFresh(q)'
    BY <2>1, <2>2, <2>3, Values DEF TypeOK, ScanIsFresh, SavesAreFresh, SavedIsFresh, Running
  <2> QED
    BY <2>1, <2>2, <2>4, Values DEF Fresh, Forgotten, SeesAll
<1>10. ASSUME NEW r \in Flag, SaveSongs(r) \/ SaveAlbums(r) PROVE Fresh'
  <2>1. /\ stage[r] \in Saving /\ stage'[r] \in Saving
        /\ \A q \in Flag : q # r => stage'[q] = stage[q]
        /\ result' = result
        /\ UNCHANGED <<content, cache, since, alone, last, torn>>
    <3>1. result = [q \in Flag |-> result[q]]
      BY DEF TypeOK
    <3>2. result' = [q \in Flag |-> result[q]]
      BY <1>10, Values DEF SaveSongs, SaveAlbums, SavePart, Forget
    <3>3. /\ stage[r] \in Saving /\ stage'[r] \in Saving
          /\ \A q \in Flag : q # r => stage'[q] = stage[q]
      BY <1>10, Values DEF SaveSongs, SaveAlbums, SavePart, TypeOK
    <3>4. UNCHANGED <<content, cache, since, alone, last, torn>>
      BY <1>10 DEF SaveSongs, SaveAlbums, SavePart, files
    <3> QED
      BY <3>1, <3>2, <3>3, <3>4
  <2>2. last = {} /\ \A q \in alone : q # r => stage[q] \notin Running
    BY <1>7, <2>1 DEF Running
  <2>3. \A q \in alone : ScanIsFresh(q)' /\ SavesAreFresh(q)' /\ SavedIsFresh(q)'
    BY <2>1, <2>2, Values DEF Fresh, TypeOK, ScanIsFresh, SavesAreFresh, SavedIsFresh,
       Running, SongsOf
  <2> QED
    BY <2>1, <2>2, <2>3, Values DEF Fresh, Forgotten, SeesAll
<1>11. ASSUME NEW r \in Flag, SaveArtists(r) PROVE Fresh'
  <2>1. /\ stage[r] = "artists" /\ stage'[r] = "updating" /\ result'[r] = NoSongs
        /\ \A q \in Flag : q # r => stage'[q] = stage[q] /\ result'[q] = result[q]
        /\ UNCHANGED <<content, cache, since, alone, last>>
    BY <1>11, Values DEF SaveArtists, SavePart, Forget, TypeOK, files
  <2>2. last = {} /\ \A q \in alone : q # r => stage[q] \notin Running
    BY <1>7, <2>1, Values DEF Running
  <2>3. r \in alone => CacheIsFresh'
    <3>1. r \in alone => cache = result[r] /\ cache # NoFile
      BY <2>1, Values DEF Saves, AloneSaves, TypeOK
    <3> QED
      BY <2>1, <3>1, Values DEF Fresh, SavesAreFresh, CacheIsFresh, SongsOf
  <2>4. \A q \in alone : ScanIsFresh(q)' /\ SavesAreFresh(q)' /\ SavedIsFresh(q)'
    BY <2>1, <2>2, <2>3, Values DEF TypeOK, ScanIsFresh, SavesAreFresh, SavedIsFresh, Running
  <2> QED
    BY <2>1, <2>2, <2>4 DEF Fresh, Forgotten, SeesAll
<1>12. CASE Load
  BY <1>1, <1>12 DEF Load, files, disk, runs
<1>13. CASE Finish \/ LoadFails
  <2>1. PICK outcome \in {"ok", "failed"} : Updated(outcome)
    BY <1>13 DEF Finish, LoadFails
  <2>2. updates # <<>> /\ UNCHANGED <<content, cache, original, listed, result, since, alone, torn>>
    BY <1>13, <2>1 DEF Finish, LoadFails, Updated, files, disk
  <2>3. CASE stage' = stage /\ last' = last
    BY <1>1, <2>2, <2>3
  <2>4. ASSUME NEW r \in Flag, stage[r] = "updating", stage' = [stage EXCEPT ![r] = outcome],
               last' \in {alone, {}}
        PROVE  Fresh'
    <3>1. /\ stage'[r] \in {"ok", "failed"}
          /\ \A q \in Flag : q # r => stage'[q] = stage[q]
      BY <2>4 DEF TypeOK
    <3>2. last' # {} => InProgress' = {} /\ (torn' \/ CacheIsFresh')
      <4> SUFFICES ASSUME last' # {} PROVE InProgress' = {} /\ (torn' \/ CacheIsFresh')
        OBVIOUS
      <4>1. PICK q \in alone : q \in Flag
        BY <2>4 DEF TypeOK
      <4>2. q = r /\ \A s \in Flag : s # r => stage[s] \notin Running
        BY <2>4, <4>1 DEF Saves, AloneIsAlone, Running
      <4>3. torn \/ CacheIsFresh
        BY <2>4, <4>1, <4>2 DEF Fresh, SavedIsFresh
      <4> QED
        BY <2>2, <3>1, <4>2, <4>3, Values DEF InProgress, Running, CacheIsFresh, SongsOf
    <3>3. \A q \in alone : ScanIsFresh(q)' /\ SavesAreFresh(q)' /\ SavedIsFresh(q)'
      <4> SUFFICES ASSUME NEW q \in alone
                   PROVE  ScanIsFresh(q)' /\ SavesAreFresh(q)' /\ SavedIsFresh(q)'
        OBVIOUS
      <4>1. CASE q = r
        BY <3>1, <4>1, Values DEF ScanIsFresh, SavesAreFresh, SavedIsFresh
      <4>2. CASE q # r
        BY <2>2, <3>1, <4>2 DEF Fresh, TypeOK, ScanIsFresh, SavesAreFresh, SavedIsFresh,
           CacheIsFresh, SongsOf
      <4> QED
        BY <4>1, <4>2
    <3> QED
      BY <2>2, <2>4, <3>1, <3>2, <3>3, Values DEF Fresh, Forgotten, SeesAll
  <2> QED
    BY <2>1, <2>2, <2>3, <2>4, UpdatedStage
<1>14. ASSUME NEW r \in Flag, Run(r) PROVE Fresh'
  BY <1>2, <1>3, <1>4, <1>5, <1>6, <1>8, <1>9, <1>10, <1>11, <1>14 DEF Run
<1>15. ASSUME NEW c \in Call, Index(c) \/ Share(c) PROVE Fresh'
  BY <1>1, <1>15 DEF Index, Share, files, disk, runs, history
<1>16. CASE Restart
  <2>1. /\ alone' = {} /\ last' = {} /\ \A q \in Flag : result'[q] = NoSongs
    BY <1>16 DEF Restart, Forget
  <2> QED
    BY <2>1 DEF Fresh, Forgotten, SeesAll
<1>17. CASE UNCHANGED vars
  BY <1>1, <1>17 DEF vars, files, disk, runs, history
<1> QED
  BY <1>12, <1>13, <1>14, <1>15, <1>16, <1>17, FreshAfterChange DEF Next

(* The last run's songs are fresh in every reachable state. *)
LEMMA FreshInvariance == Spec => []Fresh
BY TypeCorrect, StampsInvariance, OpenInvariance, SavesInvariance, FreshInit, FreshNext, PTL
DEF Spec
-----------------------------------------------------------------------------
(* Layer 7: the last update. A run that no other overlaps is the last to have
   asked for one; what its own update loads, it loads after its saves, so the
   failures before are made up for, and none came since. *)
AsksLast(r) == stage[r] = "updating" =>
  /\ updates # <<>> /\ updates[Len(updates)] = r
  /\ updates[1] = r /\ loading # <<>> => ~behind

LastAsked ==
  /\ \A r \in alone : AsksLast(r)
  /\ last # {} => updates = <<>> /\ ~behind

(* Nobody has asked at first. *)
LEMMA LastInit == Init => LastAsked
BY DEF Init, LastAsked

(* A lone run asks: there is nobody left to ask after it. *)
LEMMA LastAsks ==
  ASSUME TypeOK, Asked, Saves, Current, Fresh, NEW r \in Flag, stage[r] \in Running,
         stage[r] # "updating", AskFor(r), stage' = [stage EXCEPT ![r] = "updating"],
         UNCHANGED <<alone, last, behind>>
  PROVE  LastAsked'
<1>1. last = {}
  BY DEF Fresh, InProgress
<1>2. /\ updates' = Append(updates, r) /\ updates \in Seq(Flag \cup {Nobody})
      /\ Len(updates) \in Nat /\ loading' = loading
  BY DEF AskFor, TypeOK
<1>3. /\ Len(updates') = Len(updates) + 1 /\ updates'[Len(updates) + 1] = r
      /\ \A i \in 1..Len(updates) : updates'[i] = updates[i]
  BY <1>2, Values, AppendProperties
<1>4. updates' # <<>> /\ updates'[Len(updates')] = r
  BY <1>2, <1>3
<1>5. updates # <<>> => updates'[1] # r
  <2>1. updates # <<>> => 1 \in 1..Len(updates)
    BY <1>2
  <2> QED
    BY <1>3, <2>1, Values DEF Asked
<1>6. \A q \in alone : q # r => stage'[q] # "updating"
  BY DEF Saves, AloneIsAlone, TypeOK, Running
<1>7. \A q \in alone : AsksLast(q)'
  BY <1>2, <1>4, <1>5, <1>6 DEF AsksLast, Current
<1> QED
  BY <1>1, <1>7 DEF LastAsked

(* An update ends. If it was that of the last run, there is none left. *)
LEMMA LastEnds ==
  TypeOK /\ Asked /\ Saves /\ LastAsked /\ (Finish \/ LoadFails) => LastAsked'
<1> SUFFICES ASSUME TypeOK, Asked, Saves, LastAsked, Finish \/ LoadFails PROVE LastAsked'
  OBVIOUS
<1>1. /\ updates # <<>> /\ loading' = <<>> /\ alone' = alone /\ last = {}
      /\ updates' = Tail(updates)
  BY DEF Finish, LoadFails, Updated, LastAsked
<1>2. /\ Head(updates) = updates[1] /\ Len(updates) \in Nat /\ Len(updates) > 0
      /\ Len(updates') = Len(updates) - 1
      /\ \A i \in 1..Len(updates') : updates'[i] = updates[i + 1]
  BY <1>1, FirstUpdate
<1>3. \A q \in alone : stage[q] = "updating" /\ q # Head(updates) =>
        updates' # <<>> /\ updates'[Len(updates')] = q
  <2> SUFFICES ASSUME NEW q \in alone, stage[q] = "updating", q # Head(updates)
               PROVE  updates' # <<>> /\ updates'[Len(updates')] = q
    OBVIOUS
  <2>1. updates[Len(updates)] = q
    BY DEF LastAsked, AsksLast
  <2>2. Len(updates) # 1
    BY <1>2, <2>1
  <2>3. Len(updates') \in 1..Len(updates') /\ Len(updates') + 1 = Len(updates) /\ Len(updates') # 0
    BY <1>2, <2>2
  <2>4. updates'[Len(updates')] = q
    BY <1>2, <2>1, <2>3
  <2> QED
    BY <2>3, <2>4
<1>4. PICK outcome \in {"ok", "failed"} : Updated(outcome)
  BY DEF Finish, LoadFails
<1>5. CASE Head(updates) = Nobody /\ stage' = stage /\ last' = last
  <2>1. \A q \in alone : AsksLast(q)'
    BY <1>1, <1>3, <1>5, Values DEF AsksLast, TypeOK
  <2> QED
    BY <1>1, <1>5, <2>1 DEF LastAsked
<1>6. ASSUME NEW r \in Flag, Head(updates) = r, stage[r] = "updating",
             stage' = [stage EXCEPT ![r] = outcome],
             last' = (IF outcome = "ok" THEN alone ELSE {})
      PROVE  LastAsked'
  <2>1. \A q \in alone : q = r
    BY <1>6 DEF Saves, AloneIsAlone, Running
  <2>2. \A q \in alone : AsksLast(q)'
    BY <1>1, <1>6, <2>1 DEF AsksLast, TypeOK
  <2>3. last' # {} => updates' = <<>> /\ ~behind'
    <3> SUFFICES ASSUME last' # {} PROVE updates' = <<>> /\ ~behind'
      OBVIOUS
    <3>1. r \in alone /\ outcome = "ok"
      BY <1>6, <2>1
    <3>2. updates[Len(updates)] = r /\ (updates[1] = r /\ loading # <<>> => ~behind)
      BY <1>6, <3>1 DEF LastAsked, AsksLast
    <3>3. 1 \in 1..Len(updates) /\ Len(updates) \in 1..Len(updates) /\ r # Nobody
      BY <1>2, Values
    <3>4. Len(updates) = 1
      BY <1>2, <1>6, <3>2, <3>3 DEF Asked
    <3>5. updates' = <<>>
      BY <1>1, <1>2, <3>4, FirstUpdate
    <3>6. Finish
      <4>1. CASE LoadFails
        <5>1. Updated("failed")
          BY <4>1 DEF LoadFails
        <5>2. last' = {}
          BY <1>6, <5>1, Values DEF Updated
        <5> QED
          BY <5>2
      <4> QED
        BY <4>1
    <3>7. behind' = behind /\ loading # <<>>
      BY <3>6 DEF Finish
    <3> QED
      BY <1>2, <1>6, <3>2, <3>5, <3>7
  <2> QED
    BY <1>1, <2>2, <2>3 DEF LastAsked
<1> QED
  BY <1>1, <1>4, <1>5, <1>6, UpdatedStage

(* Every step keeps the last run's update the last. *)
LEMMA LastNext ==
  TypeOK /\ RunsAreOpen /\ Asked /\ Saves /\ Current /\ Fresh /\ LastAsked /\ [Next]_vars
    => LastAsked'
<1> SUFFICES ASSUME TypeOK, RunsAreOpen, Asked, Saves, Current, Fresh, LastAsked, [Next]_vars
             PROVE  LastAsked'
  OBVIOUS
<1>1. ASSUME UNCHANGED <<updates, loading, alone, last, behind>>,
             \A q \in Flag : stage'[q] = "updating" => stage[q] = "updating"
      PROVE  LastAsked'
  BY <1>1 DEF LastAsked, AsksLast, TypeOK
<1>2. ASSUME NEW c \in Call, Start(c) PROVE LastAsked'
  <2>1. /\ last' = {} /\ FlagOf(c) \in Flag
        /\ \A q \in alone' : q = FlagOf(c)
        /\ stage' = [stage EXCEPT ![FlagOf(c)] = "scanning"]
    BY <1>2, Values DEF Start
  <2>2. \A q \in alone' : stage'[q] # "updating"
    BY <2>1, Values DEF TypeOK
  <2> QED
    BY <2>1, <2>2 DEF LastAsked, AsksLast
<1>3. ASSUME NEW c \in Call, Answer(c) PROVE LastAsked'
  BY <1>1, <1>3, Values DEF Answer, TypeOK, state, history
<1>4. ASSUME NEW r \in Flag, NEW f \in File, Meet(r, f) PROVE LastAsked'
  BY <1>1, <1>4 DEF Meet, state, history
<1>5. ASSUME NEW r \in Flag, Parse(r) \/ ScanFails(r) PROVE LastAsked'
  BY <1>1, <1>5, Values DEF Parse, ScanFails, TypeOK, state, history
<1>6. ASSUME NEW r \in Flag, Unchanged(r) PROVE LastAsked'
  BY <1>6, LastAsks, Values DEF Unchanged, Walked, Running, history
<1>7. ASSUME NEW r \in Flag, SaveCache(r) \/ SaveSongs(r) \/ SaveAlbums(r) PROVE LastAsked'
  BY <1>1, <1>7, Values DEF SaveCache, SaveSongs, SaveAlbums, SavePart, TypeOK, state
<1>8. ASSUME NEW r \in Flag, SaveArtists(r) PROVE LastAsked'
  BY <1>8, LastAsks, Values DEF SaveArtists, SavePart, Running, Saving
<1>9. ASSUME NEW r \in Flag, SaveFails(r) \/ SiblingFails(r) PROVE LastAsked'
  <2>1. /\ stage[r] \in Running /\ stage'[r] # "updating" /\ UNCHANGED <<alone, last>>
        /\ \A q \in Flag : q # r => stage'[q] = stage[q]
    BY <1>9, Values DEF SaveFails, SiblingFails, Walked, TypeOK, Running, history
  <2>2. \A q \in alone : stage'[q] # "updating"
    BY <2>1 DEF Saves, AloneIsAlone, TypeOK, Running
  <2>3. last = {}
    BY <2>1 DEF Fresh, InProgress
  <2> QED
    BY <2>1, <2>2, <2>3 DEF LastAsked, AsksLast
<1>10. ASSUME NEW r \in Flag, Run(r) PROVE LastAsked'
  BY <1>2, <1>3, <1>4, <1>5, <1>6, <1>7, <1>8, <1>9, <1>10 DEF Run
<1>11. ASSUME NEW f \in File, Write(f) \/ Delete(f) PROVE LastAsked'
  BY <1>1, <1>11 DEF Write, Delete, Becomes, state, runs
<1>12. ASSUME NEW c \in Call, Index(c) \/ Share(c) PROVE LastAsked'
  BY <1>1, <1>12 DEF Index, Share, state, runs, history
<1>13. CASE Load
  <2>1. /\ UNCHANGED <<updates, alone, last, stage>> /\ behind' = (behind /\ loading # <<>>)
    BY <1>13 DEF Load, runs
  <2> QED
    BY <2>1 DEF LastAsked, AsksLast
<1>14. CASE Restart
  BY <1>14 DEF Restart, LastAsked
<1>15. CASE UNCHANGED vars
  BY <1>1, <1>15 DEF vars, state, runs, history
<1> QED
  BY <1>10, <1>11, <1>12, <1>13, <1>14, <1>15, LastEnds DEF Next

(* Once a run no other overlapped is over, what can be searched is, file by
   file, something the file contained since the run began, unless the saves of
   an earlier run were torn. *)
THEOREM FreshSearch == Spec => []FreshUnlessTorn
<1>1. TypeOK /\ Saves /\ Fresh /\ LastAsked /\ SearchFollowsIndex => FreshUnlessTorn
  <2> SUFFICES ASSUME TypeOK, Saves, Fresh, LastAsked, SearchFollowsIndex, ~torn, last # {},
                      NEW p \in Part, NEW f \in File
               PROVE  search[p][f] \in since[f]
    BY DEF FreshUnlessTorn, IndexedMeansSearchable
  <2>1. InProgress = {} /\ CacheIsFresh
    BY DEF Fresh
  <2>2. search[p] = Loaded(p)
    BY <2>1 DEF LastAsked, SearchFollowsIndex, InProgress, Running
  <2>3. index[p] = SongsOf(cache) /\ index[p] # NoFile
    BY <2>1, SongsOfType, Values DEF Saves, IndexMatchesCache, CacheIsFresh, TypeOK
  <2> QED
    BY <2>1, <2>2, <2>3 DEF Loaded, CacheIsFresh
<1>2. Spec => []LastAsked
  BY TypeCorrect, OpenInvariance, SavesInvariance, CurrentInvariance, FreshInvariance,
     LastInit, LastNext, PTL DEF Spec
<1> QED
  BY <1>1, <1>2, TypeCorrect, SavesInvariance, FreshInvariance, SearchFollows, PTL
=============================================================================
