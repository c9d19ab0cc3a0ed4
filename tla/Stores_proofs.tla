---------------------------- MODULE Stores_proofs ---------------------------
(***************************************************************************)
(* Theorems about the stores behind the routes - Lyrics, Scores, Playlists *)
(* and ExternalLinks -, each with an inductive invariant of its own.       *)
(***************************************************************************)
EXTENDS Lyrics, Scores, Playlists, ExternalLinks, TLAPS

-----------------------------------------------------------------------------
(* The row of the lyrics has one of its values, whatever the requests do.  *)
THEOREM LyricsTypeCorrect == LyricsSpec => []LyricsTypeOK
<1>1. LyricsInit => LyricsTypeOK
  BY DEF LyricsInit, LyricsTypeOK
<1>2. LyricsTypeOK /\ [LyricsNext]_lyricsVars => LyricsTypeOK'
  <2> SUFFICES ASSUME LyricsTypeOK, [LyricsNext]_lyricsVars PROVE LyricsTypeOK'
    OBVIOUS
  <2> USE DEF LyricsTypeOK, LyricsRequest, SomeLyrics, LyricsGoes
  <2>1. CASE UNCHANGED lyricsVars
    BY <2>1 DEF lyricsVars
  <2>2. ASSUME NEW r \in Reader,
               \/ FindStored(r) \/ FindMissing(r) \/ Retrieved(r)
               \/ NothingRetrieved(r) \/ StoreRetrieved(r)
        PROVE  LyricsTypeOK'
    <3>1. CASE FindStored(r) BY <3>1 DEF FindStored
    <3>2. CASE FindMissing(r) BY <3>2 DEF FindMissing
    <3>3. CASE Retrieved(r) BY <3>3 DEF Retrieved
    <3>4. CASE NothingRetrieved(r) BY <3>4 DEF NothingRetrieved
    <3>5. CASE StoreRetrieved(r) BY <3>5 DEF StoreRetrieved
    <3> QED BY <2>2, <3>1, <3>2, <3>3, <3>4, <3>5
  <2>3. ASSUME NEW r \in Pusher,
               \/ ParsePushed(r) \/ PushFails(r) \/ SetInstrumentalSong(r)
               \/ Replace(r) \/ SetInstrumentalArtist(r)
        PROVE  LyricsTypeOK'
    <3>1. CASE ParsePushed(r) BY <3>1 DEF ParsePushed
    <3>2. CASE PushFails(r) BY <3>2 DEF PushFails
    <3>3. CASE SetInstrumentalSong(r) BY <3>3 DEF SetInstrumentalSong
    <3>4. CASE Replace(r) BY <3>4 DEF Replace
    <3>5. CASE SetInstrumentalArtist(r) BY <3>5 DEF SetInstrumentalArtist
    <3> QED BY <2>3, <3>1, <3>2, <3>3, <3>4, <3>5
  <2> QED BY <2>1, <2>2, <2>3 DEF LyricsNext
<1> QED BY <1>1, <1>2, PTL DEF LyricsSpec

(* Lyrics are stored and answered only when there are some. *)
SomethingToTell ==
  \A r \in LyricsRequest :
    lyricsPc[r] \in {"storing", "replacing", "done"} => told[r] # NoLyrics

LyricsInv == LyricsTypeOK /\ SomethingToTell /\ ToldIsStored

(* The lyrics that a request was answered with stay stored until the user  *)
(* replaces them, in whatever order retrievals and replacements end.       *)
THEOREM ToldIsStoredHolds == LyricsSpec => []ToldIsStored
<1>1. LyricsInit => LyricsInv
  BY DEF LyricsInit, LyricsInv, LyricsTypeOK, SomethingToTell, ToldIsStored
<1>2. LyricsInv /\ LyricsTypeOK' /\ [LyricsNext]_lyricsVars => LyricsInv'
  <2> SUFFICES ASSUME LyricsInv, LyricsTypeOK', [LyricsNext]_lyricsVars
               PROVE  SomethingToTell' /\ ToldIsStored'
    BY DEF LyricsInv
  <2> USE LyricsAssumption
      DEF LyricsInv, LyricsTypeOK, LyricsRequest, SomeLyrics, LyricsGoes,
          SomethingToTell, ToldIsStored
  <2>1. CASE UNCHANGED lyricsVars
    BY <2>1 DEF lyricsVars
  <2>2. ASSUME NEW r \in Reader,
               \/ FindStored(r) \/ FindMissing(r) \/ Retrieved(r)
               \/ NothingRetrieved(r) \/ StoreRetrieved(r)
        PROVE  SomethingToTell' /\ ToldIsStored'
    <3>1. CASE FindStored(r) BY <3>1 DEF FindStored
    <3>2. CASE FindMissing(r) BY <3>2 DEF FindMissing
    <3>3. CASE Retrieved(r) BY <3>3 DEF Retrieved
    <3>4. CASE NothingRetrieved(r) BY <3>4 DEF NothingRetrieved
    <3>5. CASE StoreRetrieved(r) BY <3>5 DEF StoreRetrieved
    <3> QED BY <2>2, <3>1, <3>2, <3>3, <3>4, <3>5
  <2>3. ASSUME NEW r \in Pusher,
               \/ ParsePushed(r) \/ PushFails(r) \/ SetInstrumentalSong(r)
               \/ Replace(r) \/ SetInstrumentalArtist(r)
        PROVE  SomethingToTell' /\ ToldIsStored'
    <3>1. CASE ParsePushed(r) BY <3>1 DEF ParsePushed
    <3>2. CASE PushFails(r) BY <3>2 DEF PushFails
    <3>3. CASE SetInstrumentalSong(r) BY <3>3 DEF SetInstrumentalSong
    <3>4. CASE Replace(r)
      <4>1. \A q \in LyricsRequest : lyricsPc[q] = "done" => overridden'[q]
        BY <3>4 DEF Replace
      <4> QED BY <3>4, <4>1 DEF Replace
    <3>5. CASE SetInstrumentalArtist(r) BY <3>5 DEF SetInstrumentalArtist
    <3> QED BY <2>3, <3>1, <3>2, <3>3, <3>4, <3>5
  <2> QED BY <2>1, <2>2, <2>3 DEF LyricsNext
<1> QED BY <1>1, <1>2, LyricsTypeCorrect, PTL DEF LyricsSpec, LyricsInv

-----------------------------------------------------------------------------
(* The types at the start, when the file is empty and no request has come. *)
LEMMA PlaylistsTypedFirst == PlaylistsInit => PlaylistsTypeOK
<1> SUFFICES ASSUME PlaylistsInit PROVE PlaylistsTypeOK
  OBVIOUS
<1>1. saved \in Contents
  BY DEF PlaylistsInit, Contents
<1>2. loaded \in [Saver -> Contents]
  BY <1>1 DEF PlaylistsInit
<1>3. turn \in [Saver -> Nat] /\ crashes \in 0 .. MaxCrashes
  BY PlaylistsAssumption DEF PlaylistsInit
<1> QED
  BY <1>1, <1>2, <1>3 DEF PlaylistsInit, PlaylistsTypeOK

(* The file, the requests that write it and what they loaded have their types. *)
THEOREM PlaylistsTypeCorrect == PlaylistsSpec => []PlaylistsTypeOK
<1>1. PlaylistsInit => PlaylistsTypeOK
  BY PlaylistsTypedFirst
<1>2. PlaylistsTypeOK /\ [PlaylistsNext]_playlistsVars => PlaylistsTypeOK'
  <2> SUFFICES ASSUME PlaylistsTypeOK, [PlaylistsNext]_playlistsVars PROVE PlaylistsTypeOK'
    OBVIOUS
  <2> USE PlaylistsAssumption DEF PlaylistsTypeOK, SaverGoes, kept
  <2>1. CASE UNCHANGED playlistsVars
    BY <2>1 DEF playlistsVars
  <2>2. ASSUME NEW r \in Saver, Request(r) PROVE PlaylistsTypeOK'
    BY <2>2 DEF Request
  <2>3. ASSUME NEW r \in Saver, Load(r) PROVE PlaylistsTypeOK'
    BY <2>3 DEF Load
  <2>4. ASSUME NEW r \in Saver, SaveBegins(r) PROVE PlaylistsTypeOK'
    BY <2>4 DEF SaveBegins
  <2>5. ASSUME NEW r \in Saver, SaveEnds(r) PROVE PlaylistsTypeOK'
    <3>1. saved' \in Contents
      BY <2>5 DEF SaveEnds, Changed, Contents, Entry
    <3>2. raced' \in BOOLEAN /\ garbled' \in BOOLEAN
      BY <2>5 DEF SaveEnds
    <3>3. saves' \in Nat /\ turn' \in [Saver -> Nat]
      BY <2>5 DEF SaveEnds
    <3>4. savePc' \in [Saver -> {"idle", "asked", "loaded", "saving", "mixing", "saved",
                                 "done", "failed"}]
      BY <2>5 DEF SaveEnds
    <3> QED BY <2>5, <3>1, <3>2, <3>3, <3>4 DEF SaveEnds
  <2>6. ASSUME NEW r \in Saver, Answer(r) PROVE PlaylistsTypeOK'
    BY <2>6 DEF Answer
  <2>7. CASE Crash
    BY <2>7 DEF Crash
  <2> QED BY <2>1, <2>2, <2>3, <2>4, <2>5, <2>6, <2>7 DEF PlaylistsNext
<1> QED BY <1>1, <1>2, PTL DEF PlaylistsSpec

(* The saves are numbered in their order, and a request that was answered
   has saved. *)
SavesAreNumbered ==
  \A r \in Saver : /\ turn[r] <= saves
                   /\ savePc[r] \in {"saved", "done"} => turn[r] > 0

(* What was saved under a name is there, or what was saved later. *)
LastSaveIsKept ==
  ~raced => \A r \in Saver : turn[r] > 0 =>
    \E q \in Saver : /\ wish[q].name = wish[r].name /\ turn[q] >= turn[r]
                     /\ saved[wish[r].name] = wish[q].songs

PlaylistsInv == PlaylistsTypeOK /\ SavesAreNumbered /\ LastSaveIsKept

(* A playlist that was saved, as the page was told, is in the file until a *)
(* later request for its name, if the file is whole and no save overwrote  *)
(* a file that it had not loaded.                                          *)
THEOREM SavedIsKeptHolds == PlaylistsSpec => []SavedIsKept
<1>1. PlaylistsInit => PlaylistsInv
  <2> SUFFICES ASSUME PlaylistsInit PROVE PlaylistsInv
    OBVIOUS
  <2>1. PlaylistsTypeOK
    BY PlaylistsTypedFirst
  <2> QED BY <2>1 DEF PlaylistsInit, PlaylistsInv, SavesAreNumbered, LastSaveIsKept
<1>2. PlaylistsInv /\ PlaylistsTypeOK' /\ [PlaylistsNext]_playlistsVars => PlaylistsInv'
  <2> SUFFICES ASSUME PlaylistsInv, PlaylistsTypeOK', [PlaylistsNext]_playlistsVars
               PROVE  SavesAreNumbered' /\ LastSaveIsKept'
    BY DEF PlaylistsInv
  <2> USE DEF PlaylistsInv, PlaylistsTypeOK, SaverGoes, kept, SavesAreNumbered, LastSaveIsKept
  <2>1. CASE UNCHANGED playlistsVars
    BY <2>1 DEF playlistsVars
  <2>2. ASSUME NEW r \in Saver, Request(r) PROVE SavesAreNumbered' /\ LastSaveIsKept'
    BY <2>2 DEF Request
  <2>3. ASSUME NEW r \in Saver, Load(r) PROVE SavesAreNumbered' /\ LastSaveIsKept'
    BY <2>3 DEF Load
  <2>4. ASSUME NEW r \in Saver, SaveBegins(r) PROVE SavesAreNumbered' /\ LastSaveIsKept'
    BY <2>4 DEF SaveBegins
  <2>5. ASSUME NEW r \in Saver, SaveEnds(r) PROVE SavesAreNumbered' /\ LastSaveIsKept'
    <3>1. SavesAreNumbered'
      BY <2>5 DEF SaveEnds, Writing
    <3>2. SUFFICES ASSUME ~raced', NEW p \in Saver, turn'[p] > 0
                   PROVE  \E q \in Saver : /\ wish[q].name = wish[p].name
                                           /\ turn'[q] >= turn'[p]
                                           /\ saved'[wish[p].name] = wish[q].songs
      BY <2>5, <3>1 DEF SaveEnds
    <3>3. ~raced /\ loaded[r] = saved
      BY <2>5, <3>2 DEF SaveEnds
    <3>4. saved' = [saved EXCEPT ![wish[r].name] = wish[r].songs]
      BY <2>5, <3>3 DEF SaveEnds, Changed
    <3>5. turn' = [turn EXCEPT ![r] = saves + 1] /\ turn'[p] <= saves + 1
      BY <2>5 DEF SaveEnds
    <3>6. \A n \in Name : n \in DOMAIN saved
      BY DEF Contents
    <3>7. \A q \in Saver : wish[q].name \in Name
      BY DEF Entry
    <3>8. CASE wish[p].name = wish[r].name
      BY <3>4, <3>5, <3>6, <3>7, <3>8
    <3>9. CASE wish[p].name # wish[r].name
      <4>1. p # r /\ turn[p] > 0
        BY <3>2, <3>5, <3>9
      <4>2. PICK q \in Saver : /\ wish[q].name = wish[p].name /\ turn[q] >= turn[p]
                               /\ saved[wish[p].name] = wish[q].songs
        BY <3>3, <4>1
      <4>3. q # r
        BY <3>9, <4>2
      <4> QED BY <3>4, <3>5, <3>6, <3>7, <3>9, <4>1, <4>2, <4>3
    <3> QED BY <3>8, <3>9
  <2>6. ASSUME NEW r \in Saver, Answer(r) PROVE SavesAreNumbered' /\ LastSaveIsKept'
    BY <2>6 DEF Answer
  <2>7. CASE Crash
    BY <2>7 DEF Crash
  <2> QED BY <2>1, <2>2, <2>3, <2>4, <2>5, <2>6, <2>7 DEF PlaylistsNext
<1>3. PlaylistsInv => SavedIsKept
  BY DEF PlaylistsInv, SavesAreNumbered, LastSaveIsKept, SavedIsKept
<1> QED BY <1>1, <1>2, <1>3, PlaylistsTypeCorrect, PTL DEF PlaylistsSpec, PlaylistsInv

-----------------------------------------------------------------------------
(* What a fetch holds, and a search has found, is an ID. *)
HeldIsId ==
  \A r \in LinksRequest : /\ linkPc[r] = "found" => holds[r] \in Id \cup {NullId}
                          /\ Holding(r) => holds[r] \in Id

LinksTyped == LinksTypeOK /\ HeldIsId

(* The rows and the requests have their types, and IDs are held where IDs
   are used. *)
LEMMA LinksTypedHolds == LinksSpec => []LinksTyped
<1>1. LinksInit => LinksTyped
  <2> SUFFICES ASSUME LinksInit PROVE LinksTyped
    OBVIOUS
  <2>1. links \in Links \cup {NoLinks}
    BY DEF LinksInit, Links
  <2>2. linkPc \in [LinksRequest -> Step] /\ \A r \in LinksRequest : linkPc[r] = "idle"
    BY DEF LinksInit, Step
  <2> QED BY <2>1, <2>2 DEF LinksInit, LinksTyped, LinksTypeOK, HeldIsId, Holding
<1>2. LinksTyped /\ [LinksNext]_linksVars => LinksTyped'
  <2> SUFFICES ASSUME LinksTyped, [LinksNext]_linksVars PROVE LinksTyped'
    OBVIOUS
  <2> USE LinksAssumption
      DEF LinksTyped, LinksTypeOK, HeldIsId, Holding, Links, Step, LinkGoes
  <2>1. CASE UNCHANGED linksVars
    BY <2>1 DEF linksVars
  <2>2. CASE LinksNext
    <3>1. overlapped' \in BOOLEAN
      BY <2>2 DEF LinksNext
    <3>2. ASSUME NEW r \in Viewer, View(r) PROVE LinksTyped'
      BY <3>1, <3>2 DEF View, LinksRequest
    <3>3. ASSUME NEW r \in Refresher, DeleteLinks(r) PROVE LinksTyped'
      BY <3>1, <3>3 DEF DeleteLinks, LinksRequest
    <3>4. ASSUME NEW r \in Corrector, DeleteId(r) \/ DeleteOldLinks(r) \/ CorrectId(r)
          PROVE  LinksTyped'
      BY <3>1, <3>4 DEF DeleteId, DeleteOldLinks, CorrectId, LinksRequest
    <3>5. ASSUME NEW r \in LinksRequest,
                 CheckAge(r) \/ LoadLinks(r) \/ Fetch(r) \/ FetchFails(r) \/ Date(r)
          PROVE  LinksTyped'
      BY <3>1, <3>5 DEF CheckAge, LoadLinks, Fetch, FetchFails, Date
    <3>6. ASSUME NEW r \in LinksRequest, Reconcile(r) \/ Search(r) PROVE LinksTyped'
      BY <3>1, <3>6 DEF Reconcile, Search
    <3>7. ASSUME NEW r \in LinksRequest, StoreId(r) PROVE LinksTyped'
      BY <3>1, <3>7 DEF StoreId
    <3>8. ASSUME NEW r \in LinksRequest, StoreLinks(r) PROVE LinksTyped'
      BY <3>1, <3>8 DEF StoreLinks
    <3>9. CASE Age
      BY <3>1, <3>9 DEF Age
    <3> QED
      BY <2>2, <3>2, <3>3, <3>4, <3>5, <3>6, <3>7, <3>8, <3>9 DEF LinksNext, LinksStep
  <2> QED BY <2>1, <2>2
<1> QED BY <1>1, <1>2, PTL DEF LinksSpec

(* The row of the ID, that of the links and the requests have their types. *)
THEOREM LinksTypeCorrect == LinksSpec => []LinksTypeOK
BY LinksTypedHolds, PTL DEF LinksTyped

(* As long as no fetch has overlapped a correction: a correction that is to
   write its ID finds neither links nor a fetch, and the links and the fetches
   are of the stored ID unless a correction is about to delete the links. *)
Deleting == \E c \in Corrector : linkPc[c] = "deleting"

NoStaleLinks ==
  ~overlapped =>
    /\ ~Overlap
    /\ (\E c \in LinksRequest : Correcting(c)) => links = NoLinks
    /\ \A r \in LinksRequest : Holding(r) => holds[r] = id \/ Deleting
    /\ links # NoLinks => links.of = id \/ Deleting

LinksInv == LinksTyped /\ NoStaleLinks

(* The links that are stored are of the ID that is stored, in whatever     *)
(* order IDs are corrected, searched for and fetched from.                 *)
THEOREM LinksAreOfTheIdHolds == LinksSpec => []LinksAreOfTheId
<1>1. LinksInit => NoStaleLinks
  BY DEF LinksInit, NoStaleLinks, Overlap, Holding, Correcting
<1>2. LinksInv /\ LinksTyped' /\ [LinksNext]_linksVars => LinksInv'
  <2> SUFFICES ASSUME LinksInv, LinksTyped', [LinksNext]_linksVars PROVE NoStaleLinks'
    BY DEF LinksInv
  <2> USE DEF LinksInv
  <2>1. CASE UNCHANGED linksVars
    BY <2>1 DEF linksVars, NoStaleLinks, Overlap, Holding, Correcting, Deleting
  <2>2. CASE LinksNext
    <3> SUFFICES ASSUME ~overlapped'
                 PROVE  /\ (\E c \in LinksRequest : Correcting(c)') => links' = NoLinks
                        /\ \A r \in LinksRequest : Holding(r)' => holds'[r] = id' \/ Deleting'
                        /\ links' # NoLinks => links'.of = id' \/ Deleting'
      BY <2>2 DEF LinksNext, NoStaleLinks
    <3>1. ~overlapped /\ ~Overlap /\ ~Overlap'
      BY <2>2 DEF LinksNext, NoStaleLinks
    <3> USE <3>1, LinksAssumption
        DEF NoStaleLinks, LinksTyped, LinksTypeOK, HeldIsId, LinkGoes, Links, Step,
            Holding, Correcting, Deleting, Overlap
    <3>2. ASSUME NEW r \in Viewer, View(r) PROVE NoStaleLinks'
      BY <3>2 DEF View, LinksRequest
    <3>3. ASSUME NEW r \in Refresher, DeleteLinks(r) PROVE NoStaleLinks'
      BY <3>3 DEF DeleteLinks, LinksRequest
    <3>4. ASSUME NEW r \in Corrector, DeleteId(r) PROVE NoStaleLinks'
      BY <3>4 DEF DeleteId, LinksRequest
    <3>5. ASSUME NEW r \in Corrector, DeleteOldLinks(r) PROVE NoStaleLinks'
      <4>1. linkPc'[r] = "correcting" /\ links' = NoLinks
        BY <3>5 DEF DeleteOldLinks, LinksRequest
      <4>2. \A q \in LinksRequest : ~Holding(q)'
        BY <4>1 DEF LinksRequest
      <4> QED BY <4>1, <4>2
    <3>6. ASSUME NEW r \in Corrector, CorrectId(r) PROVE NoStaleLinks'
      <4>1. links = NoLinks /\ links' = NoLinks
        BY <3>6 DEF CorrectId, LinksRequest
      <4>2. \A q \in LinksRequest : ~Holding(q) /\ ~Holding(q)'
        BY <3>6 DEF CorrectId, LinksRequest
      <4> QED BY <4>1, <4>2
    <3>7. ASSUME NEW r \in LinksRequest,
                 CheckAge(r) \/ LoadLinks(r) \/ Fetch(r) \/ FetchFails(r) \/ Date(r)
          PROVE  NoStaleLinks'
      <4>1. UNCHANGED <<id, links, holds>>
        BY <3>7 DEF CheckAge, LoadLinks, Fetch, FetchFails, Date
      <4>2. \A q \in LinksRequest \ {r} : linkPc'[q] = linkPc[q]
        BY <3>7 DEF CheckAge, LoadLinks, Fetch, FetchFails, Date
      <4>3. r \in LinksRequest /\ linkPc[r] # "deleting" /\ linkPc'[r] # "correcting"
        <5>1. CASE LoadLinks(r) BY <5>1 DEF LoadLinks
        <5>2. CASE FetchFails(r) BY <5>2 DEF FetchFails
        <5> QED BY <3>7, <5>1, <5>2 DEF CheckAge, Fetch, Date
      <4>4. Holding(r)' => Holding(r)
        BY <3>7 DEF CheckAge, LoadLinks, Fetch, FetchFails, Date
      <4>5. Deleting => Deleting'
        BY <4>2, <4>3 DEF LinksRequest
      <4>6. \A q \in LinksRequest : /\ Correcting(q)' => Correcting(q)
                                    /\ Holding(q)' => Holding(q)
        BY <4>2, <4>3, <4>4
      <4>7. \A q \in LinksRequest : Holding(q)' => holds'[q] = id' \/ Deleting'
        BY <4>1, <4>5, <4>6
      <4>8. links' # NoLinks => links'.of = id' \/ Deleting'
        BY <4>1, <4>5
      <4>9. ASSUME NEW q \in LinksRequest, Correcting(q)' PROVE links' = NoLinks
        <5>1. Correcting(q)
          BY <4>6, <4>9
        <5>2. links = NoLinks
          BY <5>1
        <5> QED BY <4>1, <5>2
      <4> QED BY <4>7, <4>8, <4>9
    <3>8. ASSUME NEW r \in LinksRequest, Reconcile(r) \/ Search(r) PROVE NoStaleLinks'
      BY <3>8 DEF Reconcile, Search, LinksRequest
    <3>9. ASSUME NEW r \in LinksRequest, StoreId(r) PROVE NoStaleLinks'
      <4>1. \A q \in LinksRequest \ {r} : linkPc'[q] = linkPc[q]
        BY <3>9 DEF StoreId
      <4>2. linkPc[r] = "found" /\ linkPc'[r] \in {"fetching", "falling back"}
        BY <3>9 DEF StoreId
      <4>3. Deleting => Deleting'
        BY <4>1, <4>2 DEF LinksRequest
      <4>4. UNCHANGED <<links, holds>> /\ (linkPc'[r] = "fetching" => id' = holds[r])
        BY <3>9 DEF StoreId
      <4>5. id' = id \/ id = NoId
        BY <3>9 DEF StoreId
      <4>6. ASSUME NEW q \in LinksRequest, Holding(q)'
            PROVE  holds'[q] = id' \/ Deleting'
        <5>1. CASE q = r
          BY <4>4, <4>6, <5>1, <4>2
        <5>2. CASE q # r
          <6>1. Holding(q) /\ holds'[q] = holds[q]
            BY <4>1, <4>4, <4>6, <5>2
          <6>2. holds[q] \in Id /\ (holds[q] = id \/ Deleting)
            BY <6>1
          <6> QED BY <4>3, <4>5, <6>1, <6>2
        <5> QED BY <5>1, <5>2
      <4>7. links' # NoLinks => links'.of = id' \/ Deleting'
        BY <4>3, <4>4, <4>5
      <4>8. \A q \in LinksRequest : Correcting(q)' => Correcting(q)
        BY <4>1, <4>2
      <4> QED BY <4>4, <4>6, <4>7, <4>8
    <3>10. ASSUME NEW r \in LinksRequest, StoreLinks(r) PROVE NoStaleLinks'
      BY <3>10 DEF StoreLinks, LinksRequest
    <3>11. CASE Age
      BY <3>11 DEF Age
    <3> QED
      BY <2>2, <3>2, <3>3, <3>4, <3>5, <3>6, <3>7, <3>8, <3>9, <3>10, <3>11
      DEF LinksNext, LinksStep
  <2> QED BY <2>1, <2>2
<1>3. LinksInv => LinksAreOfTheId
  BY DEF LinksInv, NoStaleLinks, LinksAreOfTheId, Deleting
<1> QED BY <1>1, <1>2, <1>3, LinksTypedHolds, PTL DEF LinksSpec, LinksInv

-----------------------------------------------------------------------------
(* Some tables of the scorer s, which is current or held, may be loaded. *)
LoadsOnly(s) ==
  /\ tables' \in [Scorer -> [Entity -> Row \cup {NoRow}]]
  /\ \A t \in Scorer, e \in Entity :
       tables'[t][e] = tables[t][e] \/ (t = s /\ tables'[t][e] = scores[e])

(* A read loads the table it reads and no other. *)
LEMMA LoadsOneTable ==
  ASSUME ScoresTypeOK, NEW s \in Scorer, NEW e \in Entity, Loads(s, e)
  PROVE  LoadsOnly(s)
<1>1. Table(s, e) \in Row \cup {NoRow} /\ (Table(s, e) = tables[s][e] \/ Table(s, e) = scores[e])
  BY DEF ScoresTypeOK, Table
<1>2. tables' = [tables EXCEPT ![s][e] = Table(s, e)]
  BY DEF Loads
<1> QED
  BY <1>1, <1>2 DEF ScoresTypeOK, LoadsOnly

(* Closing the editor reads each score once more, and asks to write those
   whose lines differ. *)
LEMMA ClosingReadsAll ==
  ASSUME ScoresTypeOK, NEW r \in Editor, CloseEditor(r)
  PROVE  LoadsOnly(scorer) /\ change' \in [Writer -> [Entity -> Score \cup {Unread}]]
<1>1. \A e \in Entity : /\ Table(scorer, e) \in Row \cup {NoRow}
                        /\ \/ Table(scorer, e) = tables[scorer][e]
                           \/ Table(scorer, e) = scores[e]
  BY DEF ScoresTypeOK, Table
<1>2. tables' = [tables EXCEPT ![scorer] = [e \in Entity |-> Table(scorer, e)]]
  BY DEF CloseEditor
<1>3. LoadsOnly(scorer)
  BY <1>1, <1>2 DEF ScoresTypeOK, LoadsOnly
<1>4. PICK line \in [Entity -> Score] :
        change' = [change EXCEPT ![r] =
          [e \in Entity |-> IF line[e] = Table(scorer, e).score THEN Unread ELSE line[e]]]
  BY DEF CloseEditor
<1>5. [e \in Entity |-> IF line[e] = Table(scorer, e).score THEN Unread ELSE line[e]]
        \in [Entity -> Score \cup {Unread}]
  OBVIOUS
<1> QED
  BY <1>3, <1>4, <1>5 DEF ScoresTypeOK, Writer

(* The tables, the scorers and the requests have their types. *)
THEOREM ScoresTypeCorrect == ScoresSpec => []ScoresTypeOK
<1>1. ScoresInit => ScoresTypeOK
  <2> SUFFICES ASSUME ScoresInit PROVE ScoresTypeOK
    OBVIOUS
  <2>1. scores \in [Entity -> Row]
    BY DEF ScoresInit, Row
  <2>2. Nowhere \in [Entity -> Row \cup {NoRow}] /\ NoWrites \in [Entity -> Nat]
    BY DEF Nowhere, NoWrites
  <2>3. tables \in [Scorer -> [Entity -> Row \cup {NoRow}]]
    BY <2>2 DEF ScoresInit
  <2>4. seen \in [Getter -> [Entity -> Row \cup {NoRow}]]
    BY <2>2 DEF ScoresInit
  <2>5. wrote \in [Writer -> [Entity -> Nat]] /\ floor \in [Getter -> [Entity -> Nat]]
    BY <2>2 DEF ScoresInit
  <2>6. answered \in [Entity -> Nat]
    BY <2>2 DEF ScoresInit
  <2>7. change \in [Writer -> [Entity -> Score \cup {Unread}]]
    BY DEF ScoresInit
  <2>8. inbox \in Seq(Writer) /\ held \in [Getter -> Scorer] /\ scorer \in Scorer
    BY DEF ScoresInit, Scorer
  <2> QED
    BY <2>1, <2>3, <2>4, <2>5, <2>6, <2>7, <2>8 DEF ScoresInit, ScoresTypeOK
<1>2. ScoresTypeOK /\ [ScoresNext]_scoresVars => ScoresTypeOK'
  <2> SUFFICES ASSUME ScoresTypeOK, [ScoresNext]_scoresVars PROVE ScoresTypeOK'
    OBVIOUS
  <2>a. Editor \subseteq Writer /\ Setter \subseteq Writer /\ Writer \subseteq Scorer
        /\ Writer \subseteq ScoreRequest /\ Getter \subseteq ScoreRequest
    BY DEF Writer, Scorer, ScoreRequest
  <2> USE DEF ScoreGoes, gotten
  <2>1. CASE UNCHANGED scoresVars
    BY <2>1 DEF scoresVars, ScoresTypeOK
  <2>2. ASSUME NEW r \in Getter, Get(r) \/ GotScores(r) PROVE ScoresTypeOK'
    <3>1. CASE Get(r) BY <2>a, <3>1 DEF Get, ScoresTypeOK
    <3>2. CASE GotScores(r) BY <2>a, <3>2 DEF GotScores, ScoresTypeOK
    <3> QED BY <2>2, <3>1, <3>2
  <2>3. ASSUME NEW r \in Getter, NEW e \in Entity, ReadScore(r, e) PROVE ScoresTypeOK'
    <3>1. held[r] \in Scorer
      BY DEF ScoresTypeOK
    <3>2. LoadsOnly(held[r])
      BY <2>3, <3>1, LoadsOneTable DEF ReadScore
    <3>3. Table(held[r], e) \in Row \cup {NoRow}
      BY <3>1 DEF ScoresTypeOK, Table
    <3>4. seen' \in [Getter -> [Entity -> Row \cup {NoRow}]]
      BY <2>3, <3>3 DEF ReadScore, ScoresTypeOK
    <3> QED BY <2>3, <3>2, <3>4 DEF ReadScore, LoadsOnly, ScoresTypeOK
  <2>4. ASSUME NEW r \in Setter, NEW e \in Entity, NEW v \in Score, Put(r, e, v)
        PROVE  ScoresTypeOK'
    BY <2>a, <2>4 DEF Put, ScoresTypeOK
  <2>5. ASSUME NEW r \in Editor, OpenScoreFile(r) \/ OpenEditor(r) PROVE ScoresTypeOK'
    BY <2>a, <2>5 DEF OpenScoreFile, OpenEditor, ScoresTypeOK
  <2>6. ASSUME NEW r \in Editor, CloseEditor(r) PROVE ScoresTypeOK'
    <3>1. LoadsOnly(scorer) /\ change' \in [Writer -> [Entity -> Score \cup {Unread}]]
      BY <2>6, ClosingReadsAll
    <3> QED BY <2>a, <2>6, <3>1 DEF CloseEditor, LoadsOnly, ScoresTypeOK
  <2>7. ASSUME NEW r \in Editor, NEW e \in Entity, WriteLine(r, e) PROVE ScoresTypeOK'
    <3>1. LoadsOnly(scorer)
      BY <2>7, LoadsOneTable DEF WriteLine, ScoresTypeOK
    <3> QED BY <2>7, <3>1 DEF WriteLine, LoadsOnly, ScoresTypeOK
  <2>8. ASSUME NEW r \in Writer, WriteFails(r) PROVE ScoresTypeOK'
    BY <2>a, <2>8 DEF WriteFails, ScoresTypeOK
  <2>9. ASSUME NEW r \in Writer, AskUpdate(r) PROVE ScoresTypeOK'
    BY <2>a, <2>9 DEF AskUpdate, ScoresTypeOK
  <2>10. ASSUME NEW r \in Writer, PutAnswered(r) PROVE ScoresTypeOK'
    <3>1. answered' \in [Entity -> Nat]
      BY <2>10 DEF PutAnswered, Larger, ScoresTypeOK
    <3> QED BY <2>a, <2>10, <3>1 DEF PutAnswered, ScoresTypeOK
  <2>11. ASSUME NEW r \in Writer, NEW e \in Entity, Write(r, e) PROVE ScoresTypeOK'
    <3>1. change[r][e] \in Score /\ scores[e].n + 1 \in Nat
      BY <2>11 DEF Write, ScoresTypeOK, Row
    <3>2. scores' \in [Entity -> Row]
      BY <2>11, <3>1 DEF Write, ScoresTypeOK, Row
    <3>3. wrote' \in [Writer -> [Entity -> Nat]]
      BY <2>11, <3>1 DEF Write, ScoresTypeOK
    <3>4. change' \in [Writer -> [Entity -> Score \cup {Unread}]]
      BY <2>11 DEF Write, ScoresTypeOK
    <3> QED BY <2>11, <3>2, <3>3, <3>4 DEF Write, ScoresTypeOK
  <2>12. CASE Rebuild
    <3>1. Head(inbox) \in Writer /\ Tail(inbox) \in Seq(Writer)
      BY <2>12 DEF Rebuild, ScoresTypeOK
    <3> QED BY <2>a, <2>12, <3>1 DEF Rebuild, ScoresTypeOK
  <2> QED
    BY <2>1, <2>2, <2>3, <2>4, <2>5, <2>6, <2>7, <2>8, <2>9, <2>10, <2>11, <2>12
    DEF ScoresNext
<1> QED BY <1>1, <1>2, PTL DEF ScoresSpec

(* A scorer is used from when the actor has made it. *)
Made(s) == s = Boot \/ scorePc[s] \in {"updating", "done"}

(* A table that is loaded is as new as the n-th write. *)
AtLeast(x, n) == x = NoRow \/ x.n >= n

OnlyMadeIsUsed ==
  /\ Made(scorer) /\ \A g \in Getter : Made(held[g])
  /\ \A s \in Scorer : ~Made(s) => \A e \in Entity : tables[s][e] = NoRow

WritesAreStored ==
  /\ \A e \in Entity : answered[e] <= scores[e].n
  /\ \A w \in Writer, e \in Entity : wrote[w][e] <= scores[e].n
  /\ \A g \in Getter, e \in Entity : floor[g][e] <= scores[e].n

ScorerIsCurrent ==
  \A e \in Entity :
    /\ AtLeast(tables[scorer][e], answered[e])
    /\ \A w \in Writer : scorePc[w] = "updating" => AtLeast(tables[scorer][e], wrote[w][e])

GettersAreServed ==
  \A g \in Getter, e \in Entity :
    /\ scorePc[g] = "idle" => seen[g][e] = NoRow
    /\ scorePc[g] # "idle" => AtLeast(tables[held[g]][e], floor[g][e])
    /\ AtLeast(seen[g][e], floor[g][e]) \/ scorePc[g] = "idle"
    /\ scorePc[g] = "done" => seen[g][e] # NoRow

ScoresInv ==
  OnlyMadeIsUsed /\ WritesAreStored /\ ScorerIsCurrent /\ GettersAreServed

(* A step that changes no row, makes no scorer, and loads tables of one that
   is made, keeps the scorers as they are to be. *)
LEMMA LoadingKeeps ==
  ASSUME ScoresTypeOK, ScoresTypeOK', ScoresInv,
         NEW s \in Scorer, Made(s), LoadsOnly(s),
         UNCHANGED <<scores, scorer, held, wrote, answered, floor>>,
         \A q \in Scorer : Made(q)' <=> Made(q),
         \A w \in Writer : scorePc'[w] = "updating" => scorePc[w] = "updating"
  PROVE  /\ OnlyMadeIsUsed' /\ WritesAreStored' /\ ScorerIsCurrent'
         /\ \A g \in Getter, e \in Entity :
              scorePc[g] # "idle" => AtLeast(tables'[held[g]][e], floor[g][e])
<1>a. Writer \subseteq Scorer /\ scorer \in Scorer /\ \A g \in Getter : held[g] \in Scorer
  BY DEF Scorer, ScoresTypeOK
<1>b. \A e \in Entity : /\ scores[e].n \in Nat /\ answered[e] \in Nat
                        /\ \A w \in Writer : wrote[w][e] \in Nat
                        /\ \A g \in Getter : floor[g][e] \in Nat
  BY DEF ScoresTypeOK, Row
<1>1. OnlyMadeIsUsed'
  <2>1. Made(scorer)' /\ \A g \in Getter : Made(held[g])'
    BY <1>a DEF ScoresInv, OnlyMadeIsUsed, Made
  <2>2. ASSUME NEW q \in Scorer, ~Made(q)', NEW e \in Entity PROVE tables'[q][e] = NoRow
    <3>1. ~Made(q) /\ q # s
      BY <2>2
    <3> QED BY <3>1 DEF ScoresInv, OnlyMadeIsUsed, LoadsOnly
  <2> QED BY <2>1, <2>2 DEF OnlyMadeIsUsed
<1>2. WritesAreStored'
  BY DEF ScoresInv, WritesAreStored
<1>3. ScorerIsCurrent'
  BY <1>a, <1>b DEF ScoresInv, WritesAreStored, ScorerIsCurrent, AtLeast, LoadsOnly
<1>4. ASSUME NEW g \in Getter, NEW e \in Entity, scorePc[g] # "idle"
      PROVE  AtLeast(tables'[held[g]][e], floor[g][e])
  BY <1>a, <1>b, <1>4 DEF ScoresInv, WritesAreStored, GettersAreServed, AtLeast, LoadsOnly
<1> QED BY <1>1, <1>2, <1>3, <1>4

(* Who asks for the scores after a score was set is shown that score or a  *)
(* later one, whatever scorers are made and whenever their tables are read. *)
THEOREM AnsweredIsSeenHolds == ScoresSpec => []AnsweredIsSeen
<1>1. ScoresInit => ScoresInv
  <2> SUFFICES ASSUME ScoresInit PROVE ScoresInv
    OBVIOUS
  <2>1. Writer \subseteq Scorer /\ Getter \subseteq ScoreRequest /\ Writer \subseteq ScoreRequest
        /\ scorer \in Scorer
    BY DEF Scorer, ScoreRequest, ScoresInit
  <2>2. \A s \in Scorer, e \in Entity : tables[s][e] = NoRow
    BY DEF ScoresInit, Nowhere
  <2>3. \A e \in Entity : /\ scores[e].n = 0 /\ answered[e] = 0
                          /\ \A w \in Writer : wrote[w][e] = 0
                          /\ \A g \in Getter : floor[g][e] = 0 /\ seen[g][e] = NoRow
    BY DEF ScoresInit, NoWrites, Nowhere
  <2>4. \A r \in ScoreRequest : scorePc[r] = "idle"
    BY DEF ScoresInit
  <2>5. OnlyMadeIsUsed
    BY <2>2 DEF ScoresInit, OnlyMadeIsUsed, Made
  <2>6. WritesAreStored
    BY <2>3 DEF WritesAreStored
  <2>7. ScorerIsCurrent
    BY <2>1, <2>2 DEF ScorerIsCurrent, AtLeast
  <2>8. GettersAreServed
    BY <2>1, <2>3, <2>4 DEF GettersAreServed, AtLeast
  <2> QED BY <2>5, <2>6, <2>7, <2>8 DEF ScoresInv
<1>2. ScoresTypeOK /\ ScoresTypeOK' /\ ScoresInv /\ [ScoresNext]_scoresVars => ScoresInv'
  <2> SUFFICES ASSUME ScoresTypeOK, ScoresTypeOK', ScoresInv, [ScoresNext]_scoresVars
               PROVE  ScoresInv'
    OBVIOUS
  <2>a. /\ Editor \subseteq Writer /\ Setter \subseteq Writer /\ Writer \subseteq Scorer
        /\ Writer \subseteq ScoreRequest /\ Getter \subseteq ScoreRequest
        /\ Getter \cap Scorer = {} /\ Boot \notin ScoreRequest
        /\ scorer \in Scorer /\ \A g \in Getter : held[g] \in Scorer
    BY ScoresAssumption DEF Writer, Scorer, ScoreRequest, ScoresTypeOK
  <2>b. \A e \in Entity : /\ scores[e].n \in Nat /\ answered[e] \in Nat
                          /\ \A w \in Writer : wrote[w][e] \in Nat
                          /\ \A g \in Getter : floor[g][e] \in Nat
    BY DEF ScoresTypeOK, Row
  <2>d. Made(scorer) /\ \A g \in Getter : Made(held[g])
    BY DEF ScoresInv, OnlyMadeIsUsed
  <2> USE DEF ScoreGoes, gotten
  <2>1. CASE UNCHANGED scoresVars
    BY <2>1 DEF scoresVars, ScoresInv, OnlyMadeIsUsed, Made, WritesAreStored, ScorerIsCurrent,
                GettersAreServed, AtLeast
  <2>2. ASSUME NEW r \in Getter, Get(r) PROVE ScoresInv'
    <3>1. \A w \in Scorer : scorePc'[w] = scorePc[w]
      BY <2>a, <2>2 DEF Get, ScoresTypeOK
    <3>2. held' = [held EXCEPT ![r] = scorer] /\ floor' = [floor EXCEPT ![r] = answered]
          /\ UNCHANGED <<scores, scorer, tables, seen, wrote, answered>>
      BY <2>2 DEF Get
    <3>3. OnlyMadeIsUsed'
      BY <2>a, <2>d, <3>1, <3>2 DEF ScoresInv, OnlyMadeIsUsed, Made, ScoresTypeOK
    <3>4. WritesAreStored'
      BY <3>2 DEF ScoresInv, WritesAreStored, ScoresTypeOK
    <3>5. ScorerIsCurrent'
      BY <2>a, <3>1, <3>2 DEF ScoresInv, ScorerIsCurrent, AtLeast
    <3>6. ASSUME NEW g \in Getter, NEW e \in Entity
          PROVE  /\ scorePc'[g] = "idle" => seen'[g][e] = NoRow
                 /\ scorePc'[g] # "idle" => AtLeast(tables'[held'[g]][e], floor'[g][e])
                 /\ AtLeast(seen'[g][e], floor'[g][e]) \/ scorePc'[g] = "idle"
                 /\ scorePc'[g] = "done" => seen'[g][e] # NoRow
      <4>1. CASE g = r
        BY <2>a, <2>2, <3>2, <4>1
        DEF Get, ScoresInv, ScorerIsCurrent, GettersAreServed, AtLeast, ScoresTypeOK
      <4>2. CASE g # r
        <5>1. scorePc'[g] = scorePc[g] /\ held'[g] = held[g] /\ floor'[g] = floor[g]
          BY <2>a, <2>2, <3>2, <4>2 DEF Get, ScoresTypeOK
        <5> QED BY <3>2, <5>1 DEF ScoresInv, GettersAreServed
      <4> QED BY <4>1, <4>2
    <3> QED BY <3>3, <3>4, <3>5, <3>6 DEF ScoresInv, GettersAreServed, AtLeast
  <2>3. ASSUME NEW r \in Getter, NEW e \in Entity, ReadScore(r, e) PROVE ScoresInv'
    <3>1. LoadsOnly(held[r]) /\ Made(held[r])
      BY <2>a, <2>d, <2>3, LoadsOneTable DEF ReadScore
    <3>2. /\ UNCHANGED <<scores, scorer, held, wrote, answered, floor, scorePc>>
          /\ seen' = [seen EXCEPT ![r][e] = Table(held[r], e)]
          /\ scorePc[r] = "reading"
      BY <2>3 DEF ReadScore
    <3>3. \A q \in Scorer : Made(q)' <=> Made(q)
      BY <3>2 DEF Made
    <3>4. /\ OnlyMadeIsUsed' /\ WritesAreStored' /\ ScorerIsCurrent'
          /\ \A g \in Getter, d \in Entity :
               scorePc[g] # "idle" => AtLeast(tables'[held[g]][d], floor[g][d])
      BY <2>a, <3>1, <3>2, <3>3, LoadingKeeps
    <3>5. Table(held[r], e) = tables[held[r]][e] \/ Table(held[r], e) = scores[e]
      BY DEF Table
    <3>6. AtLeast(Table(held[r], e), floor[r][e])
      BY <2>b, <3>2, <3>5 DEF ScoresInv, WritesAreStored, GettersAreServed, AtLeast
    <3>7. GettersAreServed'
      <4> SUFFICES ASSUME NEW g \in Getter, NEW d \in Entity
                   PROVE  /\ scorePc[g] = "idle" => seen'[g][d] = NoRow
                          /\ AtLeast(seen'[g][d], floor[g][d]) \/ scorePc[g] = "idle"
                          /\ scorePc[g] = "done" => seen'[g][d] # NoRow
        BY <3>2, <3>4 DEF GettersAreServed, AtLeast
      <4>1. CASE g = r /\ d = e
        BY <3>2, <3>6, <4>1 DEF ScoresTypeOK
      <4>2. CASE ~(g = r /\ d = e)
        <5>1. seen'[g][d] = seen[g][d]
          BY <3>2, <4>2 DEF ScoresTypeOK
        <5> QED BY <5>1 DEF ScoresInv, GettersAreServed
      <4> QED BY <4>1, <4>2
    <3> QED BY <3>4, <3>7 DEF ScoresInv
  <2>4. ASSUME NEW r \in Getter, GotScores(r) PROVE ScoresInv'
    <3>1. \A q \in Scorer : scorePc'[q] = scorePc[q]
      BY <2>a, <2>4 DEF GotScores, ScoresTypeOK
    <3>2. UNCHANGED <<scores, scorer, tables, held, seen, wrote, answered, floor>>
      BY <2>4 DEF GotScores
    <3>3. OnlyMadeIsUsed' /\ WritesAreStored' /\ ScorerIsCurrent'
      BY <2>a, <3>1, <3>2
      DEF ScoresInv, OnlyMadeIsUsed, Made, WritesAreStored, ScorerIsCurrent, AtLeast
    <3>4. ASSUME NEW g \in Getter
          PROVE  /\ scorePc'[g] = "idle" <=> scorePc[g] = "idle"
                 /\ scorePc'[g] = "done" =>
                      scorePc[g] = "done" \/ \A e \in Entity : seen[g][e] # NoRow
      BY <2>a, <2>4 DEF GotScores, ScoresTypeOK
    <3>5. GettersAreServed'
      BY <3>2, <3>4 DEF ScoresInv, GettersAreServed, AtLeast
    <3> QED BY <3>3, <3>5 DEF ScoresInv
  <2>5. ASSUME NEW r \in Writer,
               UNCHANGED <<scores, scorer, held, seen, wrote, answered, floor>>,
               LoadsOnly(scorer),
               \A q \in ScoreRequest \ {r} : scorePc'[q] = scorePc[q],
               {scorePc[r], scorePc'[r]} \cap {"updating", "done"} = {}
        PROVE  ScoresInv'
    <3>1. \A g \in Getter : scorePc'[g] = scorePc[g]
      BY <2>a, <2>5 DEF ScoresTypeOK
    <3>2. \A q \in Scorer : scorePc'[q] = scorePc[q]
                            \/ {scorePc[q], scorePc'[q]} \cap {"updating", "done"} = {}
      BY <2>a, <2>5 DEF ScoresTypeOK
    <3>3. \A q \in Scorer : Made(q)' <=> Made(q)
      BY <2>a, <3>2 DEF Made
    <3>4. /\ OnlyMadeIsUsed' /\ WritesAreStored' /\ ScorerIsCurrent'
          /\ \A g \in Getter, e \in Entity :
               scorePc[g] # "idle" => AtLeast(tables'[held[g]][e], floor[g][e])
      BY <2>a, <2>d, <2>5, <3>2, <3>3, LoadingKeeps
    <3>5. GettersAreServed'
      BY <2>5, <3>1, <3>4 DEF ScoresInv, GettersAreServed, AtLeast
    <3> QED BY <3>4, <3>5 DEF ScoresInv
  <2>c. tables' = tables => LoadsOnly(scorer)
    BY DEF LoadsOnly, ScoresTypeOK
  <2>6. ASSUME NEW r \in Setter, NEW e \in Entity, NEW v \in Score, Put(r, e, v)
        PROVE  ScoresInv'
    BY <2>a, <2>c, <2>5, <2>6 DEF Put, ScoresTypeOK
  <2>7. ASSUME NEW r \in Editor, OpenScoreFile(r) PROVE ScoresInv'
    BY <2>a, <2>c, <2>5, <2>7 DEF OpenScoreFile, ScoresTypeOK
  <2>8. ASSUME NEW r \in Editor, OpenEditor(r) PROVE ScoresInv'
    BY <2>a, <2>c, <2>5, <2>8 DEF OpenEditor, ScoresTypeOK
  <2>9. ASSUME NEW r \in Editor, CloseEditor(r) PROVE ScoresInv'
    <3>1. LoadsOnly(scorer)
      BY <2>9, ClosingReadsAll
    <3>2. /\ UNCHANGED <<scores, scorer, held, seen, wrote, answered, floor>>
          /\ scorePc[r] = "editing" /\ scorePc' = [scorePc EXCEPT ![r] = "writing"]
      BY <2>9 DEF CloseEditor
    <3> QED BY <2>a, <2>5, <3>1, <3>2 DEF ScoresTypeOK
  <2>10. ASSUME NEW r \in Editor, NEW e \in Entity, WriteLine(r, e) PROVE ScoresInv'
    <3>1. /\ LoadsOnly(scorer)
          /\ UNCHANGED <<scores, scorer, scorePc, held, seen, wrote, answered, floor>>
      BY <2>a, <2>10, LoadsOneTable DEF WriteLine
    <3>2. \A q \in Scorer : Made(q)' <=> Made(q)
      BY <3>1 DEF Made
    <3>3. /\ OnlyMadeIsUsed' /\ WritesAreStored' /\ ScorerIsCurrent'
          /\ \A g \in Getter, d \in Entity :
               scorePc[g] # "idle" => AtLeast(tables'[held[g]][d], floor[g][d])
      BY <2>a, <2>d, <3>1, <3>2, LoadingKeeps
    <3> QED BY <3>1, <3>3 DEF ScoresInv, GettersAreServed, AtLeast
  <2>11. ASSUME NEW r \in Writer, WriteFails(r) \/ AskUpdate(r) PROVE ScoresInv'
    <3>1. CASE WriteFails(r) BY <2>a, <2>c, <2>5, <3>1 DEF WriteFails, ScoresTypeOK
    <3>2. CASE AskUpdate(r) BY <2>a, <2>c, <2>5, <3>2 DEF AskUpdate, ScoresTypeOK
    <3> QED BY <2>11, <3>1, <3>2
  <2>12. ASSUME NEW r \in Writer, PutAnswered(r) PROVE ScoresInv'
    <3>1. /\ \A g \in Getter : scorePc'[g] = scorePc[g]
          /\ \A q \in Scorer : Made(q)' <=> Made(q)
          /\ \A w \in Writer : scorePc'[w] = "updating" => scorePc[w] = "updating"
      BY <2>a, <2>12 DEF PutAnswered, Made, ScoresTypeOK
    <3>2. UNCHANGED <<scores, scorer, tables, held, seen, wrote, floor>>
      BY <2>12 DEF PutAnswered
    <3>3. scorePc[r] = "updating"
          /\ \A e \in Entity : answered'[e] \in {answered[e], wrote[r][e]}
      BY <2>12 DEF PutAnswered, Larger, ScoresTypeOK
    <3>4. OnlyMadeIsUsed'
      BY <2>a, <3>1, <3>2 DEF ScoresInv, OnlyMadeIsUsed, Made
    <3>5. WritesAreStored'
      BY <3>2, <3>3 DEF ScoresInv, WritesAreStored
    <3>6. ScorerIsCurrent'
      BY <3>1, <3>2, <3>3 DEF ScoresInv, ScorerIsCurrent, AtLeast
    <3>7. GettersAreServed'
      BY <3>1, <3>2 DEF ScoresInv, GettersAreServed, AtLeast
    <3> QED BY <3>4, <3>5, <3>6, <3>7 DEF ScoresInv
  <2>13. ASSUME NEW r \in Writer, NEW d \in Entity, Write(r, d) PROVE ScoresInv'
    <3>1. UNCHANGED <<scorer, tables, scorePc, held, seen, answered, floor>>
          /\ scorePc[r] = "writing"
      BY <2>13 DEF Write
    <3>2. \A e \in Entity : scores'[e].n = IF e = d THEN scores[e].n + 1 ELSE scores[e].n
      BY <2>13 DEF Write, ScoresTypeOK
    <3>3. \A w \in Writer, e \in Entity :
            wrote'[w][e] = IF w = r /\ e = d THEN scores[e].n + 1 ELSE wrote[w][e]
      BY <2>13 DEF Write, ScoresTypeOK
    <3>4. OnlyMadeIsUsed' /\ GettersAreServed'
      BY <3>1 DEF ScoresInv, OnlyMadeIsUsed, Made, GettersAreServed, AtLeast
    <3>5. WritesAreStored'
      BY <2>b, <3>1, <3>2, <3>3 DEF ScoresInv, WritesAreStored
    <3>6. ScorerIsCurrent'
      BY <3>1, <3>3 DEF ScoresInv, ScorerIsCurrent, AtLeast
    <3> QED BY <3>4, <3>5, <3>6 DEF ScoresInv
  <2>14. CASE Rebuild
    <3> DEFINE r == Head(inbox)
    <3>1. /\ r \in Writer /\ scorePc[r] = "asking" /\ scorer' = r
          /\ UNCHANGED <<scores, tables, held, seen, wrote, answered, floor>>
      BY <2>14 DEF Rebuild, ScoresTypeOK
    <3>2. scorePc' = [scorePc EXCEPT ![r] = "updating"]
      BY <2>14 DEF Rebuild
    <3> HIDE DEF r
    <3>3. ~Made(r) /\ \A e \in Entity : tables[r][e] = NoRow
      BY <2>a, <3>1 DEF Made, ScoresInv, OnlyMadeIsUsed
    <3>4. /\ \A g \in Getter : scorePc'[g] = scorePc[g]
          /\ \A q \in Writer : q # r => scorePc'[q] = scorePc[q]
          /\ scorePc'[r] = "updating"
      BY <2>a, <3>1, <3>2 DEF ScoresTypeOK
    <3>5. OnlyMadeIsUsed'
      <4>1. \A q \in Scorer : Made(q) => Made(q)'
        BY <3>4 DEF Made, Scorer
      <4>2. Made(scorer)'
        BY <3>1, <3>4 DEF Made
      <4>3. \A g \in Getter : Made(held[g])'
        BY <2>a, <2>d, <3>1, <4>1 DEF Made
      <4> QED BY <3>1, <4>1, <4>2, <4>3 DEF ScoresInv, OnlyMadeIsUsed
    <3>6. WritesAreStored'
      BY <3>1 DEF ScoresInv, WritesAreStored
    <3>7. ScorerIsCurrent'
      BY <3>1, <3>3 DEF ScorerIsCurrent, AtLeast
    <3>8. GettersAreServed'
      BY <3>1, <3>4 DEF ScoresInv, GettersAreServed, AtLeast
    <3> QED BY <3>5, <3>6, <3>7, <3>8 DEF ScoresInv
  <2> QED
    BY <2>1, <2>2, <2>3, <2>4, <2>6, <2>7, <2>8, <2>9, <2>10, <2>11, <2>12, <2>13, <2>14
    DEF ScoresNext
<1>3. ScoresTypeOK /\ ScoresInv => AnsweredIsSeen
  BY DEF ScoresInv, GettersAreServed, AtLeast, AnsweredIsSeen
<1> QED BY <1>1, <1>2, <1>3, ScoresTypeCorrect, PTL DEF ScoresSpec

=============================================================================
