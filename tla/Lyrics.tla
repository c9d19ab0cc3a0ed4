------------------------------- MODULE Lyrics -------------------------------
(***************************************************************************)
(* backend/lyrics for one song: LyricsCache.find through                   *)
(* OnlineRetrieverCacher (load, else retrieve and store), and the requests *)
(* of the page that write lyrics of the user's choice over what is stored. *)
(* Each statement on the row is a step, so that a retrieval may end after  *)
(* another one, or after the user, stored the row.                         *)
(***************************************************************************)


CONSTANTS
  Reader,      \* requests for the lyrics
  Pusher,      \* requests that push a URL or mark the song or its artist
  Text,        \* lyrics that can be retrieved or parsed
  Manual,      \* the instrumental of setInstrumentalSong
  ByArtist,    \* the instrumental of an artist that is marked so
  NoLyrics     \* no row, no answer

ASSUME LyricsAssumption ==
  /\ Reader \cap Pusher = {}
  /\ Text \cap {Manual, ByArtist, NoLyrics} = {}
  /\ Manual # NoLyrics /\ ByArtist # NoLyrics

VARIABLES
  row,         \* the song's row of the table
  marked,      \* whether the artist has a row among the instrumental ones
  lyricsPc,    \* where each request stands
  told,        \* what it retrieved, and what it is answered with
  overridden   \* history: the user has replaced the row since its answer

lyricsVars == <<row, marked, lyricsPc, told, overridden>>

LyricsRequest == Reader \cup Pusher
SomeLyrics == Text \cup {Manual, ByArtist}

LyricsTypeOK ==
  /\ row \in SomeLyrics \cup {NoLyrics}
  /\ marked \in BOOLEAN
  /\ lyricsPc \in [LyricsRequest ->
       {"idle", "retrieving", "storing", "replacing", "done", "unstored", "failed"}]
  /\ told \in [LyricsRequest -> SomeLyrics \cup {NoLyrics}]
  /\ overridden \in [LyricsRequest -> BOOLEAN]

LyricsInit ==
  /\ row \in SomeLyrics \cup {NoLyrics}
  /\ marked \in BOOLEAN
  /\ lyricsPc = [r \in LyricsRequest |-> "idle"]
  /\ told = [r \in LyricsRequest |-> NoLyrics]
  /\ overridden = [r \in LyricsRequest |-> FALSE]

LyricsGoes(r, from, to) == lyricsPc[r] = from /\ lyricsPc' = [lyricsPc EXCEPT ![r] = to]

(* find: the row is there. *)
FindStored(r) ==
  /\ row # NoLyrics
  /\ LyricsGoes(r, "idle", "done")
  /\ told' = [told EXCEPT ![r] = row]
  /\ UNCHANGED <<row, marked, overridden>>

FindMissing(r) ==
  /\ row = NoLyrics
  /\ LyricsGoes(r, "idle", "retrieving")
  /\ UNCHANGED <<row, marked, told, overridden>>

(* The retrievers are asked in order, the mark of the artist last. *)
Retrieved(r) ==
  /\ LyricsGoes(r, "retrieving", "storing")
  /\ \E l \in Text \cup (IF marked THEN {ByArtist} ELSE {}) : told' = [told EXCEPT ![r] = l]
  /\ UNCHANGED <<row, marked, overridden>>

NothingRetrieved(r) ==
  /\ LyricsGoes(r, "retrieving", "failed")
  /\ UNCHANGED <<row, marked, told, overridden>>

(* Seeded fault: the retrieved lyrics are stored over the row that is there. *)
StoreOver(r) ==
  /\ LyricsGoes(r, "storing", "done")
  /\ row' = told[r]
  /\ UNCHANGED <<marked, told, overridden>>

(* store fails, and with it the request, on a row that is there by now. *)
StoreRetrieved(r) ==
  /\ LyricsGoes(r, "storing", IF row = NoLyrics THEN "done" ELSE "failed")
  /\ row' = IF row = NoLyrics THEN told[r] ELSE row
  /\ UNCHANGED <<marked, told, overridden>>

(* parse: the page behind the URL has lyrics, or the push fails. *)
ParsePushed(r) ==
  /\ LyricsGoes(r, "idle", "replacing")
  /\ \E l \in Text : told' = [told EXCEPT ![r] = l]
  /\ UNCHANGED <<row, marked, overridden>>

PushFails(r) ==
  /\ LyricsGoes(r, "idle", "failed")
  /\ UNCHANGED <<row, marked, told, overridden>>

SetInstrumentalSong(r) ==
  /\ LyricsGoes(r, "idle", "replacing")
  /\ told' = [told EXCEPT ![r] = Manual]
  /\ UNCHANGED <<row, marked, overridden>>

Replace(r) ==
  /\ LyricsGoes(r, "replacing", "done")
  /\ row' = told[r]
  /\ overridden' = [q \in LyricsRequest |-> overridden[q] \/ lyricsPc[q] = "done"]
  /\ UNCHANGED <<marked, told>>

(* InstrumentalArtist.add looks for the artist's row and stores none. *)
SetInstrumentalArtist(r) ==
  /\ LyricsGoes(r, "idle", "unstored")
  /\ told' = [told EXCEPT ![r] = ByArtist]
  /\ UNCHANGED <<row, marked, overridden>>

LyricsNext ==
  \/ \E r \in Reader : \/ FindStored(r) \/ FindMissing(r) \/ Retrieved(r)
                       \/ NothingRetrieved(r) \/ StoreRetrieved(r)
  \/ \E r \in Pusher : \/ ParsePushed(r) \/ PushFails(r) \/ SetInstrumentalSong(r)
                       \/ Replace(r) \/ SetInstrumentalArtist(r)

LyricsSpec == LyricsInit /\ [][LyricsNext]_lyricsVars

(* The lyrics that a request was answered with are those that are stored,  *)
(* until the user replaces them: a retrieval that ends late neither undoes *)
(* what the user pushed nor what another reader was shown.  The exception  *)
(* is the mark of an artist, which is answered and not stored.             *)
ToldIsStored ==
  \A r \in LyricsRequest : lyricsPc[r] = "done" /\ ~overridden[r] => row = told[r]
=============================================================================
