----------------------------- MODULE Playlists ------------------------------
(***************************************************************************)
(* playlist/PlaylistModel: the saved playlists of the user, all in one     *)
(* JSON file.  set and remove load the file, change one entry and save the *)
(* whole, with nothing to keep two requests apart: the page saves a backup *)
(* every minute and whenever the user asks for it.  The file is            *)
(* overwritten in place, and the process may die while it is.              *)
(***************************************************************************)
EXTENDS Integers

CONSTANTS
  Name,         \* names of playlists
  Songs,        \* what they may hold
  NoSongs,      \* a name that is not in the file
  Saver,        \* the requests that set or remove a playlist
  MaxCrashes    \* bound: crashes of the process

ASSUME PlaylistsAssumption == NoSongs \notin Songs /\ MaxCrashes \in Nat

VARIABLES
  saved,        \* what the file holds
  garbled,      \* whether the file is cut short, or a mix of two saves
  savePc,       \* where each request stands
  wish,         \* the entry it is to write
  loaded,       \* the map it loaded
  saves, turn,  \* history: the saves, and the place of each request's among them
  crashes,
  raced         \* history: a save overwrote a file that it had not loaded

playlistsVars == <<saved, garbled, savePc, wish, loaded, saves, turn, crashes, raced>>

Contents == [Name -> Songs \cup {NoSongs}]
Entry == [name : Name, songs : Songs \cup {NoSongs}]

PlaylistsTypeOK ==
  /\ saved \in Contents /\ garbled \in BOOLEAN
  /\ savePc \in [Saver -> {"idle", "asked", "loaded", "saving", "mixing", "saved", "done", "failed"}]
  /\ wish \in [Saver -> Entry]
  /\ loaded \in [Saver -> Contents]
  /\ saves \in Nat /\ turn \in [Saver -> Nat]
  /\ crashes \in 0 .. MaxCrashes /\ raced \in BOOLEAN

PlaylistsInit ==
  /\ saved = [n \in Name |-> NoSongs] /\ garbled = FALSE
  /\ savePc = [r \in Saver |-> "idle"]
  /\ wish \in [Saver -> Entry]
  /\ loaded = [r \in Saver |-> saved]
  /\ saves = 0 /\ turn = [r \in Saver |-> 0]
  /\ crashes = 0 /\ raced = FALSE

SaverGoes(r, from, to) == savePc[r] = from /\ savePc' = [savePc EXCEPT ![r] = to]
kept == <<saves, turn, crashes, raced>>

Request(r) ==
  /\ SaverGoes(r, "idle", "asked")
  /\ UNCHANGED <<saved, garbled, wish, loaded, kept>>

(* loadOrZero: a file that cannot be parsed fails the request, set as well *)
(* as get.                                                                 *)
Load(r) ==
  /\ SaverGoes(r, "asked", IF garbled THEN "failed" ELSE "loaded")
  /\ loaded' = IF garbled THEN loaded ELSE [loaded EXCEPT ![r] = saved]
  /\ UNCHANGED <<saved, garbled, wish, kept>>

(* The file is truncated ... *)
SaveBegins(r) ==
  /\ SaverGoes(r, "loaded", "saving")
  /\ garbled' = TRUE
  /\ UNCHANGED <<saved, wish, loaded, kept>>

(* Seeded fault: only the new entry is written. *)
ChangedAlone(r) == [n \in Name |-> IF n = wish[r].name THEN wish[r].songs ELSE NoSongs]

Changed(r) == [loaded[r] EXCEPT ![wish[r].name] = wish[r].songs]

(* ... and written.  Of two requests that write at once the bytes may be   *)
(* mixed.                                                                  *)
Writing == {r \in Saver : savePc[r] \in {"saving", "mixing"}}
SaveEnds(r) ==
  /\ r \in Writing
  /\ savePc' = [q \in Saver |-> IF q = r THEN "saved"
                              ELSE IF q \in Writing THEN "mixing" ELSE savePc[q]]
  /\ saved' = Changed(r)
  /\ garbled' \in IF Writing # {r} THEN {TRUE}
                  ELSE IF savePc[r] = "mixing" THEN BOOLEAN ELSE {FALSE}
  /\ saves' = saves + 1
  /\ turn' = [turn EXCEPT ![r] = saves + 1]
  /\ raced' = (raced \/ loaded[r] # saved)
  /\ UNCHANGED <<wish, loaded, crashes>>

Answer(r) ==
  /\ SaverGoes(r, "saved", "done")
  /\ UNCHANGED <<saved, garbled, wish, loaded, kept>>

(* The process dies: a file that was being written stays as it is. *)
Crash ==
  /\ crashes < MaxCrashes
  /\ crashes' = crashes + 1
  /\ savePc' = [r \in Saver |-> IF savePc[r] \in {"idle", "done"} THEN savePc[r] ELSE "failed"]
  /\ UNCHANGED <<saved, garbled, wish, loaded, saves, turn, raced>>

PlaylistsNext ==
  \/ \E r \in Saver : \/ Request(r) \/ Load(r) \/ SaveBegins(r) \/ SaveEnds(r) \/ Answer(r)
  \/ Crash

PlaylistsSpec == PlaylistsInit /\ [][PlaylistsNext]_playlistsVars

(* A playlist that was saved, or removed, as the page was told, is so in   *)
(* the file until a later request for its name - unless the file is cut    *)
(* short, or a save overwrote a file it had not loaded.                    *)
SavedIsKept ==
  \A r \in Saver : savePc[r] = "done" /\ ~garbled /\ ~raced =>
    \E q \in Saver : /\ wish[q].name = wish[r].name /\ turn[q] >= turn[r]
                     /\ saved[wish[r].name] = wish[q].songs
=============================================================================
