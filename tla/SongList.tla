------------------------------ MODULE SongList ------------------------------
(***************************************************************************)
(* What the playlist of the web client promises whoever clicks on it, with *)
(* no page, animation, download or promise in sight: songs are listed once *)
(* and in the order they came, one of them is current, a removal takes out *)
(* the song it was asked for, and the removal of all newer, or of all      *)
(* older, songs takes them one after the other.  The promise is off from   *)
(* the time the list changes in the course of a removal, or is shown anew, *)
(* until it is emptied at rest.  Player implements this specification.     *)
(***************************************************************************)
EXTENDS Integers, Sequences

CONSTANT Song

VARIABLES list, current,  \* the songs, and the index, from 0, of the current one
          doomed,          \* the removals that were asked for and are not done
          astray           \* the promise is off

vars == <<list, current, doomed, astray>>

Way == {"this", "up", "down"}
Removal == [song : Song, way : Way]

TypeOK ==
  /\ list \in Seq(Song) /\ current \in Int
  /\ doomed \subseteq Removal /\ astray \in BOOLEAN

Init == list = << >> /\ current = 0 /\ doomed = {} /\ astray = FALSE

Dropped(i) == [j \in 1 .. Len(list) - 1 |-> IF j < i THEN list[j] ELSE list[j + 1]]

(* A song that is not listed comes last; it may become the current one. *)
Add(s) ==
  /\ \A i \in 1 .. Len(list) : list[i] # s
  /\ list' = Append(list, s)
  /\ current' \in (IF list = << >> THEN {0} ELSE {current, Len(list)})
  /\ astray' = (astray \/ doomed # {})
  /\ UNCHANGED doomed

Choose(i) ==
  /\ i \in 0 .. Len(list) - 1
  /\ current' = i
  /\ UNCHANGED <<list, doomed, astray>>

(* The removal of the i-th song, and of all after it ("up") or before it. *)
Doom(i, way) ==
  /\ ~astray /\ doomed = {}
  /\ doomed' = {[song |-> list[i], way |-> way]}
  /\ UNCHANGED <<list, current, astray>>

Beside(i, way) == CASE way = "up" -> i + 1 [] way = "down" -> i - 1 [] way = "this" -> 0

(* The i-th song goes, and the removal goes on beside it.  The current song *)
(* stays, unless it is the one: then it is the next, or else the one before.*)
Remove(i, way) ==
  /\ ~astray /\ doomed = {[song |-> list[i], way |-> way]}
  /\ list' = Dropped(i)
  /\ current' = IF i <= current \/ (current = Len(list) - 1 /\ current > 0)
                THEN current - 1 ELSE current
  /\ doomed' = {[song |-> list[j], way |-> way] : j \in {Beside(i, way)} \cap 1 .. Len(list)}
  /\ UNCHANGED astray

(* A saved playlist takes the place of the list: first it is emptied. *)
Clear ==
  /\ list' = << >> /\ current' = 0
  /\ astray' = (doomed # {})
  /\ UNCHANGED doomed

(* The page may show the list in the other order, or in the course of a     *)
(* removal, and the promise is off.                                         *)
Redrawn ==
  /\ Len(list) > 1 \/ doomed # {}
  /\ astray' = TRUE
  /\ UNCHANGED <<list, current, doomed>>

(* While the promise is off the wrong song may go or become the current one,*)
(* but still one at a time. *)
Stray ==
  /\ astray /\ astray'
  /\ list' = list \/ \E i \in 1 .. Len(list) : list' = Dropped(i)

Next ==
  \/ \E s \in Song : Add(s)
  \/ \E i \in 0 .. Len(list) - 1 : Choose(i)
  \/ \E i \in 1 .. Len(list), way \in Way : Doom(i, way) \/ Remove(i, way)
  \/ Clear
  \/ Redrawn
  \/ Stray

Spec == Init /\ [][Next]_vars
=============================================================================
