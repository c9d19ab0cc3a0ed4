------------------------------ MODULE Playlist ------------------------------
(***************************************************************************)
(* The list of songs of the web client: the array that the program plays   *)
(* from and the <li> items the page shows, newest first.  A song enters    *)
(* both at once, but leaves them in two steps: the handler of a click      *)
(* computes an index and starts the slideUp animation, and the animation's *)
(* callback, a fraction of a second later, turns that index into one of    *)
(* the array as it is then.  The operators here compute what one handler   *)
(* does to the list; Player composes them with the selection of songs.     *)
(***************************************************************************)
EXTENDS Integers, Sequences, FiniteSets

CONSTANTS
  Song,       \* songs, told apart by their file
  NoSong,     \* no song
  MaxSlides,  \* bound: animations under way
  MaxIds      \* bound: elements of the page, attached or not

ASSUME PlaylistAssumption == NoSong \notin Song /\ MaxSlides \in Nat /\ MaxIds \in Nat

VARIABLES
  playlist,   \* the array of songs, oldest first
  current,    \* index, from 0, of the current song
  removing,   \* whether a removal is under way
  dom,        \* the items of the page, top first
  slides,     \* the removals whose animation has not ended
  torn        \* history: the list grew, or was cleared or shown anew, under an
              \* animation, or several songs were shown anew, and the list was not
              \* cleared without an animation since

listVars == <<playlist, current, removing, dom, slides, torn>>

Item == [id : Nat, song : Song]
NoItem == [id |-> 0, song |-> NoSong]
Direction == {"this", "up", "down"}
Slide == [item : Item, index : Nat, dir : Direction, next : Item \cup {NoItem}]

InList(s) == \E i \in DOMAIN playlist : playlist[i] = s
OnPage(x) == \E i \in DOMAIN dom : dom[i] = x
SongAt(i) == playlist[i + 1]

(* _getDisplayedIndex: the items are in the reverse order of the array. *)
DisplayedIndex(list, index) == Len(list) - 1 - index

(* Array.splice(i, 1): a negative index counts from the end. *)
Splice(list, i) ==
  LET start == IF i >= 0 THEN i ELSE IF Len(list) + i > 0 THEN Len(list) + i ELSE 0
  IN  IF start >= Len(list) THEN list
      ELSE [j \in 1 .. Len(list) - 1 |-> IF j <= start THEN list[j] ELSE list[j + 1]]

Position(page, x) == CHOOSE i \in DOMAIN page : page[i] = x

Without(page, x) ==
  IF \E i \in DOMAIN page : page[i] = x THEN Splice(page, Position(page, x) - 1) ELSE page

(* The identity of a new element: the least one that is free. *)
FreshId(n) ==
  LET Used(m) == \/ \E i \in DOMAIN dom : dom[i].id = m
                 \/ \E k \in slides : k.item.id = m \/ k.next.id = m
  IN  ~Used(n) /\ \A m \in 1 .. n - 1 : Used(m)

ListInit ==
  /\ playlist = << >>
  /\ current = 0
  /\ removing = FALSE
  /\ dom = << >>
  /\ slides = {}
  /\ torn = FALSE

(* add of one song that is not listed yet: the item is shown on top. *)
Push(s) ==
  /\ playlist' = Append(playlist, s)
  /\ \E n \in 1 .. MaxIds :
       FreshId(n) /\ dom' = <<[id |-> n, song |-> s]>> \o dom
  /\ torn' = (torn \/ slides # {})
  /\ UNCHANGED <<removing, slides>>

(* setPlaylist([], true), the clear of types.ts: the items are detached at *)
(* once, while the animations that run on them go on.                      *)
Clear ==
  /\ playlist' = << >>
  /\ current' = 0
  /\ removing' = FALSE
  /\ dom' = << >>
  /\ torn' = (slides # {})
  /\ UNCHANGED slides

(* _refresh: the page is emptied and shows the list anew, in the order of   *)
(* the array this time.  The items are new elements: the animations that   *)
(* run on the old ones go on.                                              *)
Redraw ==
  /\ \E n \in 0 .. MaxIds - Len(playlist) :
       /\ \A k \in slides : k.item.id <= n /\ k.next.id <= n
       /\ n = 0 \/ \E k \in slides : n \in {k.item.id, k.next.id}
       /\ dom' = [i \in DOMAIN playlist |-> [id |-> n + i, song |-> playlist[i]]]
  /\ torn' = (torn \/ slides # {} \/ Len(playlist) > 1)
  /\ UNCHANGED <<playlist, removing, slides>>

(* removeItemAux and remove up to the animation, on the given page.  The    *)
(* next item of "remove up" and "remove down" is looked up before this one *)
(* goes; an item that is no longer on the page has index -1, for which     *)
(* remove calls itself without its object and throws.                      *)
Started(page, list, busy, x, dir) ==
  IF busy \/ ~\E i \in DOMAIN page : page[i] = x THEN {}
  ELSE LET at == Position(page, x)
           beside == IF dir = "up" THEN at - 1 ELSE at + 1
       IN  {[item |-> x, index |-> at - 1, dir |-> dir,
             next |-> IF dir # "this" /\ beside \in DOMAIN page THEN page[beside] ELSE NoItem]}

Busy(list, started) == \E k \in started : k.index < Len(list)

StartRemoval(x, dir) ==
  LET started == Started(dom, playlist, removing, x, dir)
  IN  /\ slides' = slides \cup started
      /\ removing' = (removing \/ Busy(playlist, started))
      /\ UNCHANGED <<playlist, current, dom, torn>>

(* Seeded faults: the current index goes back whichever song goes, or is   *)
(* kept when one before it goes.                                           *)
CurrentBack(list, i) ==
  IF Len(list) = 0 THEN 0 ELSE IF i = current /\ i < Len(list) THEN current ELSE current - 1
CurrentKept(list, i) ==
  IF i = current /\ i >= Len(list) /\ Len(list) > 0 THEN Len(list) - 1
  ELSE IF Len(list) = 0 THEN 0 ELSE current

(* Where the current song is after the callback took out index i. *)
CurrentAfter(list, i) ==
  IF Len(list) = 0 THEN 0
  ELSE IF i = current THEN IF i < Len(list) THEN current ELSE Len(list) - 1
  ELSE IF i < current THEN current - 1
  ELSE current

(* Seeded faults: the index of the page taken for that of the list, the    *)
(* song that took the place of the current one not loaded, and the rest of *)
(* a removal up or down started before removing is reset.                  *)
SameIndex(k) == k.index
SelectsNothing(k) == FALSE
FinishStillBusy(k) ==
  /\ playlist' = Splice(playlist, DisplayedIndex(playlist, k.index))
  /\ dom' = Without(dom, k.item)
  /\ current' = CurrentAfter(playlist', DisplayedIndex(playlist, k.index))
  /\ slides' = slides \ {k}
  /\ removing' = FALSE
  /\ UNCHANGED torn

(* The callback of the animation, with the removal onEnd goes on with.  For *)
(* a current index of -1 select throws, and removing is left set.           *)
RemovedIndex(k) == DisplayedIndex(playlist, k.index)
Reselects(k) == Len(Splice(playlist, RemovedIndex(k))) > 0 /\ RemovedIndex(k) = current
Throws(k) == Reselects(k) /\ current < 0

FinishRemoval(k) ==
  LET list == Splice(playlist, RemovedIndex(k))
      page == Without(dom, k.item)
      started == IF k.next = NoItem \/ Throws(k) THEN {}
                 ELSE Started(page, list, FALSE, k.next, k.dir)
  IN  /\ playlist' = list
      /\ dom' = page
      /\ current' = CurrentAfter(list, RemovedIndex(k))
      /\ slides' = (slides \ {k}) \cup started
      /\ removing' = IF Throws(k) THEN removing ELSE Busy(list, started)
      /\ UNCHANGED torn
=============================================================================
