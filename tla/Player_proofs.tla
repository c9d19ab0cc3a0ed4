---------------------------- MODULE Player_proofs ---------------------------
(***************************************************************************)
(* Theorems about the list of songs of the web client (Playlist, Player):  *)
(* type correctness, that no song is listed twice, that the current index  *)
(* and the items of the page are those of the list, that a removal takes   *)
(* out the song that was clicked, as long as the list did not change under *)
(* its animation and was not shown anew, that the song that is loaded is   *)
(* the current one, that the end of a song leads to another one, that a    *)
(* removal of several songs spares none, and that Player implements        *)
(* SongList.                                                               *)
(***************************************************************************)
EXTENDS Player, SequenceTheorems, TLAPS

-----------------------------------------------------------------------------
(* What splice does to a sequence: it takes out one element or none. *)
LEMMA SpliceOut ==
  ASSUME NEW S, NEW list \in Seq(S), NEW i \in 0 .. Len(list) - 1
  PROVE  /\ Splice(list, i) \in Seq(S)
         /\ Len(Splice(list, i)) = Len(list) - 1
         /\ \A j \in 1 .. Len(list) - 1 :
              Splice(list, i)[j] = IF j <= i THEN list[j] ELSE list[j + 1]
<1>1. Len(list) \in Nat /\ \A j \in 1 .. Len(list) : list[j] \in S
  BY LenProperties, ElementOfSeq
<1>2. Splice(list, i) = [j \in 1 .. Len(list) - 1 |-> IF j <= i THEN list[j] ELSE list[j + 1]]
  BY <1>1 DEF Splice
<1>3. \A j \in 1 .. Len(list) - 1 : (IF j <= i THEN list[j] ELSE list[j + 1]) \in S
  BY <1>1
<1>4. Splice(list, i) \in Seq(S)
  BY <1>1, <1>2, <1>3, IsASeq
<1>5. Len(Splice(list, i)) = Len(list) - 1
  BY <1>1, <1>2, <1>4, LenProperties
<1> QED
  BY <1>2, <1>4, <1>5

(* The same for an index that is negative or past the end. *)
LEMMA SpliceAny ==
  ASSUME NEW S, NEW list \in Seq(S), NEW i \in Int
  PROVE  Splice(list, i) = list \/ \E n \in 0 .. Len(list) - 1 : Splice(list, i) = Splice(list, n)
<1>1. Len(list) \in Nat
  BY LenProperties
<1> DEFINE start == IF i >= 0 THEN i ELSE IF Len(list) + i > 0 THEN Len(list) + i ELSE 0
<1>2. start \in Nat
  BY <1>1
<1>3. CASE start >= Len(list)
  BY <1>3 DEF Splice
<1>4. CASE ~(start >= Len(list))
  <2>1. start \in 0 .. Len(list) - 1
    BY <1>1, <1>2, <1>4
  <2>2. Splice(list, i) = [j \in 1 .. Len(list) - 1 |-> IF j <= start THEN list[j] ELSE list[j + 1]]
    BY <1>4 DEF Splice
  <2>3. Splice(list, start)
          = [j \in 1 .. Len(list) - 1 |-> IF j <= start THEN list[j] ELSE list[j + 1]]
    <3> HIDE DEF start
    <3> QED BY <1>1, <2>1 DEF Splice
  <2> QED BY <2>1, <2>2, <2>3
<1> QED
  BY <1>3, <1>4

(* A sequence stays one of its elements, and without repetition. *)
LEMMA SpliceKeeps ==
  ASSUME NEW S, NEW list \in Seq(S), NEW i \in Int
  PROVE  /\ Splice(list, i) \in Seq(S)
         /\ (\A m, n \in DOMAIN list : list[m] = list[n] => m = n)
              => \A m, n \in DOMAIN Splice(list, i) :
                   Splice(list, i)[m] = Splice(list, i)[n] => m = n
<1>1. CASE Splice(list, i) = list
  BY <1>1
<1>2. ASSUME NEW n \in 0 .. Len(list) - 1, Splice(list, i) = Splice(list, n)
      PROVE  /\ Splice(list, i) \in Seq(S)
             /\ (\A a, b \in DOMAIN list : list[a] = list[b] => a = b)
                  => \A a, b \in DOMAIN Splice(list, i) :
                       Splice(list, i)[a] = Splice(list, i)[b] => a = b
  <2>1. /\ Splice(list, n) \in Seq(S)
        /\ Len(Splice(list, n)) = Len(list) - 1
        /\ \A j \in 1 .. Len(list) - 1 :
             Splice(list, n)[j] = IF j <= n THEN list[j] ELSE list[j + 1]
    BY SpliceOut
  <2>2. Len(list) \in Nat /\ DOMAIN list = 1 .. Len(list)
        /\ DOMAIN Splice(list, n) = 1 .. Len(list) - 1
    BY <2>1, LenProperties
  <2>3. ASSUME \A a, b \in DOMAIN list : list[a] = list[b] => a = b,
               NEW a \in DOMAIN Splice(list, n), NEW b \in DOMAIN Splice(list, n),
               Splice(list, n)[a] = Splice(list, n)[b]
        PROVE  a = b
    <3> DEFINE Was(j) == IF j <= n THEN j ELSE j + 1
    <3>1. /\ a \in 1 .. Len(list) - 1 /\ b \in 1 .. Len(list) - 1 /\ n \in Int
          /\ Was(a) \in DOMAIN list /\ Was(b) \in DOMAIN list
      BY <2>2
    <3>2. Splice(list, n)[a] = list[Was(a)] /\ Splice(list, n)[b] = list[Was(b)]
      BY <2>1, <3>1
    <3>3. Was(a) = Was(b)
      <4> HIDE DEF Was
      <4> QED BY <2>3, <3>1, <3>2
    <3> QED BY <3>1, <3>3
  <2> QED BY <1>2, <2>1, <2>3
<1> QED
  BY <1>1, <1>2, SpliceAny

-----------------------------------------------------------------------------
(* The list and the page, and how they are tied. *)
ListTyped ==
  /\ playlist \in Seq(Song) /\ current \in Int /\ removing \in BOOLEAN
  /\ dom \in Seq(Item) /\ slides \subseteq Slide /\ torn \in BOOLEAN

(* While the list did not grow under it, one removal is under way at most,
   and its index is that of its item. *)
OneRemoval ==
  ~torn => \A k \in slides : /\ removing
                             /\ k.index + 1 \in DOMAIN dom /\ dom[k.index + 1] = k.item
                             /\ \A l \in slides : l = k

ListInv == ListTyped /\ NoSongTwice /\ CurrentIsListed /\ PageShowsList /\ OneRemoval

(* What ListTyped says of the lengths and of the elements. *)
LEMMA ListFacts ==
  ASSUME ListTyped
  PROVE  /\ Len(playlist) \in Nat /\ DOMAIN playlist = 1 .. Len(playlist)
         /\ \A i \in DOMAIN playlist : playlist[i] \in Song
         /\ Len(dom) \in Nat /\ DOMAIN dom = 1 .. Len(dom)
         /\ \A i \in DOMAIN dom : dom[i] \in Item
BY LenProperties, ElementOfSeq DEF ListTyped

(* A step that leaves the list alone but for the current index, which is that
   of a song, keeps it right. *)
LEMMA IndexKeepsList ==
  ASSUME ListInv, UNCHANGED <<playlist, removing, dom, slides, torn>>,
         current' = current \/ current' \in 0 .. Len(playlist) - 1
  PROVE  ListInv'
<1>1. current' \in Int
  BY ListFacts DEF ListInv, ListTyped
<1> QED
  BY <1>1 DEF ListInv, ListTyped, NoSongTwice, CurrentIsListed, PageShowsList, OneRemoval, SongAt,
     DisplayedIndex

(* A song that is added is the last of the list and the first of the page. *)
LEMMA PushKeepsList ==
  ASSUME ListInv, NEW s \in Song, ~InList(s), Push(s),
         current' = current \/ current' = Len(playlist),
         playlist = << >> => current' = Len(playlist)
  PROVE  ListInv'
<1> DEFINE n == Len(playlist)
<1>1. PICK x \in 1 .. MaxIds : dom' = <<[id |-> x, song |-> s]>> \o dom
  BY DEF Push
<1> DEFINE item == [id |-> x, song |-> s]
<1>2. item \in Item
  BY PlaylistAssumption DEF Item
<1>3. /\ playlist' \in Seq(Song) /\ Len(playlist') = n + 1 /\ DOMAIN playlist' = 1 .. n + 1
      /\ \A i \in 1 .. n : playlist'[i] = playlist[i]
      /\ playlist'[n + 1] = s
  <2>1. playlist' = Append(playlist, s)
    BY DEF Push
  <2> QED BY <2>1, AppendProperties, LenProperties, ListFacts DEF ListInv, ListTyped
<1>4. /\ dom' \in Seq(Item) /\ Len(dom') = Len(dom) + 1 /\ DOMAIN dom' = 1 .. Len(dom) + 1
      /\ dom'[1] = item /\ \A i \in 2 .. Len(dom) + 1 : dom'[i] = dom[i - 1]
  <2>1. <<item>> \in Seq(Item) /\ Len(<<item>>) = 1 /\ <<item>>[1] = item
    BY <1>2
  <2> HIDE DEF item
  <2>2. dom \in Seq(Item) /\ Len(dom) \in Nat
    BY ListFacts DEF ListInv, ListTyped
  <2>3. dom' = <<item>> \o dom
    BY <1>1 DEF item
  <2> QED BY <2>1, <2>2, <2>3, ConcatProperties, LenProperties
<1> HIDE DEF item
<1>5. torn' = (torn \/ slides # {}) /\ removing' = removing /\ slides' = slides
  BY DEF Push
<1>6. Len(playlist) \in Nat /\ DOMAIN playlist = 1 .. Len(playlist) /\ Len(dom) \in Nat
      /\ DOMAIN dom = 1 .. Len(dom)
  BY ListFacts DEF ListInv
<1>7. ListTyped'
  BY <1>3, <1>4, <1>5, <1>6 DEF ListInv, ListTyped
<1>8. NoSongTwice'
  BY <1>3, <1>6 DEF ListInv, NoSongTwice, InList
<1>9. CurrentIsListed'
  <2>1. CASE playlist = << >>
    BY <1>3, <1>6, <2>1 DEF CurrentIsListed
  <2>2. CASE playlist # << >>
    <3> SUFFICES ASSUME ~torn' PROVE current' \in 0 .. Len(playlist') - 1
      BY DEF CurrentIsListed
    <3>1. current \in 0 .. n - 1
      BY <1>5, <2>2 DEF ListInv, CurrentIsListed
    <3>2. current' = current \/ current' = n
      OBVIOUS
    <3> QED BY <1>3, <1>6, <3>1, <3>2
  <2> QED BY <2>1, <2>2
<1>10. PageShowsList'
  <2> SUFFICES ASSUME ~torn'
               PROVE  /\ Len(dom') = Len(playlist')
                      /\ \A i \in DOMAIN dom' :
                           dom'[i].song = playlist'[Len(playlist') - 1 - (i - 1) + 1]
    BY DEF PageShowsList, SongAt, DisplayedIndex
  <2>1. Len(dom) = n
        /\ \A i \in 1 .. n : dom[i].song = playlist[n - 1 - (i - 1) + 1]
    BY <1>5, <1>6 DEF ListInv, PageShowsList, SongAt, DisplayedIndex
  <2>2. Len(dom') = Len(playlist')
    BY <1>3, <1>4, <2>1
  <2>3. ASSUME NEW i \in 1 .. n + 1
        PROVE  dom'[i].song = playlist'[n + 1 - 1 - (i - 1) + 1]
    <3>1. CASE i = 1
      BY <1>3, <1>4, <1>6, <3>1 DEF item
    <3>2. CASE i # 1
      <4>1. i - 1 \in 1 .. n /\ i \in 2 .. n + 1
        BY <1>6, <3>2
      <4>2. dom'[i] = dom[i - 1]
        BY <1>4, <2>1, <4>1
      <4>3. dom[i - 1].song = playlist[n - 1 - ((i - 1) - 1) + 1]
        BY <2>1, <4>1
      <4>4. n - 1 - ((i - 1) - 1) + 1 = n + 1 - 1 - (i - 1) + 1
            /\ n - 1 - ((i - 1) - 1) + 1 \in 1 .. n
        BY <1>6, <4>1
      <4> HIDE DEF n
      <4> QED BY <1>3, <4>2, <4>3, <4>4
    <3> QED BY <3>1, <3>2
  <2> QED BY <1>3, <1>4, <2>1, <2>2, <2>3
<1>11. OneRemoval'
  BY <1>5 DEF OneRemoval
<1> QED
  BY <1>7, <1>8, <1>9, <1>10, <1>11 DEF ListInv

(* A list that is cleared is empty, and so is the page. *)
LEMMA ClearKeepsList == ASSUME ListInv, Clear PROVE ListInv'
<1>1. torn' = (slides # {}) /\ slides' = slides /\ removing' = FALSE
      /\ playlist' = << >> /\ dom' = << >> /\ current' = 0
  BY DEF Clear
<1>2. torn' \in BOOLEAN /\ removing' \in BOOLEAN
  BY <1>1
<1>3. << >> \in Seq(Song) /\ << >> \in Seq(Item) /\ Len(<< >>) = 0 /\ DOMAIN << >> = {}
  OBVIOUS
<1>4. ListTyped'
  BY <1>1, <1>2, <1>3 DEF ListInv, ListTyped
<1>5. NoSongTwice' /\ CurrentIsListed' /\ PageShowsList'
  BY <1>1, <1>3 DEF NoSongTwice, CurrentIsListed, PageShowsList
<1>6. OneRemoval'
  BY <1>1 DEF OneRemoval
<1> QED
  BY <1>4, <1>5, <1>6 DEF ListInv

(* A list of one song that is shown anew is the page, whichever way round; with
   more songs, or under an animation, nothing is claimed any more. *)
LEMMA RedrawKeepsList ==
  ASSUME ListInv, Redraw, current' = current \/ current' \in 0 .. Len(playlist) - 1
  PROVE  ListInv'
<1> DEFINE count == Len(playlist)
<1>1. PICK n \in 0 .. MaxIds - count :
        dom' = [i \in DOMAIN playlist |-> [id |-> n + i, song |-> playlist[i]]]
  BY DEF Redraw
<1>2. torn' = (torn \/ slides # {} \/ count > 1)
      /\ UNCHANGED <<playlist, removing, slides>>
  BY DEF Redraw
<1>3. /\ count \in Nat /\ DOMAIN playlist = 1 .. count /\ n \in Nat
      /\ \A i \in 1 .. count : playlist[i] \in Song
  BY PlaylistAssumption, ListFacts DEF ListInv
<1> HIDE DEF count
<1>4. \A i \in 1 .. count : [id |-> n + i, song |-> playlist[i]] \in Item
  BY <1>3 DEF Item
<1>5. dom' = [i \in 1 .. count |-> [id |-> n + i, song |-> playlist[i]]]
  BY <1>1, <1>3
<1>6. dom' \in Seq(Item)
  BY <1>3, <1>4, <1>5, IsASeq
<1>7. Len(dom') = count /\ DOMAIN dom' = 1 .. count
      /\ \A i \in 1 .. count : dom'[i].song = playlist[i]
  BY <1>3, <1>5, <1>6, LenProperties
<1>8. current' \in Int
  BY <1>3 DEF ListInv, ListTyped, count
<1>9. torn' \in BOOLEAN
  BY <1>2
<1>10. ListTyped'
  BY <1>2, <1>6, <1>8, <1>9 DEF ListInv, ListTyped
<1>11. NoSongTwice'
  BY <1>2 DEF ListInv, NoSongTwice
<1>12. CurrentIsListed'
  BY <1>2 DEF ListInv, CurrentIsListed
<1>13. PageShowsList'
  <2> SUFFICES ASSUME ~torn'
               PROVE  /\ Len(dom') = Len(playlist')
                      /\ \A i \in DOMAIN dom' :
                           dom'[i].song = playlist'[Len(playlist') - 1 - (i - 1) + 1]
    BY DEF PageShowsList, SongAt, DisplayedIndex
  <2>0. ~(count > 1) /\ playlist' = playlist
    BY <1>2
  <2>1. count <= 1 /\ playlist' = playlist /\ Len(playlist') = count
    BY <1>3, <2>0 DEF count
  <2>2. \A i \in 1 .. count : count - 1 - (i - 1) + 1 = i
    BY <1>3, <2>1
  <2> QED BY <1>7, <2>1, <2>2
<1>14. OneRemoval'
  BY <1>2 DEF OneRemoval
<1> QED
  BY <1>10, <1>11, <1>12, <1>13, <1>14 DEF ListInv

-----------------------------------------------------------------------------
(* The removal that starts has the item that was clicked, and its index. *)
LEMMA StartedIs ==
  ASSUME NEW page \in Seq(Item), NEW list, NEW busy \in BOOLEAN, NEW x \in Item \cup {NoItem},
         NEW dir \in Direction, NEW k \in Started(page, list, busy, x, dir)
  PROVE  /\ k \in Slide /\ k.item = x /\ k.index \in Nat
         /\ k.index + 1 \in DOMAIN page /\ page[k.index + 1] = x
         /\ \A l \in Started(page, list, busy, x, dir) : l = k
<1>1. Len(page) \in Nat /\ DOMAIN page = 1 .. Len(page) /\ \A i \in DOMAIN page : page[i] \in Item
  BY LenProperties, ElementOfSeq
<1>2. ~busy /\ \E i \in DOMAIN page : page[i] = x
  BY DEF Started
<1> DEFINE at == Position(page, x)
           beside == IF dir = "up" THEN at - 1 ELSE at + 1
           next == IF dir # "this" /\ beside \in DOMAIN page THEN page[beside] ELSE NoItem
<1>3. at \in DOMAIN page /\ page[at] = x
  BY <1>2 DEF Position
<1>4. Started(page, list, busy, x, dir)
        = {[item |-> x, index |-> at - 1, dir |-> dir, next |-> next]}
  BY <1>2 DEF Started
<1>5. x \in Item /\ at - 1 \in Nat /\ next \in Item \cup {NoItem} /\ at - 1 + 1 = at
  BY <1>1, <1>3
<1> HIDE DEF at, next
<1>6. [item |-> x, index |-> at - 1, dir |-> dir, next |-> next] \in Slide
  BY <1>5 DEF Slide
<1>7. k = [item |-> x, index |-> at - 1, dir |-> dir, next |-> next]
  BY <1>4
<1> QED
  BY <1>3, <1>4, <1>5, <1>6, <1>7

(* A removal that a click starts is the only one, and leaves the list. *)
LEMMA StartKeepsList ==
  ASSUME ListInv, ~removing, NEW x \in Item, NEW dir \in Direction, StartRemoval(x, dir)
  PROVE  ListInv'
<1> DEFINE started == Started(dom, playlist, removing, x, dir)
<1>1. /\ slides' = slides \cup started
      /\ removing' = (removing \/ Busy(playlist, started))
      /\ UNCHANGED <<playlist, current, dom, torn>>
  BY DEF StartRemoval
<1>2. dom \in Seq(Item) /\ removing \in BOOLEAN
  BY DEF ListInv, ListTyped
<1>3. \A k \in started : /\ k \in Slide /\ k.item = x /\ k.index \in Nat
                         /\ k.index + 1 \in DOMAIN dom /\ dom[k.index + 1] = x
                         /\ \A l \in started : l = k
  BY <1>2, StartedIs
<1> HIDE DEF started
<1>4. removing' \in BOOLEAN
  BY <1>1
<1>5. ListTyped'
  BY <1>1, <1>3, <1>4 DEF ListInv, ListTyped
<1>6. NoSongTwice' /\ CurrentIsListed' /\ PageShowsList'
  BY <1>1 DEF ListInv, NoSongTwice, CurrentIsListed, PageShowsList, SongAt, DisplayedIndex
<1>7. OneRemoval'
  <2> SUFFICES ASSUME ~torn', NEW k \in slides'
               PROVE  /\ removing'
                      /\ k.index + 1 \in DOMAIN dom /\ dom[k.index + 1] = k.item
                      /\ \A l \in slides' : l = k
    BY <1>1 DEF OneRemoval
  <2>1. ~torn /\ Len(dom) = Len(playlist)
    BY <1>1 DEF ListInv, PageShowsList
  <2>2. slides = {}
    BY <2>1 DEF ListInv, OneRemoval
  <2>3. slides' = started /\ k \in started
    BY <1>1, <2>2
  <2>4. k.index < Len(playlist)
    BY <1>3, <2>1, <2>3, ListFacts DEF ListInv
  <2>5. removing'
    BY <1>1, <2>3, <2>4 DEF Busy
  <2> QED BY <1>3, <2>3, <2>5
<1> QED
  BY <1>5, <1>6, <1>7 DEF ListInv

(* The removal that ends: what it does to the list, the page and the index. *)
LEMMA FinishIs ==
  ASSUME ListInv, NEW k \in slides, FinishRemoval(k), ~torn
  PROVE  /\ k.index \in Nat /\ RemovedIndex(k) \in 0 .. Len(playlist) - 1
         /\ RemovedIndex(k) = Len(playlist) - 1 - k.index
         /\ playlist[RemovedIndex(k) + 1] = k.item.song
         /\ dom' = Splice(dom, k.index)
         /\ current \in 0 .. Len(playlist) - 1
<1>1. /\ k \in Slide /\ k.index + 1 \in DOMAIN dom /\ dom[k.index + 1] = k.item
      /\ Len(dom) = Len(playlist)
      /\ \A i \in DOMAIN dom : dom[i].song = playlist[Len(playlist) - 1 - (i - 1) + 1]
  BY DEF ListInv, ListTyped, OneRemoval, PageShowsList, SongAt, DisplayedIndex
<1>2. Len(playlist) \in Nat /\ DOMAIN dom = 1 .. Len(playlist)
      /\ DOMAIN playlist = 1 .. Len(playlist)
  BY <1>1, ListFacts DEF ListInv
<1>3. k.index \in Nat /\ k.index < Len(playlist)
  BY <1>1, <1>2 DEF Slide
<1>4. RemovedIndex(k) = Len(playlist) - 1 - k.index
      /\ RemovedIndex(k) \in 0 .. Len(playlist) - 1
  BY <1>2, <1>3 DEF RemovedIndex, DisplayedIndex
<1>5. playlist[RemovedIndex(k) + 1] = k.item.song
  <2>1. Len(playlist) - 1 - ((k.index + 1) - 1) + 1 = RemovedIndex(k) + 1
    BY <1>2, <1>3, <1>4
  <2> QED BY <1>1, <2>1
<1>6. Position(dom, k.item) = k.index + 1
  <2> DEFINE p == Position(dom, k.item)
  <2>1. p \in DOMAIN dom /\ dom[p] = k.item
    BY <1>1 DEF Position
  <2> HIDE DEF p
  <2>2. playlist[Len(playlist) - 1 - (p - 1) + 1] = k.item.song
    BY <1>1, <2>1
  <2>3. Len(playlist) - 1 - (p - 1) + 1 \in DOMAIN playlist
        /\ RemovedIndex(k) + 1 \in DOMAIN playlist
    BY <1>2, <1>4, <2>1
  <2>4. Len(playlist) - 1 - (p - 1) + 1 = RemovedIndex(k) + 1
    BY <1>5, <2>2, <2>3 DEF ListInv, NoSongTwice
  <2>5. p = k.index + 1
    BY <1>2, <1>3, <1>4, <2>1, <2>4
  <2> QED BY <2>5 DEF p
<1>7. Without(dom, k.item) = Splice(dom, k.index)
  BY <1>1, <1>3, <1>6 DEF Without
<1>8. current \in 0 .. Len(playlist) - 1
  BY <1>2, <1>3 DEF ListInv, CurrentIsListed
<1> QED
  BY <1>3, <1>4, <1>5, <1>7, <1>8 DEF FinishRemoval

(* The list that is left is that without the song, and the current song is
   where it was found, unless it is the one that went. *)
LEMMA FinishIsExact ==
  ASSUME ListInv, NEW k \in slides, FinishRemoval(k), ~torn
  PROVE  /\ playlist' \in Seq(Song) /\ Len(playlist') = Len(playlist) - 1
         /\ \A j \in 1 .. Len(playlist) - 1 :
              playlist'[j] = IF j <= RemovedIndex(k) THEN playlist[j] ELSE playlist[j + 1]
         /\ current' \in 0 .. Len(playlist') - 1 \/ (playlist' = << >> /\ current' = 0)
         /\ Listed' = Listed \ {k.item.song}
         /\ CurrentSong # k.item.song => CurrentSong' = CurrentSong
<1> DEFINE n == Len(playlist)
           r == RemovedIndex(k)
<1>1. /\ r \in 0 .. n - 1 /\ playlist[r + 1] = k.item.song /\ current \in 0 .. n - 1
      /\ playlist \in Seq(Song) /\ n \in Nat /\ DOMAIN playlist = 1 .. n
  BY FinishIs, ListFacts DEF ListInv, ListTyped
<1>2. playlist' = Splice(playlist, r) /\ current' = CurrentAfter(playlist', r)
  BY DEF FinishRemoval
<1>3. /\ playlist' \in Seq(Song) /\ Len(playlist') = n - 1
      /\ \A j \in 1 .. n - 1 : playlist'[j] = IF j <= r THEN playlist[j] ELSE playlist[j + 1]
  BY <1>1, <1>2, SpliceOut
<1>4. DOMAIN playlist' = 1 .. n - 1
  BY <1>3, LenProperties
<1> HIDE DEF n, r
<1>5. /\ n = 1 => current' = 0
      /\ n # 1 /\ r = current => current' = IF r < n - 1 THEN current ELSE n - 2
      /\ n # 1 /\ r < current => current' = current - 1
      /\ n # 1 /\ r > current => current' = current
  BY <1>1, <1>2, <1>3 DEF CurrentAfter
<1>6. current' \in 0 .. n - 2 \/ (n = 1 /\ current' = 0)
  BY <1>1, <1>5
<1>7. current' \in 0 .. Len(playlist') - 1 \/ (playlist' = << >> /\ current' = 0)
  <2>1. CASE n = 1
    BY <1>3, <1>6, <2>1
  <2>2. CASE n # 1
    BY <1>1, <1>3, <1>6, <2>2
  <2> QED BY <2>1, <2>2
<1>8. Listed' = Listed \ {k.item.song}
  <2>1. ASSUME NEW s \in Listed' PROVE s \in Listed \ {k.item.song}
    <3>1. PICK j \in 1 .. n - 1 : s = playlist'[j]
      BY <1>4 DEF Listed
    <3>2. PICK i \in 1 .. n : s = playlist[i] /\ i # r + 1
      BY <1>1, <1>3, <3>1
    <3> QED BY <1>1, <3>2 DEF Listed, ListInv, NoSongTwice
  <2>2. ASSUME NEW s \in Listed, s # k.item.song PROVE s \in Listed'
    <3>1. PICK i \in 1 .. n : s = playlist[i]
      BY <1>1 DEF Listed
    <3>2. i # r + 1
      BY <1>1, <2>2, <3>1
    <3>3. \E j \in 1 .. n - 1 : playlist'[j] = playlist[i]
      <4>1. CASE i <= r
        <5>1. i \in 1 .. n - 1 /\ playlist'[i] = playlist[i]
          BY <1>1, <1>3, <4>1
        <5> QED BY <5>1
      <4>2. CASE i > r + 1
        <5>1. i - 1 \in 1 .. n - 1 /\ ~(i - 1 <= r) /\ i - 1 + 1 = i
          BY <1>1, <4>2
        <5>2. playlist'[i - 1] = playlist[i]
          BY <1>3, <5>1
        <5> QED BY <5>1, <5>2
      <4> QED BY <1>1, <3>2, <4>1, <4>2
    <3> QED BY <1>4, <3>1, <3>3 DEF Listed
  <2> QED BY <2>1, <2>2
<1>9. ASSUME CurrentSong # k.item.song PROVE CurrentSong' = CurrentSong
  <2>1. CurrentSong = playlist[current + 1]
    BY <1>1 DEF CurrentSong, SongAt, n
  <2>2. r # current /\ n # 1
    BY <1>1, <1>9, <2>1
  <2>3. current' \in 0 .. n - 2
    BY <1>6, <2>2
  <2>4. CurrentSong' = playlist'[current' + 1]
    <3>1. Len(playlist') - 1 = n - 2
      BY <1>1, <1>3
    <3> QED BY <2>3, <3>1 DEF CurrentSong, SongAt
  <2>5. playlist'[current' + 1] = playlist[current + 1]
    <3>1. CASE r < current
      <4>1. current' = current - 1 /\ current' + 1 = current /\ current \in 1 .. n - 1
            /\ ~(current <= r)
        BY <1>1, <1>5, <2>2, <3>1
      <4> QED BY <1>3, <4>1
    <3>2. CASE r > current
      <4>1. current' = current /\ current + 1 \in 1 .. n - 1 /\ current + 1 <= r
        BY <1>1, <1>5, <2>2, <3>2
      <4> QED BY <1>3, <4>1
    <3> QED BY <1>1, <2>2, <3>1, <3>2
  <2> QED BY <2>1, <2>4, <2>5
<1> QED
  BY <1>3, <1>7, <1>8, <1>9 DEF n, r

(* The types of what a removal that ends leaves. *)
LEMMA FinishTyped ==
  ASSUME ListTyped, NEW k \in slides, FinishRemoval(k)
  PROVE  ListTyped'
<1> DEFINE page == Without(dom, k.item)
           list == Splice(playlist, RemovedIndex(k))
           started == IF k.next = NoItem \/ Throws(k) THEN {}
                      ELSE Started(page, list, FALSE, k.next, k.dir)
<1>1. k \in Slide /\ k.index \in Nat /\ k.dir \in Direction /\ k.next \in Item \cup {NoItem}
  BY DEF ListTyped, Slide
<1>2. RemovedIndex(k) \in Int
  BY <1>1, ListFacts DEF RemovedIndex, DisplayedIndex
<1>3. list \in Seq(Song)
  BY <1>2, SpliceKeeps DEF ListTyped
<1>4. page \in Seq(Item)
  <2>1. CASE \E i \in DOMAIN dom : dom[i] = k.item
    <3>1. Position(dom, k.item) - 1 \in Int
      BY <2>1, ListFacts DEF Position
    <3>2. Splice(dom, Position(dom, k.item) - 1) \in Seq(Item)
      BY <3>1, SpliceKeeps DEF ListTyped
    <3> QED BY <2>1, <3>2 DEF Without
  <2>2. CASE ~\E i \in DOMAIN dom : dom[i] = k.item
    BY <2>2 DEF Without, ListTyped
  <2> QED BY <2>1, <2>2
<1> HIDE DEF page, list
<1>5. started \subseteq Slide
  BY <1>1, <1>4, StartedIs
<1>6. Len(list) \in Nat
  BY <1>3, LenProperties
<1>7. current' \in Int
  <2>1. current' = CurrentAfter(list, RemovedIndex(k))
    BY DEF FinishRemoval, list
  <2> QED BY <1>2, <1>6, <2>1 DEF CurrentAfter, ListTyped
<1>8. removing' \in BOOLEAN
  <2>1. removing' = IF Throws(k) THEN removing ELSE Busy(list, started)
    BY DEF FinishRemoval, list, page
  <2> QED BY <2>1 DEF ListTyped, Busy
<1>9. playlist' = list /\ dom' = page /\ slides' = (slides \ {k}) \cup started /\ torn' = torn
  BY DEF FinishRemoval, list, page
<1> HIDE DEF started
<1> QED
  BY <1>3, <1>4, <1>5, <1>7, <1>8, <1>9 DEF ListTyped

(* A removal that ends keeps the list right, and the next one that it starts
   is the only one under way. *)
LEMMA FinishKeepsList ==
  ASSUME ListInv, NEW k \in slides, FinishRemoval(k)
  PROVE  ListInv'
<1>1. ListTyped'
  BY FinishTyped DEF ListInv
<1>2. NoSongTwice'
  <2>1. RemovedIndex(k) \in Int /\ playlist \in Seq(Song)
    BY ListFacts DEF ListInv, ListTyped, Slide, RemovedIndex, DisplayedIndex
  <2>2. playlist' = Splice(playlist, RemovedIndex(k))
    BY DEF FinishRemoval
  <2>3. \A i, j \in DOMAIN playlist' : playlist'[i] = playlist'[j] => i = j
    <3> DEFINE r == RemovedIndex(k)
    <3>1. \A i, j \in DOMAIN playlist : playlist[i] = playlist[j] => i = j
      BY DEF ListInv, NoSongTwice
    <3> HIDE DEF r
    <3>2. \A i, j \in DOMAIN Splice(playlist, r) :
            Splice(playlist, r)[i] = Splice(playlist, r)[j] => i = j
      BY <2>1, <3>1, SpliceKeeps DEF r
    <3> QED BY <2>2, <3>2 DEF r
  <2> QED BY <2>3 DEF NoSongTwice
<1>3. torn' = torn
  BY DEF FinishRemoval
<1>4. CurrentIsListed'
  BY <1>3, FinishIsExact DEF CurrentIsListed
<1>5. ASSUME ~torn PROVE PageShowsList' /\ OneRemoval'
  <2> DEFINE n == Len(playlist)
             r == RemovedIndex(k)
  <2>1. /\ k.index \in Nat /\ r \in 0 .. n - 1 /\ r = n - 1 - k.index
        /\ dom' = Splice(dom, k.index)
    BY <1>5, FinishIs
  <2>2. /\ n \in Nat /\ Len(dom) = n /\ dom \in Seq(Item)
        /\ \A i \in 1 .. n : dom[i].song = playlist[n - 1 - (i - 1) + 1]
    BY <1>5, ListFacts DEF ListInv, ListTyped, PageShowsList, SongAt, DisplayedIndex
  <2>3. k.index \in 0 .. n - 1
    BY <2>1, <2>2
  <2>4. /\ dom' \in Seq(Item) /\ Len(dom') = n - 1
        /\ \A j \in 1 .. n - 1 : dom'[j] = IF j <= k.index THEN dom[j] ELSE dom[j + 1]
    <3>1. k.index \in 0 .. Len(dom) - 1
      BY <2>2, <2>3
    <3> HIDE DEF n
    <3> QED BY <2>1, <2>2, <3>1, SpliceOut
  <2>5. DOMAIN dom' = 1 .. n - 1
    BY <2>4, LenProperties
  <2>6. /\ Len(playlist') = n - 1
        /\ \A j \in 1 .. n - 1 : playlist'[j] = IF j <= r THEN playlist[j] ELSE playlist[j + 1]
    BY <1>5, FinishIsExact
  <2> HIDE DEF n, r
  <2>7. ASSUME NEW i \in 1 .. n - 1
        PROVE  dom'[i].song = playlist'[n - 1 - 1 - (i - 1) + 1]
    <3>1. n - 1 - 1 - (i - 1) + 1 = n - i /\ n - i \in 1 .. n - 1
      BY <2>2
    <3>2. CASE i <= k.index
      <4>1. dom'[i].song = playlist[n - 1 - (i - 1) + 1] /\ n - 1 - (i - 1) + 1 = n - i + 1
        BY <2>2, <2>4, <3>2
      <4>2. ~(n - i <= r)
        BY <2>1, <2>2, <3>2
      <4> QED BY <2>6, <3>1, <4>1, <4>2
    <3>3. CASE ~(i <= k.index)
      <4>1. i + 1 \in 1 .. n /\ n - 1 - ((i + 1) - 1) + 1 = n - i
        BY <2>2
      <4>2. dom'[i].song = playlist[n - i]
        BY <2>2, <2>4, <3>3, <4>1
      <4>3. n - i <= r
        BY <2>1, <2>2, <3>3
      <4> QED BY <2>6, <3>1, <4>2, <4>3
    <3> QED BY <3>2, <3>3
  <2>8. PageShowsList'
    BY <2>4, <2>5, <2>6, <2>7 DEF PageShowsList, SongAt, DisplayedIndex
  <2>9. OneRemoval'
    <3> DEFINE page == Without(dom, k.item)
               list == Splice(playlist, RemovedIndex(k))
               started == IF k.next = NoItem \/ Throws(k) THEN {}
                          ELSE Started(page, list, FALSE, k.next, k.dir)
    <3>1. slides \ {k} = {}
      BY <1>5 DEF ListInv, OneRemoval
    <3>2. playlist' = list /\ dom' = page /\ slides' = (slides \ {k}) \cup started
          /\ removing' = IF Throws(k) THEN removing ELSE Busy(list, started)
      BY DEF FinishRemoval
    <3>3. page \in Seq(Item)
      BY <2>4, <3>2
    <3>4. k.next \in Item \cup {NoItem} /\ k.dir \in Direction
      BY DEF ListInv, ListTyped, Slide
    <3> SUFFICES ASSUME NEW l \in slides'
                 PROVE  /\ removing'
                        /\ l.index + 1 \in DOMAIN dom' /\ dom'[l.index + 1] = l.item
                        /\ \A m \in slides' : m = l
      BY DEF OneRemoval
    <3>5. slides' = started /\ ~Throws(k)
      BY <3>1, <3>2
    <3> HIDE DEF page, list
    <3>6. l \in Started(page, list, FALSE, k.next, k.dir)
          /\ started = Started(page, list, FALSE, k.next, k.dir)
      BY <3>5
    <3>7. /\ l.item = k.next /\ l.index \in Nat
          /\ l.index + 1 \in DOMAIN page /\ page[l.index + 1] = k.next
          /\ \A m \in Started(page, list, FALSE, k.next, k.dir) : m = l
      <4> DEFINE x == k.next
                 dir == k.dir
      <4>1. x \in Item \cup {NoItem} /\ dir \in Direction
            /\ l \in Started(page, list, FALSE, x, dir)
        BY <3>4, <3>6
      <4> HIDE DEF x, dir
      <4>2. /\ l.item = x /\ l.index \in Nat
            /\ l.index + 1 \in DOMAIN page /\ page[l.index + 1] = x
            /\ \A m \in Started(page, list, FALSE, x, dir) : m = l
        BY <3>3, <4>1, StartedIs
      <4> QED BY <4>2 DEF x, dir
    <3> HIDE DEF started
    <3>8. removing'
      <4>1. l.index < Len(list)
        BY <2>2, <2>5, <2>6, <3>2, <3>7
      <4> QED BY <3>2, <3>5, <4>1 DEF Busy
    <3> QED BY <3>2, <3>5, <3>6, <3>7, <3>8
  <2> QED BY <2>8, <2>9
<1> QED
  BY <1>1, <1>2, <1>3, <1>4, <1>5 DEF ListInv, PageShowsList, OneRemoval

-----------------------------------------------------------------------------
(* The event loop: the callbacks, the downloads and the audio element. *)
Queues == micro \in Seq(Callback) /\ loads \in [Song -> Seq(Then)] /\ late \in BOOLEAN

LoopTyped ==
  /\ Queues /\ remote \subseteq Song /\ broken \subseteq Song
  /\ random \in 0 .. MaxRandom /\ media \in Media /\ ready \in BOOLEAN

Inv == ListInv /\ LoopTyped

(* What the callbacks are made of. *)
LEMMA Callbacks ==
  /\ Nothing \in Then /\ PlayIt \in Then
  /\ \A songs \in Seq(Song), index \in Nat : Restoring(songs, index) \in Then
  /\ \A s \in Song \cup {NoSong}, then \in Then : SetMediaOf(s, then) \in Callback
  /\ \A then \in Then : Continue(then) \in Callback
  /\ \A s \in Song \cup {NoSong} : ResetOf(s) \in Callback
  /\ \A s \in Song : AddOf(s) \in Callback
<1>1. Nothing \in Then
  BY DEF Nothing, Then
<1>2. PlayIt \in Then
  <2>1. PlayIt = [do |-> "play", songs |-> << >>, index |-> 0]
    BY DEF Nothing, PlayIt
  <2> QED BY <2>1 DEF Then
<1> QED
  BY <1>1, <1>2 DEF Restoring, Then, SetMediaOf, Continue, AddOf, ResetOf, Callback

(* What the operations of jPlayer leave is its state, and a rejected play asks
   for a reset. *)
LEMMA MediaOps ==
  /\ \A m \in Media : /\ Pause(m) \in Media /\ Stop(m) \in Media /\ Play(m) \in Media
                      /\ Reset(m) \in Media /\ Unanswered(m) \in Media
                      /\ Rejected(m) \in Seq(Callback)
  /\ \A s \in Song \cup {NoSong} : Loaded(s) \in Media
<1>1. ASSUME NEW m \in Media PROVE Paused(m) \in Media
  BY DEF Media, Paused
<1>2. ASSUME NEW m \in Media PROVE Pause(m) \in Media /\ Reset(m) \in Media
  BY <1>1 DEF Media, Pause, Reset
<1>3. ASSUME NEW m \in Media PROVE Stop(m) \in Media
  BY <1>1 DEF Media, Stop
<1>4. ASSUME NEW m \in Media PROVE Play(m) \in Media
  BY DEF Media, Play
<1>5. ASSUME NEW m \in Media PROVE Unanswered(m) \in Media
  BY DEF Media, Unanswered
<1>6. ASSUME NEW m \in Media PROVE Rejected(m) \in Seq(Callback)
  <2>1. m.song \in Song \cup {NoSong}
    BY DEF Media
  <2>2. ResetOf(m.song) \in Callback
    BY <2>1, Callbacks
  <2> QED BY <2>2 DEF Rejected
<1>7. ASSUME NEW s \in Song \cup {NoSong} PROVE Loaded(s) \in Media
  BY <1>7 DEF Media, Loaded
<1> QED
  BY <1>2, <1>3, <1>4, <1>5, <1>6, <1>7

(* Selecting a song queues what follows it, or waits for its download. *)
LEMMA SelectTyped ==
  ASSUME Queues, NEW song \in Song, NEW then \in Then, NEW after \in Seq(Callback),
         Select(song, then, after)
  PROVE  Queues'
<1>1. SetMediaOf(song, then) \in Callback
  BY Callbacks
<1>2. micro' \in Seq(Callback)
  <2>1. Append(after, SetMediaOf(song, then)) \in Seq(Callback)
    BY <1>1, AppendProperties
  <2> QED BY <2>1 DEF Select
<1>3. loads' \in [Song -> Seq(Then)]
  <2>1. Append(loads[song], then) \in Seq(Then)
    BY AppendProperties DEF Queues
  <2> QED BY <2>1 DEF Select, Await, Queues
<1>4. late' \in BOOLEAN
  <2>1. late' = (late \/ Awaited)
    BY DEF Select
  <2> QED BY <2>1
<1> QED
  BY <1>2, <1>3, <1>4 DEF Queues

(* Selecting a song of the list. *)
LEMMA SelectAtKeeps ==
  ASSUME ListInv, Queues, NEW index \in 0 .. Len(playlist) - 1, NEW then \in Then,
         NEW after \in Seq(Callback), SelectAt(index, then, after),
         UNCHANGED <<playlist, removing, dom, slides, torn>>
  PROVE  ListInv' /\ Queues'
<1>1. SongAt(index) \in Song
  BY ListFacts DEF ListInv, SongAt
<1>2. Queues'
  BY <1>1, SelectTyped DEF SelectAt
<1>3. ListInv'
  BY IndexKeepsList DEF SelectAt
<1> QED
  BY <1>2, <1>3

(* Adding a song keeps the list right, whether it is played or not. *)
LEMMA AddKeeps ==
  ASSUME ListInv, Queues, NEW s \in Song, NEW playNow \in BOOLEAN, NEW then \in Then,
         NEW after \in Seq(Callback), Add(s, playNow, then, after)
  PROVE  ListInv' /\ Queues'
<1> DEFINE goes == IF then = Nothing THEN after ELSE Append(after, Continue(then))
<1>1. goes \in Seq(Callback)
  BY Callbacks, AppendProperties
<1>2. CASE InList(s)
  <2>1. NoSelect(goes) /\ UNCHANGED listVars
    BY <1>2 DEF Add
  <2>2. Queues'
    BY <1>1, <2>1 DEF NoSelect, Queues
  <2>3. ListInv'
    BY <2>1, IndexKeepsList DEF listVars
  <2> QED BY <2>2, <2>3
<1>3. CASE ~InList(s) /\ (playNow \/ playlist = << >>)
  <2>1. Push(s) /\ current' = Len(playlist)
        /\ Select(s, IF playNow THEN PlayIt ELSE then, after)
    BY <1>3 DEF Add
  <2>2. (IF playNow THEN PlayIt ELSE then) \in Then
    BY Callbacks
  <2>3. Queues'
    BY <2>1, <2>2, SelectTyped
  <2>4. ListInv'
    BY <1>3, <2>1, PushKeepsList
  <2> QED BY <2>3, <2>4
<1>4. CASE ~InList(s) /\ ~playNow /\ playlist # << >>
  <2>1. Push(s) /\ UNCHANGED current /\ NoSelect(goes)
    BY <1>4 DEF Add
  <2>2. Queues'
    BY <1>1, <2>1 DEF NoSelect, Queues
  <2>3. ListInv'
    BY <1>4, <2>1, PushKeepsList
  <2> QED BY <2>2, <2>3
<1> QED
  BY <1>2, <1>3, <1>4

-----------------------------------------------------------------------------
(* The callbacks of the queue. *)
LEMMA CallbackKeeps == ASSUME Inv, RunCallback PROVE Inv'
<1> DEFINE c == Head(micro)
           rest == Tail(micro)
<1>1. c \in Callback /\ rest \in Seq(Callback)
  BY HeadTailProperties DEF Inv, LoopTyped, Queues, RunCallback
<1>2. c.song \in Song \cup {NoSong} /\ c.then \in Then
  BY <1>1 DEF Callback
<1>3. \/ c.do = "setMedia" /\ RunSetMedia(c, rest)
      \/ c.do = "then" /\ c.then.do = "play" /\ RunPlay(rest)
      \/ c.do = "then" /\ c.then.do = "restore" /\ RunRestore(c.then, rest)
      \/ c.do = "add" /\ RunAdd(c.song, rest)
      \/ c.do = "reset" /\ RunReset(rest)
  BY DEF RunCallback
<1> HIDE DEF c, rest
<1> USE DEF Inv, LoopTyped
<1>4. CASE RunSetMedia(c, rest)
  <2>1. media' \in Media /\ Rejected(media) \in Seq(Callback)
    BY <1>2, <1>4, MediaOps DEF RunSetMedia
  <2>2. (IF c.then = Nothing THEN << >> ELSE <<Continue(c.then)>>) \in Seq(Callback)
    BY <1>2, Callbacks
  <2>3. micro' \in Seq(Callback)
    BY <1>1, <1>4, <2>1, <2>2, ConcatProperties DEF RunSetMedia
  <2>4. ListInv'
    BY <1>4, IndexKeepsList DEF RunSetMedia, listVars
  <2> QED BY <1>4, <2>1, <2>3, <2>4 DEF RunSetMedia, Queues, history
<1>5. CASE RunPlay(rest)
  <2>1. media' \in Media
    BY <1>5, MediaOps DEF RunPlay
  <2>2. ListInv'
    BY <1>5, IndexKeepsList DEF RunPlay, listVars
  <2> QED BY <1>1, <1>5, <2>1, <2>2 DEF RunPlay, Queues, history
<1>6. CASE RunRestore(c.then, rest)
  <2> DEFINE then == c.then
  <2>1. then.songs \in Seq(Song) /\ then.index \in Nat /\ then \in Then
    BY <1>2 DEF Then
  <2> HIDE DEF then
  <2>2. UNCHANGED <<remote, ready, broken, random, media>>
    BY <1>6 DEF RunRestore
  <2>3. CASE then.songs # << >>
    <3>1. Head(then.songs) \in Song /\ Tail(then.songs) \in Seq(Song)
      BY <2>1, <2>3, HeadTailProperties
    <3>2. Restoring(Tail(then.songs), then.index) \in Then
      BY <2>1, <3>1, Callbacks
    <3>3. Add(Head(then.songs), FALSE, Restoring(Tail(then.songs), then.index), rest)
      BY <1>6, <2>3 DEF RunRestore, then
    <3>4. ListInv' /\ Queues'
      BY <1>1, <3>1, <3>2, <3>3, AddKeeps
    <3> QED BY <2>2, <3>4
  <2>4. CASE then.songs = << >> /\ then.index < Len(playlist)
    <3>1. /\ SelectAt(then.index, PlayIt, rest)
          /\ UNCHANGED <<playlist, removing, dom, slides, torn>>
      BY <1>6, <2>4 DEF RunRestore, then
    <3>2. then.index \in 0 .. Len(playlist) - 1
      BY <2>1, <2>4, ListFacts DEF ListInv
    <3>3. ListInv' /\ Queues'
      BY <1>1, <3>1, <3>2, SelectAtKeeps, Callbacks
    <3> QED BY <2>2, <3>3
  <2>5. CASE then.songs = << >> /\ ~(then.index < Len(playlist))
    <3>1. /\ current' = 0 /\ NoSelect(Append(rest, Continue(PlayIt)))
          /\ UNCHANGED <<playlist, removing, dom, slides, torn>>
      BY <1>6, <2>5 DEF RunRestore, then
    <3>2. Append(rest, Continue(PlayIt)) \in Seq(Callback)
      BY <1>1, Callbacks, AppendProperties
    <3>3. Queues'
      BY <3>1, <3>2 DEF NoSelect, Queues
    <3>4. ListInv'
      BY <3>1, ListFacts
      DEF ListInv, ListTyped, NoSongTwice, CurrentIsListed, PageShowsList, OneRemoval, SongAt,
          DisplayedIndex
    <3> QED BY <2>2, <3>3, <3>4
  <2> QED BY <2>3, <2>4, <2>5
<1>7. CASE RunAdd(c.song, rest) /\ c.do = "add"
  <2>1. c.song \in Song
    BY <1>1, <1>7 DEF Callback
  <2>2. ListInv' /\ Queues'
    BY <1>1, <1>7, <2>1, AddKeeps, Callbacks DEF RunAdd
  <2> QED BY <1>7, <2>2 DEF RunAdd
<1>8. CASE RunReset(rest)
  <2>1. media' \in Media
    BY <1>8, MediaOps DEF RunReset
  <2>2. ListInv'
    BY <1>8, IndexKeepsList DEF RunReset, listVars
  <2> QED BY <1>1, <1>8, <2>1, <2>2 DEF RunReset, Queues, history
<1> QED
  BY <1>3, <1>4, <1>5, <1>6, <1>7, <1>8

(* The songs that arrive, alone, as an album or with a saved playlist. *)
LEMMA ArrivalKeeps ==
  ASSUME Inv,
         \/ \E s \in Song, playNow \in BOOLEAN : SongArrives(s, playNow)
         \/ \E s \in Song : RandomArrives(s)
         \/ RandomFails
         \/ \E a \in Albums : AlbumArrives(a)
         \/ \E p \in Saved : Restore(p)
  PROVE  Inv'
<1> USE DEF Inv, LoopTyped
<1>a. << >> \in Seq(Callback) /\ Nothing \in Then
  BY Callbacks
<1>b. MaxRandom \in Nat
  BY PlayerAssumption
<1>1. ASSUME NEW s \in Song, NEW playNow \in BOOLEAN, SongArrives(s, playNow) PROVE Inv'
  <2>1. Add(s, playNow, Nothing, << >>) /\ UNCHANGED <<remote, ready, broken, random, media>>
    BY <1>1 DEF SongArrives
  <2>2. ListInv' /\ Queues'
    BY <1>a, <2>1, AddKeeps
  <2> QED BY <2>1, <2>2
<1>2. ASSUME NEW s \in Song, RandomArrives(s) PROVE Inv'
  <2>1. Add(s, TRUE, Nothing, << >>) /\ UNCHANGED <<remote, ready, broken>>
        /\ random > 0 /\ random' = random - 1
    BY <1>2 DEF RandomArrives
  <2>2. ListInv' /\ Queues'
    BY <1>a, <2>1, AddKeeps
  <2>3. media' \in Media
    BY <1>2, MediaOps DEF RandomArrives
  <2>4. random' \in 0 .. MaxRandom
    BY <1>b, <2>1
  <2> QED BY <2>1, <2>2, <2>3, <2>4
<1>3. CASE RandomFails
  <2>1. media' \in Media
    BY <1>3, MediaOps DEF RandomFails
  <2>2. random' \in 0 .. MaxRandom
    BY <1>b, <1>3 DEF RandomFails
  <2>3. ListInv' /\ Queues'
    BY <1>3, IndexKeepsList DEF RandomFails, listVars, history, Queues
  <2> QED BY <1>3, <2>1, <2>2, <2>3 DEF RandomFails
<1>4. ASSUME NEW a \in Albums, AlbumArrives(a) PROVE Inv'
  <2>1. a \in Seq(Song)
    BY PlayerAssumption
  <2>2. DOMAIN a = 1 .. Len(a) /\ Len(a) \in Nat /\ \A i \in 1 .. Len(a) : a[i] \in Song
    BY <2>1, LenProperties, ElementOfSeq
  <2>3. micro' = [i \in 1 .. Len(a) |-> AddOf(a[i])]
    BY <1>4, <2>2 DEF AlbumArrives
  <2>4. \A i \in 1 .. Len(a) : AddOf(a[i]) \in Callback
    BY <2>2, Callbacks
  <2>5. micro' \in Seq(Callback)
    BY <2>2, <2>3, <2>4, IsASeq
  <2>6. ListInv'
    BY <1>4, IndexKeepsList DEF AlbumArrives, listVars
  <2> QED BY <1>4, <2>5, <2>6 DEF AlbumArrives, history, Queues
<1>5. ASSUME NEW p \in Saved, Restore(p) PROVE Inv'
  <2>1. p.songs \in Seq(Song) /\ p.index \in Nat
    BY PlayerAssumption
  <2>2. Continue(Restoring(p.songs, p.index)) \in Callback
    BY <2>1, Callbacks
  <2>3. media' \in Media
    BY <1>5, MediaOps DEF Restore
  <2>4. ListInv'
    BY <1>5, ClearKeepsList DEF Restore
  <2> QED BY <1>5, <2>2, <2>3, <2>4 DEF Restore, history, Queues
<1> QED
  BY <1>1, <1>2, <1>3, <1>4, <1>5

(* Next, previous, a click on an item, the end of the song and the key z. *)
LEMMA SelectionKeeps ==
  ASSUME Inv,
         \/ NextSong \/ Ended \/ EndsEarly \/ Previous \/ RestartKey
         \/ \E i \in DOMAIN dom : ClickItem(i)
  PROVE  Inv'
<1> USE DEF Inv, LoopTyped
<1>a. << >> \in Seq(Callback) /\ PlayIt \in Then
  BY Callbacks
<1>b. MaxRandom \in Nat /\ current \in Int /\ Len(playlist) \in Nat
  BY PlayerAssumption, ListFacts DEF ListInv, ListTyped
<1>1. ASSUME NEW index \in 0 .. Len(playlist) - 1, SelectAt(index, PlayIt, << >>),
             UNCHANGED <<playlist, removing, dom, slides, torn>>,
             UNCHANGED <<remote, ready, broken, random>>, media' \in Media
      PROVE  Inv'
  <2>1. ListInv' /\ Queues'
    BY <1>a, <1>1, SelectAtKeeps
  <2> QED BY <1>1, <2>1
<1>2. ASSUME Next0, media' \in Media PROVE Inv'
  <2>1. CASE AskRandom
    <3>1. random' \in 0 .. MaxRandom
      BY <1>b, <2>1 DEF AskRandom
    <3>2. ListInv' /\ Queues'
      BY <2>1, IndexKeepsList DEF AskRandom, listVars, history, Queues
    <3> QED BY <1>2, <2>1, <3>1, <3>2 DEF AskRandom
  <2>2. CASE /\ current + 1 < Len(playlist) /\ current + 1 > 0
             /\ SelectAt(current + 1, PlayIt, << >>)
             /\ UNCHANGED <<playlist, removing, dom, slides, torn, remote, ready, broken, random>>
    <3>1. current + 1 \in 0 .. Len(playlist) - 1
      BY <1>b, <2>2
    <3> QED BY <1>1, <1>2, <2>2, <3>1
  <2> QED BY <1>2, <2>1, <2>2 DEF Next0
<1>3. CASE NextSong
  BY <1>2, <1>3 DEF NextSong
<1>4. ASSUME UNCHANGED <<listVars, micro, loads, remote, ready, broken, random, history>>,
             media' \in Media
      PROVE  Inv'
  <2>1. ListInv'
    BY <1>4, IndexKeepsList DEF listVars
  <2> QED BY <1>4, <2>1 DEF Queues, history
<1>5. CASE Ended \/ EndsEarly
  <2>1. media' \in Media
    BY <1>5 DEF Ended, EndsEarly, Media
  <2> QED BY <1>2, <1>4, <1>5, <2>1 DEF Ended, EndsEarly
<1>6. CASE Previous
  <2>1. current - 1 \in 0 .. Len(playlist) - 1
    BY <1>b, <1>6 DEF Previous
  <2> QED BY <1>1, <1>6, <2>1 DEF Previous, PlayAt
<1>7. ASSUME NEW i \in DOMAIN dom, ClickItem(i) PROVE Inv'
  <2>1. DisplayedIndex(playlist, i - 1) \in 0 .. Len(playlist) - 1
    BY <1>b, <1>7, ListFacts DEF ListInv, ClickItem, DisplayedIndex
  <2> QED BY <1>1, <1>7, <2>1 DEF ClickItem, PlayAt
<1>8. CASE RestartKey
  <2> DEFINE back == IF current > 0 THEN current - 1 ELSE 0
             stopped == Stop(media)
  <2>1. back \in 0 .. Len(playlist) - 1
    BY <1>b, <1>8 DEF RestartKey
  <2>2. SongAt(back) \in Song
    BY <1>b, <2>1, ListFacts DEF ListInv, SongAt
  <2>3. /\ current' = back /\ media' = Play(Loaded(SongAt(back)))
        /\ UNCHANGED <<playlist, removing, dom, slides, torn>>
        /\ UNCHANGED <<remote, ready, broken, random>>
        /\ \/ /\ micro' = (IF Ready(SongAt(back)) THEN <<SetMediaOf(SongAt(back), PlayIt)>> ELSE << >>)
                          \o Rejected(stopped)
              /\ Await(SongAt(back), PlayIt)
              /\ late' = (late \/ Awaited)
           \/ micro' = Rejected(stopped) /\ UNCHANGED <<loads, late>>
    BY <1>8 DEF RestartKey
  <2>4. Rejected(stopped) \in Seq(Callback)
    BY MediaOps
  <2> HIDE DEF back, stopped
  <2>5. media' \in Media
    BY <2>2, <2>3, MediaOps
  <2>6. SetMediaOf(SongAt(back), PlayIt) \in Callback
    BY <2>2, Callbacks
  <2>7. (IF Ready(SongAt(back)) THEN <<SetMediaOf(SongAt(back), PlayIt)>> ELSE << >>) \in Seq(Callback)
    BY <2>6
  <2>8. micro' \in Seq(Callback)
    BY <2>3, <2>4, <2>7, ConcatProperties
  <2>9. loads' \in [Song -> Seq(Then)]
    <3>1. Append(loads[SongAt(back)], PlayIt) \in Seq(Then)
      BY <1>a, <2>2, AppendProperties DEF Queues
    <3> QED BY <2>3, <3>1 DEF Await, Queues
  <2>10. late' \in BOOLEAN
    <3>1. late' = (late \/ Awaited) \/ late' = late
      BY <2>3
    <3> QED BY <3>1 DEF Queues
  <2>11. ListInv'
    BY <2>1, <2>3, IndexKeepsList
  <2> QED BY <2>3, <2>5, <2>8, <2>9, <2>10, <2>11 DEF Queues
<1> QED
  BY <1>3, <1>5, <1>6, <1>7, <1>8

(* The removals: the click, and the end of the animation. *)
LEMMA RemovalKeeps ==
  ASSUME Inv,
         \/ \E i \in DOMAIN dom, dir \in Direction : ClickRemove(i, dir)
         \/ \E k \in slides : SlideEnds(k)
  PROVE  Inv'
<1> USE DEF Inv, LoopTyped
<1>1. ASSUME NEW i \in DOMAIN dom, NEW dir \in Direction, ClickRemove(i, dir) PROVE Inv'
  <2>1. dom[i] \in Item
    BY ListFacts DEF ListInv
  <2>2. ListInv'
    BY <1>1, <2>1, StartKeepsList DEF ClickRemove
  <2> QED BY <1>1, <2>2 DEF ClickRemove, loopVars, history, Queues
<1>2. ASSUME NEW k \in slides, SlideEnds(k) PROVE Inv'
  <2>1. FinishRemoval(k) /\ UNCHANGED <<remote, ready, broken, random>>
    BY <1>2 DEF SlideEnds
  <2>2. ListInv'
    BY <2>1, FinishKeepsList
  <2>3. CASE Reselects(k) /\ ~Throws(k)
    <3>1. Select(playlist'[current' + 1], Nothing, << >>) /\ UNCHANGED media
      BY <1>2, <2>3 DEF SlideEnds
    <3>2. /\ playlist' = Splice(playlist, RemovedIndex(k))
          /\ current' = CurrentAfter(playlist', RemovedIndex(k))
      BY <2>1 DEF FinishRemoval
    <3>3. current \in Int /\ current >= 0 /\ RemovedIndex(k) = current /\ Len(playlist') > 0
      BY <2>3, <3>2 DEF Reselects, Throws, ListInv, ListTyped
    <3>4. Len(playlist') \in Nat /\ DOMAIN playlist' = 1 .. Len(playlist')
          /\ \A j \in DOMAIN playlist' : playlist'[j] \in Song
      BY <2>2, LenProperties, ElementOfSeq DEF ListInv, ListTyped
    <3>5. current' + 1 \in DOMAIN playlist'
      BY <3>2, <3>3, <3>4 DEF CurrentAfter
    <3>6. playlist'[current' + 1] \in Song
      BY <3>4, <3>5
    <3>7. Queues'
      <4> DEFINE song == playlist'[current' + 1]
      <4>1. song \in Song /\ Select(song, Nothing, << >>)
        BY <3>1, <3>6
      <4> HIDE DEF song
      <4>2. << >> \in Seq(Callback) /\ Nothing \in Then
        BY Callbacks
      <4> QED BY <4>1, <4>2, SelectTyped
    <3> QED BY <2>1, <2>2, <3>1, <3>7
  <2>4. CASE ~(Reselects(k) /\ ~Throws(k))
    <3>1. /\ micro' = IF playlist' = << >> THEN Rejected(media) ELSE << >>
          /\ media' = IF playlist' = << >> THEN Loaded(NoSong) ELSE media
          /\ UNCHANGED <<loads, late>>
      BY <1>2, <2>4 DEF SlideEnds
    <3>2. micro' \in Seq(Callback) /\ media' \in Media
      BY <3>1, MediaOps
    <3> QED BY <2>1, <2>2, <3>1, <3>2 DEF Queues
  <2> QED BY <2>3, <2>4
<1> QED
  BY <1>1, <1>2

(* The keys, the downloads and the audio element leave the list alone. *)
LEMMA ElementKeeps ==
  ASSUME Inv,
         \/ TogglePause \/ StopKey \/ Starts \/ StartFails \/ AbortAnswered
         \/ \E s \in Song : DownloadEnds(s) \/ DownloadFails(s)
  PROVE  Inv'
<1> USE DEF Inv, LoopTyped
<1>a. ASSUME UNCHANGED listVars PROVE ListInv'
  BY <1>a, IndexKeepsList DEF listVars
<1>b. ResetOf(media.song) \in Callback
  BY Callbacks DEF Media
<1>1. CASE TogglePause \/ StopKey
  <2>1. media' \in Media
    BY <1>1, MediaOps DEF TogglePause, StopKey
  <2> QED BY <1>1, <1>a, <2>1 DEF TogglePause, StopKey, Queues, history
<1>2. CASE Starts
  <2>1. media' \in Media
    BY <1>2 DEF Starts, Media
  <2> QED BY <1>2, <1>a, <2>1 DEF Starts, Queues, history
<1>3. CASE StartFails
  <2>1. media' \in Media
    BY <1>3 DEF StartFails, Media
  <2> QED BY <1>3, <1>a, <1>b, <2>1 DEF StartFails, Queues, history
<1>4. CASE AbortAnswered
  <2>1. media' \in Media
    BY <1>4 DEF AbortAnswered, Media
  <2> QED BY <1>4, <1>a, <1>b, <2>1 DEF AbortAnswered, Queues, history
<1>5. ASSUME NEW s \in Song, DownloadEnds(s) PROVE Inv'
  <2>1. loads[s] \in Seq(Then)
    BY DEF Queues
  <2>2. DOMAIN loads[s] = 1 .. Len(loads[s]) /\ Len(loads[s]) \in Nat
        /\ \A i \in 1 .. Len(loads[s]) : loads[s][i] \in Then
    BY <2>1, LenProperties, ElementOfSeq
  <2>3. micro' = [i \in 1 .. Len(loads[s]) |-> SetMediaOf(s, loads[s][i])]
    BY <1>5, <2>2 DEF DownloadEnds
  <2>4. \A i \in 1 .. Len(loads[s]) : SetMediaOf(s, loads[s][i]) \in Callback
    BY <2>2, Callbacks
  <2>5. micro' \in Seq(Callback)
    BY <2>2, <2>3, <2>4, IsASeq
  <2>6. loads' \in [Song -> Seq(Then)]
    BY <1>5 DEF DownloadEnds, Queues
  <2> QED BY <1>5, <1>a, <2>5, <2>6 DEF DownloadEnds, Queues, history
<1>6. ASSUME NEW s \in Song, DownloadFails(s) PROVE Inv'
  <2>1. loads' \in [Song -> Seq(Then)]
    BY <1>6 DEF DownloadFails, Queues
  <2> QED BY <1>6, <1>a, <2>1 DEF DownloadFails, Queues, history
<1> QED
  BY <1>1, <1>2, <1>3, <1>4, <1>5, <1>6

(* The ready event of jPlayer shows the list anew and selects at most. *)
LEMMA ReadyKeeps == ASSUME Inv, ReadyHandled PROVE Inv'
<1>1. Redraw /\ ready' = TRUE /\ UNCHANGED <<remote, broken, random, media>>
  BY DEF ReadyHandled
<1>2. ready' \in BOOLEAN /\ UNCHANGED playlist
  BY <1>1 DEF Redraw
<1>3. << >> \in Seq(Callback) /\ PlayIt \in Then
  BY Callbacks
<1>4. ListInv' /\ Queues'
  <2>1. CASE current \in 0 .. Len(playlist) - 1
    <3>1. SelectAt(current, PlayIt, << >>)
      BY <2>1 DEF ReadyHandled
    <3>2. SongAt(current) \in Song
      BY <2>1, ListFacts DEF Inv, ListInv, SongAt
    <3>3. Queues'
      BY <1>3, <3>1, <3>2, SelectTyped DEF SelectAt, Inv, LoopTyped
    <3>4. ListInv'
      BY <1>1, <2>1, <3>1, RedrawKeepsList DEF SelectAt, Inv
    <3> QED BY <3>3, <3>4
  <2>2. CASE current \notin 0 .. Len(playlist) - 1
    <3>1. UNCHANGED current /\ NoSelect(<< >>)
      BY <2>2 DEF ReadyHandled
    <3>2. Queues'
      BY <1>3, <3>1 DEF NoSelect, Inv, LoopTyped, Queues
    <3>3. ListInv'
      BY <1>1, <3>1, RedrawKeepsList DEF Inv
    <3> QED BY <3>2, <3>3
  <2> QED BY <2>1, <2>2
<1> QED
  BY <1>1, <1>2, <1>4 DEF Inv, LoopTyped

-----------------------------------------------------------------------------
(* The page is opened on an empty list. *)
LEMMA InvInit == Init => Inv
<1> SUFFICES ASSUME Init PROVE Inv
  OBVIOUS
<1>1. << >> \in Seq(Song) /\ << >> \in Seq(Item) /\ << >> \in Seq(Callback) /\ << >> \in Seq(Then)
      /\ Len(<< >>) = 0 /\ DOMAIN << >> = {}
  OBVIOUS
<1>2. ListTyped
  <2>1. removing \in BOOLEAN /\ torn \in BOOLEAN
    BY DEF Init, ListInit
  <2>2. current \in Int /\ slides \subseteq Slide
    BY DEF Init, ListInit
  <2>3. playlist \in Seq(Song) /\ dom \in Seq(Item)
    BY <1>1 DEF Init, ListInit
  <2> QED BY <2>1, <2>2, <2>3 DEF ListTyped
<1>3. NoSongTwice /\ CurrentIsListed /\ PageShowsList /\ OneRemoval
  BY <1>1 DEF Init, ListInit, NoSongTwice, CurrentIsListed, PageShowsList, OneRemoval
<1>4. Loaded(NoSong) \in Media
  BY MediaOps
<1>5. random \in 0 .. MaxRandom /\ remote \subseteq Song
  BY PlayerAssumption DEF Init
<1>7. ready \in BOOLEAN
  BY DEF Init
<1>6. Queues
  BY <1>1 DEF Init, Queues
<1> QED
  BY <1>2, <1>3, <1>4, <1>5, <1>6, <1>7 DEF Init, Inv, ListInv, LoopTyped

(* Every handler keeps the list right. *)
LEMMA InvNext == Inv /\ [Next]_vars => Inv'
<1> SUFFICES ASSUME Inv, [Next]_vars PROVE Inv'
  OBVIOUS
<1>1. CASE UNCHANGED vars
  <2>1. ListInv'
    BY <1>1, IndexKeepsList DEF Inv, vars, listVars
  <2> QED BY <1>1, <2>1 DEF Inv, LoopTyped, Queues, vars, loopVars, history
<1>2. CASE Next
  BY <1>2, CallbackKeeps, ArrivalKeeps, SelectionKeeps, RemovalKeeps, ElementKeeps, ReadyKeeps
  DEF Next
<1> QED
  BY <1>1, <1>2

(* The invariant holds in every run of the page. *)
LEMMA InvHolds == Spec => []Inv
BY InvInit, InvNext, PTL DEF Spec

(* The variables of the player have their types: the list and the page hold *)
(* songs and items, the queue callbacks, and the index is a number.         *)
THEOREM TypeCorrect == Spec => []TypeOK
<1>1. Inv => TypeOK
  BY DEF Inv, ListInv, ListTyped, LoopTyped, Queues, TypeOK
<1> QED
  BY <1>1, InvHolds, PTL

(* No song is listed twice, however requests, restored playlists and       *)
(* removals interleave.                                                    *)
THEOREM NoSongTwiceHolds == Spec => []NoSongTwice
<1>1. Inv => NoSongTwice
  BY DEF Inv, ListInv
<1> QED
  BY <1>1, InvHolds, PTL

(* The current index is that of a song of the list, unless the list grew   *)
(* or was cleared under an animation, or was shown anew.                   *)
THEOREM CurrentIsListedHolds == Spec => []CurrentIsListed
<1>1. Inv => CurrentIsListed
  BY DEF Inv, ListInv
<1> QED
  BY <1>1, InvHolds, PTL

(* The page shows the songs of the list in the reverse order, so that a    *)
(* click finds its song, until the list grows or is cleared under an       *)
(* animation, or jPlayer's ready event shows it anew under one or with     *)
(* more than one song, which it does in the order of the list; and again   *)
(* once the list was cleared with no removal under way.                    *)
THEOREM PageShowsListHolds == Spec => []PageShowsList
<1>1. Inv => PageShowsList
  BY DEF Inv, ListInv
<1> QED
  BY <1>1, InvHolds, PTL

(* A step that ends a removal is the callback of its animation. *)
LEMMA RemovalEnds ==
  ASSUME Inv, [Next]_vars, NEW k \in slides \ slides'
  PROVE  FinishRemoval(k)
<1>1. \/ UNCHANGED slides
      \/ \E l \in slides : SlideEnds(l)
      \/ \E i \in DOMAIN dom, dir \in Direction : ClickRemove(i, dir)
  BY DEF Next, vars, listVars, RunCallback, RunSetMedia, RunPlay, RunRestore, RunAdd, RunReset, Add,
         Push, SongArrives, RandomArrives, RandomFails, AlbumArrives, Restore, Clear, NextSong, Ended,
         Next0, AskRandom, EndsEarly, Previous, ClickItem, PlayAt, TogglePause, StopKey, RestartKey,
         DownloadEnds, DownloadFails, Starts, StartFails, AbortAnswered, SelectAt, ReadyHandled,
         Redraw
<1>2. PICK l \in slides : SlideEnds(l)
  BY <1>1 DEF ClickRemove, StartRemoval
<1>3. FinishRemoval(l)
  BY <1>2 DEF SlideEnds
<1>4. k = l
  BY <1>3 DEF FinishRemoval
<1> QED
  BY <1>3, <1>4

(* The end of a removal takes the song that was clicked out of the list,   *)
(* and no other, and the current song stays the current one.               *)
THEOREM RemovalIsExactHolds == Spec => RemovalIsExact
<1>1. Inv /\ [Next]_vars =>
        [\A k \in slides \ slides' :
           ~torn' => /\ Listed' = Listed \ {k.item.song}
                     /\ CurrentSong # k.item.song => CurrentSong' = CurrentSong]_vars
  <2> SUFFICES ASSUME Inv, [Next]_vars, NEW k \in slides \ slides', ~torn'
               PROVE  /\ Listed' = Listed \ {k.item.song}
                      /\ CurrentSong # k.item.song => CurrentSong' = CurrentSong
    OBVIOUS
  <2>1. FinishRemoval(k)
    BY RemovalEnds
  <2>2. ~torn
    BY <2>1 DEF FinishRemoval
  <2> QED BY <2>1, <2>2, FinishIsExact DEF Inv
<1> QED
  BY <1>1, InvHolds, PTL DEF Spec, RemovalIsExact

-----------------------------------------------------------------------------
(* What is loaded: a selection goes from the call of select to the download,  *)
(* to a callback, to the audio element.                                       *)

(* The callbacks that load a song or will select one, and those that add. *)
Drives(c) == c.do = "setMedia" \/ (c.do = "then" /\ c.then.do = "restore")
Calls(q) == {q[i] : i \in DOMAIN q}
Drivers(q) == {c \in Calls(q) : Drives(c)}
Adds(q) == {c \in Calls(q) : c.do = "add"}
OneDriver(q) == \A i, j \in DOMAIN q : Drives(q[i]) /\ Drives(q[j]) => i = j

(* One selection is on its way at most, and an album is not added while a saved
   playlist is: at the head of the queue or behind one download. *)
OneAtATime ==
  /\ \A s, t \in Song : loads[s] # << >> /\ loads[t] # << >> => s = t
  /\ \A s \in Song : Len(loads[s]) <= 1
  /\ OneDriver(micro)
  /\ \A c \in Drivers(micro) : c.do = "setMedia" => ~Awaited
  /\ Adds(micro) # {} => \A c \in Drivers(micro) :
       c.do = "setMedia" /\ c.then = Nothing /\ playlist # << >>

(* A saved playlist is being restored. *)
Restores ==
  \/ \E c \in Drivers(micro) : c.then.do = "restore"
  \/ \E s \in Song : \E i \in DOMAIN loads[s] : loads[s][i].do = "restore"

(* It is the current song that is downloaded, loaded by a callback or else has
   been loaded, and the first song while the others are restored. *)
Follows ==
  ~torn /\ playlist # << >> =>
    /\ \A s \in Song : loads[s] # << >> => s = SongAt(current)
    /\ \A c \in Drivers(micro) : c.do = "setMedia" => c.song = SongAt(current)
    /\ Awaited \/ (\E c \in Drivers(micro) : c.do = "setMedia") \/ media.song = SongAt(current)
    /\ Restores => current = 0

Followed == ~late /\ broken = {} => OneAtATime /\ Follows

(* Which callbacks load or select. *)
LEMMA Kinds ==
  /\ \A s, then : Drives(SetMediaOf(s, then)) /\ SetMediaOf(s, then).do = "setMedia"
                  /\ SetMediaOf(s, then).song = s /\ SetMediaOf(s, then).then = then
  /\ \A then : /\ Drives(Continue(then)) <=> then.do = "restore"
               /\ Continue(then).do = "then" /\ Continue(then).then = then
  /\ \A s : ~Drives(AddOf(s)) /\ ~Drives(ResetOf(s)) /\ ResetOf(s).do = "reset"
  /\ Nothing.do = "nothing" /\ PlayIt.do = "play"
  /\ \A songs, index : Restoring(songs, index).do = "restore"
BY DEF Drives, SetMediaOf, Continue, AddOf, ResetOf, Nothing, PlayIt, Restoring

(* Queues of no callback and of one. *)
LEMMA QueueOne ==
  /\ Drivers(<< >>) = {} /\ Adds(<< >>) = {} /\ OneDriver(<< >>)
  /\ \A c : /\ OneDriver(<<c>>)
            /\ Drivers(<<c>>) = IF Drives(c) THEN {c} ELSE {}
            /\ Adds(<<c>>) = IF c.do = "add" THEN {c} ELSE {}
<1>1. Calls(<< >>) = {} /\ DOMAIN << >> = {}
  BY DEF Calls
<1>2. ASSUME NEW c PROVE Calls(<<c>>) = {c} /\ \A i, j \in DOMAIN <<c>> : i = j
  <2>1. DOMAIN <<c>> = {1} /\ <<c>>[1] = c
    OBVIOUS
  <2> QED BY <2>1 DEF Calls
<1>3. Drivers(<< >>) = {} /\ Adds(<< >>) = {} /\ OneDriver(<< >>)
  BY <1>1 DEF Drivers, Adds, OneDriver
<1>4. ASSUME NEW c
      PROVE  /\ OneDriver(<<c>>)
             /\ Drivers(<<c>>) = IF Drives(c) THEN {c} ELSE {}
             /\ Adds(<<c>>) = IF c.do = "add" THEN {c} ELSE {}
  BY <1>2 DEF Drivers, Adds, OneDriver
<1> QED
  BY <1>3, <1>4

(* The callback that runs, and the others. *)
LEMMA QueueFirst ==
  ASSUME NEW q \in Seq(Callback), q # << >>, OneDriver(q)
  PROVE  /\ Head(q) \in Callback /\ Tail(q) \in Seq(Callback)
         /\ OneDriver(Tail(q)) /\ Adds(Tail(q)) \subseteq Adds(q)
         /\ ~Drives(Head(q)) => Drivers(Tail(q)) = Drivers(q)
         /\ Drives(Head(q)) => Drivers(Tail(q)) = {} /\ Drivers(q) = {Head(q)}
         /\ Head(q).do = "add" => Head(q) \in Adds(q)
<1>1. /\ Len(q) \in Nat /\ Len(q) >= 1 /\ DOMAIN q = 1 .. Len(q)
      /\ Head(q) = q[1] /\ Head(q) \in Callback /\ Tail(q) \in Seq(Callback)
      /\ Len(Tail(q)) = Len(q) - 1 /\ DOMAIN Tail(q) = 1 .. Len(q) - 1
      /\ \A i \in 1 .. Len(q) - 1 : Tail(q)[i] = q[i + 1]
  BY LenProperties, HeadTailProperties
<1>2. \A i \in 1 .. Len(q) - 1 : i + 1 \in DOMAIN q /\ i + 1 # 1 /\ i \in Nat
  BY <1>1
<1>3. 1 \in DOMAIN q /\ \A i \in DOMAIN q : i = 1 \/ (i - 1 \in 1 .. Len(q) - 1 /\ i - 1 + 1 = i)
  BY <1>1
<1>4. Calls(q) = Calls(Tail(q)) \cup {Head(q)}
  <2>1. Calls(Tail(q)) \subseteq Calls(q) /\ Head(q) \in Calls(q)
    BY <1>1, <1>2, <1>3 DEF Calls
  <2>2. ASSUME NEW i \in DOMAIN q PROVE q[i] = Head(q) \/ q[i] \in Calls(Tail(q))
    <3>1. CASE i = 1
      BY <1>1, <3>1
    <3>2. CASE i # 1
      <4>1. i - 1 \in DOMAIN Tail(q) /\ Tail(q)[i - 1] = q[i]
        BY <1>1, <1>3, <3>2
      <4> QED BY <4>1 DEF Calls
    <3> QED BY <3>1, <3>2
  <2> QED BY <2>1, <2>2 DEF Calls
<1>5. OneDriver(Tail(q))
  <2>1. ASSUME NEW i \in 1 .. Len(q) - 1, NEW j \in 1 .. Len(q) - 1,
               Drives(Tail(q)[i]), Drives(Tail(q)[j])
        PROVE  i = j
    <3>1. i + 1 = j + 1
      BY <1>1, <1>2, <2>1 DEF OneDriver
    <3> QED BY <1>2, <3>1
  <2> QED BY <1>1, <2>1 DEF OneDriver
<1>6. Drives(Head(q)) => Drivers(Tail(q)) = {}
  <2>1. ASSUME Drives(Head(q)), NEW i \in 1 .. Len(q) - 1 PROVE ~Drives(Tail(q)[i])
    BY <1>1, <1>2, <1>3, <2>1 DEF OneDriver
  <2> QED BY <1>1, <2>1 DEF Drivers, Calls
<1> QED
  BY <1>1, <1>4, <1>5, <1>6 DEF Drivers, Adds

(* Two queues, at most one of which selects, one after the other. *)
LEMMA QueueJoined ==
  ASSUME NEW q \in Seq(Callback), NEW r \in Seq(Callback), OneDriver(q), OneDriver(r),
         Drivers(q) = {} \/ Drivers(r) = {}
  PROVE  /\ q \o r \in Seq(Callback) /\ OneDriver(q \o r)
         /\ Drivers(q \o r) = Drivers(q) \cup Drivers(r)
         /\ Adds(q \o r) = Adds(q) \cup Adds(r)
<1> DEFINE both == q \o r
<1>1. /\ Len(q) \in Nat /\ DOMAIN q = 1 .. Len(q) /\ Len(r) \in Nat /\ DOMAIN r = 1 .. Len(r)
      /\ both \in Seq(Callback) /\ DOMAIN both = 1 .. Len(q) + Len(r)
      /\ \A i \in 1 .. Len(q) : both[i] = q[i]
      /\ \A i \in 1 .. Len(r) : both[Len(q) + i] = r[i]
  <2>1. /\ q \o r \in Seq(Callback) /\ Len(q \o r) = Len(q) + Len(r)
        /\ Len(q) \in Nat /\ DOMAIN q = 1 .. Len(q) /\ Len(r) \in Nat /\ DOMAIN r = 1 .. Len(r)
    BY ConcatProperties, LenProperties
  <2>2. \A i \in 1 .. Len(q) : (q \o r)[i] = q[i]
    BY <2>1
  <2>3. \A i \in 1 .. Len(r) : (q \o r)[Len(q) + i] = r[i]
    BY <2>1
  <2> QED BY <2>1, <2>2, <2>3, LenProperties
<1> HIDE DEF both
<1>2. ASSUME NEW i \in DOMAIN both
      PROVE  \/ i \in DOMAIN q /\ both[i] = q[i]
             \/ i \notin DOMAIN q /\ i - Len(q) \in DOMAIN r /\ both[i] = r[i - Len(q)]
  <2>1. CASE i <= Len(q)
    BY <1>1, <2>1
  <2>2. CASE ~(i <= Len(q))
    <3>1. i - Len(q) \in 1 .. Len(r) /\ Len(q) + (i - Len(q)) = i /\ i \notin 1 .. Len(q)
      BY <1>1, <2>2
    <3> QED BY <1>1, <3>1
  <2> QED BY <2>1, <2>2
<1>3. Calls(both) = Calls(q) \cup Calls(r)
  <2>1. \A i \in 1 .. Len(q) : i \in DOMAIN both
    BY <1>1
  <2>2. \A i \in 1 .. Len(r) : Len(q) + i \in DOMAIN both
    BY <1>1
  <2>3. Calls(q) \subseteq Calls(both) /\ Calls(r) \subseteq Calls(both)
    BY <1>1, <2>1, <2>2 DEF Calls
  <2>4. Calls(both) \subseteq Calls(q) \cup Calls(r)
    BY <1>2 DEF Calls
  <2> QED BY <2>3, <2>4
<1>4. ASSUME NEW i \in DOMAIN both, NEW j \in DOMAIN both, Drives(both[i]), Drives(both[j])
      PROVE  i = j
  <2>1. CASE i \in DOMAIN q /\ j \in DOMAIN q
    BY <1>2, <1>4, <2>1 DEF OneDriver
  <2>2. CASE i \notin DOMAIN q /\ j \notin DOMAIN q
    <3>1. i - Len(q) = j - Len(q)
      BY <1>2, <1>4, <2>2 DEF OneDriver
    <3> QED BY <1>1, <3>1
  <2>3. CASE (i \in DOMAIN q) # (j \in DOMAIN q)
    BY <1>2, <1>4, <2>3 DEF Drivers, Calls
  <2> QED BY <2>1, <2>2, <2>3
<1>5. OneDriver(both)
  BY <1>4 DEF OneDriver
<1>6. Drivers(both) = Drivers(q) \cup Drivers(r) /\ Adds(both) = Adds(q) \cup Adds(r)
  BY <1>3 DEF Drivers, Adds
<1> QED
  BY <1>1, <1>5, <1>6 DEF both

(* A queue with one more callback at its end. *)
LEMMA QueueLast ==
  ASSUME NEW q \in Seq(Callback), NEW c \in Callback, OneDriver(q),
         Drivers(q) = {} \/ ~Drives(c), c.do # "add"
  PROVE  /\ Append(q, c) \in Seq(Callback) /\ OneDriver(Append(q, c))
         /\ Drivers(Append(q, c)) = Drivers(q) \cup (IF Drives(c) THEN {c} ELSE {})
         /\ Adds(Append(q, c)) = Adds(q)
<1>1. <<c>> \in Seq(Callback) /\ Append(q, c) = q \o <<c>>
  OBVIOUS
<1>2. OneDriver(<<c>>) /\ Drivers(<<c>>) = (IF Drives(c) THEN {c} ELSE {}) /\ Adds(<<c>>) = {}
  BY QueueOne
<1>3. /\ q \o <<c>> \in Seq(Callback) /\ OneDriver(q \o <<c>>)
      /\ Drivers(q \o <<c>>) = Drivers(q) \cup Drivers(<<c>>)
      /\ Adds(q \o <<c>>) = Adds(q) \cup Adds(<<c>>)
  BY <1>1, <1>2, QueueJoined
<1> QED
  BY <1>1, <1>2, <1>3

(* A play that is rejected asks for resets only, and no operation of jPlayer
   but a load changes the song. *)
LEMMA MediaSong ==
  ASSUME NEW m \in Media
  PROVE  /\ Rejected(m) \in Seq(Callback) /\ OneDriver(Rejected(m))
         /\ Drivers(Rejected(m)) = {} /\ Adds(Rejected(m)) = {}
         /\ Pause(m).song = m.song /\ Stop(m).song = m.song /\ Play(m).song = m.song
         /\ Reset(m).song = m.song /\ Unanswered(m).song = m.song
<1>1. Rejected(m) \in Seq(Callback)
  BY MediaOps
<1>2. OneDriver(Rejected(m)) /\ Drivers(Rejected(m)) = {} /\ Adds(Rejected(m)) = {}
  <2>1. ~Drives(ResetOf(m.song)) /\ ResetOf(m.song).do = "reset"
    BY Kinds
  <2> QED BY <2>1, QueueOne DEF Rejected
<1>3. Paused(m).song = m.song /\ Paused(m) \in Media
  BY DEF Media, Paused
<1>4. Pause(m).song = m.song /\ Stop(m).song = m.song /\ Reset(m).song = m.song
  BY <1>3 DEF Media, Pause, Stop, Reset
<1>5. Play(m).song = m.song /\ Unanswered(m).song = m.song
  BY DEF Media, Play, Unanswered
<1> QED
  BY <1>1, <1>2, <1>4, <1>5

(* A step that selects nothing and leaves the current song, the song that is
   loaded and the selection that is on its way. *)
LEMMA StepFollows ==
  ASSUME Followed, UNCHANGED <<loads, late, broken>>,
         OneDriver(micro'), Drivers(micro') = Drivers(micro),
         \/ Drivers(micro) = {}
         \/ Adds(micro') \subseteq Adds(micro) /\ (playlist # << >> => playlist' # << >>),
         ~torn' /\ playlist' # << >> =>
           /\ ~torn /\ playlist # << >> /\ media'.song = media.song
           /\ playlist'[current' + 1] = SongAt(current) /\ (current = 0 => current' = 0)
  PROVE  Followed'
<1> SUFFICES ASSUME ~late', broken' = {} PROVE OneAtATime' /\ Follows'
  BY DEF Followed
<1>1. OneAtATime /\ Follows
  BY DEF Followed
<1>2. Awaited' <=> Awaited
  BY DEF Awaited
<1>3. OneAtATime'
  <2>1. \A c \in Drivers(micro') : c.do = "setMedia" => ~Awaited'
    BY <1>1, <1>2 DEF OneAtATime
  <2>2. Adds(micro') # {} => \A c \in Drivers(micro') :
          c.do = "setMedia" /\ c.then = Nothing /\ playlist' # << >>
    BY <1>1 DEF OneAtATime
  <2> QED BY <1>1, <2>1, <2>2 DEF OneAtATime
<1>4. Follows'
  <2> SUFFICES ASSUME ~torn', playlist' # << >>
               PROVE  /\ \A s \in Song : loads'[s] # << >> => s = playlist'[current' + 1]
                      /\ \A c \in Drivers(micro') : c.do = "setMedia" => c.song = playlist'[current' + 1]
                      /\ \/ Awaited' \/ (\E c \in Drivers(micro') : c.do = "setMedia")
                         \/ media'.song = playlist'[current' + 1]
                      /\ Restores' => current' = 0
    BY DEF Follows, SongAt
  <2>1. Restores' => Restores
    BY DEF Restores
  <2> QED BY <1>1, <1>2, <2>1 DEF Follows
<1> QED
  BY <1>3, <1>4

(* A selection of what becomes the current song, while no other is on its way. *)
LEMMA SelectFollows ==
  ASSUME Inv, Followed, broken' = broken, NEW song \in Song, NEW then \in Then,
         NEW after \in Seq(Callback), Select(song, then, after),
         OneDriver(after), Drivers(after) = {},
         Adds(after) = {} \/ (then = Nothing /\ playlist' # << >>),
         ~torn' /\ playlist' # << >> =>
           /\ song = playlist'[current' + 1]
           /\ then.do = "restore" => current' = 0
  PROVE  Followed'
<1> SUFFICES ASSUME ~late', broken' = {} PROVE OneAtATime' /\ Follows'
  BY DEF Followed
<1>1. ~late /\ ~Awaited
  BY DEF Select
<1>2. OneAtATime /\ Follows
  BY <1>1 DEF Followed
<1>3. \A s \in Song : loads[s] = << >>
  BY <1>1 DEF Awaited
<1>4. loads \in [Song -> Seq(Then)]
  BY DEF Inv, LoopTyped, Queues
<1>5. CASE Ready(song)
  <2> DEFINE c == SetMediaOf(song, then)
  <2>1. c \in Callback /\ c.do = "setMedia" /\ c.song = song /\ c.then = then /\ Drives(c)
    BY Callbacks, Kinds
  <2>2. micro' = Append(after, c) /\ loads' = loads
    BY <1>5 DEF Select, Await
  <2> HIDE DEF c
  <2>3. OneDriver(micro') /\ Drivers(micro') = {c} /\ Adds(micro') = Adds(after)
    BY <2>1, <2>2, QueueLast
  <2>4. ~Awaited'
    BY <1>3, <2>2 DEF Awaited
  <2>5. OneAtATime'
    <3>1. \A d \in Drivers(micro') : d.do = "setMedia" => ~Awaited'
      BY <2>4
    <3>2. Adds(micro') # {} => \A d \in Drivers(micro') :
            d.do = "setMedia" /\ d.then = Nothing /\ playlist' # << >>
      BY <2>1, <2>3
    <3> QED BY <1>2, <2>2, <2>3, <3>1, <3>2 DEF OneAtATime
  <2>6. Follows'
    <3> SUFFICES ASSUME ~torn', playlist' # << >>
                 PROVE  /\ \A s \in Song : loads'[s] # << >> => s = playlist'[current' + 1]
                        /\ \A d \in Drivers(micro') : d.do = "setMedia" => d.song = playlist'[current' + 1]
                        /\ \/ Awaited' \/ (\E d \in Drivers(micro') : d.do = "setMedia")
                           \/ media'.song = playlist'[current' + 1]
                        /\ Restores' => current' = 0
      BY DEF Follows, SongAt
    <3>1. \A s \in Song : loads'[s] = << >>
      BY <1>3, <2>2
    <3>2. \A s \in Song : \A i \in DOMAIN loads'[s] : FALSE
      BY <3>1
    <3>3. Restores' => then.do = "restore"
      BY <2>1, <2>3, <3>2 DEF Restores
    <3> QED BY <2>1, <2>3, <3>1, <3>3
  <2> QED BY <2>5, <2>6
<1>6. CASE ~Ready(song)
  <2>1. micro' = after /\ loads' = [loads EXCEPT ![song] = Append(@, then)]
    BY <1>6 DEF Select, Await
  <2>2. loads'[song] = <<then>> /\ \A s \in Song : s # song => loads'[s] = << >>
    <3>1. loads[song] = << >>
      BY <1>3
    <3>2. loads'[song] = Append(loads[song], then)
      BY <1>4, <2>1
    <3>3. Append(<< >>, then) = <<then>>
      OBVIOUS
    <3>4. loads'[song] = <<then>>
      BY <3>1, <3>2, <3>3
    <3>5. \A s \in Song : s # song => loads'[s] = << >>
      BY <1>3, <1>4, <2>1
    <3> QED BY <3>4, <3>5
  <2>3. Awaited'
    BY <2>2 DEF Awaited
  <2>4. OneAtATime'
    <3>1. \A s, t \in Song : loads'[s] # << >> /\ loads'[t] # << >> => s = t
      BY <2>2
    <3>2. \A s \in Song : Len(loads'[s]) <= 1
      <4> SUFFICES ASSUME NEW s \in Song PROVE Len(loads'[s]) <= 1
        OBVIOUS
      <4>1. Len(<< >>) <= 1 /\ Len(<<then>>) <= 1
        OBVIOUS
      <4>2. CASE s = song
        <5>1. loads'[s] = <<then>>
          BY <2>2, <4>2
        <5> QED BY <4>1, <5>1
      <4>3. CASE s # song
        <5>1. loads'[s] = << >>
          BY <2>2, <4>3
        <5> QED BY <4>1, <5>1
      <4> QED BY <4>2, <4>3
    <3> QED BY <2>1, <3>1, <3>2 DEF OneAtATime
  <2>5. Follows'
    <3> SUFFICES ASSUME ~torn', playlist' # << >>
                 PROVE  /\ \A s \in Song : loads'[s] # << >> => s = playlist'[current' + 1]
                        /\ Restores' => current' = 0
      BY <2>1, <2>3 DEF Follows, SongAt
    <3>1. \A s \in Song : \A i \in DOMAIN loads'[s] : loads'[s][i] = then
      <4>1. DOMAIN << >> = {} /\ DOMAIN <<then>> = {1} /\ <<then>>[1] = then
        OBVIOUS
      <4> QED BY <2>2, <4>1
    <3>2. Restores' => then.do = "restore"
      BY <2>1, <3>1 DEF Restores
    <3> QED BY <2>2, <3>2
  <2> QED BY <2>4, <2>5
<1> QED
  BY <1>5, <1>6

(* A selection of a song of the list. *)
LEMMA SelectAtFollows ==
  ASSUME Inv, Followed, UNCHANGED <<playlist, broken>>, NEW index \in 0 .. Len(playlist) - 1,
         NEW then \in Then, then.do # "restore", NEW after \in Seq(Callback),
         SelectAt(index, then, after),
         OneDriver(after), Drivers(after) = {}, Adds(after) = {}
  PROVE  Followed'
<1>1. SongAt(index) \in Song
  BY ListFacts DEF Inv, ListInv, SongAt
<1>2. current' = index /\ Select(SongAt(index), then, after)
  BY DEF SelectAt
<1>3. SongAt(index) = playlist'[current' + 1]
  BY <1>2 DEF SongAt
<1> QED
  BY <1>1, <1>2, <1>3, SelectFollows

(* A song that is pushed on a list leaves the current one where it is. *)
LEMMA PushedBehind ==
  ASSUME ListInv, NEW s \in Song, Push(s)
  PROVE  /\ playlist' # << >> /\ (~torn' => ~torn)
         /\ playlist'[Len(playlist) + 1] = s
         /\ ~torn /\ playlist # << >> => playlist'[current + 1] = SongAt(current)
<1>1. playlist \in Seq(Song) /\ Len(playlist) \in Nat
  BY ListFacts DEF ListInv, ListTyped
<1>2. playlist' = Append(playlist, s) /\ torn' = (torn \/ slides # {})
  BY DEF Push
<1>3. /\ Len(playlist') = Len(playlist) + 1 /\ playlist'[Len(playlist) + 1] = s
      /\ \A i \in 1 .. Len(playlist) : playlist'[i] = playlist[i]
  BY <1>1, <1>2, AppendProperties
<1>4. playlist' # << >>
  BY <1>1, <1>3
<1>5. ASSUME ~torn, playlist # << >> PROVE playlist'[current + 1] = SongAt(current)
  <2>1. current \in 0 .. Len(playlist) - 1
    BY <1>5 DEF ListInv, CurrentIsListed
  <2>2. current + 1 \in 1 .. Len(playlist)
    BY <1>1, <2>1
  <2> QED BY <1>3, <2>2 DEF SongAt
<1> QED
  BY <1>2, <1>3, <1>4, <1>5

(* A song that is added, with the callbacks `after' still to run. *)
LEMMA AddFollows ==
  ASSUME Inv, Followed, broken' = broken, media'.song = media.song,
         NEW s \in Song, NEW playNow \in BOOLEAN, NEW after \in Seq(Callback),
         Add(s, playNow, Nothing, after),
         OneDriver(after), Drivers(after) = Drivers(micro), Adds(after) \subseteq Adds(micro),
         playlist = << >> \/ playNow => Drivers(after) = {}, playNow => Adds(after) = {}
  PROVE  Followed'
<1>1. CASE InList(s)
  <2>1. micro' = after /\ UNCHANGED <<loads, late>> /\ UNCHANGED <<playlist, current, torn>>
    BY <1>1 DEF Add, NoSelect, listVars
  <2> QED BY <2>1, StepFollows DEF SongAt
<1>2. CASE ~InList(s) /\ (playNow \/ playlist = << >>)
  <2>1. Push(s) /\ current' = Len(playlist)
        /\ Select(s, IF playNow THEN PlayIt ELSE Nothing, after)
    BY <1>2 DEF Add
  <2>2. (IF playNow THEN PlayIt ELSE Nothing) \in Then
        /\ (IF playNow THEN PlayIt ELSE Nothing).do # "restore"
    BY Callbacks, Kinds
  <2>3. playlist' # << >> /\ s = playlist'[current' + 1]
    BY <2>1, PushedBehind DEF Inv
  <2>4. Adds(after) = {} \/ ((IF playNow THEN PlayIt ELSE Nothing) = Nothing /\ playlist' # << >>)
    BY <2>3
  <2> DEFINE then == IF playNow THEN PlayIt ELSE Nothing
  <2>5. then \in Then /\ then.do # "restore" /\ Select(s, then, after)
        /\ (Adds(after) = {} \/ (then = Nothing /\ playlist' # << >>))
    BY <2>1, <2>2, <2>4
  <2> HIDE DEF then
  <2> QED BY <1>2, <2>3, <2>5, SelectFollows
<1>3. CASE ~InList(s) /\ ~playNow /\ playlist # << >>
  <2>1. Push(s) /\ UNCHANGED current /\ micro' = after /\ UNCHANGED <<loads, late>>
    BY <1>3 DEF Add, NoSelect
  <2>2. /\ playlist' # << >> /\ (~torn' => ~torn)
        /\ ~torn => playlist'[current' + 1] = SongAt(current)
    BY <1>3, <2>1, PushedBehind DEF Inv
  <2> QED BY <1>3, <2>1, <2>2, StepFollows
<1> QED
  BY <1>1, <1>2, <1>3

(* The same for a handler that leaves the list, the songs and the queue. *)
LEMMA QuietFollows ==
  ASSUME Followed, UNCHANGED <<listVars, loads, broken, history>>, media'.song = media.song,
         OneDriver(micro'), Drivers(micro') = Drivers(micro), Adds(micro') \subseteq Adds(micro)
  PROVE  Followed'
BY StepFollows DEF listVars, history, SongAt

(* A restore goes on behind the other callbacks: with the next song of the
   saved playlist, or with its position. *)
LEMMA RestoreGoesOn ==
  ASSUME Inv, OneAtATime, Follows, UNCHANGED <<loads, late, media>>,
         NEW c \in Callback, c.do = "then", Drivers(micro) = {c}, NEW rest \in Seq(Callback),
         OneDriver(rest), Drivers(rest) = {}, Adds(rest) = {},
         NEW then \in Then, micro' = Append(rest, Continue(then)),
         ~torn' /\ playlist' # << >> =>
           /\ ~torn /\ playlist # << >> /\ current' = 0
           /\ playlist'[current' + 1] = SongAt(current)
  PROVE  Followed'
<1>1. Continue(then) \in Callback /\ Continue(then).do = "then" /\ Continue(then).then = then
  BY Callbacks, Kinds
<1>2. /\ OneDriver(micro') /\ Adds(micro') = {}
      /\ \A d \in Drivers(micro') : d.do = "then"
  <2> DEFINE d == Continue(then)
  <2>1. d \in Callback /\ d.do = "then"
    BY <1>1
  <2> HIDE DEF d
  <2>2. /\ OneDriver(Append(rest, d)) /\ Adds(Append(rest, d)) = {}
        /\ Drivers(Append(rest, d)) = IF Drives(d) THEN {d} ELSE {}
    BY <2>1, QueueLast
  <2>3. micro' = Append(rest, d)
    BY DEF d
  <2> QED BY <2>1, <2>2, <2>3
<1>3. Awaited' <=> Awaited
  BY DEF Awaited
<1>4. OneAtATime'
  BY <1>2 DEF OneAtATime
<1>5. Follows'
  <2> SUFFICES ASSUME ~torn', playlist' # << >>
               PROVE  /\ \A s \in Song : loads'[s] # << >> => s = playlist'[current' + 1]
                      /\ Awaited' \/ media'.song = playlist'[current' + 1]
    BY <1>2 DEF Follows, SongAt
  <2> QED BY <1>3 DEF Follows
<1> QED
  BY <1>4, <1>5 DEF Followed

(* The callbacks. *)
LEMMA CallbackFollows == ASSUME Inv, Followed, RunCallback PROVE Followed'
<1> DEFINE c == Head(micro)
           rest == Tail(micro)
<1>1. \/ c.do = "setMedia" /\ RunSetMedia(c, rest)
      \/ c.do = "then" /\ c.then.do = "play" /\ RunPlay(rest)
      \/ c.do = "then" /\ c.then.do = "restore" /\ RunRestore(c.then, rest)
      \/ c.do = "add" /\ RunAdd(c.song, rest)
      \/ c.do = "reset" /\ RunReset(rest)
  BY DEF RunCallback
<1>2. micro # << >> /\ micro \in Seq(Callback) /\ media \in Media
  BY DEF RunCallback, Inv, LoopTyped, Queues
<1> SUFFICES ASSUME ~late', broken' = {} PROVE Followed'
  BY DEF Followed
<1>3. broken' = broken /\ (late => late')
  <2> HIDE DEF c, rest
  <2>1. CASE RunSetMedia(c, rest) \/ RunPlay(rest) \/ RunReset(rest)
    BY <2>1 DEF RunSetMedia, RunPlay, RunReset, history
  <2>2. ASSUME NEW s, NEW playNow, NEW then, Add(s, playNow, then, rest) PROVE late => late'
    BY <2>2 DEF Add, Select, NoSelect
  <2>3. CASE RunAdd(c.song, rest)
    BY <2>2, <2>3 DEF RunAdd
  <2>4. CASE RunRestore(c.then, rest)
    <3>1. CASE c.then.songs # << >>
      BY <2>2, <2>4, <3>1 DEF RunRestore
    <3>2. CASE c.then.songs = << >>
      BY <2>4, <3>2 DEF RunRestore, SelectAt, Select, NoSelect
    <3> QED BY <3>1, <3>2
  <2> QED BY <1>1, <2>1, <2>3, <2>4
<1>4. OneAtATime /\ Follows
  BY <1>3 DEF Followed
<1>5. OneDriver(micro)
  BY <1>4 DEF OneAtATime
<1>6. /\ c \in Callback /\ rest \in Seq(Callback)
      /\ OneDriver(rest) /\ Adds(rest) \subseteq Adds(micro)
      /\ ~Drives(c) => Drivers(rest) = Drivers(micro)
      /\ Drives(c) => Drivers(rest) = {} /\ Drivers(micro) = {c}
      /\ c.do = "add" => c \in Adds(micro)
  BY <1>2, <1>5, QueueFirst
<1>7. c.song \in Song \cup {NoSong} /\ c.then \in Then
  BY <1>6 DEF Callback
<1> HIDE DEF c, rest
<1>8. CASE c.do = "setMedia" /\ RunSetMedia(c, rest)
  <2> DEFINE more == IF c.then = Nothing THEN << >> ELSE <<Continue(c.then)>>
             all == rest \o Rejected(media)
  <2>1. Drivers(micro) = {c} /\ Drivers(rest) = {} /\ ~Awaited
    BY <1>4, <1>6, <1>8 DEF Drives, OneAtATime
  <2>2. /\ more \in Seq(Callback) /\ OneDriver(more) /\ Adds(more) = {}
        /\ \A d \in Drivers(more) : d.do = "then" /\ d.then = c.then
        /\ c.then = Nothing => Drivers(more) = {}
    <3>1. Continue(c.then) \in Callback /\ Continue(c.then).do = "then"
          /\ Continue(c.then).then = c.then
      BY <1>7, Callbacks, Kinds
    <3>2. more \in Seq(Callback)
      BY <3>1
    <3> QED BY <3>1, <3>2, QueueOne
  <2>3. /\ all \in Seq(Callback) /\ OneDriver(all)
        /\ Drivers(all) = {} /\ Adds(all) = Adds(rest)
    <3> DEFINE rejected == Rejected(media)
    <3>1. /\ rejected \in Seq(Callback) /\ OneDriver(rejected)
          /\ Drivers(rejected) = {} /\ Adds(rejected) = {}
      BY <1>2, MediaSong
    <3> HIDE DEF rejected
    <3>2. /\ rest \o rejected \in Seq(Callback) /\ OneDriver(rest \o rejected)
          /\ Drivers(rest \o rejected) = Drivers(rest) \cup Drivers(rejected)
          /\ Adds(rest \o rejected) = Adds(rest) \cup Adds(rejected)
      BY <1>6, <3>1, QueueJoined
    <3>3. all = rest \o rejected
      BY DEF rejected
    <3> QED BY <2>1, <3>1, <3>2, <3>3
  <2> HIDE DEF more, all
  <2>4. /\ OneDriver(all \o more) /\ Drivers(all \o more) = Drivers(more)
        /\ Adds(all \o more) = Adds(rest)
    <3>1. /\ OneDriver(all \o more) /\ Drivers(all \o more) = Drivers(all) \cup Drivers(more)
          /\ Adds(all \o more) = Adds(all) \cup Adds(more)
      BY <2>2, <2>3, QueueJoined
    <3> QED BY <2>2, <2>3, <3>1
  <2>5. micro' = all \o more /\ media' = Loaded(c.song)
        /\ UNCHANGED <<listVars, loads, late>>
    BY <1>8 DEF RunSetMedia, all, more, history
  <2>6. ~Awaited' /\ \A s \in Song : loads'[s] = << >>
    BY <2>1, <2>5 DEF Awaited
  <2>7. OneAtATime'
    <3>1. Adds(micro') # {} => Drivers(micro') = {}
      BY <1>4, <1>6, <2>1, <2>2, <2>4, <2>5 DEF OneAtATime
    <3> QED BY <1>4, <2>4, <2>5, <2>6, <3>1 DEF OneAtATime
  <2>8. Follows'
    <3> SUFFICES ASSUME ~torn', playlist' # << >>
                 PROVE  /\ \A d \in Drivers(micro') : d.do = "setMedia" => FALSE
                        /\ media'.song = playlist'[current' + 1]
                        /\ Restores' => current' = 0
      BY <2>6 DEF Follows, SongAt
    <3>1. ~torn /\ playlist # << >> /\ playlist' = playlist /\ current' = current
      BY <2>5 DEF listVars
    <3>2. c.song = SongAt(current) /\ (c.then.do = "restore" => current = 0)
      BY <1>4, <1>8, <2>1, <3>1 DEF Follows, Restores
    <3>3. \A s \in Song : \A i \in DOMAIN loads'[s] : FALSE
      BY <2>6
    <3>4. Restores' => c.then.do = "restore"
      BY <2>2, <2>4, <2>5, <3>3 DEF Restores
    <3>5. media'.song = c.song
      BY <2>5 DEF Loaded
    <3>6. \A d \in Drivers(micro') : d.do = "then"
      BY <2>2, <2>4, <2>5
    <3> QED BY <3>1, <3>2, <3>4, <3>5, <3>6 DEF SongAt
  <2> QED BY <2>7, <2>8 DEF Followed
<1>9. CASE (c.do = "then" /\ c.then.do = "play" /\ RunPlay(rest)) \/ (c.do = "reset" /\ RunReset(rest))
  <2>1. ~Drives(c)
    BY <1>9 DEF Drives
  <2>2. media'.song = media.song
    BY <1>2, <1>9, MediaSong DEF RunPlay, RunReset
  <2> QED BY <1>6, <1>9, <2>1, <2>2, QuietFollows DEF RunPlay, RunReset
<1>10. CASE c.do = "then" /\ c.then.do = "restore" /\ RunRestore(c.then, rest)
  <2> DEFINE then == c.then
  <2>1. then.songs \in Seq(Song) /\ then.index \in Nat
    BY <1>7 DEF Then
  <2>2. Drivers(micro) = {c} /\ Drivers(rest) = {} /\ Adds(rest) = {}
    <3>1. Drives(c)
      BY <1>10 DEF Drives
    <3> QED BY <1>4, <1>6, <1>10, <3>1 DEF OneAtATime
  <2>3. ~torn /\ playlist # << >> => current = 0
    <3>1. Restores
      BY <1>10, <2>2 DEF Restores
    <3> QED BY <1>4, <3>1 DEF Follows
  <2> HIDE DEF then
  <2>4. UNCHANGED <<broken, media>>
    BY <1>10 DEF RunRestore
  <2>5. CASE then.songs # << >>
    <3> DEFINE s == Head(then.songs)
               on == Restoring(Tail(then.songs), then.index)
    <3>1. s \in Song /\ Tail(then.songs) \in Seq(Song)
      BY <2>1, <2>5, HeadTailProperties
    <3>2. on \in Then /\ on.do = "restore" /\ on # Nothing
      <4>1. on \in Then
        BY <2>1, <3>1, Callbacks
      <4>2. on.do = "restore" /\ Nothing.do = "nothing"
        BY Kinds
      <4> HIDE DEF on
      <4> QED BY <4>1, <4>2
    <3>3. Add(s, FALSE, on, rest)
      BY <1>10, <2>5 DEF RunRestore, then
    <3> HIDE DEF s, on
    <3>4. CASE InList(s)
      <4>1. micro' = Append(rest, Continue(on)) /\ UNCHANGED <<loads, late, playlist, current, torn>>
        BY <3>2, <3>3, <3>4 DEF Add, NoSelect, listVars
      <4> QED BY <1>4, <1>6, <1>10, <2>2, <2>3, <2>4, <3>2, <4>1, RestoreGoesOn DEF SongAt
    <3>5. CASE ~InList(s) /\ playlist # << >>
      <4>1. /\ micro' = Append(rest, Continue(on)) /\ UNCHANGED <<loads, late>>
            /\ Push(s) /\ current' = current
        BY <3>2, <3>3, <3>5 DEF Add, NoSelect
      <4>2. /\ ~torn' => ~torn
            /\ ~torn => playlist'[current' + 1] = SongAt(current)
        BY <3>1, <3>5, <4>1, PushedBehind DEF Inv
      <4>3. ~torn' /\ playlist' # << >> =>
              /\ ~torn /\ playlist # << >> /\ current' = 0
              /\ playlist'[current' + 1] = SongAt(current)
        BY <2>3, <3>5, <4>1, <4>2
      <4> QED BY <1>4, <1>6, <1>10, <2>2, <2>4, <3>2, <4>1, <4>3, RestoreGoesOn
    <3>6. CASE ~InList(s) /\ playlist = << >>
      <4>1. Push(s) /\ current' = Len(playlist) /\ Select(s, on, rest)
        BY <3>3, <3>6 DEF Add
      <4>2. current' = 0 /\ s = playlist'[current' + 1]
        <5>1. Len(<< >>) = 0
          OBVIOUS
        <5>2. current' = 0
          BY <3>6, <4>1, <5>1
        <5>3. playlist'[Len(playlist) + 1] = s
          BY <3>1, <4>1, PushedBehind DEF Inv
        <5> QED BY <4>1, <5>2, <5>3
      <4> QED BY <1>6, <2>2, <2>4, <3>1, <3>2, <4>1, <4>2, SelectFollows
    <3> QED BY <3>4, <3>5, <3>6
  <2>6. CASE then.songs = << >> /\ then.index < Len(playlist)
    <3>1. SelectAt(then.index, PlayIt, rest) /\ UNCHANGED playlist
      BY <1>10, <2>6 DEF RunRestore, then
    <3>2. then.index \in 0 .. Len(playlist) - 1
      BY <2>1, <2>6, ListFacts DEF Inv, ListInv
    <3>3. PlayIt \in Then /\ PlayIt.do # "restore"
      BY Callbacks, Kinds
    <3> QED BY <1>6, <2>2, <2>4, <3>1, <3>2, <3>3, SelectAtFollows
  <2>7. CASE then.songs = << >> /\ ~(then.index < Len(playlist))
    <3>1. /\ current' = 0 /\ micro' = Append(rest, Continue(PlayIt))
          /\ UNCHANGED <<loads, late, playlist, torn>>
      BY <1>10, <2>7 DEF RunRestore, NoSelect, then
    <3>2. PlayIt \in Then
      BY Callbacks
    <3>3. ~torn' /\ playlist' # << >> =>
            /\ ~torn /\ playlist # << >> /\ current' = 0
            /\ playlist'[current' + 1] = SongAt(current)
      BY <2>3, <3>1 DEF SongAt
    <3> QED BY <1>4, <1>6, <1>10, <2>2, <2>4, <3>1, <3>2, <3>3, RestoreGoesOn
  <2> QED BY <2>5, <2>6, <2>7
<1>11. CASE c.do = "add" /\ RunAdd(c.song, rest)
  <2>1. c.song \in Song /\ ~Drives(c) /\ Adds(micro) # {}
    BY <1>6, <1>11 DEF Callback, Drives
  <2>2. Add(c.song, FALSE, Nothing, rest) /\ UNCHANGED <<broken, media>>
    BY <1>11 DEF RunAdd
  <2>3. playlist = << >> => Drivers(rest) = {}
    BY <1>4, <1>6, <2>1 DEF OneAtATime
  <2> QED BY <1>6, <2>1, <2>2, <2>3, AddFollows
<1> QED
  BY <1>1, <1>8, <1>9, <1>10, <1>11

(* No event is handled before the callbacks have run. *)
LEMMA IdleQueue ==
  ASSUME Idle
  PROVE  /\ << >> \in Seq(Callback) /\ micro = << >>
         /\ OneDriver(micro) /\ Drivers(micro) = {} /\ Adds(micro) = {}
BY QueueOne DEF Idle

(* The songs that arrive. *)
LEMMA ArrivalFollows ==
  ASSUME Inv, Followed,
         \/ \E s \in Song, playNow \in BOOLEAN : SongArrives(s, playNow)
         \/ \E s \in Song : RandomArrives(s)
         \/ RandomFails
         \/ \E a \in Albums : AlbumArrives(a)
         \/ \E p \in Saved : Restore(p)
  PROVE  Followed'
<1>a. media \in Media
  BY DEF Inv, LoopTyped
<1>1. ASSUME NEW s \in Song, NEW playNow \in BOOLEAN, Idle, Add(s, playNow, Nothing, << >>),
             broken' = broken, media'.song = media.song
      PROVE  Followed'
  BY <1>1, IdleQueue, AddFollows
<1>2. ASSUME NEW s \in Song, NEW playNow \in BOOLEAN, SongArrives(s, playNow) PROVE Followed'
  BY <1>1, <1>2 DEF SongArrives
<1>3. ASSUME NEW s \in Song, RandomArrives(s) PROVE Followed'
  <2>1. media'.song = media.song
    BY <1>a, <1>3, MediaSong DEF RandomArrives
  <2> QED BY <1>1, <1>3, <2>1 DEF RandomArrives
<1>4. CASE RandomFails
  <2>1. media'.song = media.song
    BY <1>a, <1>4, MediaSong DEF RandomFails
  <2> QED BY <1>4, <2>1, IdleQueue, QuietFollows DEF RandomFails
<1>5. ASSUME NEW a \in Albums, AlbumArrives(a) PROVE Followed'
  <2>1. micro' = [i \in DOMAIN a |-> AddOf(a[i])]
    BY <1>5 DEF AlbumArrives
  <2>2. \A i \in DOMAIN micro' : ~Drives(micro'[i])
    BY <2>1, Kinds
  <2>3. OneDriver(micro') /\ Drivers(micro') = {}
    BY <2>2 DEF OneDriver, Drivers, Calls
  <2>4. Drivers(micro) = {}
    BY <1>5, IdleQueue DEF AlbumArrives
  <2> QED BY <1>5, <2>3, <2>4, StepFollows DEF AlbumArrives, listVars, history, SongAt
<1>6. ASSUME NEW p \in Saved, Restore(p) PROVE Followed'
  <2> DEFINE c == Continue(Restoring(p.songs, p.index))
  <2>1. micro' = <<c>> /\ playlist' = << >> /\ UNCHANGED <<loads, broken, late>>
    BY <1>6 DEF Restore, Clear, history
  <2>2. c.do = "then"
    BY Kinds
  <2> HIDE DEF c
  <2> SUFFICES ASSUME ~late', broken' = {} PROVE OneAtATime' /\ Follows'
    BY DEF Followed
  <2>3. OneAtATime
    BY <2>1 DEF Followed
  <2>4. OneDriver(micro') /\ Adds(micro') = {} /\ \A d \in Drivers(micro') : d.do = "then"
    BY <2>1, <2>2, QueueOne
  <2>5. OneAtATime'
    BY <2>1, <2>3, <2>4 DEF OneAtATime
  <2>6. Follows'
    BY <2>1 DEF Follows
  <2> QED BY <2>5, <2>6
<1> QED
  BY <1>2, <1>3, <1>4, <1>5, <1>6

(* Next, previous, a click on an item, the end of the song and the key z. *)
LEMMA SelectionFollows ==
  ASSUME Inv, Followed,
         \/ NextSong \/ Ended \/ EndsEarly \/ Previous \/ RestartKey
         \/ \E i \in DOMAIN dom : ClickItem(i)
  PROVE  Followed'
<1>a. media \in Media
  BY DEF Inv, LoopTyped
<1>b. current \in Int /\ Len(playlist) \in Nat
  BY ListFacts DEF Inv, ListInv, ListTyped
<1>c. PlayIt \in Then /\ PlayIt.do # "restore" /\ PlayIt # Nothing
  <2>1. PlayIt \in Then
    BY Callbacks
  <2>2. PlayIt.do = "play" /\ Nothing.do = "nothing"
    BY Kinds
  <2> QED BY <2>1, <2>2
<1>1. ASSUME Idle, NEW index \in 0 .. Len(playlist) - 1, SelectAt(index, PlayIt, << >>),
             UNCHANGED <<playlist, broken>>
      PROVE  Followed'
  BY <1>c, <1>1, IdleQueue, SelectAtFollows
<1>2. ASSUME Idle, UNCHANGED <<listVars, micro, loads, broken, history>>, media'.song = media.song
      PROVE  Followed'
  BY <1>2, IdleQueue, QuietFollows
<1>3. ASSUME Idle, Next0, media'.song = media.song PROVE Followed'
  <2>1. CASE AskRandom
    BY <1>2, <1>3, <2>1 DEF AskRandom
  <2>2. CASE /\ current + 1 < Len(playlist) /\ current + 1 > 0
             /\ SelectAt(current + 1, PlayIt, << >>)
             /\ UNCHANGED <<playlist, removing, dom, slides, torn, remote, ready, broken, random>>
    <3>1. current + 1 \in 0 .. Len(playlist) - 1
      BY <1>b, <2>2
    <3> QED BY <1>1, <1>3, <2>2, <3>1
  <2> QED BY <1>3, <2>1, <2>2 DEF Next0
<1>4. CASE NextSong
  BY <1>3, <1>4 DEF NextSong
<1>5. CASE Ended \/ EndsEarly
  <2>1. media'.song = media.song
    BY <1>a, <1>5 DEF Ended, EndsEarly, Media
  <2> QED BY <1>2, <1>3, <1>5, <2>1 DEF Ended, EndsEarly
<1>6. CASE Previous
  <2>1. current - 1 \in 0 .. Len(playlist) - 1
    BY <1>b, <1>6 DEF Previous
  <2> QED BY <1>1, <1>6, <2>1 DEF Previous, PlayAt
<1>7. ASSUME NEW i \in DOMAIN dom, ClickItem(i) PROVE Followed'
  <2>1. DisplayedIndex(playlist, i - 1) \in 0 .. Len(playlist) - 1
    BY <1>b, <1>7, ListFacts DEF Inv, ListInv, ClickItem, DisplayedIndex
  <2> QED BY <1>1, <1>7, <2>1 DEF ClickItem, PlayAt
<1>8. CASE RestartKey
  <2> DEFINE back == IF current > 0 THEN current - 1 ELSE 0
             rejected == Rejected(Stop(media))
             song == SongAt(back)
             load == IF Ready(song) THEN <<SetMediaOf(song, PlayIt)>> ELSE << >>
  <2>1. back \in 0 .. Len(playlist) - 1 /\ (current = 0 => back = current)
    BY <1>b, <1>8 DEF RestartKey
  <2>2. song \in Song
    BY <1>b, <2>1, ListFacts DEF Inv, ListInv, SongAt
  <2>3. /\ current' = back /\ media' = Play(Loaded(song))
        /\ UNCHANGED <<playlist, torn, broken>>
        /\ \/ /\ back # current
              /\ micro' = load \o rejected
              /\ Await(song, PlayIt) /\ late' = (late \/ Awaited)
           \/ back = current /\ micro' = rejected /\ UNCHANGED <<loads, late>>
    BY <1>8 DEF RestartKey
  <2>4. Idle
    BY <1>8 DEF RestartKey
  <2>5. Stop(media) \in Media
    BY <1>a, MediaOps
  <2>6. /\ rejected \in Seq(Callback) /\ OneDriver(rejected)
        /\ Drivers(rejected) = {} /\ Adds(rejected) = {}
    BY <2>5, MediaSong
  <2>7. media'.song = song
    <3>1. Loaded(song) \in Media /\ Loaded(song).song = song
      BY <2>2, MediaOps DEF Loaded
    <3> QED BY <2>3, <3>1, MediaSong
  <2>8. song = playlist'[current' + 1]
    BY <2>3 DEF SongAt
  <2> HIDE DEF back, rejected, song
  <2>9. CASE back # current
    <3> DEFINE alone == IF Ready(song) THEN Append(<< >>, SetMediaOf(song, PlayIt)) ELSE << >>
    <3> SUFFICES ASSUME ~late', broken' = {} PROVE OneAtATime' /\ Follows'
      BY DEF Followed
    <3>1. /\ micro' = load \o rejected /\ Await(song, PlayIt) /\ late' = (late \/ Awaited)
      BY <2>3, <2>9
    <3>2. ~late /\ ~Awaited /\ broken = {}
      BY <2>3, <3>1
    <3>3. OneAtATime /\ Follows
      BY <3>2 DEF Followed
    <3>4. /\ load \in Seq(Callback) /\ OneDriver(load) /\ Adds(load) = {}
          /\ \A d \in Drivers(load) : d.song = song /\ d.do = "setMedia" /\ d.then = PlayIt
      <4>1. SetMediaOf(song, PlayIt) \in Callback
            /\ SetMediaOf(song, PlayIt).song = song
            /\ SetMediaOf(song, PlayIt).do = "setMedia" /\ SetMediaOf(song, PlayIt).then = PlayIt
        BY <1>c, <2>2, Callbacks, Kinds
      <4>2. load \in Seq(Callback)
        BY <4>1
      <4> QED BY <4>1, <4>2, QueueOne
    <3>5. ~Ready(song) => Drivers(load) = {}
      BY QueueOne
    <3> HIDE DEF load
    <3>6. /\ OneDriver(micro') /\ Adds(micro') = {} /\ Drivers(micro') = Drivers(load)
      <4>1. /\ OneDriver(load \o rejected)
            /\ Drivers(load \o rejected) = Drivers(load) \cup Drivers(rejected)
            /\ Adds(load \o rejected) = Adds(load) \cup Adds(rejected)
        BY <2>6, <3>4, QueueJoined
      <4> QED BY <2>6, <3>1, <3>4, <4>1
    <3>7. \A s \in Song : loads[s] = << >>
      BY <3>2 DEF Awaited
    <3>8. loads \in [Song -> Seq(Then)]
      BY DEF Inv, LoopTyped, Queues
    <3>9. /\ \A s \in Song : s # song => loads'[s] = << >>
          /\ Ready(song) => loads'[song] = << >>
          /\ loads'[song] = << >> \/ loads'[song] = <<PlayIt>>
      <4>1. \A s \in Song : s # song => loads'[s] = << >>
        BY <3>1, <3>7, <3>8 DEF Await
      <4>2. CASE loads' = loads
        BY <2>2, <3>7, <4>1, <4>2
      <4>3. CASE ~Ready(song) /\ loads' = [loads EXCEPT ![song] = Append(@, PlayIt)]
        <5>1. loads'[song] = Append(loads[song], PlayIt)
          BY <2>2, <3>8, <4>3
        <5>2. loads[song] = << >>
          BY <2>2, <3>7
        <5>3. Append(<< >>, PlayIt) = <<PlayIt>>
          OBVIOUS
        <5>4. loads'[song] = <<PlayIt>>
          BY <5>1, <5>2, <5>3
        <5> QED BY <4>1, <4>3, <5>4
      <4> QED BY <3>1, <4>2, <4>3 DEF Await
    <3>10. \A s \in Song : loads'[s] = << >> \/ (loads'[s] = <<PlayIt>> /\ s = song)
      BY <3>9
    <3>11. \A s \in Song : Len(loads'[s]) <= 1 /\ \A i \in DOMAIN loads'[s] : loads'[s][i] = PlayIt
      <4>1. Len(<< >>) <= 1 /\ DOMAIN << >> = {}
        OBVIOUS
      <4>2. Len(<<PlayIt>>) <= 1 /\ \A i \in DOMAIN <<PlayIt>> : <<PlayIt>>[i] = PlayIt
        OBVIOUS
      <4> SUFFICES ASSUME NEW s \in Song
                   PROVE  Len(loads'[s]) <= 1 /\ \A i \in DOMAIN loads'[s] : loads'[s][i] = PlayIt
        OBVIOUS
      <4>3. CASE loads'[s] = << >>
        BY <4>1, <4>3
      <4>4. CASE loads'[s] = <<PlayIt>>
        BY <4>2, <4>4
      <4> QED BY <3>10, <4>3, <4>4
    <3>12. Drivers(micro') # {} => ~Awaited'
      <4>1. Drivers(micro') # {} => Ready(song)
        BY <3>5, <3>6
      <4> QED BY <3>9, <4>1 DEF Awaited
    <3>13. OneAtATime'
      <4>1. \A s, t \in Song : loads'[s] # << >> /\ loads'[t] # << >> => s = t
        BY <3>10
      <4> QED BY <3>6, <3>11, <3>12, <4>1 DEF OneAtATime
    <3>14. Follows'
      <4>1. ~Restores'
        BY <1>c, <3>4, <3>6, <3>11 DEF Restores
      <4>2. \A s \in Song : loads'[s] # << >> => s = playlist'[current' + 1]
        BY <2>8, <3>10
      <4> QED BY <2>7, <2>8, <3>4, <3>6, <4>1, <4>2 DEF Follows, SongAt
    <3> QED BY <3>13, <3>14
  <2>10. CASE back = current
    <3>1. micro' = rejected /\ UNCHANGED <<loads, late>> /\ current' = current
      BY <2>3, <2>10
    <3> SUFFICES ASSUME ~late', broken' = {} PROVE OneAtATime' /\ Follows'
      BY DEF Followed
    <3>2. OneAtATime /\ Follows
      BY <2>3, <3>1 DEF Followed
    <3>3. OneAtATime'
      BY <2>6, <3>1, <3>2 DEF OneAtATime
    <3>4. Follows'
      <4>1. Restores' => Restores
        BY <2>6, <3>1 DEF Restores
      <4>2. playlist' = playlist /\ torn' = torn
        BY <2>3
      <4> QED BY <2>6, <2>7, <2>8, <3>1, <3>2, <4>1, <4>2 DEF Follows, SongAt
    <3> QED BY <3>3, <3>4
  <2> QED BY <2>9, <2>10
<1> QED
  BY <1>4, <1>5, <1>6, <1>7, <1>8

(* The removals: the click leaves all as it is; the end of the animation keeps
   the current song or selects the one that takes its place. *)
LEMMA RemovalFollows ==
  ASSUME Inv, Followed,
         \/ \E i \in DOMAIN dom, dir \in Direction : ClickRemove(i, dir)
         \/ \E k \in slides : SlideEnds(k)
  PROVE  Followed'
<1>a. media \in Media /\ ListInv
  BY DEF Inv, LoopTyped
<1>1. ASSUME NEW i \in DOMAIN dom, NEW dir \in Direction, ClickRemove(i, dir) PROVE Followed'
  <2>1. /\ UNCHANGED <<playlist, current, torn>>
        /\ UNCHANGED <<micro, loads, broken, media, late>>
    BY <1>1 DEF ClickRemove, StartRemoval, loopVars, history
  <2>2. OneDriver(micro') /\ Drivers(micro') = {} /\ Drivers(micro) = {}
    BY <1>1, <2>1, IdleQueue DEF ClickRemove
  <2> QED BY <2>1, <2>2, StepFollows DEF SongAt
<1>2. ASSUME NEW k \in slides, SlideEnds(k) PROVE Followed'
  <2> DEFINE r == RemovedIndex(k)
  <2>1. /\ FinishRemoval(k) /\ broken' = broken /\ Idle
        /\ playlist' = Splice(playlist, r) /\ current' = CurrentAfter(playlist', r) /\ torn' = torn
    BY <1>2 DEF SlideEnds, FinishRemoval
  <2>2. playlist' \in Seq(Song)
    BY <2>1, FinishKeepsList, <1>a DEF ListInv, ListTyped
  <2>3. Len(playlist') \in Nat /\ DOMAIN playlist' = 1 .. Len(playlist')
        /\ \A j \in DOMAIN playlist' : playlist'[j] \in Song
    BY <2>2, LenProperties, ElementOfSeq
  <2>4. CASE Reselects(k) /\ ~Throws(k)
    <3> DEFINE song == playlist'[current' + 1]
    <3>1. Select(song, Nothing, << >>)
      BY <1>2, <2>4 DEF SlideEnds
    <3>2. current \in Int /\ current >= 0 /\ r = current /\ Len(playlist') > 0
      BY <1>a, <2>1, <2>4 DEF Reselects, Throws, ListInv, ListTyped
    <3>3. current' + 1 \in DOMAIN playlist'
      BY <2>1, <2>3, <3>2 DEF CurrentAfter
    <3>4. song \in Song
      BY <2>3, <3>3
    <3>5. song = playlist'[current' + 1]
      OBVIOUS
    <3>6. Nothing \in Then /\ Nothing.do # "restore"
      BY Callbacks, Kinds
    <3>7. << >> \in Seq(Callback) /\ OneDriver(<< >>) /\ Drivers(<< >>) = {} /\ Adds(<< >>) = {}
      BY QueueOne
    <3> HIDE DEF song
    <3> QED BY <2>1, <3>1, <3>4, <3>5, <3>6, <3>7, SelectFollows
  <2>5. CASE ~(Reselects(k) /\ ~Throws(k))
    <3>1. /\ micro' = IF playlist' = << >> THEN Rejected(media) ELSE << >>
          /\ playlist' # << >> => media' = media
          /\ UNCHANGED <<loads, late>>
      BY <1>2, <2>5 DEF SlideEnds
    <3>2. OneDriver(micro') /\ Drivers(micro') = {}
      BY <1>a, <3>1, MediaSong, QueueOne
    <3>3. Drivers(micro) = {}
      BY <2>1, IdleQueue
    <3>4. ASSUME ~torn', playlist' # << >>
          PROVE  /\ ~torn /\ playlist # << >>
                 /\ playlist'[current' + 1] = SongAt(current) /\ (current = 0 => current' = 0)
      <4>1. ~torn
        BY <2>1, <3>4
      <4>2. r \in 0 .. Len(playlist) - 1 /\ current \in 0 .. Len(playlist) - 1
        BY <1>a, <2>1, <4>1, FinishIs
      <4>3. /\ Len(playlist') = Len(playlist) - 1
            /\ \A j \in 1 .. Len(playlist) - 1 :
                 playlist'[j] = IF j <= r THEN playlist[j] ELSE playlist[j + 1]
        BY <1>a, <2>1, <4>1, FinishIsExact
      <4>4. Len(playlist) \in Nat /\ (playlist = << >> => Len(playlist) = 0)
        BY <1>a, ListFacts DEF ListInv
      <4>5. Len(playlist') > 0
        <5>1. Len(playlist') # 0
          BY <2>2, <3>4, EmptySeq
        <5> QED BY <2>3, <5>1
      <4>6. r # current
        <5>1. ~Throws(k)
          BY <4>2 DEF Throws
        <5>2. ~Reselects(k)
          BY <2>5, <5>1
        <5> QED BY <2>1, <4>5, <5>2 DEF Reselects
      <4> HIDE DEF r
      <4>7. current' = IF r < current THEN current - 1 ELSE current
        BY <2>1, <4>2, <4>4, <4>5, <4>6 DEF CurrentAfter
      <4>8. CASE r < current
        <5>1. current' + 1 = current /\ current \in 1 .. Len(playlist) - 1 /\ ~(current <= r)
          BY <4>2, <4>4, <4>7, <4>8
        <5>2. playlist'[current] = playlist[current + 1]
          BY <4>3, <5>1
        <5> QED BY <4>1, <4>2, <4>4, <5>1, <5>2 DEF SongAt
      <4>9. CASE ~(r < current)
        <5>1. current' = current /\ current + 1 \in 1 .. Len(playlist) - 1 /\ current + 1 <= r
          BY <4>2, <4>4, <4>6, <4>7, <4>9
        <5>2. playlist'[current + 1] = playlist[current + 1]
          BY <4>3, <5>1
        <5> QED BY <4>1, <4>2, <4>4, <5>1, <5>2 DEF SongAt
      <4> QED BY <4>8, <4>9
    <3> QED BY <2>1, <3>1, <3>2, <3>3, <3>4, StepFollows
  <2> QED BY <2>4, <2>5
<1> QED
  BY <1>1, <1>2

(* The keys, the audio element and the downloads: the song whose download ends
   is the only one that was awaited. *)
LEMMA ElementFollows ==
  ASSUME Inv, Followed,
         \/ TogglePause \/ StopKey \/ Starts \/ StartFails \/ AbortAnswered
         \/ \E s \in Song : DownloadEnds(s) \/ DownloadFails(s)
  PROVE  Followed'
<1>a. media \in Media
  BY DEF Inv, LoopTyped
<1>1. ASSUME Idle, UNCHANGED <<listVars, loads, broken, history>>, media'.song = media.song,
             micro' = micro \/ micro' = <<ResetOf(media.song)>>
      PROVE  Followed'
  <2>1. OneDriver(micro') /\ Drivers(micro') = {} /\ Adds(micro') = {}
    <3>1. ~Drives(ResetOf(media.song)) /\ ResetOf(media.song).do = "reset"
      BY Kinds
    <3>2. CASE micro' = micro
      BY <1>1, <3>2, IdleQueue
    <3>3. CASE micro' = <<ResetOf(media.song)>>
      BY <3>1, <3>3, QueueOne
    <3> QED BY <1>1, <3>2, <3>3
  <2>2. Drivers(micro) = {}
    BY <1>1, IdleQueue
  <2> QED BY <1>1, <2>1, <2>2, QuietFollows
<1>2. CASE TogglePause \/ StopKey
  <2>1. media'.song = media.song
    BY <1>a, <1>2, MediaSong DEF TogglePause, StopKey
  <2> QED BY <1>1, <1>2, <2>1 DEF TogglePause, StopKey
<1>3. CASE Starts \/ StartFails \/ AbortAnswered
  <2>1. media'.song = media.song
    BY <1>a, <1>3 DEF Starts, StartFails, AbortAnswered, Media
  <2> QED BY <1>1, <1>3, <2>1 DEF Starts, StartFails, AbortAnswered
<1>4. ASSUME NEW s \in Song, DownloadEnds(s) PROVE Followed'
  <2> SUFFICES ASSUME ~late', broken' = {} PROVE OneAtATime' /\ Follows'
    BY DEF Followed
  <2>1. /\ UNCHANGED <<listVars, broken, media, late>> /\ loads[s] # << >>
        /\ loads' = [loads EXCEPT ![s] = << >>]
        /\ micro' = [i \in DOMAIN loads[s] |-> SetMediaOf(s, loads[s][i])]
    BY <1>4 DEF DownloadEnds, history
  <2>2. OneAtATime /\ Follows
    BY <2>1 DEF Followed
  <2>3. loads \in [Song -> Seq(Then)]
    BY DEF Inv, LoopTyped, Queues
  <2>4. \A t \in Song : loads'[t] = << >>
    BY <2>1, <2>2, <2>3 DEF OneAtATime
  <2>5. DOMAIN loads[s] = {1}
    <3> DEFINE n == Len(loads[s])
    <3>1. n \in Nat /\ DOMAIN loads[s] = 1 .. n /\ n # 0
      BY <2>1, <2>3, LenProperties, EmptySeq
    <3>2. n <= 1
      BY <2>2 DEF OneAtATime
    <3> HIDE DEF n
    <3>3. n = 1
      BY <3>1, <3>2
    <3> QED BY <3>1, <3>3
  <2> DEFINE then == loads[s][1]
             c == SetMediaOf(s, then)
  <2>6. c.do = "setMedia" /\ c.song = s /\ c.then = then /\ Drives(c)
    BY Kinds
  <2>7. DOMAIN micro' = {1} /\ micro'[1] = c
    BY <2>1, <2>5
  <2> HIDE DEF c, then
  <2>8. OneDriver(micro') /\ Drivers(micro') = {c} /\ Adds(micro') = {}
    <3>1. Calls(micro') = {c}
      BY <2>7 DEF Calls
    <3> QED BY <2>6, <2>7, <3>1 DEF OneDriver, Drivers, Adds
  <2>9. ~Awaited'
    BY <2>4 DEF Awaited
  <2>10. OneAtATime'
    <3>1. Len(<< >>) <= 1
      OBVIOUS
    <3>2. \A t \in Song : Len(loads'[t]) <= 1
      BY <2>4, <3>1
    <3> QED BY <2>4, <2>8, <2>9, <3>2 DEF OneAtATime
  <2>11. Follows'
    <3> SUFFICES ASSUME ~torn', playlist' # << >>
                 PROVE  /\ \A d \in Drivers(micro') : d.do = "setMedia" => d.song = playlist'[current' + 1]
                        /\ \E d \in Drivers(micro') : d.do = "setMedia"
                        /\ Restores' => current' = 0
      BY <2>4 DEF Follows, SongAt
    <3>1. ~torn /\ playlist # << >> /\ playlist' = playlist /\ current' = current
      BY <2>1 DEF listVars
    <3>2. s = playlist'[current' + 1]
      BY <2>1, <2>2, <3>1 DEF Follows, SongAt
    <3>3. \A t \in Song : \A i \in DOMAIN loads'[t] : FALSE
      BY <2>4
    <3>4. Restores' => then.do = "restore"
      BY <2>6, <2>8, <3>3 DEF Restores
    <3>5. then.do = "restore" => Restores
      BY <2>5 DEF Restores, then
    <3> QED BY <2>2, <2>6, <2>8, <3>1, <3>2, <3>4, <3>5 DEF Follows
  <2> QED BY <2>10, <2>11
<1>5. ASSUME NEW s \in Song, DownloadFails(s) PROVE Followed'
  BY <1>5 DEF DownloadFails, Followed
<1> QED
  BY <1>2, <1>3, <1>4, <1>5

(* The ready event selects the current song once more, or there is none. *)
LEMMA ReadyFollows == ASSUME Inv, Followed, ReadyHandled PROVE Followed'
<1>1. Idle /\ UNCHANGED <<playlist, broken, media>>
  BY DEF ReadyHandled, Redraw
<1>2. PlayIt \in Then /\ PlayIt.do # "restore"
  <2>1. PlayIt.do = "play"
    BY Kinds
  <2> QED BY <2>1, Callbacks
<1>3. CASE current \in 0 .. Len(playlist) - 1
  <2>1. SelectAt(current, PlayIt, << >>)
    BY <1>3 DEF ReadyHandled
  <2> QED BY <1>1, <1>2, <1>3, <2>1, IdleQueue, SelectAtFollows
<1>4. CASE current \notin 0 .. Len(playlist) - 1
  <2>1. current' = current /\ micro' = << >> /\ UNCHANGED <<loads, late>>
    BY <1>4 DEF ReadyHandled, NoSelect
  <2>2. Drivers(micro) = {} /\ Drivers(micro') = {} /\ OneDriver(micro')
    BY <1>1, <2>1, IdleQueue, QueueOne
  <2>3. ~torn' => ~torn
    BY DEF ReadyHandled, Redraw
  <2> QED BY <1>1, <2>1, <2>2, <2>3, StepFollows DEF SongAt
<1> QED
  BY <1>3, <1>4

(* Every handler keeps the loads after the current song. *)
LEMMA FollowedNext == Inv /\ Followed /\ [Next]_vars => Followed'
<1> SUFFICES ASSUME Inv, Followed, [Next]_vars PROVE Followed'
  OBVIOUS
<1>1. CASE UNCHANGED vars
  <2>1. UNCHANGED <<playlist, current, torn, micro, loads, broken, media, late>>
    BY <1>1 DEF vars, listVars, loopVars, history
  <2> QED BY <2>1 DEF Followed, OneAtATime, Follows, Restores, Awaited, SongAt
<1>2. CASE Next
  BY <1>2, CallbackFollows, ArrivalFollows, SelectionFollows, RemovalFollows, ElementFollows,
     ReadyFollows
  DEF Next
<1> QED
  BY <1>1, <1>2

(* What the audio element has loaded, once the callbacks have run and no   *)
(* download is awaited, is the current song - unless a song was selected   *)
(* while another was downloaded, a download failed, or the list grew or    *)
(* was cleared under an animation, or was shown anew.                      *)
THEOREM MediaIsCurrentHolds == Spec => []MediaIsCurrent
<1>1. Init => Followed
  <2> SUFFICES ASSUME Init PROVE OneAtATime /\ Follows
    BY DEF Followed
  <2>1. /\ playlist = << >> /\ micro = << >> /\ \A s \in Song : loads[s] = << >>
    BY DEF Init, ListInit
  <2>2. Len(<< >>) <= 1
    OBVIOUS
  <2>3. \A s \in Song : Len(loads[s]) <= 1
    BY <2>1, <2>2
  <2>4. OneDriver(micro) /\ Drivers(micro) = {} /\ Adds(micro) = {}
    BY <2>1, QueueOne
  <2> QED BY <2>1, <2>3, <2>4 DEF OneAtATime, Follows
<1>2. Followed => MediaIsCurrent
  <2> SUFFICES ASSUME Followed, Idle, ~Awaited, playlist # << >>, ~late, ~torn, broken = {}
               PROVE  media.song = SongAt(current)
    BY DEF MediaIsCurrent
  <2>1. Follows /\ Drivers(micro) = {}
    BY IdleQueue DEF Followed
  <2> QED BY <2>1 DEF Follows
<1>3. Inv /\ Followed /\ [Next]_vars => Followed'
  BY FollowedNext
<1> QED
  BY <1>1, <1>2, <1>3, InvHolds, PTL DEF Spec
-----------------------------------------------------------------------------
(* What follows the end of a song. *)
Loading(q) == \E i \in DOMAIN q : q[i].do = "setMedia"
Selecting == Awaited \/ Loading(micro)

(* A load in the queue stays there until it runs, whatever is queued behind. *)
LEMMA LoadingStays ==
  /\ \A q \in Seq(Callback), c \in Callback : Loading(q) => Loading(Append(q, c))
  /\ \A q \in Seq(Callback), s \in Song \cup {NoSong}, then \in Then :
       Loading(Append(q, SetMediaOf(s, then)))
  /\ \A q \in Seq(Callback) :
       q # << >> /\ Head(q).do # "setMedia" /\ Loading(q) => Loading(Tail(q))
<1>1. ASSUME NEW q \in Seq(Callback), NEW c \in Callback
      PROVE  /\ Loading(q) => Loading(Append(q, c))
             /\ c.do = "setMedia" => Loading(Append(q, c))
  <2>1. /\ Len(q) \in Nat /\ DOMAIN q = 1 .. Len(q)
        /\ DOMAIN Append(q, c) = 1 .. Len(q) + 1 /\ Append(q, c)[Len(q) + 1] = c
        /\ \A i \in 1 .. Len(q) : Append(q, c)[i] = q[i]
    BY AppendProperties, LenProperties
  <2>2. ASSUME Loading(q) PROVE Loading(Append(q, c))
    <3>1. PICK i \in 1 .. Len(q) : q[i].do = "setMedia"
      BY <2>1, <2>2 DEF Loading
    <3>2. i \in DOMAIN Append(q, c) /\ Append(q, c)[i].do = "setMedia"
      BY <2>1, <3>1
    <3> QED BY <3>2 DEF Loading
  <2>3. ASSUME c.do = "setMedia" PROVE Loading(Append(q, c))
    <3>1. Len(q) + 1 \in DOMAIN Append(q, c)
      BY <2>1
    <3> QED BY <2>1, <2>3, <3>1 DEF Loading
  <2> QED BY <2>2, <2>3
<1>2. ASSUME NEW s \in Song \cup {NoSong}, NEW then \in Then
      PROVE  SetMediaOf(s, then) \in Callback /\ SetMediaOf(s, then).do = "setMedia"
  BY Callbacks DEF SetMediaOf
<1>3. ASSUME NEW q \in Seq(Callback), q # << >>, Head(q).do # "setMedia", Loading(q)
      PROVE  Loading(Tail(q))
  <2>1. /\ Len(q) \in Nat /\ DOMAIN q = 1 .. Len(q) /\ Head(q) = q[1]
        /\ DOMAIN Tail(q) = 1 .. Len(q) - 1 /\ \A i \in 1 .. Len(q) - 1 : Tail(q)[i] = q[i + 1]
    BY <1>3, HeadTailProperties, LenProperties
  <2>2. PICK i \in 1 .. Len(q) : q[i].do = "setMedia"
    BY <1>3, <2>1 DEF Loading
  <2>3. i - 1 \in 1 .. Len(q) - 1 /\ (i - 1) + 1 = i
    BY <1>3, <2>1, <2>2
  <2>4. Tail(q)[i - 1] = q[i]
    BY <2>1, <2>3
  <2> QED BY <2>1, <2>2, <2>3, <2>4 DEF Loading
<1> QED
  BY <1>1, <1>2, <1>3

(* A selection is queued or awaited, unless the download of its song failed
   before; the downloads that were awaited still are. *)
LEMMA SelectGoes ==
  ASSUME Queues, NEW song \in Song, NEW then \in Then, NEW after \in Seq(Callback),
         Select(song, then, after)
  PROVE  /\ Awaited \/ Loading(after) => Selecting'
         /\ Selecting' \/ broken # {}
<1>1. loads \in [Song -> Seq(Then)]
  BY DEF Queues
<1>2. Append(loads[song], then) # << >>
  <2> DEFINE q == Append(loads[song], then)
  <2>1. Len(q) = Len(loads[song]) + 1 /\ Len(loads[song]) \in Nat
    BY <1>1, AppendProperties, LenProperties
  <2>2. Len(<< >>) = 0
    OBVIOUS
  <2> HIDE DEF q
  <2>3. q # << >>
    BY <2>1, <2>2
  <2> QED BY <2>3 DEF q
<1>3. loads' = loads \/ loads' = [loads EXCEPT ![song] = Append(loads[song], then)]
  BY DEF Select, Await
<1>4. Awaited => Awaited'
  BY <1>1, <1>2, <1>3 DEF Awaited
<1>5. CASE Ready(song)
  <2>1. micro' = Append(after, SetMediaOf(song, then))
    BY <1>5 DEF Select
  <2>2. Loading(micro')
    BY <2>1, LoadingStays
  <2>3. Selecting'
    BY <2>2 DEF Selecting, Loading
  <2> QED BY <2>3
<1>6. CASE ~Ready(song)
  <2>1. micro' = after
    BY <1>6 DEF Select
  <2>2. Loading(after) => Loading(micro')
    BY <2>1
  <2>3. song \notin broken => Awaited'
    BY <1>1, <1>2, <1>6 DEF Select, Await, Awaited
  <2>4. Awaited \/ Loading(after) => Selecting'
    BY <1>4, <2>2 DEF Selecting, Loading
  <2>5. song \notin broken => Selecting'
    BY <2>3 DEF Selecting
  <2> QED BY <2>4, <2>5
<1> QED
  BY <1>5, <1>6

(* Adding a song to an empty list, or to be played, selects it. *)
LEMMA AddGoes ==
  ASSUME Inv, NEW s \in Song, NEW playNow \in BOOLEAN, NEW then \in Then,
         NEW after \in Seq(Callback), Add(s, playNow, then, after)
  PROVE  /\ Awaited \/ Loading(after) => Selecting'
         /\ Selecting' \/ broken # {} \/ InList(s) \/ (~playNow /\ playlist # << >>)
         /\ InList(s) => playlist # << >>
         /\ torn => torn'
<1> DEFINE goes == IF then = Nothing THEN after ELSE Append(after, Continue(then))
<1>1. Loading(after) => Loading(goes)
  BY LoadingStays, Callbacks
<1>2. ASSUME NoSelect(goes) PROVE Awaited \/ Loading(after) => Selecting'
  <2>1. micro' = goes /\ loads' = loads
    BY <1>2 DEF NoSelect
  <2> HIDE DEF goes
  <2>2. Loading(goes) => Loading(micro')
    BY <2>1
  <2>3. Awaited => Awaited'
    BY <2>1 DEF Awaited
  <2> QED BY <1>1, <2>2, <2>3 DEF Selecting, Loading
<1>3. InList(s) => playlist # << >>
  BY DEF InList
<1>4. CASE InList(s)
  <2>1. NoSelect(goes) /\ UNCHANGED listVars
    BY <1>4 DEF Add
  <2> QED BY <1>2, <1>3, <1>4, <2>1 DEF listVars
<1>5. CASE ~InList(s) /\ (playNow \/ playlist = << >>)
  <2>1. Push(s) /\ Select(s, IF playNow THEN PlayIt ELSE then, after)
    BY <1>5 DEF Add
  <2>2. (IF playNow THEN PlayIt ELSE then) \in Then
    BY Callbacks
  <2>3. Queues
    BY DEF Inv, LoopTyped
  <2>4. (Awaited \/ Loading(after) => Selecting') /\ (Selecting' \/ broken # {})
    BY <2>1, <2>2, <2>3, SelectGoes
  <2>5. torn => torn'
    BY <2>1 DEF Push
  <2> QED BY <1>3, <2>4, <2>5
<1>6. CASE ~InList(s) /\ ~playNow /\ playlist # << >>
  <2>1. Push(s) /\ NoSelect(goes)
    BY <1>6 DEF Add
  <2>2. torn => torn'
    BY <2>1 DEF Push
  <2> QED BY <1>2, <1>3, <1>6, <2>1, <2>2
<1> QED
  BY <1>4, <1>5, <1>6

(* The callbacks: a load that runs ends the silence, and the others leave what
   was on its way where it is. *)
LEMMA CallbackGoesOn == ASSUME Inv, EndIsFollowed, RunCallback PROVE EndIsFollowed'
<1> SUFFICES ASSUME media'.el = "ended", playlist' # << >>, broken' = {}, ~torn', random' = 0
             PROVE  Selecting'
  <2>1. random' \in Nat
    BY CallbackKeeps DEF Inv, LoopTyped
  <2> QED BY <2>1 DEF EndIsFollowed, AnotherIsOnItsWay, Selecting, Loading
<1> DEFINE c == Head(micro)
           rest == Tail(micro)
<1>1. c \in Callback /\ rest \in Seq(Callback) /\ micro # << >> /\ micro \in Seq(Callback)
  BY HeadTailProperties DEF Inv, LoopTyped, Queues, RunCallback
<1>2. c.song \in Song \cup {NoSong} /\ c.then \in Then
  BY <1>1 DEF Callback
<1>3. \/ c.do = "setMedia" /\ RunSetMedia(c, rest)
      \/ c.do = "then" /\ c.then.do = "play" /\ RunPlay(rest)
      \/ c.do = "then" /\ c.then.do = "restore" /\ RunRestore(c.then, rest)
      \/ c.do = "add" /\ RunAdd(c.song, rest)
      \/ c.do = "reset" /\ RunReset(rest)
  BY DEF RunCallback
<1>4. c.do # "setMedia" /\ Loading(micro) => Loading(rest)
  BY <1>1, LoadingStays
<1>5. media \in Media /\ Queues
  BY DEF Inv, LoopTyped
<1> HIDE DEF c, rest
<1>6. ASSUME media.el = "ended", random' = random, broken' = broken, torn => torn',
             playlist # << >>
      PROVE  Selecting
  <2>1. AnotherIsOnItsWay /\ random = 0
    BY <1>6 DEF EndIsFollowed, Inv, LoopTyped
  <2> QED BY <2>1 DEF AnotherIsOnItsWay, Selecting, Loading
<1>7. ASSUME UNCHANGED <<listVars, loads, broken, random>>, micro' = rest,
             media.el = "ended", c.do # "setMedia"
      PROVE  Selecting'
  <2>1. Selecting
    BY <1>6, <1>7 DEF listVars
  <2>2. Awaited => Awaited'
    BY <1>7 DEF Awaited
  <2>3. Loading(micro) => Loading(micro')
    BY <1>4, <1>7
  <2> QED BY <2>1, <2>2, <2>3 DEF Selecting, Loading
<1>8. CASE RunSetMedia(c, rest)
  <2>1. media'.el = "paused"
    BY <1>8 DEF RunSetMedia, Loaded
  <2> QED BY <2>1
<1>9. CASE c.do = "then" /\ RunPlay(rest)
  <2>1. media.el = "ended"
    BY <1>5, <1>9 DEF RunPlay, Play, Media
  <2> QED BY <1>7, <1>9, <2>1 DEF RunPlay
<1>10. CASE c.do = "then" /\ RunRestore(c.then, rest)
  <2> DEFINE then == c.then
  <2>1. then.songs \in Seq(Song) /\ then.index \in Nat /\ then \in Then
    BY <1>2 DEF Then
  <2> HIDE DEF then
  <2>2. UNCHANGED <<remote, ready, broken, random, media>>
    BY <1>10 DEF RunRestore
  <2>3. CASE then.songs # << >>
    <3>1. Head(then.songs) \in Song /\ Tail(then.songs) \in Seq(Song)
      BY <2>1, <2>3, HeadTailProperties
    <3>2. Restoring(Tail(then.songs), then.index) \in Then
      BY <2>1, <3>1, Callbacks
    <3>3. Add(Head(then.songs), FALSE, Restoring(Tail(then.songs), then.index), rest)
      BY <1>10, <2>3 DEF RunRestore, then
    <3>4. /\ Awaited \/ Loading(rest) => Selecting'
          /\ Selecting' \/ broken # {} \/ playlist # << >>
          /\ torn => torn'
      BY <1>1, <3>1, <3>2, <3>3, AddGoes
    <3>5. playlist # << >> => Awaited \/ Loading(micro)
      BY <1>6, <2>2, <3>4 DEF Selecting
    <3> QED BY <1>4, <1>10, <2>2, <3>4, <3>5
  <2>4. CASE then.songs = << >> /\ then.index < Len(playlist)
    <3>1. SelectAt(then.index, PlayIt, rest) /\ UNCHANGED <<playlist, torn>>
      BY <1>10, <2>4 DEF RunRestore, then
    <3>2. SongAt(then.index) \in Song /\ PlayIt \in Then
      BY <2>1, <2>4, ListFacts, Callbacks DEF Inv, ListInv, SongAt
    <3>3. Select(SongAt(then.index), PlayIt, rest)
      BY <3>1 DEF SelectAt
    <3>4. Selecting' \/ broken # {}
      BY <1>1, <1>5, <3>2, <3>3, SelectGoes
    <3> QED BY <2>2, <3>4
  <2>5. CASE then.songs = << >> /\ ~(then.index < Len(playlist))
    <3>1. NoSelect(Append(rest, Continue(PlayIt))) /\ UNCHANGED <<playlist, torn>>
      BY <1>10, <2>5 DEF RunRestore, then
    <3>2. Loading(rest) => Loading(micro')
      BY <1>1, <3>1, LoadingStays, Callbacks DEF NoSelect
    <3>3. Awaited => Awaited'
      BY <3>1 DEF NoSelect, Awaited
    <3>4. Selecting
      BY <1>6, <2>2, <3>1
    <3> QED BY <1>4, <1>10, <3>2, <3>3, <3>4 DEF Selecting, Loading
  <2> QED BY <2>3, <2>4, <2>5
<1>11. CASE c.do = "add" /\ RunAdd(c.song, rest)
  <2>1. c.song \in Song
    BY <1>1, <1>11 DEF Callback
  <2>2. Add(c.song, FALSE, Nothing, rest) /\ UNCHANGED <<remote, ready, broken, random, media>>
    BY <1>11 DEF RunAdd
  <2>3. /\ Awaited \/ Loading(rest) => Selecting'
        /\ Selecting' \/ broken # {} \/ playlist # << >>
        /\ torn => torn'
    BY <1>1, <2>1, <2>2, AddGoes, Callbacks
  <2>4. playlist # << >> => Awaited \/ Loading(micro)
    BY <1>6, <2>2, <2>3 DEF Selecting
  <2> QED BY <1>4, <1>11, <2>2, <2>3, <2>4
<1>12. CASE c.do = "reset" /\ RunReset(rest)
  <2>1. media.el = "ended"
    BY <1>5, <1>12 DEF RunReset, Reset, Paused, Media
  <2> QED BY <1>7, <1>12, <2>1 DEF RunReset
<1> QED
  BY <1>3, <1>8, <1>9, <1>10, <1>11, <1>12

(* The events: whatever ends a song, or takes away what was on its way, leaves
   another way on. *)
LEMMA EventGoesOn == ASSUME Inv, EndIsFollowed, Next, ~RunCallback PROVE EndIsFollowed'
<1>1. Inv'
  BY InvNext
<1> SUFFICES ASSUME media'.el = "ended", playlist' # << >>, broken' = {}, ~torn', random' = 0
             PROVE  Selecting'
  BY <1>1 DEF EndIsFollowed, AnotherIsOnItsWay, Selecting, Loading, Inv, LoopTyped
<1>2. /\ media \in Media /\ Queues /\ random \in Nat /\ << >> \in Seq(Callback)
      /\ Nothing \in Then /\ PlayIt \in Then /\ broken \subseteq Song
  BY Callbacks DEF Inv, LoopTyped
<1>3. ASSUME Idle, media.el = "ended", random' = random, broken' = broken, torn => torn',
             playlist # << >>
      PROVE  Awaited
  <2>1. AnotherIsOnItsWay /\ random = 0 /\ DOMAIN micro = {}
    BY <1>3 DEF EndIsFollowed, Idle
  <2> QED BY <2>1 DEF AnotherIsOnItsWay
<1>4. ASSUME Idle, media.el = "ended", UNCHANGED <<listVars, loads, broken, random>>
      PROVE  Selecting'
  <2>1. Awaited
    BY <1>3, <1>4 DEF listVars
  <2> QED BY <1>4, <2>1 DEF Selecting, Awaited
<1>5. ASSUME NEW index \in 0 .. Len(playlist) - 1, SelectAt(index, PlayIt, << >>), broken' = broken
      PROVE  Selecting'
  <2>1. SongAt(index) \in Song /\ Select(SongAt(index), PlayIt, << >>)
    BY <1>5, ListFacts DEF Inv, ListInv, SongAt, SelectAt
  <2> QED BY <1>2, <1>5, <2>1, SelectGoes
<1>6. ASSUME NEW s \in Song, NEW playNow \in BOOLEAN, Idle, Add(s, playNow, Nothing, << >>),
             broken' = broken
      PROVE  /\ Awaited => Selecting'
             /\ Selecting' \/ InList(s) \/ (~playNow /\ playlist # << >>)
             /\ torn => torn'
             /\ InList(s) => playlist # << >>
  BY <1>2, <1>6, AddGoes
<1>7. ASSUME NEW s \in Song, NEW playNow \in BOOLEAN, SongArrives(s, playNow) PROVE Selecting'
  <2>1. Idle /\ Add(s, playNow, Nothing, << >>) /\ UNCHANGED <<remote, ready, broken, random, media>>
    BY <1>7 DEF SongArrives
  <2> QED BY <1>3, <1>6, <2>1
<1>8. ASSUME NEW s \in Song, RandomArrives(s) PROVE Selecting'
  <2>1. /\ Idle /\ Add(s, TRUE, Nothing, << >>) /\ broken' = broken
        /\ media' = IF InList(s) THEN Unanswered(media) ELSE media
    BY <1>8 DEF RandomArrives
  <2>2. ~InList(s)
    BY <1>2, <2>1 DEF Unanswered, Media
  <2> QED BY <1>6, <2>1, <2>2
<1>9. CASE RandomFails
  BY <1>2, <1>9 DEF RandomFails, Unanswered, Media
<1>10. ASSUME NEW a \in Albums, AlbumArrives(a) PROVE Selecting'
  BY <1>4, <1>10 DEF AlbumArrives
<1>11. ASSUME NEW p \in Saved, Restore(p) PROVE FALSE
  BY <1>11 DEF Restore, Clear
<1>12. ASSUME Next0, broken' = broken PROVE Selecting'
  <2>1. ~AskRandom
    BY <1>2 DEF AskRandom
  <2>2. /\ current + 1 < Len(playlist) /\ current + 1 > 0
        /\ SelectAt(current + 1, PlayIt, << >>)
    BY <1>12, <2>1 DEF Next0
  <2>3. current + 1 \in 0 .. Len(playlist) - 1
    BY <2>2, ListFacts DEF Inv, ListInv, ListTyped
  <2> QED BY <1>5, <1>12, <2>2, <2>3
<1>13. CASE NextSong
  <2>1. broken' = broken
    BY <1>13 DEF NextSong, Next0, AskRandom
  <2> QED BY <1>12, <1>13, <2>1 DEF NextSong
<1>14. CASE Ended
  <2>1. broken' = broken
    BY <1>14 DEF Ended, Next0, AskRandom
  <2>2. ASSUME ~IsLast, current + 1 \notin 1 .. Len(playlist) - 1, UNCHANGED listVars PROVE FALSE
    <3>1. CurrentIsListed /\ ~torn /\ playlist # << >> /\ current \in Int /\ Len(playlist) \in Nat
      BY <2>2, ListFacts DEF Inv, ListInv, ListTyped, listVars
    <3>2. current \in 0 .. Len(playlist) - 1
      BY <3>1 DEF CurrentIsListed
    <3> QED BY <2>2, <3>1, <3>2 DEF IsLast
  <2> QED BY <1>12, <1>14, <2>1, <2>2 DEF Ended
<1>15. CASE EndsEarly
  BY <1>2, <1>15 DEF EndsEarly, Media
<1>16. CASE Previous
  <2>1. current - 1 \in 0 .. Len(playlist) - 1
    BY <1>16, ListFacts DEF Inv, ListInv, ListTyped, Previous
  <2> QED BY <1>5, <1>16, <2>1 DEF Previous, PlayAt
<1>17. ASSUME NEW i \in DOMAIN dom, ClickItem(i) PROVE Selecting'
  <2>1. DisplayedIndex(playlist, i - 1) \in 0 .. Len(playlist) - 1
    BY <1>17, ListFacts DEF Inv, ListInv, ClickItem, DisplayedIndex
  <2> QED BY <1>5, <1>17, <2>1 DEF ClickItem, PlayAt
<1>18. ASSUME NEW i \in DOMAIN dom, NEW dir \in Direction, ClickRemove(i, dir) PROVE Selecting'
  <2>1. Idle /\ UNCHANGED <<loads, broken, random, media, playlist, torn>>
    BY <1>18 DEF ClickRemove, StartRemoval, loopVars
  <2>2. Awaited
    BY <1>3, <2>1
  <2> QED BY <2>1, <2>2 DEF Selecting, Awaited
<1>19. ASSUME NEW k \in slides, SlideEnds(k) PROVE Selecting'
  <2>1. Idle /\ FinishRemoval(k) /\ UNCHANGED <<remote, ready, broken, random>>
    BY <1>19 DEF SlideEnds
  <2>2. torn' = torn /\ playlist' = Splice(playlist, RemovedIndex(k))
    BY <2>1 DEF FinishRemoval
  <2>3. playlist # << >>
    <3>1. ASSUME playlist = << >> PROVE Splice(playlist, RemovedIndex(k)) = << >>
      <4>1. Len(playlist) = 0 /\ RemovedIndex(k) \in Int
        BY <3>1, ListFacts DEF Inv, ListInv, ListTyped, Slide, RemovedIndex, DisplayedIndex
      <4> HIDE DEF RemovedIndex
      <4> QED BY <3>1, <4>1 DEF Splice
    <3> QED BY <2>2, <3>1
  <2>4. media' = media
    BY <1>19 DEF SlideEnds
  <2>5. Awaited
    BY <1>3, <2>1, <2>2, <2>3, <2>4
  <2>6. CASE Reselects(k) /\ ~Throws(k)
    <3>1. Select(playlist'[current' + 1], Nothing, << >>)
      BY <1>19, <2>6 DEF SlideEnds
    <3>2. PICK s \in Song : loads[s] # << >>
      BY <2>5 DEF Awaited
    <3> DEFINE q == Append(loads[s], Nothing)
    <3>3. loads'[s] = loads[s] \/ loads'[s] = q
      BY <1>2, <3>1 DEF Select, Await, Queues
    <3>4. Len(q) = Len(loads[s]) + 1 /\ Len(loads[s]) \in Nat /\ Len(<< >>) = 0
      BY <1>2, AppendProperties, LenProperties DEF Queues
    <3> HIDE DEF q
    <3>5. q # << >>
      BY <3>4
    <3>6. Awaited'
      BY <3>2, <3>3, <3>5 DEF Awaited
    <3> QED BY <3>6 DEF Selecting
  <2>7. CASE ~(Reselects(k) /\ ~Throws(k))
    <3>1. UNCHANGED loads
      BY <1>19, <2>7 DEF SlideEnds
    <3> QED BY <2>5, <3>1 DEF Selecting, Awaited
  <2> QED BY <2>6, <2>7
<1>20. CASE TogglePause \/ StopKey
  <2>1. Idle /\ UNCHANGED <<listVars, loads, broken, random>>
    BY <1>20 DEF TogglePause, StopKey
  <2>2. media.el = "ended"
    BY <1>2, <1>20 DEF TogglePause, StopKey, Play, Pause, Stop, Paused, Media
  <2> QED BY <1>4, <2>1, <2>2
<1>21. CASE RestartKey
  BY <1>21 DEF RestartKey, Play, Loaded
<1>22. ASSUME NEW s \in Song, DownloadEnds(s) PROVE Selecting'
  <2>1. /\ loads[s] # << >> /\ loads[s] \in Seq(Then)
        /\ micro' = [i \in DOMAIN loads[s] |-> SetMediaOf(s, loads[s][i])]
    BY <1>2, <1>22 DEF DownloadEnds, Queues
  <2>2. 1 \in DOMAIN loads[s]
    BY <2>1, LenProperties
  <2>3. 1 \in DOMAIN micro' /\ micro'[1].do = "setMedia"
    BY <2>1, <2>2 DEF SetMediaOf
  <2> QED BY <2>3 DEF Selecting, Loading
<1>23. ASSUME NEW s \in Song, DownloadFails(s) PROVE FALSE
  BY <1>23 DEF DownloadFails
<1>24. CASE Starts \/ StartFails
  BY <1>2, <1>24 DEF Starts, StartFails, Media
<1>25. CASE AbortAnswered
  <2>1. Idle /\ UNCHANGED <<listVars, loads, broken, random>> /\ media.el = "ended"
    BY <1>2, <1>25 DEF AbortAnswered, Media
  <2> QED BY <1>4, <2>1
<1>26. CASE ReadyHandled
  <2>1. broken' = broken /\ playlist' = playlist /\ (~torn' => ~torn)
    BY <1>26 DEF ReadyHandled, Redraw
  <2>2. current \in 0 .. Len(playlist) - 1
    BY <2>1 DEF Inv, ListInv, CurrentIsListed
  <2>3. SelectAt(current, PlayIt, << >>)
    BY <1>26, <2>2 DEF ReadyHandled
  <2> QED BY <1>5, <2>1, <2>2, <2>3
<1> QED
  BY <1>7, <1>8, <1>9, <1>10, <1>11, <1>13, <1>14, <1>15, <1>16, <1>17, <1>18, <1>19, <1>20,
     <1>21, <1>22, <1>23, <1>24, <1>25, <1>26 DEF Next

(* From the end of a song until another one is loaded there is always an   *)
(* unanswered request, a queued selection or a download that leads there,  *)
(* unless the list is empty, a download failed or the list changed under   *)
(* an animation or was shown anew: the safety part of PlaybackGoesOn.      *)
THEOREM EndIsFollowedHolds == Spec => []EndIsFollowed
<1>1. Init => EndIsFollowed
  BY DEF Init, Loaded, EndIsFollowed
<1>2. Inv /\ EndIsFollowed /\ [Next]_vars => EndIsFollowed'
  <2> SUFFICES ASSUME Inv, EndIsFollowed, [Next]_vars PROVE EndIsFollowed'
    OBVIOUS
  <2>1. CASE UNCHANGED vars
    BY <2>1 DEF vars, listVars, loopVars, EndIsFollowed, AnotherIsOnItsWay, Awaited
  <2> QED BY <2>1, CallbackGoesOn, EventGoesOn
<1> QED
  BY <1>1, <1>2, InvHolds, PTL DEF Spec

-----------------------------------------------------------------------------
(* What the handlers do to the list, each one of these. *)
Pushed(s) ==
  /\ ~InList(s) /\ Push(s)
  /\ current' = current \/ current' = Len(playlist)
  /\ playlist = << >> => current' = Len(playlist)
Chosen(index) == current' = index /\ UNCHANGED <<playlist, removing, dom, slides, torn>>
ListStep ==
  \/ UNCHANGED listVars
  \/ \E s \in Song : Pushed(s)
  \/ \E index \in 0 .. Len(playlist) - 1 : Chosen(index)
  \/ Chosen(0)
  \/ Clear
  \/ \E i \in DOMAIN dom, dir \in Direction : ~removing /\ StartRemoval(dom[i], dir)
  \/ \E k \in slides : FinishRemoval(k)
  \/ Redraw /\ current' = current

(* A song that is added is pushed, unless it is listed. *)
LEMMA AddPushes ==
  ASSUME NEW s \in Song, NEW playNow, NEW then, NEW after, Add(s, playNow, then, after)
  PROVE  ListStep
<1>1. CASE InList(s)
  BY <1>1 DEF Add, ListStep
<1>2. CASE ~InList(s) /\ (playNow \/ playlist = << >>)
  BY <1>2 DEF Add, ListStep, Pushed
<1>3. CASE ~InList(s) /\ ~(playNow \/ playlist = << >>)
  BY <1>3 DEF Add, ListStep, Pushed
<1> QED
  BY <1>1, <1>2, <1>3

(* Every handler does one of them, or leaves the list. *)
LEMMA HandlersOfTheList == ASSUME Inv, Next PROVE ListStep
<1>a. /\ Len(playlist) \in Nat /\ current \in Int /\ DOMAIN dom = 1 .. Len(dom)
      /\ Len(dom) \in Nat
  BY ListFacts DEF Inv, ListInv, ListTyped
<1>1. ASSUME UNCHANGED listVars PROVE ListStep
  BY <1>1 DEF ListStep
<1>2. ASSUME NEW index \in 0 .. Len(playlist) - 1, current' = index,
             UNCHANGED <<playlist, removing, dom, slides, torn>>
      PROVE  ListStep
  BY <1>2 DEF ListStep, Chosen
<1>3. CASE RunCallback
  <2> DEFINE c == Head(micro)
             rest == Tail(micro)
  <2>1. c \in Callback
    BY <1>3, HeadTailProperties DEF Inv, LoopTyped, Queues, RunCallback
  <2>2. \/ RunSetMedia(c, rest) \/ RunPlay(rest) \/ RunRestore(c.then, rest)
        \/ c.do = "add" /\ RunAdd(c.song, rest)
        \/ RunReset(rest)
    BY <1>3 DEF RunCallback
  <2> HIDE DEF c, rest
  <2>3. CASE RunSetMedia(c, rest) \/ RunPlay(rest) \/ RunReset(rest)
    BY <1>1, <2>3 DEF RunSetMedia, RunPlay, RunReset
  <2>4. CASE c.do = "add" /\ RunAdd(c.song, rest)
    <3>1. c.song \in Song
      BY <2>1, <2>4 DEF Callback
    <3> QED BY <2>4, <3>1, AddPushes DEF RunAdd
  <2>5. CASE RunRestore(c.then, rest)
    <3>1. c.then.songs \in Seq(Song) /\ c.then.index \in Nat
      BY <2>1 DEF Callback, Then
    <3> DEFINE then == c.then
    <3> HIDE DEF then
    <3>2. CASE then.songs # << >>
      <4>1. Add(Head(then.songs), FALSE, Restoring(Tail(then.songs), then.index), rest)
        BY <2>5, <3>2 DEF RunRestore, then
      <4>2. Head(then.songs) \in Song
        BY <3>1, <3>2, HeadTailProperties DEF then
      <4> QED BY <4>1, <4>2, AddPushes
    <3>3. CASE then.songs = << >> /\ then.index < Len(playlist)
      <4>1. current' = then.index /\ UNCHANGED <<playlist, removing, dom, slides, torn>>
        BY <2>5, <3>3 DEF RunRestore, SelectAt, then
      <4>2. then.index \in 0 .. Len(playlist) - 1
        BY <1>a, <3>1, <3>3 DEF then
      <4> QED BY <1>2, <4>1, <4>2
    <3>4. CASE then.songs = << >> /\ ~(then.index < Len(playlist))
      BY <2>5, <3>4 DEF RunRestore, ListStep, Chosen, then
    <3> QED BY <3>2, <3>3, <3>4
  <2> QED BY <2>2, <2>3, <2>4, <2>5
<1>4. ASSUME NEW s \in Song, NEW playNow \in BOOLEAN, SongArrives(s, playNow) PROVE ListStep
  BY <1>4, AddPushes DEF SongArrives
<1>5. ASSUME NEW s \in Song, RandomArrives(s) PROVE ListStep
  BY <1>5, AddPushes DEF RandomArrives
<1>6. ASSUME RandomFails \/ EndsEarly \/ TogglePause \/ StopKey \/ Starts \/ StartFails
             \/ AbortAnswered \/ (\E a \in Albums : AlbumArrives(a))
             \/ \E s \in Song : DownloadEnds(s) \/ DownloadFails(s)
      PROVE  ListStep
  BY <1>1, <1>6 DEF RandomFails, EndsEarly, TogglePause, StopKey, Starts, StartFails,
     AbortAnswered, AlbumArrives, DownloadEnds, DownloadFails
<1>7. ASSUME NEW p \in Saved, Restore(p) PROVE ListStep
  BY <1>7 DEF Restore, ListStep
<1>8. ASSUME Next0 PROVE ListStep
  <2>1. CASE AskRandom
    BY <1>1, <2>1 DEF AskRandom
  <2>2. CASE /\ current + 1 < Len(playlist) /\ current + 1 > 0
             /\ SelectAt(current + 1, PlayIt, << >>)
             /\ UNCHANGED <<playlist, removing, dom, slides, torn, remote, ready, broken, random>>
    <3>1. current + 1 \in 0 .. Len(playlist) - 1
      BY <1>a, <2>2
    <3> QED BY <1>2, <2>2, <3>1 DEF SelectAt
  <2> QED BY <1>8, <2>1, <2>2 DEF Next0
<1>9. CASE NextSong \/ Ended
  BY <1>1, <1>8, <1>9 DEF NextSong, Ended
<1>10. CASE Previous
  <2>1. current - 1 \in 0 .. Len(playlist) - 1
    BY <1>a, <1>10 DEF Previous
  <2> QED BY <1>2, <1>10, <2>1 DEF Previous, PlayAt, SelectAt
<1>11. ASSUME NEW i \in DOMAIN dom, ClickItem(i) PROVE ListStep
  <2>1. DisplayedIndex(playlist, i - 1) \in 0 .. Len(playlist) - 1
    BY <1>a, <1>11 DEF ClickItem, DisplayedIndex
  <2> QED BY <1>2, <1>11, <2>1 DEF ClickItem, PlayAt, SelectAt
<1>12. CASE RestartKey
  <2> DEFINE back == IF current > 0 THEN current - 1 ELSE 0
  <2>1. back \in 0 .. Len(playlist) - 1
    BY <1>a, <1>12 DEF RestartKey
  <2>2. current' = back /\ UNCHANGED <<playlist, removing, dom, slides, torn>>
    BY <1>12 DEF RestartKey
  <2> HIDE DEF back
  <2> QED BY <1>2, <2>1, <2>2
<1>13. ASSUME NEW i \in DOMAIN dom, NEW dir \in Direction, ClickRemove(i, dir) PROVE ListStep
  BY <1>13 DEF ClickRemove, ListStep
<1>14. ASSUME NEW k \in slides, SlideEnds(k) PROVE ListStep
  BY <1>14 DEF SlideEnds, ListStep
<1>15. CASE ReadyHandled
  BY <1>15 DEF ReadyHandled, SelectAt, ListStep
<1> QED
  BY <1>3, <1>4, <1>5, <1>6, <1>7, <1>9, <1>10, <1>11, <1>12, <1>13, <1>14, <1>15 DEF Next

(* Until the promise is off, the item that a removal goes on with is the one
   above, or below, its own. *)
NextItem(page, at, dir) ==
  LET beside == IF dir = "up" THEN at - 1 ELSE at + 1
  IN  IF dir # "this" /\ beside \in DOMAIN page THEN page[beside] ELSE NoItem
NextIsBeside == ~torn => \A k \in slides : k.next = NextItem(dom, k.index + 1, k.dir)

LEMMA StartedBeside ==
  ASSUME NEW page \in Seq(Item), NEW list, NEW busy \in BOOLEAN, NEW x \in Item \cup {NoItem},
         NEW dir \in Direction
  PROVE  /\ \A k \in Started(page, list, busy, x, dir) :
              k.dir = dir /\ k.item = x /\ k.next = NextItem(page, k.index + 1, dir)
         /\ ~busy /\ (\E i \in DOMAIN page : page[i] = x)
              => \E k \in Started(page, list, busy, x, dir) :
                   Started(page, list, busy, x, dir) = {k}
<1>1. Len(page) \in Nat /\ DOMAIN page = 1 .. Len(page)
  BY LenProperties
<1> DEFINE at == Position(page, x)
           started == Started(page, list, busy, x, dir)
           k == [item |-> x, index |-> at - 1, dir |-> dir, next |-> NextItem(page, at, dir)]
<1>2. ASSUME ~busy, \E i \in DOMAIN page : page[i] = x
      PROVE  started = {k} /\ k.index + 1 = at
  <2>1. started = {k}
    BY <1>2 DEF Started, NextItem
  <2>2. at \in DOMAIN page
    BY <1>2 DEF Position
  <2> HIDE DEF at
  <2>3. k.index + 1 = at
    BY <1>1, <2>2
  <2> QED BY <2>1, <2>3
<1>3. busy \/ ~(\E i \in DOMAIN page : page[i] = x) => started = {}
  BY DEF Started
<1>4. k.dir = dir /\ k.item = x /\ k.next = NextItem(page, at, dir)
  OBVIOUS
<1> HIDE DEF at, started, k
<1>5. \A l \in started : l.dir = dir /\ l.item = x /\ l.next = NextItem(page, l.index + 1, dir)
  BY <1>2, <1>3, <1>4
<1>6. ~busy /\ (\E i \in DOMAIN page : page[i] = x) => \E l \in started : started = {l}
  BY <1>2
<1> QED
  BY <1>5, <1>6 DEF started

(* What a removal that ends starts: the removal of its next item, if any. *)
LEMMA FinishStarts ==
  ASSUME ListInv, ~torn, NEW k \in slides, FinishRemoval(k)
  PROVE  /\ k.next = NoItem => slides' = {}
         /\ \A l \in slides' : l.dir = k.dir /\ l.item = k.next
                              /\ l.next = NextItem(dom', l.index + 1, l.dir)
         /\ k.next # NoItem /\ (\E i \in DOMAIN dom' : dom'[i] = k.next)
              => \E l \in slides' : slides' = {l}
<1> DEFINE page == Without(dom, k.item)
           list == Splice(playlist, RemovedIndex(k))
           x == k.next
           dir == k.dir
<1>1. slides \ {k} = {}
  BY DEF ListInv, OneRemoval
<1>2. ~Throws(k)
  <2>1. current \in 0 .. Len(playlist) - 1
    BY FinishIs
  <2> QED BY <2>1, ListFacts DEF Throws, ListInv
<1>3. /\ slides' = IF x = NoItem THEN {} ELSE Started(page, list, FALSE, x, dir)
      /\ dom' = page
  BY <1>1, <1>2 DEF FinishRemoval
<1>4. page \in Seq(Item) /\ x \in Item \cup {NoItem} /\ dir \in Direction
  <2>1. dom' \in Seq(Item)
    BY FinishTyped DEF ListInv, ListTyped
  <2>2. k \in Slide
    BY DEF ListInv, ListTyped
  <2> QED BY <1>3, <2>1, <2>2 DEF Slide
<1> HIDE DEF page, list, x, dir
<1>5. /\ \A l \in Started(page, list, FALSE, x, dir) :
           l.dir = dir /\ l.item = x /\ l.next = NextItem(page, l.index + 1, dir)
      /\ (\E i \in DOMAIN page : page[i] = x)
           => \E l \in Started(page, list, FALSE, x, dir) :
                Started(page, list, FALSE, x, dir) = {l}
  <2> DEFINE busy == FALSE
  <2>1. busy \in BOOLEAN /\ ~busy /\ busy = FALSE
    OBVIOUS
  <2> HIDE DEF busy
  <2>2. /\ \A l \in Started(page, list, busy, x, dir) :
             l.dir = dir /\ l.item = x /\ l.next = NextItem(page, l.index + 1, dir)
        /\ (\E i \in DOMAIN page : page[i] = x)
             => \E l \in Started(page, list, busy, x, dir) :
                  Started(page, list, busy, x, dir) = {l}
    BY <1>4, <2>1, StartedBeside
  <2> QED BY <2>1, <2>2
<1>6. /\ x = NoItem => slides' = {}
      /\ \A l \in slides' : l.dir = dir /\ l.item = x /\ l.next = NextItem(dom', l.index + 1, l.dir)
  BY <1>3, <1>5
<1>7. x # NoItem /\ (\E i \in DOMAIN dom' : dom'[i] = x) => \E l \in slides' : slides' = {l}
  BY <1>3, <1>5
<1> QED
  BY <1>6, <1>7 DEF x, dir

LEMMA BesideNext == Inv /\ NextIsBeside /\ [Next]_vars => NextIsBeside'
<1> SUFFICES ASSUME Inv, NextIsBeside, [Next]_vars, ~torn', NEW l \in slides'
             PROVE  l.next = NextItem(dom', l.index + 1, l.dir)
  BY DEF NextIsBeside
<1>1. ASSUME UNCHANGED <<dom, slides, torn>> PROVE l.next = NextItem(dom', l.index + 1, l.dir)
  BY <1>1 DEF NextIsBeside
<1>2. ASSUME NEW s \in Song, Pushed(s) PROVE FALSE
  BY <1>2 DEF Pushed, Push
<1>3. CASE Clear
  BY <1>3 DEF Clear
<1>4. ASSUME NEW i \in DOMAIN dom, NEW dir \in Direction, ~removing, StartRemoval(dom[i], dir)
      PROVE  l.next = NextItem(dom', l.index + 1, l.dir)
  <2>1. torn' = torn /\ dom' = dom /\ slides' = slides \cup Started(dom, playlist, removing, dom[i], dir)
    BY <1>4 DEF StartRemoval
  <2>2. slides = {}
    BY <1>4, <2>1 DEF Inv, ListInv, OneRemoval
  <2>3. dom[i] \in Item /\ dom \in Seq(Item) /\ removing \in BOOLEAN
    BY ListFacts DEF Inv, ListInv, ListTyped
  <2>4. l \in Started(dom, playlist, removing, dom[i], dir)
    BY <2>1, <2>2
  <2> DEFINE x == dom[i]
  <2>5. x \in Item \cup {NoItem} /\ l \in Started(dom, playlist, removing, x, dir)
    BY <2>3, <2>4
  <2> HIDE DEF x
  <2>6. l.dir = dir /\ l.next = NextItem(dom, l.index + 1, dir)
    BY <2>3, <2>5, StartedBeside
  <2> QED BY <2>1, <2>6
<1>5. ASSUME NEW k \in slides, FinishRemoval(k) PROVE l.next = NextItem(dom', l.index + 1, l.dir)
  <2>1. ~torn
    BY <1>5 DEF FinishRemoval
  <2> QED BY <1>5, <2>1, FinishStarts DEF Inv
<1>6. CASE UNCHANGED vars
  BY <1>1, <1>6 DEF vars, listVars
<1>7. CASE Redraw
  BY <1>7 DEF Redraw
<1>8. CASE ListStep
  BY <1>1, <1>2, <1>3, <1>4, <1>5, <1>7, <1>8 DEF ListStep, Chosen, listVars
<1> QED
  BY <1>6, <1>8, HandlersOfTheList

-----------------------------------------------------------------------------
(* Player implements SongList: what each step does to the list, to the     *)
(* songs that are doomed and to the promise.                               *)
LEMMA NoRemovals ==
  /\ \A S : RemovalsOf(S) = {} <=> S = {}
  /\ \A k : RemovalsOf({k}) = {[song |-> k.item.song, way |-> k.dir]}
BY DEF RemovalsOf

(* A song that is spliced out is dropped. *)
LEMMA SpliceDrops ==
  ASSUME ListTyped, NEW n \in 0 .. Len(playlist) - 1
  PROVE  Splice(playlist, n) = ListOfSongs!Dropped(n + 1) /\ n + 1 \in 1 .. Len(playlist)
<1>1. Len(playlist) \in Nat
  BY ListFacts
<1>2. Splice(playlist, n)
        = [j \in 1 .. Len(playlist) - 1 |-> IF j <= n THEN playlist[j] ELSE playlist[j + 1]]
  BY <1>1 DEF Splice
<1>3. \A j \in 1 .. Len(playlist) - 1 : j <= n <=> j < n + 1
  BY <1>1
<1>4. ListOfSongs!Dropped(n + 1)
        = [j \in 1 .. Len(playlist) - 1 |-> IF j < n + 1 THEN playlist[j] ELSE playlist[j + 1]]
  BY DEF ListOfSongs!Dropped
<1>5. Splice(playlist, n) = ListOfSongs!Dropped(n + 1)
  BY <1>2, <1>3, <1>4
<1> QED
  BY <1>1, <1>5

LEMMA PushedAdds ==
  ASSUME Inv, NEW s \in Song, Pushed(s)
  PROVE  ListOfSongs!Add(s)
<1>1. /\ Len(playlist) \in Nat /\ DOMAIN playlist = 1 .. Len(playlist)
      /\ playlist = << >> => Len(playlist) = 0
  BY ListFacts DEF Inv, ListInv
<1>2. /\ playlist' = Append(playlist, s) /\ torn' = (torn \/ slides # {}) /\ slides' = slides
      /\ \A i \in 1 .. Len(playlist) : playlist[i] # s
  BY <1>1 DEF Pushed, Push, InList
<1>3. current' \in (IF playlist = << >> THEN {0} ELSE {current, Len(playlist)})
  BY <1>1 DEF Pushed
<1>4. torn' = (torn \/ RemovalsOf(slides) # {})
  BY <1>2, NoRemovals
<1>5. RemovalsOf(slides)' = RemovalsOf(slides)
  BY <1>2 DEF RemovalsOf
<1> QED
  BY <1>2, <1>3, <1>4, <1>5 DEF ListOfSongs!Add

(* While the promise is off a step may do what it likes with all but the list. *)
LEMMA TornStrays ==
  ASSUME ListTyped, torn, torn' = torn,
         playlist' = playlist \/ \E n \in Int : playlist' = Splice(playlist, n)
  PROVE  ListOfSongs!Stray
<1>1. playlist' = playlist \/ \E n \in 0 .. Len(playlist) - 1 : playlist' = Splice(playlist, n)
  BY SpliceAny DEF ListTyped
<1>2. playlist' = playlist \/ \E i \in 1 .. Len(playlist) : playlist' = ListOfSongs!Dropped(i)
  BY <1>1, SpliceDrops
<1> QED
  BY <1>2 DEF ListOfSongs!Stray

LEMMA ClickDooms ==
  ASSUME Inv, ~torn, ~removing, NEW i \in DOMAIN dom, NEW dir \in Direction,
         StartRemoval(dom[i], dir)
  PROVE  \E j \in 1 .. Len(playlist) : ListOfSongs!Doom(j, dir)
<1>1. /\ Len(playlist) \in Nat /\ DOMAIN dom = 1 .. Len(playlist) /\ dom \in Seq(Item)
      /\ dom[i] \in Item
      /\ dom[i].song = playlist[Len(playlist) - 1 - (i - 1) + 1]
  BY ListFacts DEF Inv, ListInv, ListTyped, PageShowsList, SongAt, DisplayedIndex
<1> DEFINE j == Len(playlist) + 1 - i
           x == dom[i]
           started == Started(dom, playlist, removing, x, dir)
<1>2. j \in 1 .. Len(playlist) /\ x.song = playlist[j]
  <2>1. Len(playlist) - 1 - (i - 1) + 1 = Len(playlist) + 1 - i /\ j \in 1 .. Len(playlist)
    BY <1>1
  <2> QED BY <1>1, <2>1
<1>3. slides = {} /\ removing \in BOOLEAN
  BY DEF Inv, ListInv, ListTyped, OneRemoval
<1>4. x \in Item \cup {NoItem} /\ \E m \in DOMAIN dom : dom[m] = x
  BY <1>1
<1>5. slides' = started /\ UNCHANGED <<playlist, current, torn>>
  BY <1>3 DEF StartRemoval
<1> HIDE DEF x, j
<1>6. /\ \A l \in started : l.dir = dir /\ l.item = x
      /\ \E l \in started : started = {l}
  <2>1. /\ \A l \in started : l.dir = dir /\ l.item = x /\ l.next = NextItem(dom, l.index + 1, dir)
        /\ ~removing /\ (\E m \in DOMAIN dom : dom[m] = x) => \E l \in started : started = {l}
    <3>1. removing \in BOOLEAN /\ dom \in Seq(Item) /\ x \in Item \cup {NoItem}
      BY <1>1, <1>3, <1>4
    <3> QED BY <3>1, StartedBeside
  <2> QED BY <1>4, <2>1
<1>7. PICK l \in slides' : slides' = {l} /\ l.dir = dir /\ l.item = x
  BY <1>5, <1>6
<1>8. RemovalsOf(slides)' = {[song |-> playlist[j], way |-> dir]}
  <2>1. RemovalsOf(slides') = {[song |-> l.item.song, way |-> l.dir]}
    BY <1>7, NoRemovals
  <2> QED BY <1>2, <1>7, <2>1 DEF RemovalsOf
<1>9. RemovalsOf(slides) = {}
  BY <1>3, NoRemovals
<1> QED
  BY <1>2, <1>5, <1>8, <1>9 DEF ListOfSongs!Doom

(* What is left of the page when an animation ends. *)
LEMMA FinishPage ==
  ASSUME ListInv, NEW k \in slides, FinishRemoval(k), ~torn
  PROVE  /\ Len(dom) \in Nat /\ Len(dom) = Len(playlist) /\ dom \in Seq(Item)
         /\ DOMAIN dom = 1 .. Len(dom) /\ k.index \in 0 .. Len(dom) - 1
         /\ dom' \in Seq(Item) /\ DOMAIN dom' = 1 .. Len(dom) - 1
         /\ \A i \in 1 .. Len(dom) - 1 : dom'[i] = IF i <= k.index THEN dom[i] ELSE dom[i + 1]
<1> DEFINE x == k.index
<1>1. /\ Len(dom) \in Nat /\ Len(dom) = Len(playlist) /\ dom \in Seq(Item)
      /\ DOMAIN dom = 1 .. Len(dom)
  BY ListFacts DEF ListInv, ListTyped, PageShowsList
<1>2. x \in 0 .. Len(dom) - 1 /\ dom' = Splice(dom, x)
  BY <1>1, FinishIs
<1> HIDE DEF x
<1>3. /\ Splice(dom, x) \in Seq(Item)
      /\ Len(Splice(dom, x)) = Len(dom) - 1
      /\ \A i \in 1 .. Len(dom) - 1 : Splice(dom, x)[i] = IF i <= x THEN dom[i] ELSE dom[i + 1]
  BY <1>1, <1>2, SpliceOut
<1>4. dom' \in Seq(Item) /\ Len(dom') = Len(dom) - 1
  BY <1>2, <1>3
<1>5. DOMAIN dom' = 1 .. Len(dom) - 1
  BY <1>4, LenProperties
<1>6. \A i \in 1 .. Len(dom) - 1 : dom'[i] = IF i <= x THEN dom[i] ELSE dom[i + 1]
  BY <1>2, <1>3
<1> QED
  BY <1>1, <1>2, <1>4, <1>5, <1>6 DEF x

(* The song beside the one that goes is the one the removal goes on with. *)
LEMMA NextIsListed ==
  ASSUME Inv, NextIsBeside, ~torn, NEW k \in slides, FinishRemoval(k),
         NEW j, j = ListOfSongs!Beside(RemovedIndex(k) + 1, k.dir)
  PROVE  /\ j \in 1 .. Len(playlist) => /\ k.next # NoItem /\ k.next.song = playlist[j]
                                        /\ \E i \in DOMAIN dom' : dom'[i] = k.next
         /\ j \notin 1 .. Len(playlist) => k.next = NoItem
<1> DEFINE n == Len(playlist)
           x == k.index
<1>1. /\ n \in Nat /\ Len(dom) = n /\ DOMAIN dom = 1 .. n /\ dom \in Seq(Item)
      /\ \A i \in 1 .. n : dom[i] \in Item /\ dom[i].song = playlist[n - 1 - (i - 1) + 1]
  BY ListFacts DEF Inv, ListInv, ListTyped, PageShowsList, SongAt, DisplayedIndex
<1>2. x \in 0 .. n - 1 /\ RemovedIndex(k) + 1 = n - x
  BY <1>1, FinishIs DEF Inv
<1>3. k.dir \in Direction
  BY DEF Inv, ListInv, ListTyped, Slide
<1>4. k.next = NextItem(dom, x + 1, k.dir)
  BY DEF NextIsBeside
<1>5. DOMAIN dom' = 1 .. n - 1
      /\ \A i \in 1 .. n - 1 : dom'[i] = IF i <= x THEN dom[i] ELSE dom[i + 1]
  BY <1>1, FinishPage DEF Inv
<1>6. NoItem \notin Item
  BY PlaylistAssumption DEF Item, NoItem
<1> HIDE DEF n, x
<1>7. CASE k.dir = "this"
  <2>1. j = 0
    BY <1>7 DEF ListOfSongs!Beside
  <2>2. k.next = NoItem
    BY <1>4, <1>7 DEF NextItem
  <2> QED BY <1>1, <2>1, <2>2 DEF n
<1>8. CASE k.dir = "up"
  <2>1. j = n - x + 1
    BY <1>2, <1>8 DEF ListOfSongs!Beside
  <2>2. k.next = IF x \in 1 .. n THEN dom[x] ELSE NoItem
    BY <1>1, <1>2, <1>4, <1>8 DEF NextItem
  <2>3. ASSUME j \in 1 .. n
        PROVE  k.next # NoItem /\ k.next.song = playlist[j] /\ \E i \in DOMAIN dom' : dom'[i] = k.next
    <3>1. x \in 1 .. n /\ x \in 1 .. n - 1 /\ n - 1 - (x - 1) + 1 = j
      BY <1>1, <1>2, <2>1, <2>3
    <3>2. k.next = dom[x] /\ dom'[x] = dom[x] /\ dom[x] \in Item /\ dom[x].song = playlist[j]
      BY <1>1, <1>5, <2>2, <3>1
    <3> QED BY <1>5, <1>6, <3>1, <3>2
  <2>4. ASSUME j \notin 1 .. n PROVE k.next = NoItem
    BY <1>1, <1>2, <2>1, <2>2, <2>4
  <2> QED BY <2>3, <2>4 DEF n
<1>9. CASE k.dir = "down"
  <2>1. j = n - x - 1
    BY <1>2, <1>9 DEF ListOfSongs!Beside
  <2>2. k.next = IF x + 2 \in 1 .. n THEN dom[x + 2] ELSE NoItem
    <3>1. x + 1 + 1 = x + 2
      BY <1>2
    <3> QED BY <1>1, <1>4, <1>9, <3>1 DEF NextItem
  <2>3. ASSUME j \in 1 .. n
        PROVE  k.next # NoItem /\ k.next.song = playlist[j] /\ \E i \in DOMAIN dom' : dom'[i] = k.next
    <3>1. /\ x + 2 \in 1 .. n /\ x + 1 \in 1 .. n - 1 /\ n - 1 - (x + 2 - 1) + 1 = j
          /\ ~(x + 1 <= x) /\ x + 1 + 1 = x + 2
      BY <1>1, <1>2, <2>1, <2>3
    <3>2. k.next = dom[x + 2] /\ dom[x + 2] \in Item /\ dom[x + 2].song = playlist[j]
      BY <1>1, <2>2, <3>1
    <3>3. dom'[x + 1] = dom[x + 2]
      BY <1>5, <3>1
    <3> QED BY <1>5, <1>6, <3>1, <3>2, <3>3
  <2>4. ASSUME j \notin 1 .. n PROVE k.next = NoItem
    BY <1>1, <1>2, <2>1, <2>2, <2>4
  <2> QED BY <2>3, <2>4 DEF n
<1> QED
  BY <1>3, <1>7, <1>8, <1>9 DEF Direction

(* The current song after a removal, as SongList says it. *)
LEMMA FinishMoves ==
  ASSUME ListInv, ~torn, NEW k \in slides, FinishRemoval(k)
  PROVE  current' = IF RemovedIndex(k) + 1 <= current
                       \/ (current = Len(playlist) - 1 /\ current > 0)
                    THEN current - 1 ELSE current
<1> DEFINE n == Len(playlist)
           r == RemovedIndex(k)
<1>1. r \in 0 .. n - 1 /\ current \in 0 .. n - 1 /\ n \in Nat
  BY FinishIs, ListFacts DEF ListInv
<1>2. Len(playlist') = n - 1 /\ current' = CurrentAfter(playlist', r)
  BY FinishIsExact DEF FinishRemoval
<1> HIDE DEF n, r
<1>3. /\ n = 1 => current' = 0
      /\ n # 1 /\ r = current => current' = IF r < n - 1 THEN current ELSE n - 2
      /\ n # 1 /\ r < current => current' = current - 1
      /\ n # 1 /\ r > current => current' = current
  BY <1>1, <1>2 DEF CurrentAfter
<1>4. current' = IF r + 1 <= current \/ (current = n - 1 /\ current > 0) THEN current - 1 ELSE current
  BY <1>1, <1>3
<1> QED
  BY <1>4 DEF n, r

(* The end of an animation removes the song that was doomed, and dooms the
   song beside it, if the removal goes on. *)
LEMMA FinishRemoves ==
  ASSUME Inv, NextIsBeside, ~torn, NEW k \in slides, FinishRemoval(k)
  PROVE  \E i \in 1 .. Len(playlist) : ListOfSongs!Remove(i, k.dir)
<1> DEFINE i == RemovedIndex(k) + 1
           j == ListOfSongs!Beside(i, k.dir)
<1>1. ListTyped /\ RemovedIndex(k) \in 0 .. Len(playlist) - 1 /\ playlist[i] = k.item.song
  BY FinishIs DEF Inv, ListInv
<1>2. i \in 1 .. Len(playlist) /\ playlist' = ListOfSongs!Dropped(i) /\ torn' = torn
  BY <1>1, SpliceDrops DEF FinishRemoval
<1>3. current' = IF i <= current \/ (current = Len(playlist) - 1 /\ current > 0)
                 THEN current - 1 ELSE current
  BY FinishMoves DEF Inv
<1>4. RemovalsOf(slides) = {[song |-> playlist[i], way |-> k.dir]}
  <2>1. slides = {k}
    BY DEF Inv, ListInv, OneRemoval
  <2> QED BY <1>1, <2>1, NoRemovals
<1>5. /\ j \in 1 .. Len(playlist) => /\ k.next # NoItem /\ k.next.song = playlist[j]
                                     /\ \E m \in DOMAIN dom' : dom'[m] = k.next
      /\ j \notin 1 .. Len(playlist) => k.next = NoItem
  BY NextIsListed
<1> HIDE DEF i, j
<1>6. RemovalsOf(slides') = {[song |-> playlist[m], way |-> k.dir] : m \in {j} \cap 1 .. Len(playlist)}
  <2>1. CASE j \in 1 .. Len(playlist)
    <3>1. PICK l \in slides' : slides' = {l}
      BY <1>5, <2>1, FinishStarts DEF Inv
    <3>2. l.dir = k.dir /\ l.item = k.next
      BY FinishStarts DEF Inv
    <3>3. RemovalsOf(slides') = {[song |-> playlist[j], way |-> k.dir]}
      BY <1>5, <2>1, <3>1, <3>2, NoRemovals
    <3>4. {j} \cap 1 .. Len(playlist) = {j}
      BY <2>1
    <3> QED BY <3>3, <3>4
  <2>2. CASE j \notin 1 .. Len(playlist)
    <3>1. slides' = {}
      BY <1>5, <2>2, FinishStarts DEF Inv
    <3>2. {j} \cap 1 .. Len(playlist) = {}
      BY <2>2
    <3> QED BY <3>1, <3>2, NoRemovals
  <2> QED BY <2>1, <2>2
<1>7. RemovalsOf(slides)' = RemovalsOf(slides')
  BY DEF RemovalsOf
<1>8. ListOfSongs!Remove(i, k.dir)
  BY <1>2, <1>3, <1>4, <1>6, <1>7 DEF ListOfSongs!Remove, j
<1> QED
  BY <1>2, <1>8

LEMMA ListStepMaps ==
  ASSUME Inv, NextIsBeside, ListStep
  PROVE  [ListOfSongs!Next]_(ListOfSongs!vars)
<1>1. CASE UNCHANGED listVars
  BY <1>1 DEF listVars, RemovalsOf, ListOfSongs!vars
<1>2. ASSUME NEW s \in Song, Pushed(s) PROVE ListOfSongs!Next
  BY <1>2, PushedAdds DEF ListOfSongs!Next
<1>3. ASSUME NEW index \in 0 .. Len(playlist) - 1, Chosen(index) PROVE ListOfSongs!Next
  <2>1. ListOfSongs!Choose(index)
    BY <1>3 DEF Chosen, RemovalsOf, ListOfSongs!Choose
  <2> QED BY <2>1 DEF ListOfSongs!Next
<1>4. CASE Chosen(0)
  <2>1. Len(playlist) \in Nat /\ (playlist # << >> => Len(playlist) # 0) /\ ListTyped
    BY ListFacts, EmptySeq DEF Inv, ListInv, ListTyped
  <2>2. CASE playlist # << >>
    BY <1>3, <1>4, <2>1, <2>2
  <2>3. CASE playlist = << >> /\ ~torn
    <3>1. current = 0
      BY <2>1, <2>3, ListFacts DEF Inv, ListInv, CurrentIsListed
    <3> QED BY <1>4, <3>1 DEF Chosen, RemovalsOf, ListOfSongs!vars
  <2>4. CASE torn
    BY <1>4, <2>1, <2>4, TornStrays DEF Chosen, ListOfSongs!Next
  <2> QED BY <2>2, <2>3, <2>4
<1>5. CASE Clear
  <2>1. torn' = (RemovalsOf(slides) # {})
    BY <1>5, NoRemovals DEF Clear
  <2>2. ListOfSongs!Clear
    BY <1>5, <2>1 DEF Clear, RemovalsOf, ListOfSongs!Clear
  <2> QED BY <2>2 DEF ListOfSongs!Next
<1>6. ASSUME NEW i \in DOMAIN dom, NEW dir \in Direction, ~removing, StartRemoval(dom[i], dir)
      PROVE  ListOfSongs!Next
  <2>1. CASE torn
    BY <1>6, <2>1, TornStrays DEF StartRemoval, Inv, ListInv, ListOfSongs!Next
  <2>2. CASE ~torn
    <3>1. PICK j \in 1 .. Len(playlist) : ListOfSongs!Doom(j, dir)
      BY <1>6, <2>2, ClickDooms
    <3> QED BY <3>1 DEF Direction, ListOfSongs!Way, ListOfSongs!Next
  <2> QED BY <2>1, <2>2
<1>7. ASSUME NEW k \in slides, FinishRemoval(k) PROVE ListOfSongs!Next
  <2>1. k.dir \in Direction /\ RemovedIndex(k) \in Int /\ ListTyped
    BY ListFacts DEF Inv, ListInv, ListTyped, Slide, RemovedIndex, DisplayedIndex
  <2>2. playlist' = Splice(playlist, RemovedIndex(k)) /\ torn' = torn
    BY <1>7 DEF FinishRemoval
  <2>3. CASE torn
    BY <2>1, <2>2, <2>3, TornStrays DEF ListOfSongs!Next
  <2>4. CASE ~torn
    <3>1. PICK i \in 1 .. Len(playlist) : ListOfSongs!Remove(i, k.dir)
      BY <1>7, <2>4, FinishRemoves
    <3> QED BY <2>1, <3>1 DEF Direction, ListOfSongs!Way, ListOfSongs!Next
  <2> QED BY <2>3, <2>4
<1>8. ASSUME Redraw, current' = current PROVE [ListOfSongs!Next]_(ListOfSongs!vars)
  <2>1. torn' = (torn \/ slides # {} \/ Len(playlist) > 1) /\ UNCHANGED <<playlist, slides, current>>
    BY <1>8 DEF Redraw
  <2>2. torn \in BOOLEAN /\ ListTyped
    BY DEF Inv, ListInv, ListTyped
  <2>3. CASE torn
    <3>1. torn' = torn
      BY <2>1, <2>2, <2>3
    <3> QED BY <2>1, <2>2, <2>3, <3>1, TornStrays DEF ListOfSongs!Next
  <2>4. CASE slides # {} \/ Len(playlist) > 1
    <3>1. RemovalsOf(slides) # {} \/ Len(playlist) > 1
      BY <2>4, NoRemovals
    <3>2. torn' = TRUE
      BY <2>1, <2>4
    <3>3. RemovalsOf(slides)' = RemovalsOf(slides)
      BY <2>1 DEF RemovalsOf
    <3> QED BY <2>1, <3>1, <3>2, <3>3 DEF ListOfSongs!Redrawn, ListOfSongs!Next
  <2>5. CASE ~torn /\ ~(slides # {} \/ Len(playlist) > 1)
    <3>1. torn' = torn
      BY <2>1, <2>2, <2>5
    <3> QED BY <2>1, <3>1 DEF RemovalsOf, ListOfSongs!vars
  <2> QED BY <2>3, <2>4, <2>5
<1> QED
  BY <1>1, <1>2, <1>3, <1>4, <1>5, <1>6, <1>7, <1>8 DEF ListStep

(* Whoever clicks on the page sees the playlist that SongList promises: a   *)
(* click removes the song that was clicked and no other, a removal of all   *)
(* newer or older songs goes on beside the one that went, and the current   *)
(* song stays itself, until the list changes under an animation or is shown *)
(* anew.                                                                    *)
THEOREM PlayerRefinesSongList == Spec => ImplementsSongList
<1>1. Init => ListOfSongs!Init /\ NextIsBeside
  BY NoRemovals DEF Init, ListInit, NextIsBeside, ListOfSongs!Init
<1>2. Inv /\ NextIsBeside /\ [Next]_vars => [ListOfSongs!Next]_(ListOfSongs!vars)
  <2>1. UNCHANGED vars => UNCHANGED ListOfSongs!vars
    BY DEF vars, listVars, RemovalsOf, ListOfSongs!vars
  <2> QED BY <2>1, HandlersOfTheList, ListStepMaps
<1> QED
  BY <1>1, <1>2, BesideNext, InvHolds, PTL DEF Spec, ImplementsSongList, ListOfSongs!Spec

(* What SongList says of its variables is so of those of Player. *)
COROLLARY SongListTyped == Spec => []ListOfSongs!TypeOK
<1>1. Inv => ListOfSongs!TypeOK
  <2> SUFFICES ASSUME Inv PROVE ListOfSongs!TypeOK
    OBVIOUS
  <2>1. ListTyped
    BY DEF Inv, ListInv
  <2>2. ASSUME NEW k \in slides
        PROVE  [song |-> k.item.song, way |-> k.dir] \in ListOfSongs!Removal
    <3>1. k.item.song \in Song /\ k.dir \in Direction
      BY <2>1 DEF ListTyped, Slide, Item
    <3> QED BY <3>1 DEF Direction, ListOfSongs!Removal, ListOfSongs!Way
  <2>3. RemovalsOf(slides) \subseteq ListOfSongs!Removal
    BY <2>2 DEF RemovalsOf
  <2> QED BY <2>1, <2>3 DEF ListTyped, ListOfSongs!TypeOK
<1> QED
  BY <1>1, InvHolds, PTL

-----------------------------------------------------------------------------
(* The items of a page that shows a list without repetition are different. *)
LEMMA ItemsDiffer ==
  ASSUME NEW page \in Seq(Item), NEW list \in Seq(Song), Len(page) = Len(list),
         \A i \in DOMAIN page : page[i].song = list[DisplayedIndex(list, i - 1) + 1],
         \A i, j \in DOMAIN list : list[i] = list[j] => i = j,
         NEW i \in DOMAIN page, NEW j \in DOMAIN page, page[i] = page[j]
  PROVE  i = j
<1> DEFINE n == Len(list)
<1>1. n \in Nat /\ DOMAIN page = 1 .. n /\ DOMAIN list = 1 .. n
  BY LenProperties
<1>2. list[n - 1 - (i - 1) + 1] = list[n - 1 - (j - 1) + 1]
  BY DEF DisplayedIndex
<1> HIDE DEF n
<1>3. n - 1 - (i - 1) + 1 \in 1 .. n /\ n - 1 - (j - 1) + 1 \in 1 .. n
  BY <1>1
<1>4. n - 1 - (i - 1) + 1 = n - 1 - (j - 1) + 1
  BY <1>1, <1>2, <1>3
<1> QED
  BY <1>1, <1>4

(* The place of an item that is at a known index. *)
LEMMA PositionIs ==
  ASSUME NEW page \in Seq(Item), NEW at \in DOMAIN page,
         \A i, j \in DOMAIN page : page[i] = page[j] => i = j
  PROVE  Position(page, page[at]) = at
<1> DEFINE p == Position(page, page[at])
<1>1. p \in DOMAIN page /\ page[p] = page[at]
  BY DEF Position
<1> HIDE DEF p
<1>2. p = at
  BY <1>1
<1> QED
  BY <1>2 DEF p

(* Which songs are doomed, said with the index that the animation holds. *)
Reaches(k, i) ==
  \/ i = k.index + 1
  \/ k.dir = "up" /\ i < k.index + 1
  \/ k.dir = "down" /\ i > k.index + 1
DoomedByIndex == \A s : s \in Doomed <=> \E i \in DOMAIN dom, k \in slides : dom[i].song = s /\ Reaches(k, i)

LEMMA DoomedIs == ListInv => torn \/ DoomedByIndex
<1> SUFFICES ASSUME ListInv, ~torn PROVE DoomedByIndex
  OBVIOUS
<1>1. dom \in Seq(Item) /\ playlist \in Seq(Song) /\ Len(dom) = Len(playlist)
  BY DEF ListInv, ListTyped, PageShowsList
<1>2. /\ \A i \in DOMAIN dom : dom[i].song = playlist[DisplayedIndex(playlist, i - 1) + 1]
      /\ \A i, j \in DOMAIN playlist : playlist[i] = playlist[j] => i = j
  BY DEF ListInv, PageShowsList, SongAt, NoSongTwice
<1>3. \A i, j \in DOMAIN dom : dom[i] = dom[j] => i = j
  BY <1>1, <1>2, ItemsDiffer
<1>4. ASSUME NEW k \in slides, NEW i \in DOMAIN dom
      PROVE  /\ OnPage(k.item)
             /\ k.item = dom[i] <=> i = k.index + 1
             /\ Position(dom, k.item) = k.index + 1
  <2>1. k.index + 1 \in DOMAIN dom /\ dom[k.index + 1] = k.item
    BY DEF ListInv, OneRemoval
  <2>2. Position(dom, dom[k.index + 1]) = k.index + 1
    BY <1>1, <1>3, <2>1, PositionIs
  <2> QED BY <1>3, <2>1, <2>2 DEF OnPage
<1>5. ASSUME NEW k \in slides, NEW i \in DOMAIN dom
      PROVE  Reaches(k, i) <=> /\ OnPage(k.item)
                            /\ \/ k.item = dom[i]
                               \/ k.dir = "up" /\ i < Position(dom, k.item)
                               \/ k.dir = "down" /\ i > Position(dom, k.item)
  BY <1>4 DEF Reaches
<1>6. Doomed = {dom[i].song : i \in {i \in DOMAIN dom : \E k \in slides : Reaches(k, i)}}
  BY <1>5 DEF Doomed
<1> QED
  BY <1>6 DEF DoomedByIndex

(* The animation that ends hands those that are still to go on to the next. *)
LEMMA FinishSpares ==
  ASSUME Inv, Inv', NextIsBeside, ~torn, NEW k \in slides, FinishRemoval(k),
         DoomedByIndex, DoomedByIndex', NEW s \in Doomed
  PROVE  s \in Doomed' \/ s \notin Listed'
<1> DEFINE n == Len(playlist)
           x == k.index
<1>1. /\ n \in Nat /\ DOMAIN dom = 1 .. n /\ dom \in Seq(Item) /\ Len(dom) = n
      /\ \A i \in 1 .. n : dom[i] \in Item
  BY ListFacts DEF Inv, ListInv, ListTyped, PageShowsList
<1>2. x \in 0 .. n - 1
  BY <1>1, FinishPage DEF Inv
<1>3. /\ dom[x + 1] = k.item /\ \A l \in slides : l = k
      /\ k.next = NextItem(dom, x + 1, k.dir) /\ torn' = torn
  BY DEF Inv, ListInv, OneRemoval, NextIsBeside, FinishRemoval
<1>4. /\ DOMAIN dom' = 1 .. n - 1 /\ dom' \in Seq(Item)
      /\ \A i \in 1 .. n - 1 : dom'[i] = IF i <= x THEN dom[i] ELSE dom[i + 1]
  BY <1>1, FinishPage DEF Inv
<1>5. \A i, j \in DOMAIN dom' : dom'[i] = dom'[j] => i = j
  <2>1. playlist' \in Seq(Song) /\ Len(dom') = Len(playlist')
    BY <1>3 DEF Inv, ListInv, ListTyped, PageShowsList
  <2>2. /\ \A i \in DOMAIN dom' : dom'[i].song = playlist'[DisplayedIndex(playlist', i - 1) + 1]
        /\ \A i, j \in DOMAIN playlist' : playlist'[i] = playlist'[j] => i = j
    BY <1>3 DEF Inv, ListInv, PageShowsList, SongAt, NoSongTwice
  <2> QED BY <1>4, <2>1, <2>2, ItemsDiffer
<1>6. NoItem \notin Item
  BY PlaylistAssumption DEF Item, NoItem
<1>7. PICK i \in 1 .. n : dom[i].song = s /\ Reaches(k, i)
  BY <1>1, <1>3 DEF DoomedByIndex
<1>8. ASSUME NEW at \in 1 .. n - 1, dom'[at] = k.next, k.next \in Item
      PROVE  \E l \in slides' : l.index + 1 = at /\ l.dir = k.dir
  <2>1. k.next # NoItem /\ \E j \in DOMAIN dom' : dom'[j] = k.next
    BY <1>4, <1>6, <1>8
  <2>2. PICK l \in slides' : l.item = k.next /\ l.dir = k.dir
    BY <2>1, FinishStarts DEF Inv
  <2>3. l.index + 1 \in DOMAIN dom' /\ dom'[l.index + 1] = l.item
    BY <1>3 DEF Inv, ListInv, OneRemoval
  <2>4. l.index + 1 = at
    BY <1>4, <1>5, <1>8, <2>2, <2>3
  <2> QED BY <2>2, <2>4
<1> HIDE DEF n, x
<1>9. CASE i = x + 1
  <2>1. Listed' = Listed \ {s}
    BY <1>3, <1>7, <1>9, FinishIsExact DEF Inv
  <2> QED BY <2>1
<1>10. CASE k.dir = "up" /\ i < x + 1
  <2>1. i \in 1 .. n - 1 /\ x \in 1 .. n - 1 /\ x \in 1 .. n /\ i <= x /\ x + 1 - 1 = x
    BY <1>1, <1>2, <1>10
  <2>2. k.next = dom[x] /\ dom'[x] = dom[x] /\ dom'[i] = dom[i]
    BY <1>1, <1>3, <1>4, <1>10, <2>1 DEF NextItem
  <2>3. PICK l \in slides' : l.index + 1 = x /\ l.dir = "up"
    BY <1>1, <1>8, <1>10, <2>1, <2>2
  <2>4. Reaches(l, i)
    BY <2>1, <2>3 DEF Reaches
  <2> QED BY <1>4, <1>7, <2>1, <2>2, <2>4 DEF DoomedByIndex
<1>11. CASE k.dir = "down" /\ i > x + 1
  <2>1. /\ i - 1 \in 1 .. n - 1 /\ x + 1 \in 1 .. n - 1 /\ x + 2 \in 1 .. n /\ x + 1 + 1 = x + 2
        /\ ~(i - 1 <= x) /\ ~(x + 1 <= x) /\ i - 1 + 1 = i /\ i - 1 >= x + 1
    BY <1>1, <1>2, <1>11
  <2>2. dom'[x + 1] = dom[x + 2] /\ dom'[i - 1] = dom[i]
    BY <1>4, <2>1
  <2>3. k.next = dom[x + 2]
    BY <1>1, <1>3, <1>11, <2>1 DEF NextItem
  <2>4. PICK l \in slides' : l.index + 1 = x + 1 /\ l.dir = "down"
    BY <1>1, <1>8, <1>11, <2>1, <2>2, <2>3
  <2> DEFINE j == i - 1
  <2>5. j \in DOMAIN dom' /\ dom'[j].song = s /\ Reaches(l, j)
    <3>1. j = x + 1 \/ j > x + 1
      BY <1>2, <2>1
    <3> QED BY <1>4, <1>7, <2>1, <2>2, <2>4, <3>1 DEF Reaches
  <2> HIDE DEF j
  <2> QED BY <2>5 DEF DoomedByIndex
<1> QED
  BY <1>7, <1>9, <1>10, <1>11 DEF Reaches, x

(* A song that is to go is not lost on the way from one animation to the    *)
(* next: the safety part of DoomedAreRemoved.                               *)
THEOREM NoneIsSparedHolds == Spec => NoneIsSpared
<1>1. Inv /\ Inv' /\ NextIsBeside /\ (torn \/ DoomedByIndex) /\ (torn \/ DoomedByIndex)' /\ [Next]_vars
        => [\A s \in Doomed : torn' \/ s \in Doomed' \/ s \notin Listed']_vars
  <2> SUFFICES ASSUME Inv, Inv', NextIsBeside, torn \/ DoomedByIndex, (torn \/ DoomedByIndex)', Next,
                      NEW s \in Doomed, ~torn'
               PROVE  s \in Doomed' \/ s \notin Listed'
    BY DEF vars
  <2>1. PICK k \in slides : TRUE
    BY DEF Doomed
  <2>2. CASE UNCHANGED <<dom, slides>>
    BY <2>2 DEF Doomed, OnPage
  <2>3. ASSUME NEW t \in Song, Pushed(t) PROVE FALSE
    BY <2>1, <2>3 DEF Pushed, Push
  <2>4. CASE Clear
    BY <2>1, <2>4 DEF Clear
  <2>5. ASSUME NEW i \in DOMAIN dom, NEW dir \in Direction, ~removing, StartRemoval(dom[i], dir)
        PROVE  FALSE
    BY <2>1, <2>5 DEF StartRemoval, Inv, ListInv, OneRemoval
  <2>6. ASSUME NEW l \in slides, FinishRemoval(l) PROVE s \in Doomed' \/ s \notin Listed'
    <3>1. ~torn
      BY <2>6 DEF FinishRemoval
    <3>2. DoomedByIndex /\ DoomedByIndex'
      BY <3>1
    <3> QED BY <2>6, <3>1, <3>2, FinishSpares
  <2>7. CASE Redraw
    BY <2>1, <2>7 DEF Redraw
  <2> QED
    BY <2>2, <2>3, <2>4, <2>5, <2>6, <2>7, HandlersOfTheList DEF ListStep, Chosen, listVars
<1>2. Init => NextIsBeside
  BY DEF Init, ListInit, NextIsBeside
<1>3. Inv => torn \/ DoomedByIndex
  BY DoomedIs DEF Inv
<1> QED
  BY <1>1, <1>2, <1>3, BesideNext, InvHolds, PTL DEF Spec, NoneIsSpared
=============================================================================
