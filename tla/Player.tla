------------------------------- MODULE Player -------------------------------
(***************************************************************************)
(* The player of the web client: the list of songs, the song that is       *)
(* selected, the audio element and the callbacks that tie them together.   *)
(* The page runs on one event loop: the handler of an event runs to its    *)
(* end, then the promise callbacks it queued, in order, and only then      *)
(* another event.  What is asynchronous is the rest: a song that has to be *)
(* downloaded before it is selected (on localhost), the answer with a      *)
(* random song, the animation of a removal, and the audio element, whose   *)
(* play() promise is answered when playback starts or is interrupted.      *)
(***************************************************************************)
EXTENDS Playlist

CONSTANTS
  Saved,      \* the saved playlists: records of songs and of the current index
  Albums,     \* the sequences of songs that are added at once
  Slow,       \* bound: songs whose download others may outrun, on localhost
  MaxItems,   \* bound: items on the page once it differs from the list
  MaxLoads,   \* bound: downloads awaited when the user asks for a song
  MaxRandom   \* bound: random songs asked for and not answered

ASSUME PlayerAssumption ==
  /\ Saved \subseteq [songs : Seq(Song), index : Nat]
  /\ Albums \subseteq Seq(Song) /\ Slow \subseteq Song
  /\ MaxItems \in Nat /\ MaxLoads \in Nat /\ MaxRandom \in Nat \ {0}

VARIABLES
  micro,      \* the promise callbacks that are ready to run, in order
  loads,      \* what goes on after each song's download, in order
  remote,     \* the songs that have to be downloaded before they are selected
  broken,     \* the songs whose download failed: the rejection is kept
  random,     \* the random songs that were asked for, to play at once
  media,      \* jPlayer and its audio element
  ready,      \* whether jPlayer's ready event was handled: it shows the list anew
  late        \* history: a selection was made while another one waited

loopVars == <<micro, loads, remote, broken, random, media, ready>>
history == <<late>>
vars == <<listVars, loopVars, history>>

Then == [do : {"nothing", "play", "restore"}, songs : Seq(Song), index : Nat]
Callback == [do : {"setMedia", "then", "reset"}, song : Song \cup {NoSong}, then : Then]
            \cup [do : {"add"}, song : Song, then : Then]
Media == [song : Song \cup {NoSong}, srcSet : BOOLEAN, aborting : BOOLEAN,
          el : {"paused", "starting", "playing", "ended", "silent"}]

Nothing == [do |-> "nothing", songs |-> << >>, index |-> 0]
PlayIt == [Nothing EXCEPT !.do = "play"]
Restoring(songs, index) == [do |-> "restore", songs |-> songs, index |-> index]
SetMediaOf(s, then) == [do |-> "setMedia", song |-> s, then |-> then]
Continue(then) == [do |-> "then", song |-> NoSong, then |-> then]
AddOf(s) == [do |-> "add", song |-> s, then |-> Nothing]
ResetOf(s) == [do |-> "reset", song |-> s, then |-> Nothing]

(***************************************************************************)
(* jPlayer and the audio element.  A play() that has not started yet is    *)
(* rejected when the element is paused (by a task of its own: aborting) or *)
(* loads another source (at once); the catch of _html_play then resets     *)
(* whatever media is set by that time.                                     *)
(***************************************************************************)
Paused(m) ==
  [m EXCEPT !.el = IF @ \in {"ended", "silent"} THEN @ ELSE "paused",
            !.aborting = @ \/ m.el = "starting"]

Pause(m) == IF m.srcSet THEN Paused(m) ELSE m

(* Stop rewinds: an element at its end is no longer there. *)
Stop(m) == IF m.srcSet THEN [Paused(m) EXCEPT !.el = "paused"] ELSE m

Play(m) == IF m.srcSet THEN [m EXCEPT !.el = IF @ = "playing" THEN @ ELSE "starting"] ELSE m

Reset(m) == [Paused(m) EXCEPT !.srcSet = FALSE]

(* The song asked for in the place of the one that ended is not played. *)
Unanswered(m) == [m EXCEPT !.el = IF @ = "ended" THEN "silent" ELSE @]

Loaded(s) == [song |-> s, srcSet |-> s # NoSong, aborting |-> FALSE, el |-> "paused"]

Rejected(m) == IF m.el = "starting" \/ m.aborting THEN <<ResetOf(m.song)>> ELSE << >>

(***************************************************************************)
(* Selecting a song.  Local.maybePreLoad is answered at once unless the    *)
(* page is on localhost and the blob has to be downloaded; a download that *)
(* failed is never tried again.                                            *)
(***************************************************************************)
Ready(s) == s \notin remote
Awaited == \E s \in Song : loads[s] # << >>

Await(song, then) ==
  loads' = IF Ready(song) \/ song \in broken THEN loads
           ELSE [loads EXCEPT ![song] = Append(@, then)]

(* select(index) of a song of the list, with what its promise goes on to.  *)
(* `after' is what the handler leaves in the queue of callbacks.           *)
Select(song, then, after) ==
  /\ micro' = IF Ready(song) THEN Append(after, SetMediaOf(song, then)) ELSE after
  /\ Await(song, then)
  /\ late' = (late \/ Awaited)

NoSelect(after) == micro' = after /\ UNCHANGED <<loads, late>>

SelectAt(index, then, after) ==
  /\ current' = index
  /\ Select(SongAt(index), then, after)

(* Seeded fault: the list is not searched for the file of the song. *)
AddUnchecked(s, playNow, then, after) ==
  /\ Push(s)
  /\ IF playNow \/ playlist = << >>
     THEN /\ current' = Len(playlist)
          /\ Select(s, IF playNow THEN PlayIt ELSE then, after)
     ELSE /\ NoSelect(IF then = Nothing THEN after ELSE Append(after, Continue(then)))
          /\ UNCHANGED current

(* add(media, playNow), its song not an array. *)
Add(s, playNow, then, after) ==
  IF InList(s)
  THEN /\ NoSelect(IF then = Nothing THEN after ELSE Append(after, Continue(then)))
       /\ UNCHANGED listVars
  ELSE /\ Push(s)
       /\ IF playNow \/ playlist = << >>
          THEN /\ current' = Len(playlist)
               /\ Select(s, IF playNow THEN PlayIt ELSE then, after)
          ELSE /\ NoSelect(IF then = Nothing THEN after ELSE Append(after, Continue(then)))
               /\ UNCHANGED current

-----------------------------------------------------------------------------
Init ==
  /\ ListInit
  /\ micro = << >>
  /\ loads = [s \in Song |-> << >>]
  /\ remote \in {{}, Slow}
  /\ broken = {}
  /\ random = 1
  /\ media = Loaded(NoSong)
  /\ ready = FALSE
  /\ late = FALSE

-----------------------------------------------------------------------------
(***************************************************************************)
(* The callbacks.                                                          *)
(***************************************************************************)
RunSetMedia(c, rest) ==
  /\ media' = Loaded(c.song)
  /\ micro' = rest \o Rejected(media)
                   \o (IF c.then = Nothing THEN << >> ELSE <<Continue(c.then)>>)
  /\ UNCHANGED <<listVars, loads, remote, ready, broken, random, history>>

RunPlay(rest) ==
  /\ media' = Play(media)
  /\ micro' = rest
  /\ UNCHANGED <<listVars, loads, remote, ready, broken, random, history>>

(* setPlaylist adds the songs one by one and awaits each; setState then    *)
(* selects the song the playlist was saved at and skips to its position.   *)
RunRestore(then, rest) ==
  IF then.songs # << >>
  THEN /\ Add(Head(then.songs), FALSE, Restoring(Tail(then.songs), then.index), rest)
       /\ UNCHANGED <<remote, ready, broken, random, media>>
  ELSE /\ IF then.index < Len(playlist)
          THEN SelectAt(then.index, PlayIt, rest) /\ UNCHANGED playlist
          ELSE /\ current' = 0 /\ UNCHANGED playlist
               /\ NoSelect(Append(rest, Continue(PlayIt)))
       /\ UNCHANGED <<removing, dom, slides, torn>>
       /\ UNCHANGED <<remote, ready, broken, random, media>>

RunAdd(s, rest) ==
  /\ Add(s, FALSE, Nothing, rest)
  /\ UNCHANGED <<remote, ready, broken, random, media>>

(* The catch of _html_play. *)
RunReset(rest) ==
  /\ media' = Reset(media)
  /\ micro' = rest
  /\ UNCHANGED <<listVars, loads, remote, ready, broken, random, history>>

RunCallback ==
  /\ micro # << >>
  /\ LET c == Head(micro)
         rest == Tail(micro)
     IN  \/ c.do = "setMedia" /\ RunSetMedia(c, rest)
         \/ c.do = "then" /\ c.then.do = "play" /\ RunPlay(rest)
         \/ c.do = "then" /\ c.then.do = "restore" /\ RunRestore(c.then, rest)
         \/ c.do = "add" /\ RunAdd(c.song, rest)
         \/ c.do = "reset" /\ RunReset(rest)

-----------------------------------------------------------------------------
(***************************************************************************)
(* The events.  None is handled before the callbacks of the last one ran.  *)
(***************************************************************************)
Idle == micro = << >>
Room(n) == torn => Len(dom) + n <= MaxItems
MayLoad == \A s \in Song : Len(loads[s]) < MaxLoads

(* A song arrives that was asked for by a click on a search result, by the *)
(* shortcut for the next song of the album or by the timer that looks for  *)
(* the end of the last song (the two last never play it).                  *)
SongArrives(s, playNow) ==
  /\ Idle /\ Room(1) /\ MayLoad
  /\ Add(s, playNow, Nothing, << >>)
  /\ UNCHANGED <<remote, ready, broken, random, media>>

(* The answer with a random song, to be played: one that is listed is not. *)
RandomArrives(s) ==
  /\ Idle /\ Room(1)
  /\ random > 0
  /\ random' = random - 1
  /\ Add(s, TRUE, Nothing, << >>)
  /\ media' = IF InList(s) THEN Unanswered(media) ELSE media
  /\ UNCHANGED <<remote, ready, broken>>

RandomFails ==
  /\ Idle
  /\ random > 0
  /\ random' = random - 1
  /\ media' = Unanswered(media)
  /\ UNCHANGED <<listVars, micro, loads, remote, ready, broken, history>>

(* An album arrives: its songs are added in one go, and none is played. *)
AlbumArrives(a) ==
  /\ Idle /\ Room(Len(a)) /\ MayLoad
  /\ micro' = [i \in DOMAIN a |-> AddOf(a[i])]
  /\ UNCHANGED <<listVars, loads, remote, ready, broken, random, media, history>>

(* setState: a saved playlist replaces the list. *)
Restore(p) ==
  /\ Idle /\ MayLoad
  /\ \A s \in Song : \A i \in DOMAIN loads[s] : loads[s][i].do # "restore"
  /\ media' = Stop(media)
  /\ Clear
  /\ micro' = <<Continue(Restoring(p.songs, p.index))>>
  /\ UNCHANGED <<loads, remote, ready, broken, random, history>>

(* play(index) for an index of the list. *)
PlayAt(index) ==
  /\ SelectAt(index, PlayIt, << >>)
  /\ UNCHANGED <<playlist, removing, dom, slides, torn>>
  /\ UNCHANGED <<remote, ready, broken, random, media>>

(* Seeded fault: the end of the last song asks for nothing. *)
AskNothing == UNCHANGED <<listVars, micro, loads, remote, ready, broken, random, history>>

(* next, as jplayerdata.ts overrides it. *)
AskRandom ==
  /\ random < MaxRandom
  /\ random' = random + 1
  /\ UNCHANGED <<listVars, micro, loads, remote, ready, broken, history>>

IsLast == current = Len(playlist) - 1

Next0 ==
  \/ IsLast /\ AskRandom
  \/ ~IsLast /\ current + 1 < Len(playlist) /\ current + 1 > 0
     /\ SelectAt(current + 1, PlayIt, << >>)
     /\ UNCHANGED <<playlist, removing, dom, slides, torn, remote, ready, broken, random>>

NextSong == Idle /\ MayLoad /\ Next0 /\ UNCHANGED media

Ended ==
  /\ Idle /\ MayLoad
  /\ media.el = "playing"
  /\ media' = [media EXCEPT !.el = "ended"]
  /\ \/ Next0
     \/ ~IsLast /\ current + 1 \notin 1 .. Len(playlist) - 1
        /\ UNCHANGED <<listVars, micro, loads, remote, ready, broken, random, history>>

(* A song that ends though less than 99% of it can be sought to: the       *)
(* listener throws before the event reaches next.                          *)
EndsEarly ==
  /\ Idle
  /\ media.el = "playing"
  /\ media' = [media EXCEPT !.el = "silent"]
  /\ UNCHANGED <<listVars, micro, loads, remote, ready, broken, random, history>>

Previous ==
  /\ Idle /\ MayLoad
  /\ current - 1 \in 0 .. Len(playlist) - 2
  /\ PlayAt(current - 1)

(* A click on an item of the page. *)
ClickItem(i) ==
  /\ Idle /\ MayLoad
  /\ DisplayedIndex(playlist, i - 1) >= 0
  /\ DisplayedIndex(playlist, i - 1) # current
  /\ PlayAt(DisplayedIndex(playlist, i - 1))

(* A click on one of the three remove controls of an item. *)
ClickRemove(i, dir) ==
  /\ Idle /\ MayLoad
  /\ ~removing
  /\ Cardinality(slides) < MaxSlides
  /\ StartRemoval(dom[i], dir)
  /\ UNCHANGED <<loopVars, history>>

(* The animation of a removal ends. *)
SlideEnds(k) ==
  /\ Idle
  /\ FinishRemoval(k)
  /\ IF Reselects(k) /\ ~Throws(k)
     THEN /\ Select(playlist'[current' + 1], Nothing, << >>)
          /\ UNCHANGED media
     ELSE /\ micro' = IF playlist' = << >> THEN Rejected(media) ELSE << >>
          /\ media' = IF playlist' = << >> THEN Loaded(NoSong) ELSE media
          /\ UNCHANGED <<loads, late>>
  /\ UNCHANGED <<remote, ready, broken, random>>

(* jPlayer's ready event, 100 ms after the page is loaded, and once the    *)
(* items it shows by then slid out: the list is shown anew, and the current*)
(* song is played.                                                         *)
ReadyHandled ==
  /\ Idle
  /\ ~ready /\ ready' = TRUE
  /\ Redraw
  /\ IF current \in 0 .. Len(playlist) - 1
     THEN SelectAt(current, PlayIt, << >>)
     ELSE UNCHANGED current /\ NoSelect(<< >>)
  /\ UNCHANGED <<remote, broken, random, media>>

(* The keys and buttons: pause or play, stop, and the previous song. *)
TogglePause ==
  /\ Idle
  /\ media' = IF media.el \in {"starting", "playing"} THEN Pause(media) ELSE Play(media)
  /\ UNCHANGED <<listVars, micro, loads, remote, ready, broken, random, history>>

StopKey ==
  /\ Idle
  /\ media' = Stop(media)
  /\ UNCHANGED <<listVars, micro, loads, remote, ready, broken, random, history>>

(* The key z: the song is loaded and played by the handler itself, while   *)
(* select, called before by previous, is about to load it once more.       *)
RestartKey ==
  /\ Idle /\ MayLoad
  /\ current \in 0 .. Len(playlist) - 1
  /\ LET back == IF current > 0 THEN current - 1 ELSE 0
         stopped == Stop(media)
     IN  /\ current' = back
         /\ media' = Play(Loaded(SongAt(back)))
         /\ IF back # current
            THEN /\ micro' = (IF Ready(SongAt(back)) THEN <<SetMediaOf(SongAt(back), PlayIt)>> ELSE << >>)
                             \o Rejected(stopped)
                 /\ Await(SongAt(back), PlayIt)
                 /\ late' = (late \/ Awaited)
            ELSE micro' = Rejected(stopped) /\ UNCHANGED <<loads, late>>
  /\ UNCHANGED <<playlist, removing, dom, slides, torn>>
  /\ UNCHANGED <<remote, ready, broken, random>>

-----------------------------------------------------------------------------
(* A download ends: the selections that wait for it go on, in order. *)
DownloadEnds(s) ==
  /\ Idle
  /\ loads[s] # << >>
  /\ remote' = remote \ {s}
  /\ micro' = [i \in DOMAIN loads[s] |-> SetMediaOf(s, loads[s][i])]
  /\ loads' = [loads EXCEPT ![s] = << >>]
  /\ UNCHANGED <<listVars, ready, broken, random, media, history>>

DownloadFails(s) ==
  /\ Idle
  /\ loads[s] # << >>
  /\ broken' = broken \cup {s}
  /\ loads' = [loads EXCEPT ![s] = << >>]
  /\ UNCHANGED <<listVars, micro, remote, ready, random, media, history>>

(* The audio element: playback starts, or fails on a bad blob, or what was *)
(* interrupted is answered.                                                *)
Starts ==
  /\ Idle
  /\ media.el = "starting"
  /\ media' = [media EXCEPT !.el = "playing"]
  /\ UNCHANGED <<listVars, micro, loads, remote, ready, broken, random, history>>

StartFails ==
  /\ Idle
  /\ media.el = "starting"
  /\ media' = [media EXCEPT !.el = "paused"]
  /\ micro' = <<ResetOf(media.song)>>
  /\ UNCHANGED <<listVars, loads, remote, ready, broken, random, history>>

AbortAnswered ==
  /\ Idle
  /\ media.aborting
  /\ media' = [media EXCEPT !.aborting = FALSE]
  /\ micro' = <<ResetOf(media.song)>>
  /\ UNCHANGED <<listVars, loads, remote, ready, broken, random, history>>

-----------------------------------------------------------------------------
Next ==
  \/ RunCallback
  \/ \E s \in Song, playNow \in BOOLEAN : SongArrives(s, playNow)
  \/ \E s \in Song : RandomArrives(s)
  \/ RandomFails
  \/ \E a \in Albums : AlbumArrives(a)
  \/ \E p \in Saved : Restore(p)
  \/ NextSong
  \/ Ended
  \/ EndsEarly
  \/ Previous
  \/ \E i \in DOMAIN dom : ClickItem(i)
  \/ \E i \in DOMAIN dom, dir \in Direction : ClickRemove(i, dir)
  \/ \E k \in slides : SlideEnds(k)
  \/ ReadyHandled
  \/ TogglePause
  \/ StopKey
  \/ RestartKey
  \/ \E s \in Song : DownloadEnds(s) \/ DownloadFails(s)
  \/ Starts
  \/ StartFails
  \/ AbortAnswered

Fairness ==
  /\ WF_vars(RunCallback)
  /\ SF_vars(\E s \in Song : RandomArrives(s))
  /\ \A s \in Slow : SF_vars(DownloadEnds(s) \/ DownloadFails(s))
  /\ SF_vars(\E k \in slides : SlideEnds(k))

TypeOK ==
  /\ playlist \in Seq(Song) /\ current \in Int /\ removing \in BOOLEAN
  /\ dom \in Seq(Item) /\ slides \subseteq Slide /\ torn \in BOOLEAN
  /\ micro \in Seq(Callback)
  /\ loads \in [Song -> Seq(Then)]
  /\ remote \subseteq Song /\ broken \subseteq Song
  /\ random \in 0 .. MaxRandom
  /\ media \in Media /\ ready \in BOOLEAN
  /\ late \in BOOLEAN

-----------------------------------------------------------------------------
(***************************************************************************)
(* Properties.                                                             *)
(***************************************************************************)

(* A song is listed once, however the answers with songs arrive: add looks *)
(* for the file in the list when the song arrives, not when it is asked    *)
(* for.                                                                    *)
NoSongTwice == \A i, j \in DOMAIN playlist : playlist[i] = playlist[j] => i = j

(* The current index is that of a song of the list, through selections,    *)
(* removals and restored playlists, unless the list grew or was cleared    *)
(* while a removal was animated, or several songs, or one under an         *)
(* animation, were shown anew by the ready event; until it is next cleared *)
(* at rest.                                                                *)
CurrentIsListed ==
  torn \/ current \in 0 .. Len(playlist) - 1 \/ (playlist = << >> /\ current = 0)

(* The page shows the songs of the list, in the reverse order: the index   *)
(* of a click is that of the song that was clicked.  Under the same        *)
(* condition, for the ready event shows the songs in the order of the list.*)
PageShowsList ==
  torn \/ /\ Len(dom) = Len(playlist)
          /\ \A i \in DOMAIN dom : dom[i].song = SongAt(DisplayedIndex(playlist, i - 1))

(* What the audio element has loaded, once the callbacks have run and no   *)
(* download is awaited, is the current song - unless a song was selected   *)
(* while another was downloaded (the answers then load in their order), a  *)
(* download failed, or the list and the page differ.                       *)
MediaIsCurrent ==
  Idle /\ ~Awaited /\ playlist # << >> /\ ~late /\ ~torn /\ broken = {}
    => media.song = SongAt(current)

(* The end of a removal takes the song that was clicked out of the list,   *)
(* and no other, and the current song stays the current song unless it is  *)
(* the one that goes.                                                      *)
Listed == {playlist[i] : i \in DOMAIN playlist}
CurrentSong == IF current \in 0 .. Len(playlist) - 1 THEN SongAt(current) ELSE NoSong
RemovalIsExact ==
  [][\A k \in slides \ slides' :
       ~torn' => /\ Listed' = Listed \ {k.item.song}
                 /\ CurrentSong # k.item.song => CurrentSong' = CurrentSong]_vars

(* The same without the condition, as the tooltip of the control says it.  *)
RemovesThisItem == [][\A k \in slides \ slides' : Listed' = Listed \ {k.item.song}]_vars

(* A removal of an item and of all that is above it, or below it, comes to *)
(* its end, though it is made of one animation after the other.            *)
Doomed ==
  {dom[i].song : i \in {i \in DOMAIN dom :
     \E k \in slides : /\ OnPage(k.item)
                      /\ \/ k.item = dom[i]
                         \/ k.dir = "up" /\ i < Position(dom, k.item)
                         \/ k.dir = "down" /\ i > Position(dom, k.item)}}
DoomedAreRemoved == \A s \in Song : (s \in Doomed) ~> (torn \/ ~InList(s))

(* No step loses one of them on the way: a song that is to go with the item   *)
(* that was clicked is to go after every animation until its own has ended,   *)
(* although each animation is only told of the next item.                     *)
NoneIsSpared == [][\A s \in Doomed : torn' \/ s \in Doomed' \/ s \notin Listed']_vars

(* When a song of a list ends another one is loaded: the next, or a random *)
(* one - unless the random song is listed already, or its request fails,   *)
(* and nothing asks for another one.                                       *)
PlaybackGoesOn ==
  (media.el = "ended")
    ~> (media.el # "ended" \/ playlist = << >> \/ broken # {} \/ torn)

(* From the end of a song until another one is loaded, something leads there: *)
(* the request of a random song is unanswered, a selection is in the queue of *)
(* callbacks, or a download goes on that a selection waits for.  With nothing *)
(* of the kind the music would stop for good, since only the end of a song    *)
(* goes on by itself.                                                         *)
AnotherIsOnItsWay ==
  random > 0 \/ Awaited \/ \E i \in DOMAIN micro : micro[i].do = "setMedia"
EndIsFollowed ==
  media.el = "ended" => AnotherIsOnItsWay \/ playlist = << >> \/ broken # {} \/ torn

(* The list as whoever clicks on it sees it: the page, the animations and     *)
(* their indices are hidden.                                                  *)
RemovalsOf(S) == {[song |-> k.item.song, way |-> k.dir] : k \in S}
ListOfSongs == INSTANCE SongList WITH
  list <- playlist, doomed <- RemovalsOf(slides), astray <- torn
ImplementsSongList == ListOfSongs!Spec

Spec == Init /\ [][Next]_vars
FairSpec == Spec /\ Fairness
=============================================================================
