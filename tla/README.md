# Verification of Mp3Streamer

TLA+ models of the parts of the Mp3Streamer server and of its web client where the
order of events decides the outcome, the TLC runs that check them on small
instances, and TLAPS proofs of their properties for every number of callers, files,
albums and songs. All paths below are relative to the repository; Scala sources
are under `app/`, the client under `public/`.

Run a check with `tlc -config MCUniqueActor.cfg MCUniqueActor` and a proof with
`tlapm UniqueActor_proofs.tla`, in this directory. `PROJECT.json` maps every
definition to the lines it models.

## 1. Inventory

| Component | State it keeps | Operations | How it meets the others |
|---|---|---|---|
| Actors (`common/concurrency/actor`) | a FIFO of tasks, at most one thread; for `unique` a map from messages to futures; for `rateLimited` the last run | `!`, `update`, `set`, `modify` | every other stateful component is built on them |
| Iterants (`common/concurrency/iterant`) | blocking map, semaphore, latches, results vector, pool | `step`, `put`, `get`, `setMaxIndex` | cover download steps them from the event thread |
| JSON values (`common/json/saver`) | a volatile value and its file | `get`, `set`, `modify`, load | used by last albums |
| Last albums (`backend/last_albums`) | queue of album directories, time of the newest | `update`, `dequeue`, `get` | called by two HTTP routes and by the indexer; scans the disk behind a unique actor |
| Song cache and index (`backend/search`) | `SongCaches.avro`, three index files, the index in memory | `index(force)`, `search` | a unique actor; reloads the search, the selector and the last albums at its end |
| Search terms (`backend/search`, `common/ds/trie`) | none: a trie built once | build, prefix lookup, intersection | built by the index |
| New albums (`backend/new_albums`) | albums with removed and ignored flags, last fetch time per artist (SQLite) | update all, update one, remove, ignore, unignore | fetches from MusicBrainz; HTTP routes change the flags meanwhile |
| Storage (`backend/storage`) | rows with an age | load, update, refresh, first retrieval | under external links, lyrics, reconciliation |
| External links, reconciliation (`backend/external`, `backend/recon`) | links and ids, with their age | get, refresh, update the ids | on storage |
| Scores (`backend/score`) | rows, and a scorer computed from all of them | update, read, open file | `UpdatableProxy` rebuilds the scorer after each update |
| Lyrics (`backend/lyrics`) | rows | get, push, set instrumental | chain of retrievers, each may fail |
| Song selection (`songs/selector`) | a selector computed from the songs | random, update | reloaded by the indexer |
| Playlists (`playlist`) | one file | get, set, remove | HTTP routes, the client's backup timer |
| Player of the web client (`public/typescripts`, `public/javascripts/jPlayer`) | the list of songs and its items on the page, the current index, the audio element, downloads | clicks, keys, timers, arriving songs, animations | HTTP; the events of the audio element |
| Panels of the web client (`public/typescripts`) | what they show | clicks | HTTP |
| Tools (`mains`) | files and tags | cover download, fixing, splitting | Swing, command line |

Hard behaviours, with their lines, are listed in `PROJECT.json` under
`hazards`. The recurring ones in this code:

* a value read on the caller's thread and written by an actor (`ActorState.modify`,
  `LastAlbumsState.dequeue`, the freshness of new albums);
* a `unique` actor that answers a late caller with a run that began earlier;
* several files or rows written one after the other without a transaction, with
  a crash or another writer in between;
* files that change while they are being walked or parsed;
* threads of a bounded pool that wait for work queued on the same pool;
* in the client, an index computed in one handler and used in a later callback, and
  callbacks that take for granted the selection they were created under.

What makes each component correct:

* *unique actor*: one run per message at a time, every caller answered, nobody
  answered with a result older than the caller;
* *parallel iterant*: the order of the source, a bounded read-ahead, no waiter
  left behind, the end reported at the end;
* *last albums*: nothing on disk is forgotten, nothing is handed out twice, what a
  caller was told survives a restart;
* *song index*: no stale cache entry is trusted, the index says what the cache says,
  and after an index request the changes made before it can be searched;
* *new albums*: ignoring is for ever, removing lasts until the next fetch;
* *storage*: what was answered is stored, a failed refresh keeps the old data, links
  are those of the ID they are stored under;
* *scores*: who asks after a score was answered sees it;
* *playlists*: a saved playlist stays until it is saved again;
* *player*: the page shows the list, a click is about the song it is on, what is
  loaded is the current song, and the end of a song starts another.

## 2. Modules

### SingleFlight: what `Actor.unique` promises

No mailbox, thread or map: a call waits, then either opens a run for its message
(`Lead`) or boards the one that is open (`Join`); the run lands and all its
callers are answered. It is the abstract specification of `UniqueActor`, and
`LastAlbums` and `SongIndex` instantiate it for the unique actors they are built
on, so that these modules rest on a promise that is checked and proved.

### UniqueActor: how it keeps the promise

| TLA+ | Code |
|---|---|
| `mailbox`, `Take` | the queue of `AggressiveSingleThreadContext`, drained by one thread |
| `Send` | `!`: `Future.delegate` submits the body; the message is by-name and not evaluated |
| `Run`, `Drop`, `Fail` | the task evaluates the message and runs `messages.compute`: no future, a future, or a throw |
| `Return` | the function returns its future (or threw, which `tryWrap` turns into one); `compute` stores it |
| `Complete`, `Clear` | the future completes, `listenAny` submits `clear`; the stored future completes after it |
| `seen` | history: who was already answered when this call was sent |

The run (3 calls, 2 messages) lets two callers share a message while a third has
another one or arrives after the first run was cleared; every interleaving of
two runs of one message needs no more than that. Fairness: the executor's
thread takes tasks while there are any (an unbounded queue and a thread started
on demand), the function returns and its future completes. Nothing obliges a
caller to send, nor a message to throw. `EveryCallAnswered` would be false for
a function whose future never completes, which is the hazard noted for
`IndexerUniqifier`.

### SharedIterant: what `Iterant.parallelPrefetching` promises

What the holders of a mapped iterant see, with no actor, map, semaphore, latch or pool:
`f` is applied to the elements in order and once (`Apply`), at most `buffer` ahead of
what was handed out; applications end in any order (`Complete`); a place that was asked
for gets its own element (`Answer`), the same for everybody; the end is told after the
last element and nowhere else (`End`). A step that throws at the very end is also an
`End` here: that it is not empty is what `MCParallelIterantMapper_end` is about.

### ParallelIterantMapper: how it keeps the promise

| TLA+ | Code |
|---|---|
| `filler`, `SourceStep`, `SourceFails`, `SetMaxIndex` | the actor that steps the source with `Await.result` |
| `PutCheck`, `PutAcquire`, `PutInsert`, `PutThrows` | the pieces of `BlockingMap.put` between its locks |
| `Step`, `Fill`, `Receive` | `Stepper.step` and `get`: the unlocked check, the locked fill, the future's answer |
| `tasks`, `active`, `Start` | the `ElasticExecutor`: FIFO, up to `threads` at once |
| `MapEnds`, `WaitEnds`, `Take` | `f`'s future, the blocking wait of `BlockingMap.get`, its continuation |

Every `synchronized` block is one action and nothing larger is. `f` may return a
failed future or throw; the source may end or fail; the pool has between one and
`Parallelism` threads, since a wait holds one. `MaxPermits` stands for
`Int.MaxValue`: the assumption `MaxPermits > 2 * Capacity` is what the flood of
`setMaxIndex` needs and holds for any buffer below 2^30. The run has two
consumers of the same stepper, sources of up to 4 elements and a buffer of 2, so
the buffer fills up, the end comes while waits are pending, and a slow consumer
steps over results another one has made. The run checks the refinement too: `nextIndex`
is what was applied, the taken elements of `results` are the answers, and the pool, the
latches and the permits are hidden.

Fairness: the filler, the pool and a consumer inside a step go on. No consumer has
to step again. `StepsAreAnswered` excludes a dead filler: when the source or `f`
throws, the consumer does wait for ever, and the model shows it.

`MCParallelIterantMapper_end` shows what `ParallelIterantMapperTest.scala:99` says
cannot happen: once the end was reached, a step at exactly that index throws.

### LastAlbums

| TLA+ | Code |
|---|---|
| `Update`, `ScanStart`, `ScanShared`, `ScanEnd`, `ScanFails`, `ScanAnswered` | `LastAlbumsState.update` up to the unique actor's answer; `RecentModel.since` |
| `UpdateRead`, `UpdateFold`, `UpdateFails`, `Set` | `modify(_.enqueueAll(...))`: `f(get)` on the caller's thread - the sort, then one `enqueue` after the other, each reading its directory's time again -, then a message |
| `DequeueRead`, `DequeueEmpty`, `Set` | `dequeue`: reads, then sets |
| `Assign`, `Keep`, `Save`, `SaveFails` | the actor of `JsonableCOWImpl`: the value, then the file, then the answer; a write that throws fails the answer and leaves the value |
| `Sorted`, `Enqueued`, `AfterDequeue` | `LastAlbums.enqueueAll`, `enqueue` and `dequeue` |
| `Written`, `Deleted`, `Restart` | the environment: a directory is made or written to again, and gets the time of the write |

Three histories record what the code allows, and each property says what holds besides.

* `raced`: some set overwrote a value newer than the one it was computed from.
* `touched`: an album was written to after a walk had found it. Its time is newer than
  `lastUpdateTime` again, so the next update queues it a second time, and a queue may hold
  it twice or out of order. `QueueIsOrdered` and `TwiceOnlyAfterRace` speak of the others.
* `excused`: the albums whose time hides them. Two written in one tick of the clock
  (`enqueue` drops the second); one made or written to behind the walk; those that are
  newer than the queue and not found yet at the moment when an album that an update is
  about to enqueue is written to, since the fold takes its new time for `lastUpdateTime`;
  and those older than a restart that found no file. `NoAlbumForgotten` is about the rest.

A save that throws has already changed the value, so memory and file differ until the next
save that succeeds. `AnsweredIsSaved` admits that only if the request that set the value
was told; a later update that changes nothing is answered although the file is still behind
(`Keep`), and the request that failed is what the property points at. The album
of a dequeue whose save failed has left the queue and nobody was handed it:
`NoAlbumForgotten` counts it as given to a dequeue that failed, and only a restart brings
it back.

The run has two albums, two updates, two dequeues, three changes, a clock of three ticks and
one restart: enough for a shared scan, a lost update, the order of two albums, and a
third write that moves an album while it is found, queued or handed out. There is no
liveness: nothing in the code has to happen.

`MCLastAlbums_dequeue` finds the album given to two requests.

### SongIndex

| TLA+ | Code |
|---|---|
| `Index`, `Share`, `Start`, `Answer` | `IndexerUniqifier.go`, keyed by the force flag |
| `Meet`, `Parse`, `ScanFails` | the load of the cache and `SongCacheBuilder.updating` with `needsUpdate`; the clock is read before the parse |
| `Unchanged`, `SaveCache` | `onCompleted`: equal caches and all files there, or `result.save` |
| `SaveSongs`, `SaveAlbums`, `SaveArtists` | `SongCacheSaver` |
| `SaveFails` | any of the four saves throws: what was saved stays, and no update is asked for |
| `updates`, `loading`, `AskFor`, `Load`, `Finish` | `SearchState.update` through the actor of `UpdatableProxy`, one update at a time: three loads, then the new index |
| `LoadFails`, `up` | a load or the construction of the index throws, and the old index stays; at a restart, there is none |
| `SiblingFails` | `songSelectorState.update` or `lastAlbumState.update` fails; the search's own update goes on |
| `Write`, `Delete`, `Restart` | the environment |

Variables indexed by a `Flag` are the local state of the run with that flag; a
plain and a forced run overlap freely, each save of a file being one action.
The albums and artists files are modelled by the snapshot of the songs they were
computed from. `torn` is a history variable: it is raised when a run begins to
save and lowered when a run that no other overlapped has saved all. `since`
collects what each file contained from the start of the latest run that began
alone, and `last` says that run has ended well.

Every step that can throw may: the walk, each save, each load, the index built from
them (a term too heavy for its 16-bit weight is one reason), the updates beside the
search's. `behind` records that a save failed after the index files had begun to change, or
that an update failed, and is lowered when the next update begins to load. As long as it
is raised the search may show what the files no longer say; `SearchFollowsIndex` says
that this is the only way, and so that nothing is needed but another update. A save that
throws does so inside an observer, and whether the run then fails or never ends is the choice of
RxScala: `SaveFails` has both outcomes, and liveness is left out for that reason.

The clock moves on whenever it is read, so two runs may or may not parse at one time, and
a restart takes time. The run has one file, two plain calls and a forced one, one
change, two ticks and one restart. One file is enough because the code treats each by
itself: every entry is kept or parsed on its own times, every snapshot is written and
loaded whole; a second only multiplies the states, and the proofs are for any number. A
forced run can start, save and load at every point of a plain run, and the change can fall
before, within and after a parse, in the same tick or a later one.

`MCSongIndex_crash` has three plain calls and a clock of three ticks. A file is indexed
and deleted; the run that notices it saves `SongCaches.avro`, and the process dies; the
next request loads the new cache, finds nothing to save, and is answered, and the
deleted song is still found. A song that was changed is lost in the same way when the entry that was
saved is kept, that is, when its `updateTime` is later than the file's time: otherwise
the next run parses it again, gets another `updateTime`, and saves all.

### NewAlbums

| TLA+ | Code |
|---|---|
| `recon`, `fetched`, `row` | the rows of one artist in `artist`, `artist_last_album_update` and `new_album` |
| `Request`, `First` | `NewAlbumHttpRoutes`, and `MbExternalLinksProvider.updateRecon` |
| `Look`, `Reset`, `Count`, `Fresh`, `List` | `NewAlbumsModel.forArtist`, `LastFetchTime.freshness`, `NewAlbumFiller.update` |
| `UnremoveAll`, `Reconcile`, `Metadata` | the fetch: `unremoveAll`, then `NewAlbumFetcher` |
| `Validate`, `Insert`, `Touch` | the finisher: `storeNew`, then `lastFetchTime.update` |
| `Delete`, `StoreForever` | `LastFetchTime.ignore` and `unignore` (which goes on as a fetch) |
| `RemoveArtist`, `RemoveAlbum`, `IgnoreAlbum` | the flags; `ignoreAlbum` removes first |
| `Clear`, `UpdateRecon` | `deleteAll`, then another ID |
| `Reconciled`, `Age`, `Crash` | the environment |

A request is a chain of futures, so a database statement is an action. Three
pairs of statements are one action, since a row of `artist` is never deleted: the
load and the `exists` of `Look` and of `Fresh`, and the `exists` and the `store` of
`ResetToEpoch`; whatever falls between them has the effect of falling before or
after both. `update` of a row stores it when there is none
(so does `MemoryBackedStorage`, which stands in for the slick storage in the tests). An
insert that fails may have stored some of the albums. `Count` offers any of the
albums shown, which covers their types and the collection on disk.

`promised`, `overtaken`, `clean`, `whole`, `pure` and `crowded` are history variables,
read by no action; the source's own promise is `IgnoreIsForever`, and
`MCNewAlbums_ignore` refutes it: a fetch reads the freshness, asks MusicBrainz,
and writes a date over the row that `ignore` stored meanwhile. `overtaken` says
that a fetch was in progress when the artist was ignored, and `IgnoreHolds` that
this is the only way. `whole` and `pure` likewise except the fetches that a delete
or a new ID has met. What the model also shows, and no doc speaks of: the ID is
updated and the date kept, so the albums of the new ID are fetched only when
90 days are over; and the deletes cascade, so ignoring and unignoring an artist
forgets which of its albums were ignored.

The run has three requests of any kind, two IDs that share one of two albums, and
offers at most one: two requests can overlap with a third after them or between
their statements, and an album is stored by one ID's fetch and wanted by the
other's. Requests do not repeat, so `Age` and `Reconciled` are bounded too. There is
no liveness: a request may be rejected by MusicBrainz at any time.

### SongList: what the playlist of the client promises

The list as whoever clicks on it understands it, without page, indices of the page,
animations, downloads or promises: a song that is added comes last and is listed once
(`Add`); a song is chosen (`Choose`); a click dooms a song, or with it all newer or all
older ones (`Doom`), and a removal takes out the doomed song and no other, keeps the
current song unless it is the one, and goes on with the song beside it (`Remove`); a saved
playlist begins with an empty list (`Clear`). The promise is off (`astray`) from the time
the list changes in the course of a removal, or the page shows it anew (`Redrawn`), until it
is emptied while none runs: then a step may take out any one song (`Stray`), which is what
`MCPlayer_remove` is about.

### Playlist and Player: the client

`Playlist` holds the list and the page, with operators for what one handler does to
them; `Player` composes it with selections, downloads and the audio element, has the actions
and implements `SongList`: `list` is `playlist`, the doomed songs are those of the
animations under way, `astray` is `torn`; the page and all the rest are hidden.

| TLA+ | Code |
|---|---|
| `playlist`, `current`, `removing`; `dom` | the fields of `JPlayerPlaylist`; the `<li>` items of the page, in the reverse order |
| `StartRemoval`, `slides`, `FinishRemoval` | `remove` up to `slideUp`, the animations that run, their callback with `onEnd` (the chain of "remove up" and "remove down") |
| `Push`, `Add`, `Clear`, `Restore`, `RunRestore` | `add`; `clear`, `setPlaylist` and `setState`, which awaits each `add` |
| `ReadyHandled`, `Redraw`, `ready` | the handler of jPlayer's `ready` event: `_init` and `_refresh` empty the page, append the songs in the order of the list and play the current one |
| `Select`, `Await`, `loads`, `DownloadEnds`, `DownloadFails` | `select` through `Local.maybePreLoad` and `FileDownloader`: on localhost a song is downloaded first |
| `micro`, `RunCallback`, `Idle` | the event loop: promise callbacks run in order before the next event |
| `media`: `Play`, `Pause`, `Stop`, `Loaded`, `Reset` | `jPlayer`'s `play`, `pause`, `stop`, `setMedia` and `clearMedia`, `_resetMedia` |
| `Starts`, `StartFails`, `AbortAnswered`, `Ended`, `EndsEarly` | what the audio element answers; the listener of `ended` throws when the song was not buffered to its end |
| `AskRandom`, `RandomArrives`, `RandomFails` | `next` as `jplayerdata.ts` overrides it |
| `SongArrives`, `AlbumArrives` | search results, last albums, the key `n`, the timer |
| `ClickItem`, `ClickRemove`, `NextSong`, `Previous`, `TogglePause`, `StopKey`, `RestartKey` | clicks and keys |

An animation ends at any time after it began, in any order with downloads, answers
and clicks. Three things the code does and no property forbids are in the model:
`arguments.callee` for a negative index loses `this` and throws (`Throws`, and
`Started` for an item that is gone), leaving `removing` set; the handler of a rejected
`play()` resets whatever media is loaded by then; the key `z` loads the song twice.
`torn` records that the list grew, or was cleared, during an animation: from then on
the page and the list may differ, and `MCPlayer_remove` shows how. It records too that
the ready event showed two or more songs, or any song under an animation: those come in the
order of the list, while the rest of the code counts on the reverse one. The event comes
100 ms after the page is loaded, and then the items that are shown slide out; in the model
it comes once and at any time, with any list. With no song or one, it leaves the page as it
should be, and no exception is made for it. `late` records a selection made while another waited for
its download.

The run has two songs, one of which may have to be downloaded, an album and a saved
playlist of both, one animation at a time, one random request, and one download
awaited when the user acts. So a song arrives, is selected, removed, replaced or ends
at every point of a removal, and a chain of removals has two links. While a download is
awaited, `MaxLoads` = 1 holds back whatever could lead to another one: an arriving song or
album, a saved playlist, a click on a song or a remove control, the next, the previous and
the restarted song, and the end of the song that plays. What is under way goes on
(animations that end and may select, the random song's answer, the ready event, the
playback that starts, fails or breaks off), and so do pause and stop. Selections that meet
a download are therefore met in the run only by way of these; the proofs are for any
`MaxLoads`. Once the list is torn it grows to `MaxItems` on the page. `MaxIds` bounds the identities of
items and is never reached.

Fairness: the event loop runs its callbacks; an animation ends; a download that is
awaited ends or fails; and a random song that is asked for arrives at last - strongly
fair, since other events of the page come first, and `RandomFails` competes with it
and is taken by no obligation. Nothing obliges the user to act, a song to end or
playback to start. `PlaybackGoesOn` says what an ended song leads to: `el` leaves
"ended" also when the answer is not played, because it failed or names a listed song
(`Unanswered`), which the property admits as the code does.

### Lyrics, Scores, Playlists, ExternalLinks: the stores

Each models the requests to one store of the server, with every statement on a row (or
access to the file) a step, so that requests meet between any two of them.

| Module | TLA+ | Code |
|---|---|---|
| `Lyrics` | `FindStored`, `FindMissing`, `Retrieved`, `StoreRetrieved` | `LyricsCache.find` through `OnlineRetrieverCacher.apply` |
| | `ParsePushed`, `SetInstrumentalSong`, `Replace` | the user's choice replaces the row |
| | `SetInstrumentalArtist` | `InstrumentalArtist.add` asks whether the artist has a row and stores none |
| `Scores` | `Get`, `ReadScore`, `tables` | `CompositeScorer` on a `CachedModelScorer`, whose three maps are lazy |
| | `Put`, `Write`, `AskUpdate`, `Rebuild`, `PutAnswered` | `ScoreModelImpl.update...`: the row, then the actor of `UpdatableProxy`, then the answer |
| | `OpenScoreFile`, `WriteLine`, `OpenEditor`, `CloseEditor` | `FileScorer` and `ScoreParser.parseLines` |
| `Playlists` | `Load`, `SaveBegins`, `SaveEnds`, `Answer`, `Crash` | `PlaylistModel.modify` and `JsonableSaver.save` |
| `ExternalLinks` | `View`, `CheckAge`, `LoadLinks`, `Fetch`, `StoreLinks`, `Date` | `RefreshableRetriever.withAge` |
| | `Reconcile`, `Search`, `StoreId` | `ReconcilerCacher` |
| | `DeleteLinks`; `DeleteId`, `DeleteOldLinks`, `CorrectId` | `refreshArtist`, `refreshAlbum`; `updateRecon` |

Histories again record what the code allows: `raced` a save over a file it had not
loaded, `overridden` the user's own replacement, `overlapped` a fetch under way
while its ID was corrected. `garbled` is the state of a file that a crash, or two
writes at once, left unreadable: every later request fails on it, as `Load` has it.
`SetInstrumentalArtist` answers with an instrumental that is not stored; no comment
promises that it is, so `ToldIsStored` speaks of the other requests.

`MCStores` runs one store in each behaviour (they share no state): two readers and two
pushes over two texts; a getter, a request that sets a score and one that sets a score
or opens the editor, over two tables; three saves of two names with a crash; a viewer that may
refresh and two corrections over two IDs. Requests do not repeat, which is also why
the runs may stop. There is no liveness: every one of these requests may fail.

## 3. Properties and runs

| Run | Expected | States | What it shows |
|---|---|---|---|
| `MCUniqueActor` | pass | 4 529 | `OneRunPerMessage`, `ClearFindsItsEntry`, `NeverServedByAnAnsweredRun`, `NobodyLeftBehind`, `EveryCallAnswered`, `ImplementsSingleFlight` |
| `MCParallelIterantMapper` | pass | 104 k | `NoStepStranded`, `ReadAheadIsBounded`, `CapacityRespected`, `InSourceOrder`, `TakesFindTheirEntries`, `EndMeansExhausted`, `StepsAreAnswered`, `ImplementsSharedIterant` |
| `MCParallelIterantMapper_end` | violation | | `EndOfIterantIsEmpty`: a step at the end throws |
| `MCLastAlbums` | pass | 1 963 k | `NoAlbumForgotten`, `QueueIsOrdered`, `AnsweredIsSaved`, `TwiceOnlyAfterRace` |
| `MCLastAlbums_dequeue` | violation | | `DequeueRemoves`: one album for two requests |
| `MCSongIndex` | pass | 1 884 k | `NoStaleEntryTrusted`, `IndexMatchesCache`, `SearchFollowsIndex`, `FreshUnlessTorn` |
| `MCSongIndex_crash` | violation | | `IndexedMeansSearchable`: after a crash a deleted song is still found |
| `MCNewAlbums` | pass | 611 k | `IgnoreHolds`, `RecentMeansStored`, `AlbumsAreTheArtists`, `OnlyRacesFail` |
| `MCNewAlbums_ignore` | violation | | `IgnoreIsForever`: a fetch un-ignores an artist |
| `MCPlayer` | pass | 306 k | `NoSongTwice`, `CurrentIsListed`, `PageShowsList`, `MediaIsCurrent`, `EndIsFollowed`, `RemovalIsExact`, `NoneIsSpared`, `DoomedAreRemoved`, `PlaybackGoesOn`, `ImplementsSongList` |
| `MCPlayer_remove` | violation | | `RemovesThisItem`: another song is removed |
| `MCStores` | pass | 991 k | `ToldIsStored`, `AnsweredIsSeen`, `SavedIsKept`, `LinksAreOfTheId` |

Each module also has one type invariant. All are proved, those of the three abstract
specifications of what implements them (`PromiseTyped`, `SharedTyped`, `SongListTyped`), and
the runs spend their time on the rest. Deadlock is not checked: in every
module the requests are finite in number and the system is at rest when they are
answered. Symmetry is used only in runs without liveness. Each module keeps
next to an operator the faulty variants ("Seeded fault") that break each of its
properties; no specification uses them.

## 4. Proofs

`UniqueActor_proofs` proves, for any sets `Call` and `Msg` and from the one
assumption that `NoMsg` and `NoCall` are not among them:

* `TypeCorrect`, `Uniqueness`, `ClearAssertion`, `Freshness`: `Spec => []` of the
  type invariant and of the three safety invariants;
* `NobodyIsLeftBehind`: `Spec => []NobodyLeftBehind`, the safety part of
  `EveryCallAnswered`: while a call is open, the task or the future that will lead to its
  answer exists. What remains for TLC is that the thread and the function go on;
* `Refinement`: `Spec => SingleFlight!Spec` under the mapping of the run.

None of the invariants is inductive. `IInv` adds what the code relies on: the map
holds exactly the runs whose future was stored (`MapMatches`), the mailbox holds
a queued call or a finished run's clear and each once (`MailboxMatches`,
`NoDuplicates`), one call is on the thread (`AloneOnThread`), whose message the
map does not hold (`RunningUnmapped`: `compute` runs the function before it
stores), whoever joined a run follows one that is unfinished (`Callers`), and
what a call saw answered stays so (`SeenIsAnswered`). There is one lemma per
action; `SubmitKeepsMailbox` and `TakeKeepsMailbox` carry the reasoning about
positions of the queue.

`SongIndex_proofs` proves, for any `File` and `Call` and any bounds, and from
`IndexAssumption` (the bounds are numbers and the markers `Absent`, `NoEntry`,
`NoFile` are not values), every property `MCSongIndex` checks. The argument
is in layers, each inductive given those below it:

1. `TypeOK`.
2. `Stamps`: wherever an entry is kept (the cache, what a run loaded, what it
   gathers), a song that is not what its file contains has an `updateTime` the
   file's time has reached, because the clock is read before the file is parsed.
   With `needsUpdate` this gives `TrustedEntries`.
3. `RunsAreOpen`: a run that is not over has an open call, so the unique actor
   starts no second run with its flag (`StartsFromNone`). `Asked`: whoever has an
   update in the proxy's queue has one there, and waits for it.
4. `Saves`: a run that saves leaves the files torn until its last save; if it is
   alone, the cache is its result and the files saved so far are made from it.
   This gives `IndexFiles`.
5. `Current`: what is searched is out of date only while a run is between its saves, an
   update is to come or the last that happened is a failure, and what an update has loaded
   is so only while another is behind it. This gives `SearchFollows`: an update after each
   run's saves is enough, though loads and saves of the two runs mix freely.
6. `Fresh`: from its walk to its update a lone run carries, for every file, a
   song that was in it since the run began; kept entries by layer 2, parsed ones by
   reading the file, missing ones by `listed`.
7. `LastAsked`: the update of a lone run is the last of the queue and loads after that
   run's saves, so that no failure before it counts. With layers 4, 5 and 6: `FreshSearch`.

That `IndexedMeansSearchable` fails without `torn` is what `MCSongIndex_crash` shows, so
the exception in `FreshSearch` is needed.

`NewAlbums_proofs` proves, for any `Call`, `Album`, `Recon` and `Released`, and from
`NewAlbumsAssumption` (`NoRecon` and `NullRecon` are two values that are not IDs),
every property `MCNewAlbums` checks. `TypeOK` needs `Located` (whoever is about to
write a date finds an artist's row; whoever updates the ID has one). Then each
property has a strengthening of its own:

* `Hold`: while the promise stands and was not overtaken, nobody fetches; a fetch
  begins only from a date or from no row, and an ignored artist has a row without a date.
* `FetchedAll`: what a fetch that no delete met has found, step by step
  (`OnItsWay`), so that at its last step all albums of the ID are stored.
* `OfTheArtist`: no album is stored while the ID is about to change; with `OnItsWay`,
  what such a fetch stores is the ID's.
* `Alone`: a request that no other has overlapped finds the rows as it left them
  (`Undisturbed`), so no check of its own is out of date when it writes.

`Player_proofs` proves, for any songs, albums, saved playlists and bounds, and from
`PlaylistAssumption` and `PlayerAssumption` (the bounds are numbers, `NoSong` is no
song), the type invariant, `NoSongTwice`, `CurrentIsListed`, `PageShowsList`,
`MediaIsCurrent` and the action property `RemovalIsExact`. The invariant of the list is `ListInv`: the four, and
`OneRemoval` - while the list is not torn at most one animation runs, its item is at
the index it was given, and `removing` is set. `RedrawKeepsList` and `ReadyKeeps` say what
the ready event leaves of it: of a list of one song everything, and otherwise `torn`. The lemmas about `Splice`
and `DisplayedIndex` say that taking index i out of the page and index n-1-i out of the
list keeps one the reverse of the other; each handler is then one lemma about the list,
and the actions of the event loop are cases that apply it. `MediaIsCurrent` follows from
`Followed`: while no two selections overlap and no download fails, at most one selection
is on its way, at the head of the queue of callbacks or behind one download, and no album
is added behind a restore (`OneAtATime`); and it is the current song that is awaited, about
to be loaded or loaded, index 0 as long as a saved playlist is restored (`Follows`). The
`Queue` lemmas say what taking the head of the queue and joining queues does to the
callbacks that select.

Three more results rest on these:

* `EndIsFollowedHolds`: while the element is at the end of a song, a random song is asked
  for, a selection is queued or a download is awaited. It is the safety part of
  `PlaybackGoesOn`; `LoadingStays` and `SelectGoes` say that a selection stays in the queue
  or becomes a download, and `EventGoesOn` that the answer that consumes the request is
  either played or takes the element out of `"ended"`.
* `PlayerRefinesSongList`: `Spec => SongList!Spec`. `HandlersOfTheList` says that every
  handler does one of six things to the list or leaves it (`ListStep`), and `ListStepMaps`
  maps each. A removal needs `NextIsBeside` besides `ListInv`: as long as the list is not torn,
  the item an animation goes on with is still the neighbour on the page of the one that
  slides, so that it stands for the song beside it (`NextIsListed`, `FinishRemoves`).
* `NoneIsSparedHolds`: the safety part of `DoomedAreRemoved`. With `ListInv` the items above
  or below the one that slides are those before or after its index (`DoomedByIndex`), and by
  `NextIsBeside` the next animation starts at their end (`FinishSpares`).

`Stores_proofs` proves for any requests, values and names, from the assumptions on the
markers, the type invariant and the property of each store:

* `ToldIsStoredHolds` from `SomethingToTell` (a request that is about to write holds lyrics);
* `SavedIsKeptHolds` from `SavesAreNumbered` (a request that has saved has a turn, of at most `saves`) and
  `LastSaveIsKept` (the entry of the last save of a name is in the file);
* `LinksAreOfTheIdHolds` from `HeldIsId` (who fetches holds the stored ID unless a
  correction has met it) and `NoStaleLinks` (no links are stored while an ID is corrected);
* `AnsweredIsSeenHolds` from `WritesAreStored` (a table's number is at least every answered
  write's), `ScorerIsCurrent` (what the current scorer has loaded is no older than the
  writes answered), `OnlyMadeIsUsed` and `GettersAreServed` (so is what the scorer a
  request holds has, as of the time it was given).

`ParallelIterantMapper_proofs` proves, for any consumers, source, buffer and pool and from
`BoundsAssumption` (the bounds are numbers, `MaxPermits > 2 * Capacity`, the markers are
not indices), the type invariant and every safety property the run checks. One
inductive invariant carries them, since its parts need one another:

* `FillerInStep`: where the filler stands says how far the source is read;
* `Entries`: an index that was put is held until its result is there (`PutEntry`), one
  that was not has no future and a latch only the end interrupts (`MissingEntry`);
* `Waits`: no task is twice in the pool, and an index is waited for, then taken, once;
* `Ledger`: permits and futures held add up to at most the buffer until the end floods
  the semaphore, and what was put is held or taken;
* `Positions`: no consumer is past what was handed out.

`SourceOrder` and `EntriesAreFound` follow from `Entries` and `Waits`,
`BufferIsRespected` and `ReadAhead` from `Ledger`, `EndIsTheEnd` from `Positions`.

Two results rest on all of them and on a second invariant each:

* `NobodyIsStranded`: the filler waits for a permit only while others hold them, waits
  hold pool threads until the filler puts, and with one thread `f` is queued behind a
  wait. `Owed` says that nothing is lost: until the end every permit is free, stands for
  an entry of the map or is the one of the element being put (`Balance`), an index that
  is waited for has its task in the pool (`Outstanding`), and a consumer goes on only
  when it was answered (`Passed`). A wait that holds a thread while the filler has no
  permit is for an element not put yet; then no entry of the map is left, all before it
  having been taken, and every permit is back: a contradiction.
* `Refinement`: `Spec => SharedIterant!Spec`. `Mappings` ties the answers to the one
  application of `f` to each index; `NextShared` has one case per action, most of them
  stutters, and `HandedOutCount` turns the ledger's sets into the bound of `Apply`.

`LastAlbums_proofs` proves, for any finite set of albums, any requests and bounds and
from `LastAlbumsAssumption`, every property `MCLastAlbums` checks. It has layers:

1. `TypeOK`, `Line` (every request has one place in the mailbox, and the actor saves for
   its head) and `Basis` (who a run serves and what it found). `SortedValue`,
   `EnqueuedValue` and `DequeuedValue` say what the pure operations do to a value.
2. `Times`: every value there is - current, saved, read, about to be set - is of albums that
   a walk has found, and those of them that did not move since are in order. This gives
   `OrderedQueue`.
3. `Turns`: while it is saved the current value is the one its request computed, and what
   a dequeue hands out it took from the value it read. `Durable` is inductive given this.
4. `Handed`: until a set overwrites a newer value, what was handed out and stood still has
   left the current value and the file, and no two have it. This gives `HandedOutOnce`.
5. `Apart`, `Remembered`: no two albums it answers for share a time; what a finished scan
   missed is older than it looks for or newer than all it found, and stays so while they
   are enqueued one by one; no computed value drops an album but the one handed out, so each
   is accounted for in the value, and in the file, which is what a restart falls back to.
   This gives `NothingForgotten`.

The histories `raced`, `touched` and `excused` stand in the properties because the code breaks them
without: `MCLastAlbums_dequeue` shows the first.

Only model-checked: liveness (`EveryCallAnswered`, `StepsAreAnswered`,
`DoomedAreRemoved`, `PlaybackGoesOn`), which is out of the prover's reach.

## 5. Not modelled

* Torn writes of avro files and of the queue of last albums: a save is one action there,
  which happens or throws and leaves the file as it was, and what a crash between two saves
  does is modelled. That a crash or a throw in mid-write leaves a file that cannot be parsed
  is in `Playlists` only.
* A clock that goes back, and files or directories moved in with an old modification time
  (of last albums, such a directory is never found; here a directory's time is that of its
  last write).
* The times that `sortBy` sees in `enqueueAll`: it asks for them again at each comparison,
  and the model once for all; the times that `enqueue` sees afterwards are modelled.
* The first load of the search when the process starts: it is one step of `Restart`, before
  any request.
* Of new albums: the list of all artists' albums, two albums of one title with
  different IDs, albums of several artists, ignored IDs, the command-line fillers.
* `newDirObserver`, the `ArtistDirsIndex` message, JSON and Avro forms.
* Of the links: that those of an album are looked for with those of its artist, and
  database statements that fail or a crash between those of `updateRecon`.
* Of the client: the panels (lyrics, scores, links, new albums), search and last-album
  displays, volume and progress. Two things met while reading them have no run:
  `search.ts:97` shows the results before line 118 asks whether a later request has set
  them, and `last.ts:9` remembers whether the queue was empty, which another page may
  have changed. Of jPlayer, Flash, video, the progress bar and the options; jQuery,
  jQuery UI, Vibrant and Popcorn are third-party code and make up four fifths of the
  client's lines, so that the map covers a small share of them.
* The components marked `not_modelled` in `PROJECT.json`, each with its reason.

## 6. Plan

1. Search terms: trie, weights and intersection as operators, against a reference
   definition.
2. Rate limiting and backoff; `UpdatableProxy` as an abstract specification of its own,
   under the scorer and under `SearchState`.
3. The panels of the client: an answer that arrives after the song has changed.
