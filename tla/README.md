# ShareAux in TLA+

ShareAux lets the people in a room listen to the same music: a NestJS server
(`src/server/src`) fetches a track with yt-dlp, runs one ffmpeg per room, and
sends its fMP4 output over WebSockets to a Next.js client (`src/client/src`).
This directory holds TLA+ specifications of the server's core and of the
client's path from the socket to the decoder, the TLC configurations that check
them, and proofs checked by TLAPS.

Source paths below are relative to `src/server/src`, unless they begin with
`client`.

## The system

| Component | State it keeps | Operations | What must hold |
|---|---|---|---|
| `services/audio.service.ts` | per room: ffmpeg process, playing flag, init segment, listeners with a `synced` flag | startStream, stopStream, pause, resume, destroyRoom, add/remove/unsync/resyncListener; events of the process: data, close; respawn after a crash | a listener in sync can decode what it is sent; one end per start; no process is lost |
| `player/player.service.ts` | per room: stream state, skip votes; rows `room_playbacks`, `room_queues` | play, pause, resume, skip, previous, voteSkip, and onTrackEnd when a stream is over | what is heard is what the row says; a transition ends |
| `queue/queue.controller.ts`, `queue/queue.service.ts` | queue rows | add, remove, reorder; autoPlayIfIdle | limits, no duplicates, no shared positions |
| `rooms/rooms.gateway.ts`, `rooms/ws-broadcaster.service.ts` | clients per room, grace timers, heartbeats | connection, close, heartbeat sweep, grace timer, finalizeDisconnect | one session per user; nobody stays a member behind a lost connection |
| `rooms/rooms.service.ts`, `rooms/member.service.ts` | rows of rooms, members, permissions, bans | create, join, leave, remove, kick, unban, transfer of the host, permissions | a room has a host who is there |
| `services/preload.service.ts` | entries per track, slot counter, queue of waiters | triggerPreload, download with retry, eviction, release | slots neither lost nor given twice; every waiter is served |
| `services/auto-dj.service.ts` | pools, processing flags, failure counts, debounce timers | trigger, scan, fill, refresh | an empty queue is filled; no more is added than was missing; turned off, it stops |
| `services/translation.service.ts` | job queue, worker count, calls of the day; state of the translation in the track's row | enqueue, drain, a job, restore after a restart | a pending row has a worker; what is done stays done; every translation ends |
| `services/chat-mute.service.ts` | message logs, mutes | record, mute, unmute | mutes escalate |
| `services/lyrics.service.ts` | slot counter, queue of waiters; the lyrics in the track's row | getLyrics and its callers | as the slots of preload |
| `auth/auth.service.ts` | users, invite codes, refresh tokens | register, login, refresh | a refresh token is used once |
| `client/src/hooks` | socket, media source, what was appended and cleared, resync timer | connect, reconnect, resync, append, clear, play | at rest a listener hears what the room plays |
| everything else | rows, caches | single-row operations, external lookups | |

How they interact: controllers and the gateway call the services directly. The
player passes three callbacks to the audio service (`onEnd`, `getNewUrl`,
`onStart`); `onEnd` is `onTrackEnd`, which takes the next row off the queue and
plays it. The gateway registers one audio callback per connection and destroys
the audio room when the last member is gone. AutoDJ and the player's broadcasts
are decoupled by events. All rooms share the preload slots.

What is hard: Node runs one callback at a time, so there are no data races, but
almost every handler awaits the database or yt-dlp several times, and nothing
serialises the handlers of a room or a user. State is checked before an await
and used behind it. Processes crash, sockets vanish, timers race reconnections.
`PROJECT.json` lists these hazards line by line, with the properties that cover
them.

## How the models are cut

*An action is the code between two awaits, or one event handler.* A call that
waits is a task with a `pc` that names what it waits for; the step that leaves
the pc is the awaited operation together with the code behind it up to the next
await. Database queries take effect when they are answered, and succeed; the
failures that are modelled are foreign keys (a track or a room that is gone),
yt-dlp, ffmpeg, and a socket that refuses a message. The contents of chunks,
broadcasts, logs and statistics are left out.

| Module | Models | Notes |
|---|---|---|
| `StreamSync` | what the audio service promises its listeners | abstract: open, publish, cut, tune, detune |
| `Audio` | `audio.service.ts` for one room | process `s` and the object spawned with it share a number; object 0 is the one addListener makes. `attempt`, `origin`, `ended` and `lastInit` are what the closures know (retry number, whose `onEnd`) and what a client was sent; `sharing` are the objects whose listeners map is the room's, and `stray` remembers who sent chunks to a listener in sync with another stream |
| `Player` | `player.service.ts` and the handlers that call it, on top of `Audio` | EXTENDS `Audio`; each of its steps uses the audio actions themselves. `raced` remembers that two calls driving the player overlapped, `leftover` the streams that ran on under a play whose URL was refused |
| `Gateway` | sessions and membership for a set of rooms and users | `seen` and `unheard` are history variables |
| `Preload` | the download pool | download `d` and its entry object share a number; a buffer has size 1 |
| `Lyrics` | lyrics searches, the translation queue with its workers, the handlers that join them, an admin's reset, a restart | an edition stands for the text a search finds; `stranded` and `doubled` are history variables |
| `Queue` | `queue.service.ts` query by query, and what of the player moves rows: play, previous and onTrackEnd | `overlap` and `given` are history variables: which kinds of call have overlapped, and which played rows have lost their position to another |
| `AutoDj` | the fills of one room, the host's requests, users and a player that change the queue meanwhile | `doubled`, `late` and `peak` are history variables |
| `Listening` | one listener end to end: what the player tells the room, the socket, the client's hooks | EXTENDS `StreamSync`, so it stands on what `Audio` is proved to implement; `spoiled` is a history variable |
| `MC*` | the instances: symmetry, views, lists | |
| `AudioProofs`, `PlayerProofs`, `GatewayProofs`, `PreloadProofs`, `LyricsProofs`, `QueueProofs`, `AutoDjProofs`, `ListeningProofs` | theorems about the modules they are named for | `PlayerProofs` EXTENDS `AudioProofs` |

Names follow the code where TLA+ allows it: `cur` is `rooms.get(roomId)`,
`EndTake` is the part of `onTrackEnd` behind its delay, and so on. `PROJECT.json`
maps every definition to its lines.

Abstractions worth knowing:

- *Audio.* One room; rooms share only the map. A crash is any non-zero exit,
  always possible. DropData loses the header for good, as the handler does when
  the room is paused before the header is complete.
- *Player.* The room's rows are deleted by the gateway after destroyRoom, or
  while the stream still runs when the host or the last member leaves over HTTP.
  Consecutive reads of `previous` and of `play` are one step. `skippedRooms` is
  set and read in one turn and has no variable. `QueueService.addTracks` is one
  step. Requests are bounded by `MaxCalls`, streams by `MaxSpawns`, overlapping
  calls by `MaxTasks`, rows by `MaxRows`.
- *Gateway.* The rooms exist from the start. The reads at the head of an HTTP
  handler are one step, and a request those reads refuse is left out, as are
  passwords. `transferHost` takes the candidate that joined first; the model
  leaves the choice open. A row deleted with its room is gone at once.
- *Preload.* `addRef` and `releaseRoom` have no callers, so a release always
  drops the entry. A waiter that was resumed runs its promise job before the
  next event, and after the rest of the event that resumed it.
- *Lyrics.* Tracks share the searches, the workers and the limit of the day. A
  search ends with lyrics or without; a call of Gemini is answered or not, and
  an answer suffices or not. The lyrics of every track take `Chunks` calls. A
  new day may come at any look at the counter. Language detection is a constant
  (`Korean`, `InTarget`). Resets, restarts and new days share one bound.
- *Queue.* One room. A request is a task whose pc names the query it awaits; a
  save of several rows is one transaction. AddSave always goes on to
  autoPlayIfIdle, as the handlers of a user do; the handler of `autodj.enqueue`
  (`queue/queue.controller.ts:158`) adds without playing and is not a request of
  its own. `play`, `previous` and onTrackEnd appear as the player's queries on
  the rows and on the playback row, whose isPlaying pause and resume change; the
  reads that begin `play` and `previous` are one step each, as in `Player`.
  previous is refused while onTrackEnd has chosen a row, which is when the room
  is preparing; that it is refused in other states is left out, so the model has
  more of its calls. A reorder asks for a position up to `MaxIds`. The windows
  of the quota and of the cooldown may pass at any time. The tracks of a request
  are a function on the places of the list that are left, so that dropping one
  (`Without`) moves none, and a place tells how many are before it (`Rank`). A
  reorder saves the columns it read and not the age of the row, which is no
  column.
- *AutoDj.* The rows of a track that AutoDJ added are alike. `auto` are those
  that wait since they were added, `rest` all others that wait: of users, and of
  any sort that previous has put back (`PutBack`), which is possible while
  something plays. PUT play of a track that does not wait is left out: it
  changes no row, and only forgets the failures. The host may change the
  threshold and the pause in any request that saves the room's row (`Patched`).
  Candidates are any tracks, or a query throws; the pool shown to the host and
  the ranking are left out. The debounced trigger may be due at any time. The
  number of failures is counted up to the limit; how often queries throw is not
  bounded.
- *Listening.* One track is started at a time: overlapping calls are the subject
  of `Player`. The wire keeps order and holds `MaxWire` messages a direction; an
  outage drops all of them. The decoder is a buffer that takes media of the
  stream whose init segment it took; the MSE states, playback position and
  buffering goals are left out.

## What TLC checks

Passing runs:

| Run | Instance | Properties |
|---|---|---|
| `audio` | 1 listener, 3 processes | `SyncedHasCurrentInit`: a listener in sync was last sent the init segment of the stream that plays, and media of another stream only by a process that was killed and drains, or one that a retry superseded. `ChainEndsOnce`: a startStream and its respawns have one tip and one `onEnd`. `EndAfterStart`. `OrphansOnlyFromRetry`: a running process the room lost hold of was superseded by a retry. `ImplementsStreamSync` |
| `player` | 2 tracks, 2 rows, 2 tasks, 2 streams, a listener, 2 requests of every kind | `TransitionHasDriver`: a room preparing or skipping has something that will end it. `SerializedPlaysAgree`: if no two driving calls overlapped, row and stream agree at rest, and the stream a listener in sync decodes is one of the track the row shows, unless that stream runs on under a play whose URL was refused |
| `player_live` | 3 streams, 1 request (an addition that starts to play, or a skip), candidates of AutoDJ, 1 deletion by an admin | `TransitionEnds` |
| `gateway` | 2 users, 1 room, 2 connections, 2 handlers, 2 requests of every kind | `ListenersFollowClients`, `GraceMeansGone`, `MemberAccounted`: a member who had a session has one, or one that is closing, or a grace timer, or is being removed |
| `gateway_live` | 2 users, 2 rooms, 2 connections, no requests | `OneSessionPerUser`, `DeadSessionsAreSwept`, `GoneMembersLeave` |
| `preload` | 2 tracks, 5 downloads, 2 slots, 1 retry, room for 1 buffer | `SlotsAreCounted`, `NobodyWaitsInVain`, `EntriesTellTheTruth`, `WaitersAreServed` |
| `lyrics` | 2 tracks, 2 requests in flight and 3 in all, 1 search slot, 2 workers, 2 chunks, a limit of 1 call, 1 reset, restart or new day | `SearchSlots`, `WorkersAreUsed`: slots and workers are counted, and nobody waits beside a free one. `PendingIsOwned`: a pending row has a worker that will end it, or a restart cut it off. `CallsAreLimited`: the limit is exceeded by the calls of one track per worker at most. `DoneIsKept`: a translation is undone only on a track two workers took up at once. `TranslationEnds` |
| `queue` | 2 tracks, 1 user and the host, 2 requests at a time, 3 in all of every kind, 3 rows, limits of 1, lists that name a track twice | `PositionsDiffer`: waiting rows have different positions unless two writers overlapped, a reorder came when its row had been played, or previous put back a row whose position a reorder had given away. `NoTrackTwice`: no track waits twice, or waits while it plays, unless something overlapped or previous has yet to play what it put back. `QuotaNearlyHolds`: the quota is exceeded by no more than what requests in flight select |
| `autodj` | 2 tracks, one of which candidates name twice, threshold 1, failure limit 2, 2 fills at a time, 1 row of a user or put back, 1 request of the host | `FillsAreMeasured`: fills that do not overlap add no more than was missing. `OffStopsTheFill`: turned off, AutoDJ adds one more row per fill at most. `FlagHasOwner`: the processing flag has a fill that clears it. `EmptyQueueIsFilled`: an empty queue gets a track, or AutoDJ was turned off or gave up |
| `listening` | 2 tracks, 2 streams, 2 messages a direction, 2 skips, pauses, outages or toggles, 1 resync | `RestMeansHearing`: when nothing is under way, a client that listens hears the stream of the room, unless something of a named kind (`Causes`) happened since the last change of the track |

Runs that end in a violation show where the code differs from what a text of
the repository says of it:

| Run | Text | What happens |
|---|---|---|
| `lyrics_restart` | `services/translation.service.ts:64`, "Queue (persistence)", and the log of restored translations | a restart queues the pending tracks, and the worker leaves a pending track alone: it stays pending for ever, and no handler asks for it again |
| `listening_skip` | docs/architecture.md:38: subsequent chunks are broadcast and appended | a skip is announced before it is allowed; when it is refused the client has cleared its buffer, dropped its init segment, and never asks for the stream again |

Other texts the code differs from, which the models reproduce and no run is
spent on:

- README.md:130, "ffmpeg processes (1 per room)": a retry that waited for its
  URL (`services/audio.service.ts:328`) spawns beside a newer track, whose
  process nobody can stop any more. `OrphansOnlyFromRetry` says that this is the
  only way.
- `FFMPEG_MAX_RETRIES` and the log "retry n/3" (`audio.service.ts:320`): the
  counter starts again with each respawn.
- docs/architecture.md on heartbeats, 60 seconds: the close event of a replaced
  session deletes the heartbeat of the new one (`rooms/rooms.gateway.ts:232`),
  and the next sweep ends it.
- docs/features.md and docs/faq.md on the host's role: a host who loses the
  connection is deleted before isHost is asked (`rooms.gateway.ts:277`), so the
  room can be left without a host.
- The size of the download pool (`services/preload.service.ts:146`): a retry
  takes the slot the resumed waiter was given, and one more download runs.
- docs/features.md:78, "auto-disable after 3 consecutive failures": a fill that
  throws only counts. At the limit the room is passed over, still enabled
  (`services/auto-dj.service.ts:83`, `:141`); it is turned off when candidates
  are missing, not when queries fail.

Why the bounds are enough. Three processes are a stream, its respawn and a track
started in between, which is the shape of every bad interleaving of a retry; a
fourth repeats it. Two tasks are the overlap; two rows are a track that plays
and one that follows. Two connections are a session and its replacement, by the
same or another user. Two slots and five downloads make two that run, one or two
that wait, a retry and what is left for the waiter to fail and retry in its
turn; `WaitersAreServed` has no exception for the bound, which only ends the
retries. One search slot and two requests make a waiter; two workers are what it
takes to translate a track twice, and the third request queues a track while
both are busy. Two requests on the queue are the overlap, the third finds what
they left. Three rows of one list, two of them played, are what a reorder needs
to give a position away and previous to ask it back. Two fills are the overlap
of AutoDJ, and a threshold of 1 lets a fill add two rows, so that its loop has a
second turn. A host who changes the threshold needs a second one, which makes
the instance too large for a temporal property: the run has the request but one
value, and `FillsFitMeasure` is proved for every set of them. Two streams are
the one the client decodes and the one it should. Every action fires in some
passing run. Deadlock is not checked in the runs whose requests, streams or
connections run out; `audio` checks it.

Views and symmetry: `PlayerView` leaves out bookkeeping of `Audio` that no guard
of `Player` reads, and what a dead process or a replaced object holds;
`GatewayView` forgets the identity of connections that are over. `MCView` of the
queue takes of the history what its properties ask, since no step reads it, what
has been heard as long as an addition may look at it, and of the two request
slots what they hold, since they are alike. Tracks and voters are
interchangeable, as are the tracks of `Queue` and `Listening`. The temporal
properties are checked without symmetry and views.

Fairness, and why the code has it. Handlers go on: the database and yt-dlp
answer or time out (`YTDLP_TIMEOUT_MS`), so task steps are weakly fair. Timers
fire, so are the sweep and the grace timer. A socket the server closes gets its
close event (`ws` terminates after 30 seconds). A heartbeat that is not renewed
grows old. A process ends some day, because a track is finite and ffmpeg reads
it at its own pace. In `Lyrics` requests and workers go on: searches and Gemini
are called with timeouts. In `AutoDj` one of the fills in flight goes on, and
the scan (an `@Interval`) starts a fill whenever a slot stays free; whether a
query throws is left open. Requests, connections, chunks, resets and restarts
are not fair.

What the properties leave out, on purpose:

- `SerializedPlaysAgree` speaks of calls that do not
  overlap. Overlapping calls of `play` do leave row and stream in disagreement.
  One call can do so too, and is a case of its own: when a track plays, the host asks
  for another and yt-dlp refuses its URL (`player/player.service.ts:80`), play stops
  nothing. The row goes on to the next track, or to none, while the old stream runs.
  The model keeps such a stream in `leftover` and the property leaves it out until it
  ends or is replaced.
- `SyncedHasCurrentInit` admits chunks of a process that was killed or superseded by
  a retry: they go through the listeners map that all objects of a room share
  (`services/audio.service.ts:163`, `:354`). It shows that nobody else sends them.
  `ImplementsStreamSync` is about who is tuned to what, not about chunks.
- `TransitionHasDriver` excludes closed rooms and deleted tracks: onTrackEnd
  throws on a row without a track after it has set "preparing".
- `MemberAccounted` excludes two leaks: a join that crosses a kick, and a
  connection that closed before its close handler was registered.
- Preload has no property about memory: it is checked before a download starts
  and never when it ends.
- `DoneIsKept` excludes tracks that two workers took up at once (both read the
  row before either marked it pending): the second may fail after the first is
  done.
- `FillsAreMeasured` excludes fills that overlap (`doubled`), tracks that candidates
  name twice, which the code does queue twice (`services/auto-dj.service.ts:168`), and
  rows that previous puts back: an AutoDJ row that played and waits again comes on top.
- `NoTrackTwice` and `PositionsDiffer` exclude calls that overlap, since the checks are
  made queries before the rows are saved, and what a single previous does. It puts back
  a row whose position a reorder may have given to another (`queue/queue.service.ts:287`
  shifts only rows that wait), for good; and until its play has saved, the track that
  plays waits as well (`player/player.service.ts:159`).
- `RestMeansHearing` excludes seven causes, each a line of the client or the
  player that can leave a listener silent until the next change of the track: a
  respawn, an update that shows the track the client was told of last, an outage, a resync answered with the init
  segment of a stream about to be replaced, an init segment that arrives while
  the buffer is being cleared, a refused skip, and a client that gave up asking.

## What is proved

`AudioProofs` holds for every set of listeners, every
number of spawns and every retry limit. It assumes `AudioAssumption` only: the
bounds are natural numbers and `NoRoom` is not one. `StreamSync`'s `None` is
instantiated by `NoRoom`.

None of the invariants of `Audio` is inductive alone. `AudioInv` adds what the
code relies on without saying so:

- the room's object is the newest one, and a room that is not in the map has no
  listeners (`NewestIsRoom`): this is why a stale handler cannot publish an
  init segment that the room's listeners would be sent;
- nothing is known of a process before it is spawned (`UnbornIsBlank`);
- an init segment comes from a parsed header (`InitFromHeader`);
- a retry belongs to a process that is gone (`RetryOfGone`);
- a respawn serves an older start, whose own process has started
  (`OriginIsOlder`): the induction behind `ChainEndsOnce` and `EndAfterStart`.

A process whose chunks stray is not the room's, because whoever is in sync follows the
room's; and if it lives, `OrphansOnlyFromRetry` says that a retry superseded it.

One lemma per group of actions shows that it preserves `AudioInv`: spawns
(`SpawnKeeps`, which both startStream and the retry use), stops, listeners,
data, closes. The invariants follow as corollaries. For the refinement each
action is shown to be a step of `StreamSync` (spawn: Open; header: Publish;
stop and destroy: Cut; listener actions: Tune or Detune) or a stutter.

`PlayerProofs` holds for every number of tracks, rows, voters, streams and calls
in flight; it assumes `AudioAssumption` and `PlayerAssumption` (the bounds are
natural numbers, the null track is no track). Each step of `Player` is a step of
`Audio` or leaves its variables alone (`PlayerDrivesAudio`), so `AudioInv` is
available in every state of the player. `TransitionHasDriver` needs more:

- `TracksAreKnown`: before the first deletion every row and every call that will
  play has a track, so neither onTrackEnd nor previous throws on `track.id`
  between the state it sets and the play it calls;
- `UnbornIsBlank` of `AudioInv`: a process that was just spawned has not called
  onStart, so the play that ends leaves a stream that will end the transition;
- the close event fires onStart before anything else (`EventFacts`): a stream
  stops being pending only when the room becomes streaming.

`SerializedPlaysAgree` rests on `AgreeInv`. `OneDriver`: until two driving calls
overlap (`raced`), at most one call or one retry of a crashed process drives the
player. While that is so and the room is open, a play that waits for its URL
carries the track of the playback row (`PlaysAgree`), so does a retry
(`RetriesAgree`), a room whose process lives has neither a retry nor an onTrackEnd
in progress (`EndIsQuiet`), and unless a play waits that process is of the track
the row shows (`TrackAgrees`). The last three except a stream in `leftover`, and the
retries of one: under it an onTrackEnd may be in progress and the row may move on. From the room's process to what listeners decode it
is the corollary `SyncedHasCurrentInit` of `AudioInv`.

`OneCallMoves` collects what a step of one call owes the invariant; each action
shows that it pays. `StartsAreCounted` and `VotesHaveVoters` support the type
invariant. `First` and `Last` take their row by CHOOSE; that there is one comes
from the well-foundedness of `<`.

`GatewayProofs` assumes `GatewayAssumption` only: every set of users and rooms, every
number of connections, handlers and requests. `GatewayInv` has the invariants of
the runs and what they rest on: a connection in `roomClients` is up and in its
place (`ClientsInPlace`); one that was kicked, or whose close event nobody heard, is
up as well (`MarkedAreUp`), which is why the handlers find the user and the room of
the socket; and a user whose kick has closed a socket is no longer expected to be
accounted for (`KickedAreUnseen`). The last one is what `MemberAccounted` needs to
be inductive: the close event of a kicked session starts no grace timer, so
`MemberExpected` asks for a session that closes for another reason. Each step
changes one connection, or all of a user's (`OneSessionPerUser` is what connecting
relies on and restores), or the member row of one user in one room.

`PreloadProofs` holds for every set of tracks, number of downloads and slots,
retry count and memory. `PreloadInv` adds to the invariants of the runs that the
queue of waiters names each waiting download once (`PoolOK`, with
`SlotsAreCounted` and `NobodyWaitsInVain`) and that downloads not begun are
blank (`BegunOnly`). The slots are counted by cardinalities: each action adds or
removes one download of the set that is counted. What the pool does not
keep, the limit itself, is not claimed.

`LyricsProofs` assumes `LyricsAssumption` only: bounds are natural numbers, and
tracks and requests are finite sets. `LyricsInv` has three parts. `SlotsOK` and
`JobsOK` count searches and busy workers, so that the counters never leave their
ranges; a search that ends hands its slot on in the same step, which is why here
(and not in `Preload`) the limit holds. `AloneUnlessDoubled` is the argument for
`DoneIsKept`: who translates a track that was never doubled is the only one and
its row is not done, so that no other worker can undo it. `CalmKeepsOwners`,
`WorkerGoes` and `WorkerEnds` are the three ways in which a step can touch the
owners of translations, and each action is one of them.

`LyricsLimits` is kept next to it. `QueueUsed`: the queue is empty or every worker is
busy. After a drain the item in place n of what is left was passed over by every
idle worker, and a well-founded minimum of the idle workers would have been given
the first. `CallsOK`: `dailyCount` and the calls that workers still owe stay below the
limit and the calls of one track per worker. What is owed is counted as a set of
pairs of a worker and a number, so that no sum is needed; a worker that reads the
counter below the limit comes to owe no more than one track's calls, and a call
that is made moves one pair into the counter.

`QueueProofs` assumes `QueueAssumption` only; the lists that requests name are any
nonempty sequences of tracks. What a request has read is still true when it
writes, as long as nobody else writes, and each part of the invariant says so of
one query result. `TypesInv`: positions have an upper bound, so the last position
exists; the row a reorder has read keeps its track and its owner. `OrderInv`:
without overlapping writers there is one at most. Of two rows at one position one is
played and in `given` (`SharedGiven`), which is all that is left to say of positions
once a reorder shifts only the rows that wait; an addition is about to save above every
position there is, and who shares the position a reorder has read is in `given`.
previous then breaks the order only by putting back a row of `given`. `TracksInv`:
without any overlap nothing is played and no previous is under way while a request
writes, the tracks that are left of its list are neither queued nor playing, and the
row that a previous is to put back first is of a track that does not wait. `QuotaInv`: the
recent rows of a user and those that requests past the check may save together
stay within the limit and what the other requests may select; a request that
passes the check has counted the rows, and the rest is the other slots.

`AutoDjProofs` assumes `AutoDjAssumption`. `AutoDjInv` adds to the invariants of
the run: a fill past the test of the flag is alone unless two were (`PastIsAlone`);
the row a fill is about to save is the only one that may come late
(`LateIsCounted`); and `FillsFit`: what AutoDJ has waiting, and what the fill in
progress has still to add, fit under the highest threshold the room has had. A fill
carries the threshold it read (`limit`), which is at most `peak`, and `peak` never goes
down, so a host who changes the threshold while it fills takes nothing away. Users only
make room by removing, and players by playing, and what previous puts back is no longer
among the rows that are measured: this is why the bound survives what happens between
the count and the save.

`ListeningProofs` assumes `ListeningAssumption`: any tracks, and any number of
streams, messages on the wire, updates to be sent and retries. The wire keeps order,
so what the client will make of a message is known when it is sent: `Clears(j)` says
that message j will show another track than the one before it, and so empty the
buffer. With it `ListeningInv` has two parts, both as long as nothing of a named kind
has happened (`spoiled = {}`):

- `Covered`: what the client holds or is sent of an earlier stream, an init segment
  or media, comes before a message that clears it, or before the update the room
  still owes, or finds no init segment to be appended to (`BaseGone`). Each of the
  three ways in which the wire moves has its lemma: `SendingCovers`, `SayCovers`,
  `ReadingCovers`; and `ResetCovers` is the new track after which all is forgotten.
- `SteadyOK`: once a room plays on and has said so, a listening client has another
  update to read, or it is about to ask for the stream (`Asking`), or the answer is
  on its way or taken (`Answered`).

The last update on the wire shows the room as it is at rest (`LastOK`), and who is
tuned follows the newest stream (`SyncOK`); both hold whatever happens. At rest
nothing is left to be read, so `SteadyOK` leaves only the answer that was taken.
The proof showed that the cause "again" was too narrow: with several updates unsent
it is not the track the room showed last that matters but the track the client was
told of last (`Told`), for a stop and the next start may both be shown by one update.
A room that owes one update at most, as in the run, cannot show the difference.

Every invariant and action property that a run checks is proved. Only model-checked
is liveness under fairness, which the prover cannot express: `TransitionEnds`,
`DeadSessionsAreSwept`, `GoneMembersLeave`, `WaitersAreServed`, `TranslationEnds` and
`EmptyQueueIsFilled`.

## Plan

Done, in the order of work: `StreamSync`, `Audio`, `Player`, `Gateway`, `Preload`,
`Lyrics`, `Queue`, `AutoDj`, `Listening`, and the proofs above, one module of them
per component.

Next:

1. Prove more: an abstract counting
   semaphore that `Lyrics` implements, and `Preload` up to the retry that overtakes.
2. Model more: the pool that AutoDJ shows to the host (refresh, pin, skip, sync);
   ChatMute as functions of a message history against a reference; the rotation
   of refresh tokens with two tabs.

## Not modelled

- *Generated and declarative code*: the API client (`client/src/api`, the largest
  directory of the repository), entities, migrations, DTOs, modules, constants
  and translations. There is no control to check. It is most of the repository's
  lines, and the reason why the map covers a small share of them: the map covers
  most of the services named in the table above.
- *Presentation*: pages, components, forms and styles of the client.
- *External data*: search, metadata, charts, the parsers of YouTube's and
  yt-dlp's output, title cleaning. Their results are inputs of the models.
- *Single-row operations*: favorites, push messages, settings, audit, error log,
  most of the admin's requests. Each is one query.
- *Auth and ChatMute*: sequential but for the race of two refreshes with one
  token; planned.
- *HTTP stream*: listeners that get raw ADTS, which needs no init segment and so
  has no sync to lose.
