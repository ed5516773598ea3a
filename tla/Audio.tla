-------------------------------- MODULE Audio --------------------------------
(***************************************************************************)
(* AudioService (server/src/services/audio.service.ts) for one room: the   *)
(* ffmpeg processes, the RoomAudio objects they write to and the WebSocket *)
(* listeners.  Rooms share nothing but the map they are stored in, so one  *)
(* room is enough.                                                         *)
(*                                                                         *)
(* Node runs one callback at a time, so an action is the code between two  *)
(* awaits or one event handler.  spawnFfmpeg makes a process and a new     *)
(* RoomAudio object together; both carry the number of the spawn.  Object  *)
(* 0 is the one addListener creates for a room that never streamed.        *)
(***************************************************************************)
EXTENDS Naturals, FiniteSets

CONSTANTS Listener,    \* the callbacks WebSocket clients register
          MaxSpawns,   \* bound: ffmpeg processes spawned in a behaviour
          MaxRetries,  \* FFMPEG_MAX_RETRIES
          NoRoom       \* rooms.get(roomId) === undefined; also "no stream"

ASSUME AudioAssumption ==
  /\ MaxSpawns \in Nat
  /\ MaxRetries \in Nat
  /\ NoRoom \notin Nat

Stream == 1 .. MaxSpawns
Object == 0 .. MaxSpawns

VARIABLES
  spawned,    \* processes spawned so far
  cur,        \* the object in the rooms map, or NoRoom
  ffmpeg,     \* ffmpeg[o]: object o's ffmpeg field is not null (it is process o)
  playing,    \* playing[o]: object o's playing flag
  init,       \* init[o]: object o's initSegment is not null
  proc,       \* proc[s]: what the operating system says of process s
  header,     \* header[s]: the stdout handler's parse of the fMP4 header
  started,    \* streams whose onStart callback was consumed (startCb = null)
  retrying,   \* streams whose close handler is awaiting getNewUrl()
  attempt,    \* attempt[s]: consecutive respawns that led to s
  origin,     \* origin[s]: the startStream call (its first process) s serves
  ended,      \* origins whose onEnd callback was called
  sync,       \* sync[l]: l's ListenerState in the listeners map
  lastInit,   \* lastInit[l]: the stream whose init segment l was sent last
  sharing,    \* streams whose object holds the listeners map of the room
  stray       \* streams whose media went to a listener in sync with another

audioVars == <<spawned, cur, ffmpeg, playing, init, proc, header, started,
               retrying, attempt, origin, ended, sync, lastInit, sharing, stray>>

processVars  == <<spawned, proc, header, started, retrying, attempt, origin, ended,
                  stray>>
roomVars     == <<cur, ffmpeg, playing, init, sharing>>
listenerVars == <<sync, lastInit>>

(***************************************************************************)
(* One type invariant: the shape of the state, and that numbers are handed *)
(* out in spawn order.                                                     *)
(***************************************************************************)
AudioTypeOK ==
  /\ spawned \in 0 .. MaxSpawns
  /\ cur \in Object \cup {NoRoom}
  /\ ffmpeg \in [Object -> BOOLEAN]
  /\ playing \in [Object -> BOOLEAN]
  /\ init \in [Object -> BOOLEAN]
  /\ proc \in [Stream -> {"unborn", "live", "killed", "gone"}]
  /\ header \in [Stream -> {"wait", "done", "lost"}]
  /\ started \subseteq Stream
  /\ retrying \subseteq Stream
  /\ attempt \in [Stream -> Nat]
  /\ origin \in [Stream -> Stream]
  /\ ended \subseteq Stream
  /\ sync \in [Listener -> {"absent", "unsynced", "synced"}]
  /\ lastInit \in [Listener -> Stream \cup {NoRoom}]
  /\ sharing \subseteq Stream
  /\ stray \subseteq Stream

AudioInit ==
  /\ spawned = 0
  /\ cur = NoRoom
  /\ ffmpeg = [o \in Object |-> FALSE]
  /\ playing = [o \in Object |-> FALSE]
  /\ init = [o \in Object |-> FALSE]
  /\ proc = [s \in Stream |-> "unborn"]
  /\ header = [s \in Stream |-> "wait"]
  /\ started = {}
  /\ retrying = {}
  /\ attempt = [s \in Stream |-> 0]
  /\ origin = [s \in Stream |-> s]
  /\ ended = {}
  /\ sync = [l \in Listener |-> "absent"]
  /\ lastInit = [l \in Listener |-> NoRoom]
  /\ sharing = {}
  /\ stray = {}

-------------------------------------------------------------------------------
KeepSync == sync

(* `for (const state of room.listeners.values()) state.synced = false` *)
UnsyncAll == [l \in Listener |-> IF sync[l] = "absent" THEN "absent" ELSE "unsynced"]

(* removeAllListeners and SIGKILL: the close handlers go, but the handler of
   stdout stays and may still see what the pipe held. *)
Killed(s) == [proc EXCEPT ![s] = IF @ = "live" THEN "killed" ELSE @]

(* spawnFfmpeg, on the process table p and the ffmpeg fields f its caller
   leaves: a new object replaces the room's.  It inherits the listeners map
   itself, so the handlers of older processes still reach whoever is in it. *)
SpawnFfmpeg(p, f, tries, from) ==
  LET s == spawned + 1 IN
  /\ spawned < MaxSpawns
  /\ spawned' = s
  /\ cur' = s
  /\ proc' = [p EXCEPT ![s] = "live"]
  /\ ffmpeg' = [f EXCEPT ![s] = TRUE]
  /\ playing' = [playing EXCEPT ![s] = TRUE]
  /\ init' = [init EXCEPT ![s] = FALSE]
  /\ attempt' = [attempt EXCEPT ![s] = tries]
  /\ origin' = [origin EXCEPT ![s] = IF from = 0 THEN s ELSE from]
  /\ sync' = UnsyncAll
  /\ sharing' = sharing \cup {s}
  /\ UNCHANGED <<header, started, ended, lastInit, stray>>

(* rooms.get(roomId)?.ffmpeg: there is one to kill *)
HasFfmpeg == cur # NoRoom /\ ffmpeg[cur]

StartWithoutKill == SpawnFfmpeg(proc, ffmpeg, 0, 0) /\ UNCHANGED retrying

StartStream ==
  /\ IF HasFfmpeg
     THEN SpawnFfmpeg(Killed(cur), [ffmpeg EXCEPT ![cur] = FALSE], 0, 0)
     ELSE SpawnFfmpeg(proc, ffmpeg, 0, 0)
  /\ UNCHANGED retrying

(* The fields stopStream leaves behind. *)
Stopped ==
  /\ proc' = IF HasFfmpeg THEN Killed(cur) ELSE proc
  /\ ffmpeg' = [ffmpeg EXCEPT ![cur] = FALSE]
  /\ playing' = [playing EXCEPT ![cur] = FALSE]
  /\ init' = [init EXCEPT ![cur] = FALSE]
  /\ UNCHANGED <<spawned, header, started, retrying, attempt, origin, ended, stray>>

StopStream ==
  /\ IF cur = NoRoom
     THEN UNCHANGED <<processVars, ffmpeg, playing, init, sync>>
     ELSE Stopped /\ sync' = UnsyncAll
  /\ UNCHANGED <<cur, lastInit, sharing>>

PauseStream ==
  /\ playing' = IF cur = NoRoom THEN playing ELSE [playing EXCEPT ![cur] = FALSE]
  /\ UNCHANGED <<processVars, listenerVars, cur, ffmpeg, init, sharing>>

ResumeStream ==
  /\ playing' = IF cur = NoRoom THEN playing ELSE [playing EXCEPT ![cur] = TRUE]
  /\ UNCHANGED <<processVars, listenerVars, cur, ffmpeg, init, sharing>>

(* stopStream, then the room leaves the map with its listeners. *)
DestroyRoom ==
  /\ cur # NoRoom
  /\ Stopped
  /\ cur' = NoRoom
  /\ sync' = [l \in Listener |-> "absent"]
  /\ lastInit' = [l \in Listener |-> NoRoom]
  /\ sharing' = {}

-------------------------------------------------------------------------------
(* A callback is made for each connection and registered once; the browser
   behind it starts with an empty MediaSource. *)
AddListener(l) ==
  /\ sync[l] = "absent"
  /\ sync' = [sync EXCEPT ![l] = "unsynced"]
  /\ cur' = IF cur = NoRoom THEN 0 ELSE cur
  /\ ffmpeg' = IF cur = NoRoom THEN [ffmpeg EXCEPT ![0] = FALSE] ELSE ffmpeg
  /\ playing' = IF cur = NoRoom THEN [playing EXCEPT ![0] = FALSE] ELSE playing
  /\ init' = IF cur = NoRoom THEN [init EXCEPT ![0] = FALSE] ELSE init
  /\ UNCHANGED <<processVars, lastInit, sharing>>

RemoveListener(l) ==
  /\ sync[l] # "absent"
  /\ sync' = [sync EXCEPT ![l] = "absent"]
  /\ lastInit' = [lastInit EXCEPT ![l] = NoRoom]
  /\ UNCHANGED <<processVars, roomVars>>

UnsyncListener(l) ==
  /\ sync[l] # "absent"
  /\ sync' = [sync EXCEPT ![l] = "unsynced"]
  /\ UNCHANGED <<processVars, roomVars, lastInit>>

ResyncWithoutInit(l) ==
  /\ sync[l] # "absent"
  /\ sync' = [sync EXCEPT ![l] = "synced"]
  /\ lastInit' = [lastInit EXCEPT ![l] = cur]
  /\ UNCHANGED <<processVars, roomVars>>

(* resyncListener: send the init segment if there is one, leave the flag alone
   when nothing plays, and otherwise make the client wait. *)
ResyncListener(l) ==
  /\ sync[l] # "absent"
  /\ \/ /\ init[cur]
        /\ sync' = [sync EXCEPT ![l] = "synced"]
        /\ lastInit' = [lastInit EXCEPT ![l] = cur]
     \/ /\ init[cur]                       \* the send threw
        /\ sync' = [sync EXCEPT ![l] = "unsynced"]
        /\ UNCHANGED lastInit
     \/ /\ ~init[cur] /\ playing[cur]
        /\ sync' = [sync EXCEPT ![l] = "unsynced"]
        /\ UNCHANGED lastInit
     \/ /\ ~init[cur] /\ ~playing[cur]
        /\ UNCHANGED listenerVars
  /\ UNCHANGED <<processVars, roomVars>>

-------------------------------------------------------------------------------
(* The stdout handler of process s.  Data that comes while the object is not
   playing is dropped unread, and with it the header if it was in there. *)
DropData(s) ==
  /\ proc[s] \in {"live", "killed"}
  /\ ~playing[s]
  /\ header[s] = "wait"
  /\ header' = [header EXCEPT ![s] = "lost"]
  /\ UNCHANGED <<spawned, proc, started, retrying, attempt, origin, ended, stray,
                 roomVars, listenerVars>>

(* broadcastChunk sends what process s wrote to every listener in sync in the
   map its object holds, whichever stream that listener is in sync with. *)
BroadcastChunk(s) ==
  stray' = IF s \in sharing /\ \E l \in Listener: sync[l] = "synced" /\ lastInit[l] # s
           THEN stray \cup {s} ELSE stray

(* The header completes; the media behind it in the same chunk, if any, is
   broadcast and fires onStart. *)
ReadHeader(s, withMedia) ==
  /\ proc[s] \in {"live", "killed"}
  /\ playing[s]
  /\ header[s] = "wait"
  /\ header' = [header EXCEPT ![s] = "done"]
  /\ init' = [init EXCEPT ![s] = TRUE]
  /\ IF withMedia
     THEN started' = started \cup {s} /\ BroadcastChunk(s)
     ELSE UNCHANGED <<started, stray>>
  /\ UNCHANGED <<spawned, proc, retrying, attempt, origin, ended,
                 cur, ffmpeg, playing, sharing, listenerVars>>

(* A media chunk: the first one fires onStart. *)
Media(s) ==
  /\ proc[s] \in {"live", "killed"}
  /\ playing[s]
  /\ header[s] = "done"
  /\ started' = started \cup {s}
  /\ BroadcastChunk(s)
  /\ UNCHANGED <<spawned, proc, header, retrying, attempt, origin, ended,
                 roomVars, listenerVars>>

(* The pipe of a killed process runs dry. *)
Drain(s) ==
  /\ proc[s] = "killed"
  /\ proc' = [proc EXCEPT ![s] = "gone"]
  /\ UNCHANGED <<spawned, header, started, retrying, attempt, origin, ended, stray,
                 roomVars, listenerVars>>

-------------------------------------------------------------------------------
(* The close event of process s runs two handlers in one turn: the stdout
   handler's fires onStart if no chunk did, the other decides what follows. *)
IsRoomFfmpeg(s) == cur = s /\ ffmpeg[s]

ClosingUnstarted(s) ==
  /\ proc[s] = "live"
  /\ proc' = [proc EXCEPT ![s] = "gone"]
  /\ UNCHANGED <<spawned, header, started, attempt, origin, stray>>

Closing(s) ==
  /\ proc[s] = "live"
  /\ proc' = [proc EXCEPT ![s] = "gone"]
  /\ started' = started \cup {s}
  /\ UNCHANGED <<spawned, header, attempt, origin, stray>>

(* Superseded: rooms.get(roomId)?.ffmpeg !== ffmpeg *)
CloseStale(s) ==
  /\ Closing(s)
  /\ ~IsRoomFfmpeg(s)
  /\ UNCHANGED <<retrying, ended, roomVars, listenerVars>>

(* `retries` is a local of attachCloseHandler, which runs anew for each
   respawn, and a process closes once: it is 0 whenever it is compared. *)
RetriesSeen == 0

CloseRetryAndEnd(s) ==
  /\ Closing(s)
  /\ IsRoomFfmpeg(s)
  /\ retrying' = retrying \cup {s}
  /\ ended' = ended \cup {origin[s]}
  /\ UNCHANGED <<roomVars, listenerVars>>

CloseRetry(s) ==
  /\ Closing(s)
  /\ IsRoomFfmpeg(s)
  /\ RetriesSeen < MaxRetries
  /\ retrying' = retrying \cup {s}
  /\ UNCHANGED <<ended, roomVars, listenerVars>>

(* The object is marked idle and onEnd is called. *)
EndStream(s) ==
  /\ ffmpeg' = [ffmpeg EXCEPT ![s] = FALSE]
  /\ playing' = [playing EXCEPT ![s] = FALSE]
  /\ ended' = ended \cup {origin[s]}
  /\ UNCHANGED <<cur, init, sharing, listenerVars>>

(* Exit code 0 or a signal; with MaxRetries = 0 a crash too. *)
CloseEnd(s) ==
  /\ Closing(s)
  /\ IsRoomFfmpeg(s)
  /\ EndStream(s)
  /\ UNCHANGED retrying

(* getNewUrl() resolved: spawn again, whatever happened to the room since. *)
RetrySpawn(s) ==
  /\ s \in retrying
  /\ retrying' = retrying \ {s}
  /\ SpawnFfmpeg(proc, ffmpeg, attempt[s] + 1, origin[s])

(* getNewUrl() rejected: fall through to the end of the handler. *)
RetryFails(s) ==
  /\ s \in retrying
  /\ retrying' = retrying \ {s}
  /\ EndStream(s)
  /\ UNCHANGED <<spawned, proc, header, started, attempt, origin, stray>>

-------------------------------------------------------------------------------
(* What other services and the gateway call. *)
ControlNext == StartStream \/ StopStream \/ PauseStream \/ ResumeStream \/ DestroyRoom

ListenerNext ==
  \E l \in Listener:
    \/ AddListener(l)
    \/ RemoveListener(l)
    \/ UnsyncListener(l)
    \/ ResyncListener(l)

(* What ffmpeg and yt-dlp do. *)
ProcessNext ==
  \E s \in Stream:
    \/ DropData(s)
    \/ \E withMedia \in BOOLEAN: ReadHeader(s, withMedia)
    \/ Media(s)
    \/ Drain(s)
    \/ CloseStale(s)
    \/ CloseRetry(s)
    \/ CloseEnd(s)
    \/ RetrySpawn(s)
    \/ RetryFails(s)

AudioNext == ControlNext \/ ListenerNext \/ ProcessNext

AudioSpec == AudioInit /\ [][AudioNext]_audioVars

-------------------------------------------------------------------------------
(***************************************************************************)
(* Properties                                                              *)
(***************************************************************************)

(* A listener that is in sync was last sent the init segment of the stream the
   room plays now, so what the room's process sends it can be decoded: no stop,
   restart, retry, reconnection or destroyed room leaves a listener in sync
   with a stream that is over.  But older processes write to the same listeners
   map, so a listener in sync may be sent their media: only what a killed
   process had left in its pipe, or what a process sends that the respawn of a
   retry superseded. *)
SyncedToRoom ==
  \A l \in Listener:
    sync[l] = "synced" => cur \in Stream /\ init[cur] /\ lastInit[l] = cur

StrayIsDrainOrOrphan ==
  \A s \in stray: proc[s] # "live" \/ \E t \in Stream: t > s /\ attempt[t] > 0

SyncedHasCurrentInit == SyncedToRoom /\ StrayIsDrainOrOrphan

(* A process that can still end, or that a retry may bring back. *)
Active(s) == proc[s] = "live" \/ s \in retrying

(* One startStream call ends at most once: the chain of respawns it starts has
   a single tip, and once its onEnd was called nothing of it is left to call
   onEnd again.  onTrackEnd takes a row off the queue each time it is called. *)
ChainEndsOnce ==
  \A s \in Stream: Active(s) =>
    /\ origin[s] \notin ended
    /\ \A t \in Stream: Active(t) /\ origin[t] = origin[s] => t = s

(* onEnd never comes before onStart, even for a track too short to send a
   chunk: onTrackEnd ignores a stream that ends while still "preparing". *)
EndAfterStart ==
  \A s \in Stream: s \in retrying \cup ended => s \in started

(* A running process the room has lost hold of, so that no stop can reach it,
   was superseded by the respawn of a retry; startStream, stopStream and
   destroyRoom never leave one behind. *)
OrphansOnlyFromRetry ==
  \A s \in Stream:
    proc[s] = "live" /\ ~IsRoomFfmpeg(s) => \E t \in Stream: t > s /\ attempt[t] > 0

(* The service implements StreamSync: the newest spawn is the newest stream, it
   is published while its object holds the init segment, and a listener is
   tuned to the stream whose init segment it was sent while it is in sync. *)
Published == IF cur \in Stream /\ init[cur] THEN cur ELSE NoRoom
Tuned == [l \in Listener |-> IF sync[l] = "synced" THEN lastInit[l] ELSE NoRoom]

Sync == INSTANCE StreamSync WITH
          None <- NoRoom, latest <- spawned, published <- Published, tuned <- Tuned

ImplementsStreamSync == Sync!SyncSpec

===============================================================================
