-------------------------------- MODULE Player --------------------------------
(***************************************************************************)
(* PlayerService (server/src/player/player.service.ts) on top of Audio:    *)
(* the stream state, the skip votes, the queue rows and the playback row   *)
(* of one room, and every call that is waiting for the database, for       *)
(* yt-dlp or for the three seconds between two tracks.                     *)
(*                                                                         *)
(* A call in flight is a task; its pc says what it awaits.  The step that  *)
(* leaves a pc is the awaited operation and the code behind it, up to the  *)
(* next await.  Nothing serialises the tasks of a room.                    *)
(***************************************************************************)
EXTENDS Audio

CONSTANTS MaxTasks,    \* bound: calls in flight at a time
          Track,
          NoTrack,     \* a null track
          MaxRows,     \* bound: rows of the room's queue, by position
          Requests,    \* the kinds of request users make in the instance
          MaxCalls,    \* bound: requests users make in a behaviour
          MaxDeletions, \* bound: tracks an admin deletes
          Voter,       \* users that vote
          Eligible     \* getVoteSkipEligibleCount(roomId)

ASSUME PlayerAssumption ==
  /\ MaxTasks \in Nat
  /\ NoTrack \notin Track
  /\ MaxRows \in Nat
  /\ MaxCalls \in Nat
  /\ MaxDeletions \in Nat
  /\ Eligible \in Nat

Task == 1 .. MaxTasks
Row == 1 .. MaxRows
SomeTrack == Track \cup {NoTrack}

VARIABLES
  streamState,  \* streamState.get(roomId), "idle" when absent
  votes,        \* skipVotes.get(roomId)
  queue,        \* queue[i]: the room_queues row at position i
  pb,           \* the room_playbacks row: track, isPlaying
  young,        \* now - pb.startedAt < SKIP_MIN_PLAY_MS
  task,         \* task[k]: the call in slot k
  startWrites,  \* onStart callbacks awaiting their update of startedAt
  song,         \* song[s]: the track process s plays
  removed,      \* tracks an admin deleted
  deletions,    \* deletions an admin ran so far
  room,         \* "closing" once the gateway has destroyed the empty room, and
                \* "gone" once its row is deleted, with its queue and playback
  calls,        \* calls made so far
  raced,        \* two calls that drive the player have overlapped
  leftover      \* the streams that a play left running when its URL was refused

playerVars == <<streamState, votes, queue, pb, young, task, startWrites, song,
                removed, deletions, room, calls, raced, leftover>>
vars == <<audioVars, playerVars>>

PcPlay == {"playFind", "playMark", "playSave", "playUrl"}
PcEnd  == {"endPb", "endNext", "endWait", "endTake", "endIdle"}
PcPrev == {"prevAge", "prevRead", "prevUnplayCurrent", "prevUnplayPrev"}
PcSkip == {"skipAge", "skipNext", "voteAge", "voteNext"}
Pc == PcPlay \cup PcEnd \cup PcPrev \cup PcSkip
        \cup {"free", "pauseSave", "resumeSave", "autoStatus"}

TaskRecord == [pc: Pc, track: SomeTrack, row: Row \cup {0}, prev: Row \cup {0},
               natural: BOOLEAN, user: Voter \cup {NoTrack}]

Free == [pc |-> "free", track |-> NoTrack, row |-> 0, prev |-> 0,
         natural |-> FALSE, user |-> NoTrack]

At(pc) == [Free EXCEPT !.pc = pc]
Playing(t) == [Free EXCEPT !.pc = "playFind", !.track = t]

AbsentRow == [st |-> "absent", track |-> NoTrack]

(***************************************************************************)
(* One type invariant for the player's part of the state.                  *)
(***************************************************************************)
PlayerTypeOK ==
  /\ streamState \in {"idle", "preparing", "streaming", "skipping"}
  /\ votes \subseteq Voter
  /\ queue \in [Row -> [st: {"absent", "unplayed", "played"}, track: SomeTrack]]
  /\ pb \in [track: SomeTrack, isPlaying: BOOLEAN]
  /\ young \in BOOLEAN
  /\ task \in [Task -> TaskRecord]
  /\ startWrites \in 0 .. MaxSpawns
  /\ song \in [Stream -> SomeTrack]
  /\ removed \subseteq Track
  /\ deletions \in 0 .. MaxDeletions
  /\ room \in {"open", "closing", "gone"}
  /\ calls \in 0 .. MaxCalls
  /\ raced \in BOOLEAN
  /\ leftover \subseteq Stream

PlayerInit ==
  /\ AudioInit
  /\ streamState = "idle"
  /\ votes = {}
  /\ queue = [i \in Row |-> AbsentRow]
  /\ pb = [track |-> NoTrack, isPlaying |-> FALSE]
  /\ young = FALSE
  /\ task = [k \in Task |-> Free]
  /\ startWrites = 0
  /\ song = [s \in Stream |-> NoTrack]
  /\ removed = {}
  /\ deletions = 0
  /\ room = "open"
  /\ calls = 0
  /\ raced = FALSE
  /\ leftover = {}

-------------------------------------------------------------------------------
Unplayed == {i \in Row: queue[i].st = "unplayed"}
First(S) == CHOOSE i \in S: \A j \in S: i <= j
Last(S)  == CHOOSE i \in S: \A j \in S: j <= i

(* A call that changes what plays, between its first and its last step. *)
Driving(tk) ==
  tk.pc \in PcPlay \cup PcEnd \cup {"prevUnplayCurrent", "prevUnplayPrev", "autoStatus"}

Drivers == {k \in Task: Driving(task[k])}

(* The history that every step of a call keeps: whether two drivers have ever
   overlapped, and the streams left running by a refused URL. *)
NoteRace(left) ==
  /\ raced' = (raced \/ Cardinality(Drivers') + Cardinality(retrying') > 1)
  /\ leftover' = left

Become(k, tk) == task' = [task EXCEPT ![k] = tk]

(* The slot a new task takes. *)
FreeSlot(k) ==
  /\ task[k].pc = "free"
  /\ \A j \in Task: j < k => task[j].pc # "free"

(* A user's request: the room is open (the guards of the controllers ask for a
   member) and the requests are bounded. *)
Request(k, kind) ==
  /\ room = "open"
  /\ kind \in Requests
  /\ calls < MaxCalls
  /\ calls' = calls + 1
  /\ FreeSlot(k)

(* assertNotTransitioning; a request it rejects changes nothing. *)
NotTransitioning == streamState \notin {"preparing", "skipping"}

-------------------------------------------------------------------------------
(* play: the existence of the track and the row of the queue that asked for
   it are read; a track that is gone ends the call. *)
CallPlay(k, t) ==
  /\ Request(k, "play")
  /\ Become(k, Playing(t))
  /\ UNCHANGED <<audioVars, streamState, votes, queue, pb, young, startWrites,
                 song, removed, deletions, room>>
  /\ NoteRace(leftover)

PlayFind(k) ==
  /\ task[k].pc = "playFind"
  /\ Become(k, IF task[k].track \in removed THEN Free
               ELSE [task[k] EXCEPT !.pc = "playMark"])
  /\ UNCHANGED <<audioVars, streamState, votes, queue, pb, young, startWrites,
                 song, removed, deletions, room, calls>>
  /\ NoteRace(leftover)

(* All unplayed rows of the track are played now; the room is preparing. *)
PlayMark(k) ==
  /\ task[k].pc = "playMark"
  /\ queue' = [i \in Row |->
                 IF queue[i].st = "unplayed" /\ queue[i].track = task[k].track
                 THEN [queue[i] EXCEPT !.st = "played"] ELSE queue[i]]
  /\ votes' = {}
  /\ streamState' = "preparing"
  /\ Become(k, [task[k] EXCEPT !.pc = "playSave"])
  /\ UNCHANGED <<audioVars, pb, young, startWrites, song, removed, deletions, room, calls>>
  /\ NoteRace(leftover)

SavedPlaybackKeepsTrack(t) == [pb EXCEPT !.isPlaying = TRUE]

(* playbackRepo.create({track, isPlaying: true, startedAt: now}) *)
SavedPlayback(t) == [track |-> t, isPlaying |-> TRUE]

(* audio.startStream with the track's song, on a spawn of its own. *)
StartSong(t) ==
  /\ StartStream
  /\ song' = [song EXCEPT ![spawned'] = t]

(* The playback row is saved.  With a preloaded buffer the stream starts in
   the same turn; otherwise yt-dlp is asked for a URL.  The row cannot refer
   to a track or a room that is gone: the save throws, the call ends there. *)
PlaySave(k) ==
  /\ task[k].pc = "playSave"
  /\ LET t == task[k].track IN
     \/ /\ t \in removed \/ room = "gone"
        /\ Become(k, Free)
        /\ UNCHANGED <<audioVars, pb, young, song>>
     \/ /\ t \notin removed /\ room # "gone"
        /\ pb' = SavedPlayback(t)
        /\ young' = TRUE
        /\ \/ /\ StartSong(t)
              /\ Become(k, Free)
           \/ /\ UNCHANGED <<audioVars, song>>
              /\ Become(k, [task[k] EXCEPT !.pc = "playUrl"])
  /\ UNCHANGED <<streamState, votes, queue, startWrites, removed, deletions, room, calls>>
  /\ NoteRace(leftover)

PlayUrl(k) ==
  /\ task[k].pc = "playUrl"
  /\ StartSong(task[k].track)
  /\ Become(k, Free)
  /\ UNCHANGED <<streamState, votes, queue, pb, young, startWrites, removed,
                 deletions, room, calls>>
  /\ NoteRace(leftover)

-------------------------------------------------------------------------------
(* onTrackEnd up to its first await, in the turn that set streamState'; slot k
   is free or its task is done.  skippedRooms is set and read within doSkip's
   turn, so it needs no variable: a skip enters at "endNext", without the
   delay, and everything else is a natural end. *)
OnTrackEnd(k) ==
  task' = [task EXCEPT ![k] =
             IF streamState' = "preparing" THEN Free
             ELSE [At("endPb") EXCEPT !.natural = TRUE]]

KeepState == streamState
StateAfterFailedPlay == "idle"

(* getAudioUrl rejected: idle, and on to the next track.  Nothing stops the
   stream this play was to replace: it plays on under a row that names another
   track, or none. *)
PlayUrlFails(k) ==
  /\ task[k].pc = "playUrl"
  /\ streamState' = StateAfterFailedPlay
  /\ OnTrackEnd(k)
  /\ UNCHANGED <<audioVars, votes, queue, pb, young, startWrites, song, removed,
                 deletions, room, calls>>
  /\ NoteRace(leftover \cup {s \in Stream: proc[s] = "live"})

(* The playback row was read, for the statistics of the track that ended. *)
EndPb(k) ==
  /\ task[k].pc = "endPb"
  /\ votes' = {}
  /\ Become(k, [task[k] EXCEPT !.pc = "endNext"])
  /\ UNCHANGED <<audioVars, streamState, queue, pb, young, startWrites, song,
                 removed, deletions, room, calls>>
  /\ NoteRace(leftover)

(* The unplayed row with the lowest position comes next; without one the
   room is idle. *)
EndNext(k) ==
  /\ task[k].pc = "endNext"
  /\ \/ /\ Unplayed # {}
        /\ streamState' = "preparing"
        /\ LET i == First(Unplayed) IN
           Become(k, [task[k] EXCEPT !.pc = IF task[k].natural THEN "endWait" ELSE "endTake",
                                     !.row = i, !.track = queue[i].track])
     \/ /\ Unplayed = {}
        /\ streamState' = "idle"
        /\ Become(k, At("endIdle"))
  /\ UNCHANGED <<audioVars, votes, queue, pb, young, startWrites, song, removed,
                 deletions, room, calls>>
  /\ NoteRace(leftover)

(* TRACK_END_DELAY_MS after a natural end. *)
EndWait(k) ==
  /\ task[k].pc = "endWait"
  /\ Become(k, [task[k] EXCEPT !.pc = "endTake"])
  /\ UNCHANGED <<audioVars, streamState, votes, queue, pb, young, startWrites,
                 song, removed, deletions, room, calls>>
  /\ NoteRace(leftover)

(* The row found before is played now, and so is its track; next.track.id
   throws when the row had lost its track. *)
EndTake(k) ==
  /\ task[k].pc = "endTake"
  /\ queue' = IF queue[task[k].row].st = "unplayed"
              THEN [queue EXCEPT ![task[k].row].st = "played"] ELSE queue
  /\ Become(k, IF task[k].track = NoTrack THEN Free ELSE Playing(task[k].track))
  /\ UNCHANGED <<audioVars, streamState, votes, pb, young, startWrites, song,
                 removed, deletions, room, calls>>
  /\ NoteRace(leftover)

EndIdle(k) ==
  /\ task[k].pc = "endIdle"
  /\ pb' = [track |-> NoTrack, isPlaying |-> FALSE]
  /\ Become(k, Free)
  /\ UNCHANGED <<audioVars, streamState, votes, queue, young, startWrites, song,
                 removed, deletions, room, calls>>
  /\ NoteRace(leftover)

-------------------------------------------------------------------------------
(* doSkip and the first turn of the onTrackEnd it calls. *)
DoSkip(k) ==
  /\ StopStream
  /\ votes' = {}
  /\ streamState' = "skipping"
  /\ Become(k, At("endNext"))
  /\ UNCHANGED song

(* skip: the guards are checked one by one, each behind a read of its own, and
   none of them again before doSkip. *)
CallSkip(k) ==
  /\ Request(k, "skip")
  /\ NotTransitioning
  /\ Become(k, At("skipAge"))
  /\ UNCHANGED <<audioVars, streamState, votes, queue, pb, young, startWrites,
                 song, removed, deletions, room>>
  /\ NoteRace(leftover)

VoteOfNobody(k, u) ==
  /\ Request(k, "vote")
  /\ NotTransitioning
  /\ Become(k, At("voteAge"))
  /\ UNCHANGED <<audioVars, streamState, votes, queue, pb, young, startWrites,
                 song, removed, deletions, room>>
  /\ NoteRace(leftover)

CallVoteSkip(k, u) ==
  /\ Request(k, "vote")
  /\ NotTransitioning
  /\ Become(k, [At("voteAge") EXCEPT !.user = u])
  /\ UNCHANGED <<audioVars, streamState, votes, queue, pb, young, startWrites,
                 song, removed, deletions, room>>
  /\ NoteRace(leftover)

(* assertMinPlayTime *)
SkipAge(k) ==
  /\ task[k].pc \in {"skipAge", "voteAge", "prevAge"}
  /\ Become(k, IF young THEN Free
               ELSE [task[k] EXCEPT !.pc = CASE @ = "skipAge" -> "skipNext"
                                             [] @ = "voteAge" -> "voteNext"
                                             [] @ = "prevAge" -> "prevRead"])
  /\ UNCHANGED <<audioVars, streamState, votes, queue, pb, young, startWrites,
                 song, removed, deletions, room, calls>>
  /\ NoteRace(leftover)

(* assertNextTrackExists, then doSkip *)
SkipNext(k) ==
  /\ task[k].pc = "skipNext"
  /\ \/ /\ Unplayed = {}
        /\ Become(k, Free)
        /\ UNCHANGED <<audioVars, streamState, votes, song>>
     \/ /\ Unplayed # {}
        /\ DoSkip(k)
  /\ UNCHANGED <<queue, pb, young, startWrites, removed, deletions, room, calls>>
  /\ NoteRace(leftover)

(* Math.max(VOTE_SKIP_MIN_REQUIRED, Math.ceil(totalMembers / VOTE_SKIP_DIVISOR)) *)
Required == IF Eligible <= 2 THEN 1 ELSE (Eligible + 1) \div 2

VoteNext(k) ==
  /\ task[k].pc = "voteNext"
  /\ LET tally == votes \cup {task[k].user} IN
     \/ /\ Unplayed = {}
        /\ Become(k, Free)
        /\ UNCHANGED <<audioVars, streamState, votes, song>>
     \/ /\ Unplayed # {}
        /\ Cardinality(tally) < Required
        /\ votes' = tally
        /\ Become(k, Free)
        /\ UNCHANGED <<audioVars, streamState, song>>
     \/ /\ Unplayed # {}
        /\ Cardinality(tally) >= Required
        /\ DoSkip(k)
  /\ UNCHANGED <<queue, pb, young, startWrites, removed, deletions, room, calls>>
  /\ NoteRace(leftover)

-------------------------------------------------------------------------------
(* previous, with the same first two guards as skip. *)
CallPrevious(k) ==
  /\ Request(k, "previous")
  /\ NotTransitioning
  /\ Become(k, At("prevAge"))
  /\ UNCHANGED <<audioVars, streamState, votes, queue, pb, young, startWrites,
                 song, removed, deletions, room>>
  /\ NoteRace(leftover)

CurrentRows == {i \in Row: queue[i].st = "played" /\ queue[i].track = pb.track}
RowsBefore(i) == {j \in Row: queue[j].st = "played" /\ j < i}

(* Three reads in a row: the playback row, the played row of its track with
   the highest position, and the played row before that. *)
PrevRead(k) ==
  /\ task[k].pc = "prevRead"
  /\ LET cur0 == Last(CurrentRows)
         prev0 == Last(RowsBefore(cur0))
     IN Become(k, IF pb.track = NoTrack \/ CurrentRows = {} \/ RowsBefore(cur0) = {}
                  THEN Free
                  ELSE [task[k] EXCEPT !.pc = "prevUnplayCurrent", !.row = cur0,
                                       !.prev = prev0, !.track = queue[prev0].track])
  /\ UNCHANGED <<audioVars, streamState, votes, queue, pb, young, startWrites,
                 song, removed, deletions, room, calls>>
  /\ NoteRace(leftover)

Unplay(i) == IF queue[i].st = "played" THEN [queue EXCEPT ![i].st = "unplayed"] ELSE queue

PrevUnplayCurrent(k) ==
  /\ task[k].pc = "prevUnplayCurrent"
  /\ queue' = Unplay(task[k].row)
  /\ Become(k, [task[k] EXCEPT !.pc = "prevUnplayPrev"])
  /\ UNCHANGED <<audioVars, streamState, votes, pb, young, startWrites, song,
                 removed, deletions, room, calls>>
  /\ NoteRace(leftover)

(* Then the stream stops and the previous track plays; prev.track.id throws
   when that row has lost its track. *)
PrevUnplayPrev(k) ==
  /\ task[k].pc = "prevUnplayPrev"
  /\ queue' = Unplay(task[k].prev)
  /\ StopStream
  /\ Become(k, IF task[k].track = NoTrack THEN Free ELSE Playing(task[k].track))
  /\ UNCHANGED <<streamState, votes, pb, young, startWrites, song, removed,
                 deletions, room, calls>>
  /\ NoteRace(leftover)

-------------------------------------------------------------------------------
CallPause(k) ==
  /\ Request(k, "pause")
  /\ PauseStream
  /\ Become(k, At("pauseSave"))
  /\ UNCHANGED <<streamState, votes, queue, pb, young, startWrites, song, removed,
                 deletions, room>>
  /\ NoteRace(leftover)

CallResume(k) ==
  /\ Request(k, "resume")
  /\ ResumeStream
  /\ Become(k, At("resumeSave"))
  /\ UNCHANGED <<streamState, votes, queue, pb, young, startWrites, song, removed,
                 deletions, room>>
  /\ NoteRace(leftover)

PauseResumeSave(k) ==
  /\ task[k].pc \in {"pauseSave", "resumeSave"}
  /\ pb' = [pb EXCEPT !.isPlaying = room # "gone" /\ task[k].pc = "resumeSave"]
  /\ Become(k, Free)
  /\ UNCHANGED <<audioVars, streamState, votes, queue, young, startWrites, song,
                 removed, deletions, room, calls>>
  /\ NoteRace(leftover)

(* addTracks saves a row behind the last one, unless the track waits in the
   queue or plays.  Its reads are merged with the save: what two additions that
   overlap do to each other does not concern the player. *)
AddRow(t) ==
  /\ t \notin removed
  /\ t # pb.track
  /\ \A i \in Unplayed: queue[i].track # t
  /\ \E i \in Row:
       /\ \A j \in Row: j >= i => queue[j].st = "absent"
       /\ i > 1 => queue[i - 1].st # "absent"
       /\ queue' = [queue EXCEPT ![i] = [st |-> "unplayed", track |-> t]]

(* A user adds a track; autoPlayIfIdle then reads the status. *)
CallAdd(k, t) ==
  /\ Request(k, "add")
  /\ AddRow(t)
  /\ Become(k, [At("autoStatus") EXCEPT !.track = t])
  /\ UNCHANGED <<audioVars, streamState, votes, pb, young, startWrites, song,
                 removed, deletions, room>>
  /\ NoteRace(leftover)

(* An AutoDJ candidate is queued: no autoPlayIfIdle behind it. *)
Enqueue(t) ==
  /\ room = "open"
  /\ "enqueue" \in Requests
  /\ AddRow(t)
  /\ UNCHANGED <<audioVars, streamState, votes, pb, young, task, startWrites, song,
                 removed, deletions, room, calls, raced, leftover>>

AutoStatus(k) ==
  /\ task[k].pc = "autoStatus"
  /\ Become(k, IF pb.isPlaying THEN Free ELSE Playing(task[k].track))
  /\ UNCHANGED <<audioVars, streamState, votes, queue, pb, young, startWrites,
                 song, removed, deletions, room, calls>>
  /\ NoteRace(leftover)

-------------------------------------------------------------------------------
(* A user removes a row; the rest of the call does not touch the player. *)
RemoveRow(i) ==
  /\ room = "open"
  /\ "remove" \in Requests
  /\ calls < MaxCalls
  /\ calls' = calls + 1
  /\ queue[i].st # "absent"
  /\ queue' = [queue EXCEPT ![i] = AbsentRow]
  /\ UNCHANGED <<audioVars, streamState, votes, pb, young, task, startWrites, song,
                 removed, deletions, room, raced, leftover>>

(* An admin deletes a track: queue rows lose it first, and then the playback
   row's reference keeps the track itself from going. *)
DeleteTrack(t) ==
  /\ deletions < MaxDeletions
  /\ t \notin removed
  /\ deletions' = deletions + 1
  /\ queue' = [i \in Row |-> IF queue[i].track = t
                             THEN [queue[i] EXCEPT !.track = NoTrack] ELSE queue[i]]
  /\ removed' = IF pb.track = t THEN removed ELSE removed \cup {t}
  /\ UNCHANGED <<audioVars, streamState, votes, pb, young, task, startWrites, song,
                 room, calls, raced, leftover>>

(* Five seconds pass. *)
Age ==
  /\ young
  /\ young' = FALSE
  /\ UNCHANGED <<audioVars, streamState, votes, queue, pb, task, startWrites, song,
                 removed, deletions, room, calls, raced, leftover>>

(* The gateway finds a room without members, when a connection is over: it
   calls destroyRoom and forgets nothing of the player's. *)
CloseRoom ==
  /\ room = "open" \/ cur # NoRoom
  /\ room' = IF room = "open" THEN "closing" ELSE room
  /\ IF cur = NoRoom THEN UNCHANGED audioVars ELSE DestroyRoom
  /\ UNCHANGED <<streamState, votes, queue, pb, young, task, startWrites, song,
                 removed, deletions, calls, raced, leftover>>

(* The room's row is deleted: by the gateway some awaits later, or while its
   stream still runs, when the last member or the host leaves it or the host
   removes it.  The rows that belong to it go with it; a save that comes after
   finds nothing to change. *)
RoomDeleted ==
  /\ room # "gone"
  /\ room' = "gone"
  /\ queue' = [i \in Row |-> AbsentRow]
  /\ pb' = [track |-> NoTrack, isPlaying |-> FALSE]
  /\ young' = FALSE
  /\ UNCHANGED <<audioVars, streamState, votes, task, startWrites, song, removed,
                 deletions, calls, raced, leftover>>

-------------------------------------------------------------------------------
(* onStart, when this step of process s has fired it: streaming at once, and
   startedAt when the database gets to it. *)
OnStart(s) ==
  IF s \notin started /\ s \in started'
  THEN streamState' = "streaming" /\ startWrites' = startWrites + 1
  ELSE UNCHANGED <<streamState, startWrites>>

StartedAtSaved ==
  /\ startWrites > 0
  /\ startWrites' = startWrites - 1
  /\ young' = (young \/ room # "gone")
  /\ UNCHANGED <<audioVars, streamState, votes, queue, pb, task, song, removed,
                 deletions, room, calls, raced, leftover>>

(* Events of a process that call nothing but onStart. *)
StreamEvent(s) ==
  /\ \/ DropData(s)
     \/ \E withMedia \in BOOLEAN: ReadHeader(s, withMedia)
     \/ Media(s)
     \/ Drain(s)
     \/ CloseStale(s)
     \/ CloseRetry(s)
  /\ OnStart(s)
  /\ UNCHANGED <<votes, queue, pb, young, task, song, removed, deletions, room, calls>>
  /\ NoteRace(leftover)

RespawnSong(s) ==
  /\ RetrySpawn(s)
  /\ song' = [song EXCEPT ![spawned'] = song[s]]
  /\ UNCHANGED <<streamState, votes, queue, pb, young, task, startWrites, removed,
                 deletions, room, calls>>
  /\ NoteRace(IF s \in leftover THEN leftover \cup {spawned'} ELSE leftover)

(* The stream is over: onStart if it never fired, then onEnd = onTrackEnd. *)
StreamEnds(k, s) ==
  /\ FreeSlot(k)
  /\ CloseEnd(s) \/ RetryFails(s)
  /\ OnStart(s)
  /\ OnTrackEnd(k)
  /\ UNCHANGED <<votes, queue, pb, young, song, removed, deletions, room, calls>>
  /\ NoteRace(leftover)

(* The gateway adds, removes and resyncs listeners; the player does not notice. *)
ListenerStep == ListenerNext /\ UNCHANGED playerVars

-------------------------------------------------------------------------------
UserNext ==
  \/ \E k \in Task:
       \/ \E t \in Track: CallPlay(k, t) \/ CallAdd(k, t)
       \/ \E u \in Voter: CallVoteSkip(k, u)
       \/ CallSkip(k)
       \/ CallPrevious(k)
       \/ CallPause(k)
       \/ CallResume(k)
  \/ \E i \in Row: RemoveRow(i)
  \/ \E t \in Track: DeleteTrack(t) \/ Enqueue(t)

(* A call in flight goes on. *)
TaskStep(k) ==
  \/ PlayFind(k)
  \/ PlayMark(k)
  \/ PlaySave(k)
  \/ PlayUrl(k)
  \/ PlayUrlFails(k)
  \/ EndPb(k)
  \/ EndNext(k)
  \/ EndWait(k)
  \/ EndTake(k)
  \/ EndIdle(k)
  \/ SkipAge(k)
  \/ SkipNext(k)
  \/ VoteNext(k)
  \/ PrevRead(k)
  \/ PrevUnplayCurrent(k)
  \/ PrevUnplayPrev(k)
  \/ PauseResumeSave(k)
  \/ AutoStatus(k)

StreamStep(s) ==
  \/ StreamEvent(s)
  \/ RespawnSong(s)
  \/ \E k \in Task: StreamEnds(k, s)

PlayerNext ==
  \/ UserNext
  \/ \E k \in Task: TaskStep(k)
  \/ \E s \in Stream: StreamStep(s)
  \/ StartedAtSaved
  \/ Age
  \/ CloseRoom
  \/ RoomDeleted
  \/ ListenerStep

PlayerSpec == PlayerInit /\ [][PlayerNext]_vars

(* The database and yt-dlp answer, timers fire, and a process ends some day:
   a track is finite and ffmpeg reads it at its own pace (-re).  Nobody has to
   send a request, and ffmpeg owes no chunk before it ends. *)
StreamOver(s) ==
  \/ s \notin retrying /\ \E k \in Task: StreamEnds(k, s)
  \/ CloseStale(s) /\ StreamEvent(s)
  \/ CloseRetry(s) /\ StreamEvent(s)

RetryAnswered(s) == RespawnSong(s) \/ (s \in retrying /\ \E k \in Task: StreamEnds(k, s))

PlayerFairness ==
  /\ \A k \in Task: WF_vars(TaskStep(k))
  /\ \A s \in Stream: WF_vars(StreamOver(s)) /\ WF_vars(RetryAnswered(s))

FairPlayerSpec == PlayerSpec /\ PlayerFairness

-------------------------------------------------------------------------------
(***************************************************************************)
(* Properties                                                              *)
(***************************************************************************)

(* No call is waiting and no retry is pending. *)
AtRest == retrying = {} /\ \A k \in Task: task[k].pc = "free"

(* While the room is preparing or skipping every skip, vote and previous is
   rejected, so something must be on its way to end that state: a call that
   will start a stream, go on to the next row or give up, or a process whose
   onStart is still to come.  Closing the room and deleting tracks under it
   are the two ways the code loses that driver. *)
TransitionHasDriver ==
  streamState \in {"preparing", "skipping"} /\ room = "open" /\ deletions = 0 =>
    \/ \E k \in Task: task[k].pc \in PcPlay \cup {"endNext", "endWait", "endTake"}
    \/ \E s \in Stream: proc[s] = "live" /\ s \notin started

(* The same as a promise: a transition ends.  spawned = MaxSpawns is where the
   bound of the model keeps a stream from starting. *)
TransitionEnds ==
  streamState \in {"preparing", "skipping"} ~>
    \/ streamState \in {"idle", "streaming"}
    \/ room # "open" \/ deletions > 0 \/ spawned = MaxSpawns

(* As long as no two calls that drive the player ever overlapped, what the room
   hears is what the playback row says once everything has settled; and so from
   end to end, through resyncs, pauses, retries and skips: the stream a listener
   in sync decodes is a stream of the track that the playback row shows it.
   One call is enough to break it: a play whose URL is refused stops nothing,
   so the stream it was to replace runs on, and its retries after it, while the
   row goes on to another track or to none.  Such a stream is in leftover until
   it ends or is replaced, and the room and its row disagree meanwhile. *)
SerializedPlaysAgree ==
  /\ AtRest /\ ~raced /\ room = "open"
  /\ cur \in Stream /\ proc[cur] = "live" /\ cur \notin leftover
  => /\ pb.track = song[cur]
     /\ \A l \in Listener: sync[l] = "synced" => song[lastInit[l]] = pb.track

===============================================================================
