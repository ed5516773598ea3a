----------------------------- MODULE PlayerProofs -----------------------------
(***************************************************************************)
(* Proofs about PlayerService, for every number of tracks, rows, calls in  *)
(* flight and streams.                                                     *)
(*                                                                         *)
(* Every step of Player is a step of Audio or leaves Audio alone, so what  *)
(* AudioProofs shows of the streams holds under the player.  On top of it, *)
(* PlayerInv adds to the player's own invariants that nothing lacks its    *)
(* track before the first deletion: this is why an end of track or a       *)
(* previous does not throw between "preparing" and the play it leads to.   *)
(***************************************************************************)
EXTENDS Player, AudioProofs, FiniteSetTheorems, WellFoundedInduction

PcTrack == PcPlay \cup {"endWait", "endTake", "prevUnplayCurrent", "prevUnplayPrev",
                        "autoStatus"}

(* A call that will end a transition (the first half of TransitionHasDriver). *)
PcDriver == PcPlay \cup {"endNext", "endWait", "endTake"}

(* Until a track is deleted no row and no call has lost its own. *)
TracksAreKnown ==
  deletions = 0 =>
    /\ removed = {}
    /\ \A i \in Row: queue[i].st # "absent" => queue[i].track # NoTrack
    /\ \A k \in Task: task[k].pc \in PcTrack => task[k].track # NoTrack

PcVote == {"voteAge", "voteNext"}

(* A vote that is being counted is somebody's. *)
VotesHaveVoters == \A k \in Task: task[k].pc \in PcVote => task[k].user \in Voter

(* Each stream writes startedAt at most once. *)
StartsAreCounted == startWrites <= Cardinality(started)

PlayerInv ==
  /\ PlayerTypeOK
  /\ StartsAreCounted
  /\ TracksAreKnown
  /\ VotesHaveVoters
  /\ TransitionHasDriver

-------------------------------------------------------------------------------
(* Lemmas about First and Last, which take an element by CHOOSE. *)
LEMMA LeastExists ==
  ASSUME NEW S \in SUBSET Nat, S # {}
  PROVE  \E i \in S: \A j \in S: i <= j
<1> DEFINE R == {ss \in Nat \X Nat: ss[1] < ss[2]}
<1>1. IsWellFoundedOn(R, Nat)
  BY NatLessThanWellFounded DEF OpToRel
<1>2. PICK i \in S: \A j \in S: ~(<<j, i>> \in R)
  <2> HIDE DEF R
  <2> QED BY WFMin, <1>1
<1>3. \A j \in S: ~(j < i)
  BY <1>2
<1> QED BY <1>3

LEMMA GreatestExists ==
  ASSUME NEW n \in Nat, NEW S \in SUBSET (1 .. n), S # {}
  PROVE  \E i \in S: \A j \in S: j <= i
<1> DEFINE D == {d \in Nat: \E i \in S: d = n - i}
<1>1. D # {}
  <2>1. PICK i \in S: TRUE
    OBVIOUS
  <2>2. n - i \in D
    BY <2>1
  <2> QED BY <2>2
<1>2. PICK d \in D: \A e \in D: d <= e
  <2> HIDE DEF D
  <2>1. D \in SUBSET Nat
    BY DEF D
  <2> QED BY <1>1, <2>1, LeastExists
<1>3. PICK i \in S: d = n - i
  BY <1>2
<1>4. \A j \in S: n - j \in D
  OBVIOUS
<1> QED BY <1>2, <1>3, <1>4

LEMMA FirstIsRow ==
  ASSUME NEW S \in SUBSET Row, S # {}
  PROVE  First(S) \in S
<1>1. S \in SUBSET Nat
  BY PlayerAssumption DEF Row
<1>2. \E i \in S: \A j \in S: i <= j
  BY <1>1, LeastExists
<1> QED BY <1>2 DEF First

LEMMA LastIsRow ==
  ASSUME NEW S \in SUBSET Row, S # {}
  PROVE  Last(S) \in S
<1>1. S \in SUBSET (1 .. MaxRows) /\ MaxRows \in Nat
  BY PlayerAssumption DEF Row
<1>2. \E i \in S: \A j \in S: j <= i
  BY <1>1, GreatestExists
<1> QED BY <1>2 DEF Last

-------------------------------------------------------------------------------
(* Lemmas about calls in flight. *)
LEMMA TaskRecords ==
  /\ Free \in TaskRecord /\ Free.pc = "free"
  /\ \A pc \in Pc: At(pc) \in TaskRecord /\ At(pc).pc = pc
  /\ \A t \in SomeTrack: /\ Playing(t) \in TaskRecord
                         /\ Playing(t).pc = "playFind" /\ Playing(t).track = t
BY DEF Free, At, Playing, TaskRecord, Pc, PcPlay, PcEnd, PcPrev, PcSkip, SomeTrack

LEMMA EndingRecord ==
  LET tk == [At("endPb") EXCEPT !.natural = TRUE]
  IN  tk \in TaskRecord /\ tk.pc = "endPb"
BY DEF At, Free, TaskRecord, Pc, PcEnd, SomeTrack

LEMMA TaskMoves ==
  ASSUME NEW r \in TaskRecord, NEW pc \in Pc
  PROVE  /\ [r EXCEPT !.pc = pc] \in TaskRecord
         /\ [r EXCEPT !.pc = pc].pc = pc
         /\ [r EXCEPT !.pc = pc].track = r.track
         /\ [r EXCEPT !.pc = pc].user = r.user
BY DEF TaskRecord

(* A stream whose onStart is still to come (the second half). *)
Pending(s) == proc[s] = "live" /\ s \notin started

InTransition == streamState \in {"preparing", "skipping"}

(* What every step of one call, or the end of one stream, owes the invariant:
   the types, the tracks, and a driver if the room is in transition. *)
LEMMA OneCallMoves ==
  ASSUME PlayerInv, NEW k \in Task, NEW tk \in TaskRecord, Become(k, tk),
         UNCHANGED <<removed, deletions, room>>,
         streamState' \in {"idle", "preparing", "streaming", "skipping"},
         votes' \subseteq Voter,
         queue' \in [Row -> [st: {"absent", "unplayed", "played"}, track: SomeTrack]],
         pb' \in [track: SomeTrack, isPlaying: BOOLEAN],
         young' \in BOOLEAN, raced' \in BOOLEAN /\ leftover' \subseteq Stream,
         song' \in [Stream -> SomeTrack],
         calls' \in 0 .. MaxCalls,
         startWrites' \in 0 .. MaxSpawns, StartsAreCounted',
         deletions = 0 =>
           \A i \in Row: queue'[i].st # "absent" => queue'[i].track # NoTrack,
         deletions = 0 /\ tk.pc \in PcTrack => tk.track # NoTrack,
         tk.pc \in PcVote => tk.user \in Voter,
         \/ ~InTransition'
         \/ tk.pc \in PcDriver
         \/ \E s \in Stream: Pending(s)'
         \/ room # "open" \/ deletions # 0
         \/ /\ streamState' = streamState
            /\ task[k].pc \notin PcDriver
            /\ \A s \in Stream: Pending(s) => Pending(s)'
  PROVE  PlayerInv'
<1> USE DEF PlayerInv
<1>1. /\ task' \in [Task -> TaskRecord]
      /\ \A j \in Task: task'[j] = IF j = k THEN tk ELSE task[j]
  BY DEF Become, PlayerTypeOK
<1>2. PlayerTypeOK'
  BY <1>1 DEF PlayerTypeOK
<1>3. TracksAreKnown' /\ VotesHaveVoters'
  BY <1>1 DEF TracksAreKnown, VotesHaveVoters
<1>4. TransitionHasDriver'
  <2> SUFFICES ASSUME InTransition', room = "open", deletions = 0, tk.pc \notin PcDriver
               PROVE  \/ \E j \in Task: task'[j].pc \in PcDriver
                      \/ \E s \in Stream: Pending(s)'
    BY <1>1 DEF TransitionHasDriver, PcDriver, InTransition, Pending
  <2>1. CASE \E s \in Stream: Pending(s)'
    BY <2>1
  <2>2. CASE /\ streamState' = streamState
             /\ task[k].pc \notin PcDriver
             /\ \A s \in Stream: Pending(s) => Pending(s)'
    <3>1. \/ \E j \in Task: task[j].pc \in PcDriver
          \/ \E s \in Stream: Pending(s)
      BY <2>2 DEF TransitionHasDriver, PcDriver, InTransition, Pending
    <3> QED BY <1>1, <2>2, <3>1
  <2> QED BY <2>1, <2>2
<1> QED BY <1>2, <1>3, <1>4

LEMMA RacedType ==
  ASSUME PlayerTypeOK, NEW left \in SUBSET Stream, NoteRace(left) \/ NoteRace(leftover)
  PROVE  raced' \in BOOLEAN /\ leftover' \subseteq Stream
BY DEF NoteRace, PlayerTypeOK

LEMMA StartedIsFinite ==
  ASSUME AudioInv
  PROVE  IsFiniteSet(started) /\ Cardinality(started) \in Nat
<1>1. started \subseteq 1 .. MaxSpawns
  BY DEF AudioInv, AudioTypeOK, Stream
<1>2. IsFiniteSet(1 .. MaxSpawns)
  BY AudioAssumption, FS_Interval
<1> QED BY <1>1, <1>2, FS_Subset, FS_CardinalityType

(* onStart: the state is streaming from then on, and startedAt is owed. *)
LEMMA OnStartCounts ==
  ASSUME NEW s \in Stream, started \subseteq Stream,
         startWrites \in Nat, StartsAreCounted,
         started' = started \/ started' = started \cup {s},
         OnStart(s)
  PROVE  startWrites' \in 0 .. MaxSpawns /\ StartsAreCounted'
<1> USE AudioAssumption DEF Stream, StartsAreCounted
<1>1. started' \subseteq 1 .. MaxSpawns
  OBVIOUS
<1>2. /\ IsFiniteSet(1 .. MaxSpawns) /\ Cardinality(1 .. MaxSpawns) = MaxSpawns
  <2>1. 1 \in Int /\ MaxSpawns \in Int
    OBVIOUS
  <2>2. /\ IsFiniteSet(1 .. MaxSpawns)
        /\ Cardinality(1 .. MaxSpawns) = IF 1 > MaxSpawns THEN 0 ELSE MaxSpawns - 1 + 1
    BY <2>1, FS_Interval
  <2> QED BY <2>2
<1>3. /\ IsFiniteSet(started) /\ IsFiniteSet(started')
      /\ Cardinality(started) <= MaxSpawns /\ Cardinality(started') <= MaxSpawns
  BY <1>1, <1>2, FS_Subset
<1>4. Cardinality(started) \in Nat /\ Cardinality(started') \in Nat
  BY <1>3, FS_CardinalityType
<1>5. CASE s \notin started /\ s \in started'
  <2>1. Cardinality(started') = Cardinality(started) + 1
    BY <1>3, <1>5, FS_AddElement
  <2>2. startWrites' = startWrites + 1
    BY <1>5 DEF OnStart
  <2> QED BY <1>3, <1>4, <2>1, <2>2
<1>6. CASE ~(s \notin started /\ s \in started')
  <2>1. started' = started /\ startWrites' = startWrites
    BY <1>6 DEF OnStart
  <2> QED BY <1>3, <1>4, <2>1
<1> QED BY <1>5, <1>6

-------------------------------------------------------------------------------
(* The player drives the streams by the calls of AudioService and nothing else. *)
LEMMA StepsOfAudio == PlayerNext => [AudioNext]_audioVars
<1> SUFFICES ASSUME PlayerNext
             PROVE  AudioNext \/ UNCHANGED audioVars
  OBVIOUS
<1>1. CASE UserNext
  <2>1. CASE \E k \in Task: CallPause(k) \/ CallResume(k)
    BY <2>1 DEF CallPause, CallResume, AudioNext, ControlNext
  <2>2. CASE \E k \in Task: \E t \in Track: CallPlay(k, t) \/ CallAdd(k, t)
    BY <2>2 DEF CallPlay, CallAdd
  <2>3. CASE \E k \in Task: \E u \in Voter: CallVoteSkip(k, u)
    BY <2>3 DEF CallVoteSkip
  <2>4. CASE \E k \in Task: CallSkip(k) \/ CallPrevious(k)
    BY <2>4 DEF CallSkip, CallPrevious
  <2>5. CASE \E i \in Row: RemoveRow(i)
    BY <2>5 DEF RemoveRow
  <2>6. CASE \E t \in Track: DeleteTrack(t) \/ Enqueue(t)
    BY <2>6 DEF DeleteTrack, Enqueue
  <2> QED BY <1>1, <2>1, <2>2, <2>3, <2>4, <2>5, <2>6 DEF UserNext
<1>2. ASSUME NEW k \in Task, TaskStep(k)
      PROVE  AudioNext \/ UNCHANGED audioVars
  <2>1. CASE PlaySave(k) \/ PlayUrl(k)
    BY <2>1 DEF PlaySave, PlayUrl, StartSong, AudioNext, ControlNext
  <2>2. CASE SkipNext(k) \/ VoteNext(k)
    BY <2>2 DEF SkipNext, VoteNext, DoSkip, AudioNext, ControlNext
  <2>3. CASE PrevUnplayPrev(k)
    BY <2>3 DEF PrevUnplayPrev, AudioNext, ControlNext
  <2>4. CASE PlayFind(k) \/ PlayMark(k) \/ PlayUrlFails(k)
    BY <2>4 DEF PlayFind, PlayMark, PlayUrlFails
  <2>5. CASE EndPb(k) \/ EndNext(k) \/ EndWait(k) \/ EndTake(k) \/ EndIdle(k)
    BY <2>5 DEF EndPb, EndNext, EndWait, EndTake, EndIdle
  <2>6. CASE SkipAge(k) \/ PrevRead(k) \/ PrevUnplayCurrent(k)
             \/ PauseResumeSave(k) \/ AutoStatus(k)
    BY <2>6 DEF SkipAge, PrevRead, PrevUnplayCurrent, PauseResumeSave, AutoStatus
  <2> QED BY <1>2, <2>1, <2>2, <2>3, <2>4, <2>5, <2>6 DEF TaskStep
<1>3. ASSUME NEW s \in Stream, StreamStep(s)
      PROVE  AudioNext
  <2>1. CASE StreamEvent(s)
    BY <2>1 DEF StreamEvent, AudioNext, ProcessNext
  <2>2. CASE RespawnSong(s)
    BY <2>2 DEF RespawnSong, AudioNext, ProcessNext
  <2>3. CASE \E k \in Task: StreamEnds(k, s)
    BY <2>3 DEF StreamEnds, AudioNext, ProcessNext
  <2> QED BY <1>3, <2>1, <2>2, <2>3 DEF StreamStep
<1>4. CASE StartedAtSaved \/ Age \/ CloseRoom \/ RoomDeleted \/ ListenerStep
  BY <1>4 DEF StartedAtSaved, Age, CloseRoom, RoomDeleted, ListenerStep, AudioNext,
              ControlNext
<1> QED BY <1>1, <1>2, <1>3, <1>4 DEF PlayerNext

-------------------------------------------------------------------------------
(* Requests: the call starts where it awaits for the first time. *)
LEMMA RequestKeeps ==
  ASSUME PlayerInv, NEW k \in Task,
         \/ \E t \in Track: CallPlay(k, t)
         \/ \E u \in Voter: CallVoteSkip(k, u)
         \/ CallSkip(k) \/ CallPrevious(k)
  PROVE  PlayerInv'
<1> USE DEF PlayerInv
<1>1. PICK tk \in TaskRecord:
        /\ Become(k, tk)
        /\ tk.pc \in PcTrack => tk.track # NoTrack
        /\ tk.pc \in PcVote => tk.user \in Voter
  <2>1. CASE \E t \in Track: CallPlay(k, t)
    BY <2>1, TaskRecords, PlayerAssumption DEF CallPlay, SomeTrack, PcVote
  <2>2. CASE CallSkip(k) \/ CallPrevious(k)
    <3>1. At("skipAge") \in TaskRecord /\ At("skipAge").pc = "skipAge"
      BY TaskRecords DEF Pc, PcSkip
    <3>2. At("prevAge") \in TaskRecord /\ At("prevAge").pc = "prevAge"
      BY TaskRecords DEF Pc, PcPrev
    <3> QED BY <2>2, <3>1, <3>2 DEF CallSkip, CallPrevious, PcTrack, PcPlay, PcVote
  <2>3. CASE \E u \in Voter: CallVoteSkip(k, u)
    <3>1. PICK u \in Voter: CallVoteSkip(k, u)
      BY <2>3
    <3>2. [At("voteAge") EXCEPT !.user = u] \in TaskRecord
      BY DEF At, Free, TaskRecord, Pc, PcSkip, SomeTrack
    <3>3. /\ [At("voteAge") EXCEPT !.user = u].pc = "voteAge"
          /\ [At("voteAge") EXCEPT !.user = u].user = u
      BY DEF At, Free
    <3> QED BY <3>1, <3>2, <3>3 DEF CallVoteSkip, PcTrack, PcPlay
  <2> QED BY <2>1, <2>2, <2>3
<1>2. /\ Request(k, "play") \/ Request(k, "vote") \/ Request(k, "skip")
           \/ Request(k, "previous")
      /\ NoteRace(leftover)
      /\ UNCHANGED <<proc, started, streamState, votes, queue, pb, young, startWrites,
                     song, removed, deletions, room>>
  BY DEF CallPlay, CallVoteSkip, CallSkip, CallPrevious, audioVars
<1>3. calls' \in 0 .. MaxCalls /\ task[k].pc = "free"
  BY <1>2, PlayerAssumption DEF Request, FreeSlot, PlayerTypeOK
<1>4. raced' \in BOOLEAN /\ leftover' \subseteq Stream
  BY <1>2, RacedType
<1>5. \A s \in Stream: Pending(s) => Pending(s)'
  BY <1>2 DEF Pending
<1>6. task[k].pc \notin PcDriver
  BY <1>3 DEF PcDriver, PcPlay
<1> QED
  BY <1>1, <1>2, <1>3, <1>4, <1>5, <1>6, OneCallMoves
     DEF PlayerTypeOK, StartsAreCounted, TracksAreKnown, PcVote

(* A pause and a resume touch no process; a row that is added has a track. *)
LEMMA PauseAddKeeps ==
  ASSUME PlayerInv, NEW k \in Task,
         CallPause(k) \/ CallResume(k) \/ \E t \in Track: CallAdd(k, t)
  PROVE  PlayerInv'
<1> USE DEF PlayerInv
<1>1. CASE CallPause(k) \/ CallResume(k)
  <2>1. PICK pc \in {"pauseSave", "resumeSave"}: Become(k, At(pc))
    BY <1>1 DEF CallPause, CallResume
  <2>2. At(pc) \in TaskRecord /\ At(pc).pc = pc
    BY TaskRecords DEF Pc
  <2>3. /\ Request(k, "pause") \/ Request(k, "resume")
        /\ NoteRace(leftover)
        /\ UNCHANGED <<proc, started, streamState, votes, queue, pb, young, startWrites,
                       song, removed, deletions, room>>
    BY <1>1 DEF CallPause, CallResume, PauseStream, ResumeStream, processVars
  <2>4. calls' \in 0 .. MaxCalls /\ task[k].pc = "free"
    BY <2>3, PlayerAssumption DEF Request, FreeSlot, PlayerTypeOK
  <2>5. raced' \in BOOLEAN /\ leftover' \subseteq Stream
    BY <2>3, RacedType
  <2>6. \A s \in Stream: Pending(s) => Pending(s)'
    BY <2>3 DEF Pending
  <2>7. task[k].pc \notin PcDriver /\ pc \notin PcTrack
    BY <2>4 DEF PcDriver, PcPlay, PcTrack
  <2> QED
    BY <2>1, <2>2, <2>3, <2>4, <2>5, <2>6, <2>7, OneCallMoves
       DEF PlayerTypeOK, StartsAreCounted, TracksAreKnown, PcVote
<1>2. CASE \E t \in Track: CallAdd(k, t)
  <2>1. PICK t \in Track: CallAdd(k, t)
    BY <1>2
  <2> DEFINE tk == [At("autoStatus") EXCEPT !.track = t]
  <2>2. tk \in TaskRecord /\ tk.pc = "autoStatus" /\ tk.track = t
    BY DEF At, Free, TaskRecord, Pc, SomeTrack
  <2>3. /\ Request(k, "add") /\ AddRow(t) /\ Become(k, tk)
        /\ NoteRace(leftover)
        /\ UNCHANGED <<proc, started, streamState, votes, pb, young, startWrites,
                       song, removed, deletions, room>>
    BY <2>1 DEF CallAdd, audioVars
  <2>4. calls' \in 0 .. MaxCalls /\ task[k].pc = "free"
    BY <2>3, PlayerAssumption DEF Request, FreeSlot, PlayerTypeOK
  <2>5. /\ queue' \in [Row -> [st: {"absent", "unplayed", "played"}, track: SomeTrack]]
        /\ deletions = 0 =>
             \A i \in Row: queue'[i].st # "absent" => queue'[i].track # NoTrack
    BY <2>3, PlayerAssumption DEF AddRow, PlayerTypeOK, SomeTrack, TracksAreKnown
  <2>6. raced' \in BOOLEAN /\ leftover' \subseteq Stream
    BY <2>3, RacedType
  <2>7. \A s \in Stream: Pending(s) => Pending(s)'
    BY <2>3 DEF Pending
  <2>8. task[k].pc \notin PcDriver /\ tk.track # NoTrack
    BY <2>2, <2>4, PlayerAssumption DEF PcDriver, PcPlay
  <2> HIDE DEF tk
  <2> QED
    BY <2>2, <2>3, <2>4, <2>5, <2>6, <2>7, <2>8, OneCallMoves
       DEF PlayerTypeOK, StartsAreCounted, PcVote
<1> QED BY <1>1, <1>2

-------------------------------------------------------------------------------
(* Steps that move no call: rows, tracks, time and the room. *)
LEMMA NoCallMoves ==
  ASSUME AudioInv, PlayerInv,
         \/ \E i \in Row: RemoveRow(i)
         \/ \E t \in Track: DeleteTrack(t) \/ Enqueue(t)
         \/ StartedAtSaved \/ Age \/ RoomDeleted
  PROVE  PlayerInv'
<1> USE DEF PlayerInv
<1>1. ASSUME NEW i \in Row, RemoveRow(i)
      PROVE  PlayerInv'
  <2>1. PlayerTypeOK' /\ StartsAreCounted'
    BY <1>1, PlayerAssumption
       DEF RemoveRow, AbsentRow, PlayerTypeOK, StartsAreCounted, SomeTrack, audioVars
  <2>2. TracksAreKnown' /\ VotesHaveVoters' /\ TransitionHasDriver'
    BY <1>1 DEF RemoveRow, AbsentRow, PlayerTypeOK, TracksAreKnown, VotesHaveVoters,
                TransitionHasDriver, audioVars
  <2> QED BY <2>1, <2>2
<1>2. ASSUME NEW t \in Track, DeleteTrack(t)
      PROVE  PlayerInv'
  <2>1. deletions' \in 0 .. MaxDeletions /\ deletions' # 0
    BY <1>2, PlayerAssumption DEF DeleteTrack, PlayerTypeOK
  <2>2. queue' \in [Row -> [st: {"absent", "unplayed", "played"}, track: SomeTrack]]
    BY <1>2 DEF DeleteTrack, PlayerTypeOK, SomeTrack
  <2>3. removed' \subseteq Track
    BY <1>2 DEF DeleteTrack, PlayerTypeOK
  <2> QED
    BY <1>2, <2>1, <2>2, <2>3
       DEF DeleteTrack, PlayerTypeOK, StartsAreCounted, TracksAreKnown, VotesHaveVoters,
           TransitionHasDriver, audioVars
<1>3. ASSUME NEW t \in Track, Enqueue(t)
      PROVE  PlayerInv'
  <2>1. /\ queue' \in [Row -> [st: {"absent", "unplayed", "played"}, track: SomeTrack]]
        /\ deletions = 0 =>
             \A i \in Row: queue'[i].st # "absent" => queue'[i].track # NoTrack
    BY <1>3, PlayerAssumption DEF Enqueue, AddRow, PlayerTypeOK, SomeTrack, TracksAreKnown
  <2> QED
    BY <1>3, <2>1 DEF Enqueue, PlayerTypeOK, StartsAreCounted, TracksAreKnown, VotesHaveVoters,
                      TransitionHasDriver, audioVars
<1>4. CASE StartedAtSaved
  <2>1. /\ startWrites' \in 0 .. MaxSpawns
        /\ startWrites' <= startWrites /\ startWrites' \in Nat /\ startWrites \in Nat
    BY <1>4, AudioAssumption DEF StartedAtSaved, PlayerTypeOK
  <2>2. started' = started
    BY <1>4 DEF StartedAtSaved, audioVars
  <2>3. StartsAreCounted'
    BY <2>1, <2>2, StartedIsFinite DEF StartsAreCounted
  <2> QED
    BY <1>4, <2>1, <2>3 DEF StartedAtSaved, PlayerTypeOK, TracksAreKnown, VotesHaveVoters,
                            TransitionHasDriver, audioVars
<1>5. CASE Age
  BY <1>5 DEF Age, PlayerTypeOK, StartsAreCounted, TracksAreKnown, VotesHaveVoters, TransitionHasDriver,
              audioVars
<1>6. CASE RoomDeleted
  <2>1. /\ queue' = [i \in Row |-> AbsentRow]
        /\ queue' \in [Row -> [st: {"absent", "unplayed", "played"}, track: SomeTrack]]
        /\ pb' \in [track: SomeTrack, isPlaying: BOOLEAN]
    BY <1>6 DEF RoomDeleted, AbsentRow, SomeTrack
  <2>2. PlayerTypeOK' /\ StartsAreCounted'
    BY <1>6, <2>1 DEF RoomDeleted, PlayerTypeOK, StartsAreCounted, audioVars
  <2>3. TracksAreKnown' /\ VotesHaveVoters' /\ TransitionHasDriver'
    BY <1>6 DEF RoomDeleted, AbsentRow, TracksAreKnown, VotesHaveVoters,
                TransitionHasDriver
  <2> QED BY <2>2, <2>3
<1> QED BY <1>1, <1>2, <1>3, <1>4, <1>5, <1>6

-------------------------------------------------------------------------------
(* Steps of a call that drive nothing or only read: no process, no row and no
   state of the stream changes. *)
LEMMA ReadingKeeps ==
  ASSUME PlayerInv, NEW k \in Task,
         \/ PlayFind(k) \/ EndPb(k) \/ EndWait(k) \/ SkipAge(k) \/ AutoStatus(k)
         \/ PauseResumeSave(k)
  PROVE  PlayerInv'
<1> USE DEF PlayerInv
<1>1. /\ NoteRace(leftover)
      /\ UNCHANGED <<proc, started, streamState, queue, young, startWrites, song,
                     removed, deletions, room, calls>>
      /\ votes' \subseteq Voter
      /\ pb' \in [track: SomeTrack, isPlaying: BOOLEAN]
  BY DEF PlayFind, EndPb, EndWait, SkipAge, AutoStatus, PauseResumeSave, audioVars,
         PlayerTypeOK
<1>2. raced' \in BOOLEAN /\ leftover' \subseteq Stream
  BY <1>1, RacedType
<1>3. \A s \in Stream: Pending(s) => Pending(s)'
  BY <1>1 DEF Pending
<1>4. task[k] \in TaskRecord
  BY DEF PlayerTypeOK
<1>5. PICK tk \in TaskRecord:
        /\ Become(k, tk)
        /\ deletions = 0 /\ tk.pc \in PcTrack => tk.track # NoTrack
        /\ tk.pc \in PcVote => tk.user \in Voter
        /\ task[k].pc \in PcDriver => tk.pc \in PcDriver \/ deletions # 0
  <2>1. CASE PlayFind(k)
    <3>1. [task[k] EXCEPT !.pc = "playMark"] \in TaskRecord
          /\ [task[k] EXCEPT !.pc = "playMark"].pc = "playMark"
          /\ [task[k] EXCEPT !.pc = "playMark"].track = task[k].track
      BY <1>4, TaskMoves DEF Pc, PcPlay
    <3> QED
      BY <2>1, <3>1, TaskRecords DEF PlayFind, TracksAreKnown, PcTrack, PcDriver, PcPlay, PcVote
  <2>2. CASE EndPb(k)
    <3>1. [task[k] EXCEPT !.pc = "endNext"] \in TaskRecord
          /\ [task[k] EXCEPT !.pc = "endNext"].pc = "endNext"
      BY <1>4, TaskMoves DEF Pc, PcEnd
    <3> QED BY <2>2, <3>1 DEF EndPb, PcTrack, PcDriver, PcPlay, PcVote
  <2>3. CASE EndWait(k)
    <3>1. [task[k] EXCEPT !.pc = "endTake"] \in TaskRecord
          /\ [task[k] EXCEPT !.pc = "endTake"].pc = "endTake"
          /\ [task[k] EXCEPT !.pc = "endTake"].track = task[k].track
      BY <1>4, TaskMoves DEF Pc, PcEnd
    <3> QED BY <2>3, <3>1 DEF EndWait, TracksAreKnown, PcTrack, PcDriver, PcVote
  <2>4. CASE SkipAge(k)
    <3>1. PICK pc \in {"skipNext", "voteNext", "prevRead"}:
            \/ Become(k, Free)
            \/ /\ Become(k, [task[k] EXCEPT !.pc = pc])
               /\ pc = "voteNext" => task[k].pc = "voteAge"
      BY <2>4 DEF SkipAge
    <3>2. /\ [task[k] EXCEPT !.pc = pc] \in TaskRecord
          /\ [task[k] EXCEPT !.pc = pc].pc = pc
          /\ [task[k] EXCEPT !.pc = pc].user = task[k].user
      BY <1>4, TaskMoves DEF Pc, PcSkip, PcPrev
    <3>3. task[k].pc \notin PcDriver
      BY <2>4 DEF SkipAge, PcDriver, PcPlay
    <3>4. task[k].pc = "voteAge" => task[k].user \in Voter
      BY DEF VotesHaveVoters, PcVote
    <3>5. Free.pc \notin PcTrack \cup PcVote
      BY TaskRecords DEF PcTrack, PcPlay, PcVote
    <3> QED BY <3>1, <3>2, <3>3, <3>4, <3>5, TaskRecords DEF PcTrack, PcPlay, PcVote
  <2>5. CASE AutoStatus(k)
    <3>1. task[k].pc = "autoStatus" /\ task[k].track \in SomeTrack
      BY <2>5, <1>4 DEF AutoStatus, TaskRecord
    <3>2. Playing(task[k].track) \in TaskRecord
          /\ Playing(task[k].track).track = task[k].track
      BY <3>1, TaskRecords
    <3>3. deletions = 0 => task[k].track # NoTrack
      BY <3>1 DEF TracksAreKnown, PcTrack
    <3>4. Become(k, Free) \/ Become(k, Playing(task[k].track))
      BY <2>5 DEF AutoStatus
    <3>5. task[k].pc \notin PcDriver /\ Free.pc \notin PcTrack \cup PcVote
      BY <3>1, TaskRecords DEF PcDriver, PcPlay, PcTrack, PcVote
    <3>6. Playing(task[k].track).pc \notin PcVote
      BY <3>1, TaskRecords DEF PcVote
    <3> QED BY <3>2, <3>3, <3>4, <3>5, <3>6, TaskRecords
  <2>6. CASE PauseResumeSave(k)
    BY <2>6, TaskRecords DEF PauseResumeSave, PcTrack, PcDriver, PcPlay, PcVote
  <2> QED BY <2>1, <2>2, <2>3, <2>4, <2>5, <2>6
<1> QED
  BY <1>1, <1>2, <1>3, <1>5, OneCallMoves DEF PlayerTypeOK, StartsAreCounted, TracksAreKnown, PcVote

-------------------------------------------------------------------------------
(* The play that has its track: it is a driver until the stream it starts is. *)
LEMMA StartedSongIsPending ==
  ASSUME AudioInv, PlayerInv, NEW t \in SomeTrack, StartSong(t)
  PROVE  /\ started' = started
         /\ song' \in [Stream -> SomeTrack]
         /\ \E s \in Stream: Pending(s)'
<1> USE AudioAssumption DEF AudioInv, PlayerInv, Stream
<1>1. spawned < MaxSpawns /\ spawned' = spawned + 1 /\ started' = started
  BY DEF StartSong, StartStream, SpawnFfmpeg
<1>2. spawned' \in Stream /\ proc'[spawned'] = "live"
  <2>1. PICK p \in [Stream -> ProcState]: proc' = [p EXCEPT ![spawned + 1] = "live"]
    BY DEF StartSong, StartStream, SpawnFfmpeg, Killed, AudioTypeOK, ProcState
  <2>2. spawned + 1 \in Stream
    BY <1>1 DEF AudioTypeOK
  <2> QED BY <1>1, <2>1, <2>2
<1>3. spawned' \notin started
  BY <1>1, <1>2 DEF UnbornIsBlank, AudioTypeOK
<1>4. song' \in [Stream -> SomeTrack]
  BY DEF StartSong, PlayerTypeOK
<1> QED BY <1>1, <1>2, <1>3, <1>4 DEF Pending

LEMMA PlayKeeps ==
  ASSUME AudioInv, PlayerInv, NEW k \in Task,
         PlayMark(k) \/ PlaySave(k) \/ PlayUrl(k) \/ PlayUrlFails(k)
  PROVE  PlayerInv'
<1> USE DEF PlayerInv
<1>1. /\ task[k] \in TaskRecord /\ task[k].track \in SomeTrack
      /\ task[k].pc \in PcPlay
      /\ deletions = 0 => task[k].track # NoTrack /\ removed = {}
  BY DEF PlayMark, PlaySave, PlayUrl, PlayUrlFails, PlayerTypeOK, TaskRecord, TracksAreKnown,
         PcPlay, PcTrack
<1>2. UNCHANGED <<removed, deletions, room, startWrites, calls>>
  BY DEF PlayMark, PlaySave, PlayUrl, PlayUrlFails
<1>3. raced' \in BOOLEAN /\ leftover' \subseteq Stream
  BY DEF PlayMark, PlaySave, PlayUrl, PlayUrlFails, NoteRace, PlayerTypeOK
<1>4. CASE PlayMark(k)
  <2> DEFINE tk == [task[k] EXCEPT !.pc = "playSave"]
  <2>1. tk \in TaskRecord /\ tk.pc = "playSave" /\ tk.track = task[k].track
    BY <1>1, TaskMoves DEF Pc, PcPlay
  <2>2. /\ queue' \in [Row -> [st: {"absent", "unplayed", "played"}, track: SomeTrack]]
        /\ \A i \in Row: /\ queue'[i].track = queue[i].track
                         /\ queue'[i].st = "absent" => queue[i].st = "absent"
                         /\ queue[i].st = "absent" => queue'[i].st = "absent"
    BY <1>4 DEF PlayMark, PlayerTypeOK
  <2>3. /\ Become(k, tk) /\ streamState' = "preparing" /\ votes' = {}
        /\ UNCHANGED <<started, pb, young, song>>
    BY <1>4 DEF PlayMark, audioVars
  <2>4. deletions = 0 => \A i \in Row: queue'[i].st # "absent" => queue'[i].track # NoTrack
    BY <2>2 DEF TracksAreKnown
  <2>5. tk.pc \in PcDriver
    BY <2>1 DEF PcDriver, PcPlay
  <2>6. /\ pb' \in [track: SomeTrack, isPlaying: BOOLEAN] /\ young' \in BOOLEAN
        /\ song' \in [Stream -> SomeTrack] /\ calls' \in 0 .. MaxCalls
        /\ startWrites' \in 0 .. MaxSpawns /\ StartsAreCounted'
    BY <1>2, <2>3 DEF PlayerTypeOK, StartsAreCounted
  <2> HIDE DEF tk
  <2> QED
    BY <1>1, <1>2, <1>3, <2>1, <2>2, <2>3, <2>4, <2>5, <2>6, OneCallMoves DEF PcVote
<1>5. CASE PlaySave(k) /\ (task[k].track \in removed \/ room = "gone")
  <2>1. /\ Become(k, Free)
        /\ UNCHANGED <<started, streamState, votes, queue, pb, young, song>>
    BY <1>5 DEF PlaySave, audioVars
  <2> QED
    BY <1>1, <1>2, <1>3, <1>5, <2>1, TaskRecords, OneCallMoves
       DEF PlayerTypeOK, StartsAreCounted, TracksAreKnown, PcVote, PcTrack, PcPlay
<1>6. CASE PlaySave(k) /\ ~(task[k].track \in removed \/ room = "gone")
  <2> DEFINE tk == [task[k] EXCEPT !.pc = "playUrl"]
  <2>1. tk \in TaskRecord /\ tk.pc = "playUrl" /\ tk.track = task[k].track
    BY <1>1, TaskMoves DEF Pc, PcPlay
  <2>2. /\ pb' = SavedPlayback(task[k].track) /\ young' = TRUE
        /\ UNCHANGED <<streamState, votes, queue>>
    BY <1>6 DEF PlaySave
  <2>6. pb' \in [track: SomeTrack, isPlaying: BOOLEAN]
    BY <1>1, <2>2 DEF SavedPlayback
  <2>3. \/ StartSong(task[k].track) /\ Become(k, Free)
        \/ UNCHANGED <<audioVars, song>> /\ Become(k, tk)
    BY <1>6 DEF PlaySave
  <2> HIDE DEF tk
  <2>4. CASE StartSong(task[k].track) /\ Become(k, Free)
    BY <1>1, <1>2, <1>3, <2>2, <2>4, <2>6, StartedSongIsPending, TaskRecords, OneCallMoves
       DEF PlayerTypeOK, StartsAreCounted, TracksAreKnown, PcVote, PcTrack, PcPlay
  <2>5. CASE UNCHANGED <<audioVars, song>> /\ Become(k, tk)
    BY <1>1, <1>2, <1>3, <2>1, <2>2, <2>5, <2>6, OneCallMoves
       DEF PlayerTypeOK, StartsAreCounted, TracksAreKnown, PcVote, PcDriver, PcPlay, audioVars
  <2> QED BY <2>3, <2>4, <2>5
<1>7. CASE PlayUrl(k)
  <2>1. /\ StartSong(task[k].track) /\ Become(k, Free)
        /\ UNCHANGED <<streamState, votes, queue, pb, young>>
    BY <1>7 DEF PlayUrl
  <2> QED
    BY <1>1, <1>2, <1>3, <2>1, StartedSongIsPending, TaskRecords, OneCallMoves
       DEF PlayerTypeOK, StartsAreCounted, TracksAreKnown, PcVote, PcTrack, PcPlay
<1>8. CASE PlayUrlFails(k)
  <2> DEFINE tk == [At("endPb") EXCEPT !.natural = TRUE]
  <2>1. /\ streamState' = "idle"
        /\ UNCHANGED <<started, votes, queue, pb, young, song>>
    BY <1>8 DEF PlayUrlFails, StateAfterFailedPlay, audioVars
  <2>2. Become(k, tk)
    BY <1>8, <2>1 DEF PlayUrlFails, OnTrackEnd, Become
  <2>3. tk \in TaskRecord /\ tk.pc = "endPb"
    BY EndingRecord
  <2> HIDE DEF tk
  <2> QED
    BY <1>1, <1>2, <1>3, <2>1, <2>2, <2>3, OneCallMoves
       DEF PlayerTypeOK, StartsAreCounted, TracksAreKnown, PcVote, InTransition, PcTrack, PcPlay
<1> QED BY <1>4, <1>5, <1>6, <1>7, <1>8

-------------------------------------------------------------------------------
(* onTrackEnd behind its first await. *)
LEMMA TrackEndKeeps ==
  ASSUME PlayerInv, NEW k \in Task, EndNext(k) \/ EndTake(k) \/ EndIdle(k)
  PROVE  PlayerInv'
<1> USE DEF PlayerInv
<1>1. /\ NoteRace(leftover)
      /\ UNCHANGED <<started, proc, votes, young, startWrites, song, removed, deletions,
                     room, calls>>
      /\ task[k] \in TaskRecord
  BY DEF EndNext, EndTake, EndIdle, PlayerTypeOK, audioVars
<1>2. raced' \in BOOLEAN /\ leftover' \subseteq Stream
  BY <1>1, RacedType
<1>3. CASE EndNext(k) /\ Unplayed # {}
  <2>1. First(Unplayed) \in Row /\ queue[First(Unplayed)].st = "unplayed"
    BY <1>3, FirstIsRow DEF Unplayed
  <2>2. PICK pc \in {"endWait", "endTake"}:
          Become(k, [task[k] EXCEPT !.pc = pc, !.row = First(Unplayed),
                                    !.track = queue[First(Unplayed)].track])
    BY <1>3 DEF EndNext
  <2> DEFINE tk == [task[k] EXCEPT !.pc = pc, !.row = First(Unplayed),
                                   !.track = queue[First(Unplayed)].track]
  <2>3. /\ queue[First(Unplayed)].track \in SomeTrack
        /\ deletions = 0 => queue[First(Unplayed)].track # NoTrack
    BY <2>1 DEF PlayerTypeOK, TracksAreKnown
  <2>4. /\ tk \in TaskRecord /\ tk.pc = pc
        /\ deletions = 0 => tk.track # NoTrack
    BY <1>1, <2>1, <2>3 DEF TaskRecord, Pc, PcEnd
  <2>5. streamState' = "preparing" /\ UNCHANGED <<queue, pb>>
    BY <1>3 DEF EndNext
  <2>6. tk.pc \in PcDriver /\ tk.pc \notin PcVote
    BY <2>4 DEF PcDriver, PcVote
  <2>7. Become(k, tk)
    BY <2>2
  <2> HIDE DEF tk
  <2> QED
    BY <1>1, <1>2, <2>4, <2>5, <2>6, <2>7, OneCallMoves
       DEF PlayerTypeOK, StartsAreCounted, TracksAreKnown
<1>4. CASE EndNext(k) /\ Unplayed = {}
  <2>1. /\ streamState' = "idle" /\ Become(k, At("endIdle")) /\ UNCHANGED <<queue, pb>>
    BY <1>4 DEF EndNext
  <2>2. At("endIdle") \in TaskRecord /\ At("endIdle").pc \notin PcTrack \cup PcVote
    BY TaskRecords DEF Pc, PcEnd, PcTrack, PcPlay, PcVote
  <2> QED
    BY <1>1, <1>2, <2>1, <2>2, OneCallMoves
       DEF PlayerTypeOK, StartsAreCounted, TracksAreKnown, PcVote, InTransition
<1>5. CASE EndTake(k)
  <2>1. /\ task[k].track \in SomeTrack
        /\ deletions = 0 => task[k].track # NoTrack
    BY <1>1, <1>5 DEF EndTake, TaskRecord, TracksAreKnown, PcTrack
  <2>2. /\ queue' \in [Row -> [st: {"absent", "unplayed", "played"}, track: SomeTrack]]
        /\ \A i \in Row: /\ queue'[i].track = queue[i].track
                         /\ queue'[i].st # "absent" => queue[i].st # "absent"
    BY <1>5 DEF EndTake, PlayerTypeOK
  <2>3. PICK tk \in {Free, Playing(task[k].track)}:
          /\ Become(k, tk)
          /\ task[k].track # NoTrack => tk = Playing(task[k].track)
    BY <1>5 DEF EndTake
  <2>4. /\ tk \in TaskRecord
        /\ tk.pc \in PcTrack => tk.track # NoTrack \/ deletions # 0
        /\ tk.pc \in PcDriver \/ deletions # 0
        /\ tk.pc \notin PcVote
    BY <2>1, <2>3, TaskRecords DEF PcTrack, PcDriver, PcPlay, PcVote
  <2>5. UNCHANGED <<streamState, pb>>
    BY <1>5 DEF EndTake
  <2>6. deletions = 0 => \A i \in Row: queue'[i].st # "absent" => queue'[i].track # NoTrack
    BY <2>2 DEF TracksAreKnown
  <2> QED
    BY <1>1, <1>2, <2>2, <2>3, <2>4, <2>5, <2>6, OneCallMoves
       DEF PlayerTypeOK, StartsAreCounted
<1>6. CASE EndIdle(k)
  <2>1. /\ Become(k, Free) /\ UNCHANGED <<streamState, queue>>
        /\ pb' \in [track: SomeTrack, isPlaying: BOOLEAN]
        /\ task[k].pc \notin PcDriver
    BY <1>6 DEF EndIdle, SomeTrack, PcDriver, PcPlay
  <2>2. \A s \in Stream: Pending(s) => Pending(s)'
    BY <1>1 DEF Pending
  <2>3. Free.pc \notin PcTrack
    BY TaskRecords DEF PcTrack, PcPlay
  <2> QED
    BY <1>1, <1>2, <2>1, <2>2, <2>3, TaskRecords, OneCallMoves
       DEF PlayerTypeOK, StartsAreCounted, TracksAreKnown, PcVote
<1> QED BY <1>3, <1>4, <1>5, <1>6

-------------------------------------------------------------------------------
(* doSkip stops the stream and is a driver from then on. *)
LEMMA SkipKeeps ==
  ASSUME PlayerInv, NEW k \in Task, SkipNext(k) \/ VoteNext(k)
  PROVE  PlayerInv'
<1> USE DEF PlayerInv
<1>1. /\ NoteRace(leftover) /\ task[k] \in TaskRecord
      /\ UNCHANGED <<queue, pb, young, startWrites, removed, deletions, room, calls>>
  BY DEF SkipNext, VoteNext, PlayerTypeOK
<1>2. raced' \in BOOLEAN /\ leftover' \subseteq Stream
  BY <1>1, RacedType
<1>3. CASE DoSkip(k)
  <2>1. /\ Become(k, At("endNext")) /\ streamState' = "skipping" /\ votes' = {}
        /\ UNCHANGED <<started, song>>
    BY <1>3 DEF DoSkip, StopStream, Stopped, processVars
  <2>2. /\ At("endNext") \in TaskRecord /\ At("endNext").pc \in PcDriver
        /\ At("endNext").pc \notin PcTrack \cup PcVote
    BY TaskRecords DEF Pc, PcEnd, PcDriver, PcTrack, PcPlay, PcVote
  <2> QED
    BY <1>1, <1>2, <2>1, <2>2, OneCallMoves
       DEF PlayerTypeOK, StartsAreCounted, TracksAreKnown, PcVote
<1>5. ASSUME VoteNext(k)
      PROVE  task[k].user \in Voter
  BY <1>5 DEF VoteNext, VotesHaveVoters, PcVote
<1>4. CASE ~DoSkip(k)
  <2>1. /\ Become(k, Free) /\ votes' \subseteq Voter
        /\ UNCHANGED <<started, proc, streamState, song>>
    <3>1. CASE SkipNext(k)
      BY <1>4, <3>1 DEF SkipNext, PlayerTypeOK, audioVars
    <3>2. CASE VoteNext(k)
      <4>1. CASE votes' = votes
        BY <1>4, <3>2, <4>1 DEF VoteNext, PlayerTypeOK, audioVars
      <4>2. CASE votes' = votes \cup {task[k].user}
        BY <1>4, <3>2, <4>2, <1>5 DEF VoteNext, PlayerTypeOK, audioVars
      <4> QED BY <1>4, <3>2, <4>1, <4>2 DEF VoteNext
    <3> QED BY <3>1, <3>2
  <2>2. task[k].pc \notin PcDriver
    BY DEF SkipNext, VoteNext, PcDriver, PcPlay
  <2>3. \A s \in Stream: Pending(s) => Pending(s)'
    BY <2>1 DEF Pending
  <2>4. Free.pc \notin PcTrack
    BY TaskRecords DEF PcTrack, PcPlay
  <2> QED
    BY <1>1, <1>2, <2>1, <2>2, <2>3, <2>4, TaskRecords, OneCallMoves
       DEF PlayerTypeOK, StartsAreCounted, TracksAreKnown, PcVote
<1> QED BY <1>3, <1>4

-------------------------------------------------------------------------------
(* previous: it is no driver before it stops the stream, and the play it then
   calls is one, unless the row has lost its track. *)
LEMMA UnplayKeepsRows ==
  ASSUME PlayerTypeOK, TracksAreKnown, NEW i, queue' = Unplay(i)
  PROVE  /\ queue' \in [Row -> [st: {"absent", "unplayed", "played"}, track: SomeTrack]]
         /\ deletions = 0 =>
              \A j \in Row: queue'[j].st # "absent" => queue'[j].track # NoTrack
<1>1. \A j \in Row: /\ queue'[j].track = queue[j].track
                    /\ queue'[j].st # "absent" => queue[j].st # "absent" \/ i \notin Row
  BY DEF Unplay, PlayerTypeOK
<1>2. queue' \in [Row -> [st: {"absent", "unplayed", "played"}, track: SomeTrack]]
  BY DEF Unplay, PlayerTypeOK
<1>3. i \notin Row => queue' = queue
  BY DEF Unplay, PlayerTypeOK
<1> QED BY <1>1, <1>2, <1>3 DEF TracksAreKnown

LEMMA PreviousKeeps ==
  ASSUME PlayerInv, NEW k \in Task,
         PrevRead(k) \/ PrevUnplayCurrent(k) \/ PrevUnplayPrev(k)
  PROVE  PlayerInv'
<1> USE DEF PlayerInv
<1>1. /\ NoteRace(leftover) /\ task[k] \in TaskRecord
      /\ UNCHANGED <<started, streamState, votes, pb, young, startWrites, removed,
                     deletions, room, calls, song>>
      /\ task[k].pc \notin PcDriver
  BY DEF PrevRead, PrevUnplayCurrent, PrevUnplayPrev, PlayerTypeOK, StopStream, Stopped,
         processVars, audioVars, PcDriver, PcPlay
<1>2. raced' \in BOOLEAN /\ leftover' \subseteq Stream
  BY <1>1, RacedType
<1>3. CASE PrevRead(k)
  <2> DEFINE cur0 == Last(CurrentRows)
             prev0 == Last(RowsBefore(cur0))
             next == [task[k] EXCEPT !.pc = "prevUnplayCurrent", !.row = cur0,
                                     !.prev = prev0, !.track = queue[prev0].track]
  <2>1. /\ UNCHANGED <<proc, queue>>
        /\ Become(k, IF pb.track = NoTrack \/ CurrentRows = {} \/ RowsBefore(cur0) = {}
                     THEN Free ELSE next)
    BY <1>3 DEF PrevRead, audioVars
  <2>2. \A s \in Stream: Pending(s) => Pending(s)'
    BY <1>1, <2>1 DEF Pending
  <2>3. CASE Become(k, Free)
    <3>1. Free.pc \notin PcTrack \cup PcVote
      BY TaskRecords DEF PcTrack, PcPlay, PcVote
    <3> QED
      BY <1>1, <1>2, <2>1, <2>2, <2>3, <3>1, TaskRecords, OneCallMoves
         DEF PlayerTypeOK, StartsAreCounted, TracksAreKnown
  <2>4. CASE CurrentRows # {} /\ RowsBefore(cur0) # {} /\ Become(k, next)
    <3>1. cur0 \in Row
      BY <2>4, LastIsRow DEF CurrentRows
    <3>2. prev0 \in Row /\ queue[prev0].st = "played"
      BY <2>4, LastIsRow DEF RowsBefore
    <3>3. /\ queue[prev0].track \in SomeTrack
          /\ deletions = 0 => queue[prev0].track # NoTrack
      BY <3>2 DEF PlayerTypeOK, TracksAreKnown
    <3> HIDE DEF cur0, prev0
    <3>4. /\ next \in TaskRecord /\ next.pc = "prevUnplayCurrent"
          /\ next.track = queue[prev0].track
      BY <1>1, <3>1, <3>2, <3>3 DEF TaskRecord, Pc, PcPrev
    <3>5. next.pc \notin PcVote
      BY <3>4 DEF PcVote
    <3> HIDE DEF next
    <3> QED
      BY <1>1, <1>2, <2>1, <2>2, <2>4, <3>3, <3>4, <3>5, OneCallMoves
         DEF PlayerTypeOK, StartsAreCounted, TracksAreKnown
  <2> QED BY <2>1, <2>3, <2>4
<1>4. CASE PrevUnplayCurrent(k)
  <2> DEFINE tk == [task[k] EXCEPT !.pc = "prevUnplayPrev"]
  <2>1. /\ tk \in TaskRecord /\ tk.pc = "prevUnplayPrev" /\ tk.track = task[k].track
        /\ deletions = 0 => task[k].track # NoTrack
    BY <1>1, <1>4, TaskMoves
       DEF Pc, PcPrev, PrevUnplayCurrent, TracksAreKnown, PcTrack
  <2>2. /\ Become(k, tk) /\ proc' = proc /\ queue' = Unplay(task[k].row)
    BY <1>4 DEF PrevUnplayCurrent, audioVars
  <2>3. \A s \in Stream: Pending(s) => Pending(s)'
    BY <1>1, <2>2 DEF Pending
  <2>4. tk.pc \notin PcVote
    BY <2>1 DEF PcVote
  <2> HIDE DEF tk
  <2> QED
    BY <1>1, <1>2, <2>1, <2>2, <2>3, <2>4, UnplayKeepsRows, OneCallMoves
       DEF PlayerTypeOK, StartsAreCounted
<1>5. CASE PrevUnplayPrev(k)
  <2>1. /\ task[k].track \in SomeTrack
        /\ deletions = 0 => task[k].track # NoTrack
    BY <1>1, <1>5 DEF PrevUnplayPrev, TaskRecord, TracksAreKnown, PcTrack
  <2>2. PICK tk \in {Free, Playing(task[k].track)}:
          /\ Become(k, tk)
          /\ task[k].track # NoTrack => tk = Playing(task[k].track)
    BY <1>5 DEF PrevUnplayPrev
  <2>3. /\ tk \in TaskRecord
        /\ tk.pc \in PcTrack => tk.track # NoTrack \/ deletions # 0
        /\ tk.pc \in PcDriver \/ deletions # 0
        /\ tk.pc \notin PcVote
    BY <2>1, <2>2, TaskRecords DEF PcTrack, PcDriver, PcPlay, PcVote
  <2>4. queue' = Unplay(task[k].prev)
    BY <1>5 DEF PrevUnplayPrev
  <2> QED
    BY <1>1, <1>2, <2>2, <2>3, <2>4, UnplayKeepsRows, OneCallMoves
       DEF PlayerTypeOK, StartsAreCounted
<1> QED BY <1>3, <1>4, <1>5

LEMMA TaskStepKeeps ==
  ASSUME AudioInv, PlayerInv, NEW k \in Task, TaskStep(k)
  PROVE  PlayerInv'
BY ReadingKeeps, PlayKeeps, TrackEndKeeps, SkipKeeps, PreviousKeeps DEF TaskStep

-------------------------------------------------------------------------------
(* The events of process s: the last chance of its onStart is its close event,
   so a stream stops being pending only when the room is streaming. *)
SomeEvent(s) ==
  \/ DropData(s)
  \/ \E withMedia \in BOOLEAN: ReadHeader(s, withMedia)
  \/ Media(s)
  \/ Drain(s)
  \/ CloseStale(s)
  \/ CloseRetry(s)
  \/ CloseEnd(s)
  \/ RetryFails(s)

LEMMA EventFacts ==
  ASSUME AudioInv, PlayerTypeOK, NEW s \in Stream, SomeEvent(s), OnStart(s)
  PROVE  /\ started' = started \/ started' = started \cup {s}
         /\ \/ streamState' = "streaming"
            \/ /\ streamState' = streamState
               /\ \A t \in Stream: Pending(t) => Pending(t)'
<1>1. started' = started \/ started' = started \cup {s}
  BY DEF SomeEvent, DropData, ReadHeader, Media, Drain, CloseStale, CloseRetry, CloseEnd,
         RetryFails, Closing
<1>2. CASE s \notin started /\ s \in started'
  BY <1>1, <1>2 DEF OnStart
<1>3. CASE ~(s \notin started /\ s \in started')
  <2>1. streamState' = streamState /\ started' = started
    BY <1>1, <1>3 DEF OnStart
  <2>2. \A t \in Stream: proc[t] = "live" => proc'[t] = "live" \/ (t = s /\ s \in started')
    <3>1. CASE Closing(s)
      BY <3>1 DEF Closing, AudioInv, AudioTypeOK
    <3>2. CASE Drain(s)
      BY <3>2 DEF Drain, AudioInv, AudioTypeOK
    <3>3. CASE proc' = proc
      BY <3>3
    <3> QED
      BY <3>1, <3>2, <3>3
         DEF SomeEvent, DropData, ReadHeader, Media, CloseStale, CloseRetry, CloseEnd,
             RetryFails
  <2> QED BY <2>1, <2>2 DEF Pending
<1> QED BY <1>1, <1>2, <1>3

LEMMA StreamStepKeeps ==
  ASSUME AudioInv, PlayerInv, NEW s \in Stream, StreamStep(s)
  PROVE  PlayerInv'
<1> USE DEF PlayerInv
<1>1. started \subseteq Stream /\ startWrites \in Nat
  BY AudioAssumption DEF AudioInv, AudioTypeOK, PlayerTypeOK
<1>2. CASE StreamEvent(s)
  <2>1. /\ SomeEvent(s) /\ OnStart(s) /\ NoteRace(leftover)
        /\ UNCHANGED <<votes, queue, pb, young, task, song, removed, deletions, room, calls>>
    BY <1>2 DEF StreamEvent, SomeEvent
  <2>2. startWrites' \in 0 .. MaxSpawns /\ StartsAreCounted'
    BY <1>1, <2>1, EventFacts, OnStartCounts
  <2>3. raced' \in BOOLEAN /\ leftover' \subseteq Stream
    BY <2>1, RacedType
  <2>4. \/ streamState' = "streaming"
        \/ /\ streamState' = streamState
           /\ \A t \in Stream: Pending(t) => Pending(t)'
    BY <2>1, EventFacts
  <2>5. PlayerTypeOK'
    BY <2>1, <2>2, <2>3, <2>4 DEF PlayerTypeOK
  <2>6. TracksAreKnown' /\ VotesHaveVoters'
    BY <2>1 DEF TracksAreKnown, VotesHaveVoters
  <2>7. TransitionHasDriver'
    BY <2>1, <2>4 DEF TransitionHasDriver, Pending
  <2> QED BY <2>2, <2>5, <2>6, <2>7
<1>3. CASE RespawnSong(s)
  <2> DEFINE left == IF s \in leftover THEN leftover \cup {spawned'} ELSE leftover
  <2>1. /\ NoteRace(left) /\ spawned < MaxSpawns /\ spawned' = spawned + 1
        /\ proc' = [proc EXCEPT ![spawned'] = "live"]
        /\ UNCHANGED <<started, streamState, votes, queue, pb, young, task, startWrites,
                       removed, deletions, room, calls>>
    BY <1>3 DEF RespawnSong, RetrySpawn, SpawnFfmpeg
  <2>2. raced' \in BOOLEAN /\ leftover' \subseteq Stream
    <3>1. spawned' \in Stream
      BY <2>1, AudioAssumption DEF Stream, AudioInv, AudioTypeOK
    <3>2. left \in SUBSET Stream
      BY <3>1 DEF PlayerTypeOK
    <3> HIDE DEF left
    <3> QED BY <2>1, <3>2, RacedType
  <2>3. \A t \in Stream: Pending(t) => Pending(t)'
    BY <2>1 DEF Pending, AudioInv, AudioTypeOK
  <2>4. song' \in [Stream -> SomeTrack]
    BY <1>3 DEF RespawnSong, PlayerTypeOK
  <2>5. PlayerTypeOK' /\ StartsAreCounted'
    BY <2>1, <2>2, <2>4 DEF PlayerTypeOK, StartsAreCounted
  <2>6. TracksAreKnown' /\ VotesHaveVoters'
    BY <2>1 DEF TracksAreKnown, VotesHaveVoters
  <2>7. TransitionHasDriver'
    BY <2>1, <2>3 DEF TransitionHasDriver, Pending
  <2> QED BY <2>5, <2>6, <2>7
<1>4. ASSUME NEW k \in Task, StreamEnds(k, s)
      PROVE  PlayerInv'
  <2>1. /\ FreeSlot(k) /\ SomeEvent(s) /\ OnStart(s) /\ OnTrackEnd(k) /\ NoteRace(leftover)
        /\ UNCHANGED <<votes, queue, pb, young, song, removed, deletions, room, calls>>
    BY <1>4 DEF StreamEnds, SomeEvent
  <2>2. startWrites' \in 0 .. MaxSpawns /\ StartsAreCounted'
    BY <1>1, <2>1, EventFacts, OnStartCounts
  <2>3. raced' \in BOOLEAN /\ leftover' \subseteq Stream
    BY <2>1, RacedType
  <2>4. \/ streamState' = "streaming"
        \/ /\ streamState' = streamState
           /\ \A t \in Stream: Pending(t) => Pending(t)'
    BY <2>1, EventFacts
  <2>5. PICK tk \in TaskRecord: Become(k, tk) /\ tk.pc \in {"free", "endPb"}
    BY <2>1, TaskRecords, EndingRecord DEF OnTrackEnd, Become
  <2>6. /\ tk.pc \notin PcTrack \cup PcVote
        /\ task[k].pc \notin PcDriver
    BY <2>1, <2>5 DEF FreeSlot, PcTrack, PcVote, PcDriver, PcPlay
  <2> QED
    BY <2>1, <2>2, <2>3, <2>4, <2>5, <2>6, OneCallMoves
       DEF PlayerTypeOK, TracksAreKnown, InTransition
<1> QED BY <1>2, <1>3, <1>4 DEF StreamStep

-------------------------------------------------------------------------------
LEMMA PlayerInitInv == PlayerInit => PlayerInv
<1> SUFFICES ASSUME PlayerInit
             PROVE  PlayerInv
  OBVIOUS
<1>1. PlayerTypeOK
  <2>1. AbsentRow \in [st: {"absent", "unplayed", "played"}, track: SomeTrack]
    BY DEF AbsentRow, SomeTrack
  <2>2. /\ queue \in [Row -> [st: {"absent", "unplayed", "played"}, track: SomeTrack]]
        /\ pb \in [track: SomeTrack, isPlaying: BOOLEAN]
        /\ song \in [Stream -> SomeTrack]
    BY <2>1 DEF PlayerInit, SomeTrack
  <2>3. task \in [Task -> TaskRecord]
    BY TaskRecords DEF PlayerInit
  <2>4. deletions \in 0 .. MaxDeletions /\ calls \in 0 .. MaxCalls
    BY PlayerAssumption DEF PlayerInit
  <2>5. startWrites \in 0 .. MaxSpawns
    BY AudioAssumption DEF PlayerInit
  <2> QED BY <2>2, <2>3, <2>4, <2>5 DEF PlayerInit, PlayerTypeOK
<1>2. StartsAreCounted
  BY FS_EmptySet DEF PlayerInit, AudioInit, StartsAreCounted
<1>3. TracksAreKnown /\ VotesHaveVoters /\ TransitionHasDriver
  BY TaskRecords DEF PlayerInit, AbsentRow, TracksAreKnown, VotesHaveVoters,
                     TransitionHasDriver, PcTrack, PcVote, PcPlay
<1> QED BY <1>1, <1>2, <1>3 DEF PlayerInv

LEMMA PlayerNextKeeps ==
  ASSUME AudioInv, PlayerInv, [PlayerNext]_vars
  PROVE  PlayerInv'
<1>1. CASE UserNext
  BY <1>1, RequestKeeps, PauseAddKeeps, NoCallMoves DEF UserNext
<1>2. CASE \E k \in Task: TaskStep(k)
  BY <1>2, TaskStepKeeps
<1>3. CASE \E s \in Stream: StreamStep(s)
  BY <1>3, StreamStepKeeps
<1>4. CASE StartedAtSaved \/ Age \/ RoomDeleted
  BY <1>4, NoCallMoves
<1>5. CASE CloseRoom
  <2>1. /\ room' \in {"closing", "gone"} /\ started' = started
        /\ UNCHANGED <<streamState, votes, queue, pb, young, task, startWrites, song,
                       removed, deletions, calls, raced, leftover>>
    BY <1>5 DEF CloseRoom, DestroyRoom, Stopped, audioVars, PlayerInv, PlayerTypeOK
  <2> QED
    BY <2>1 DEF PlayerInv, PlayerTypeOK, StartsAreCounted, TracksAreKnown, VotesHaveVoters,
                TransitionHasDriver
<1>6. CASE ListenerStep \/ UNCHANGED vars
  <2>1. UNCHANGED <<proc, started, playerVars>>
    BY <1>6 DEF ListenerStep, ListenerNext, AddListener, RemoveListener, UnsyncListener,
                ResyncListener, processVars, vars, audioVars
  <2> QED
    BY <2>1 DEF playerVars, PlayerInv, PlayerTypeOK, StartsAreCounted, TracksAreKnown,
                VotesHaveVoters, TransitionHasDriver
<1> QED BY <1>1, <1>2, <1>3, <1>4, <1>5, <1>6 DEF PlayerNext

(* PlayerService, with every call it has in flight, uses AudioService as its
   specification says: each behaviour of the player is one of the streams. *)
THEOREM PlayerDrivesAudio == PlayerSpec => AudioSpec
<1>1. PlayerInit => AudioInit
  BY DEF PlayerInit
<1>2. [PlayerNext]_vars => [AudioNext]_audioVars
  BY StepsOfAudio DEF vars
<1> QED BY <1>1, <1>2, PTL DEF PlayerSpec, AudioSpec

(* So a listener in sync decodes the stream the room plays, whatever overlaps. *)
THEOREM ListenersOfPlayerAreCurrent == PlayerSpec => []SyncedHasCurrentInit
BY PlayerDrivesAudio, SyncedListenersAreCurrent, PTL

(* The inductive invariant holds in every state of the player. *)
THEOREM PlayerInvariant == PlayerSpec => []PlayerInv
<1>1. PlayerInit => PlayerInv
  BY PlayerInitInv
<1>2. AudioInv /\ PlayerInv /\ [PlayerNext]_vars => PlayerInv'
  BY PlayerNextKeeps
<1> QED BY <1>1, <1>2, PlayerDrivesAudio, AudioInvariant, PTL DEF PlayerSpec

(* The player's state keeps its shape; the updates of startedAt that are owed
   never outnumber the streams. *)
THEOREM PlayerTypeCorrect == PlayerSpec => []PlayerTypeOK
<1>1. PlayerInv => PlayerTypeOK
  BY DEF PlayerInv
<1> QED BY <1>1, PlayerInvariant, PTL

(* A room that rejects skips and votes because it is preparing or skipping has a
   call or a process under way that will end that state, however many calls of
   play, skip, previous and onTrackEnd overlap. *)
THEOREM TransitionsHaveDrivers == PlayerSpec => []TransitionHasDriver
<1>1. PlayerInv => TransitionHasDriver
  BY DEF PlayerInv
<1> QED BY <1>1, PlayerInvariant, PTL

-------------------------------------------------------------------------------
(***************************************************************************)
(* What the room hears is what its row says, as long as nothing overlaps   *)
(* and no refused URL has left an older stream running.                    *)
(*                                                                         *)
(* Between the save of the row and the start of the stream, and while a    *)
(* track ends, the two differ: what holds then is that the call under way  *)
(* carries the row's track, that a call that ends a track finds no stream, *)
(* and that a retry brings back the track of the row.                      *)
(***************************************************************************)
CurLive == cur \in Stream /\ proc[cur] = "live"

(* What raced records: there is one driver, a call or a retry, at a time. *)
OneDriver == raced \/ Cardinality(Drivers) + Cardinality(retrying) <= 1

TrackAgrees ==
  CurLive /\ cur \notin leftover /\ (\A k \in Task: task[k].pc # "playUrl") =>
    pb.track = song[cur]
EndIsQuiet ==
  CurLive => /\ retrying = {}
             /\ cur \notin leftover => \A k \in Task: task[k].pc \notin PcEnd
RetriesAgree == \A s \in retrying \ leftover: pb.track = song[s]
PlaysAgree == \A k \in Task: task[k].pc = "playUrl" => pb.track = task[k].track

Agreement ==
  ~raced /\ room = "open" => TrackAgrees /\ EndIsQuiet /\ RetriesAgree /\ PlaysAgree

AgreeInv == OneDriver /\ Agreement

(* Two finite sets with one element between them. *)
LEMMA OneBetween ==
  ASSUME NEW D, NEW R, IsFiniteSet(D), IsFiniteSet(R),
         Cardinality(D) + Cardinality(R) <= 1
  PROVE  /\ D # {} => R = {}
         /\ \A x, y \in D: x = y
         /\ \A x, y \in R: x = y
<1>1. ASSUME NEW S, IsFiniteSet(S)
      PROVE  /\ Cardinality(S) \in Nat /\ (S # {} => Cardinality(S) >= 1)
             /\ \A x, y \in S: x # y => Cardinality(S) >= 2
  <2>1. Cardinality(S) \in Nat /\ (S # {} => Cardinality(S) # 0)
    BY <1>1, FS_CardinalityType, FS_EmptySet
  <2>2. ASSUME NEW x \in S, NEW y \in S, x # y
        PROVE  Cardinality(S) >= 2
    <3>1. /\ IsFiniteSet(S \ {x}) /\ Cardinality(S \ {x}) = Cardinality(S) - 1
          /\ y \in S \ {x}
      BY <1>1, <2>2, FS_RemoveElement
    <3>2. Cardinality(S \ {x}) \in Nat /\ Cardinality(S \ {x}) # 0
      BY <3>1, FS_CardinalityType, FS_EmptySet
    <3> QED BY <2>1, <3>1, <3>2
  <2> QED BY <2>1, <2>2
<1>2. /\ Cardinality(D) \in Nat /\ (D # {} => Cardinality(D) >= 1)
      /\ \A x, y \in D: x # y => Cardinality(D) >= 2
  BY <1>1
<1>3. /\ Cardinality(R) \in Nat /\ (R # {} => Cardinality(R) >= 1)
      /\ \A x, y \in R: x # y => Cardinality(R) >= 2
  BY <1>1
<1> QED BY <1>2, <1>3

LEMMA DriversAreFew ==
  /\ \A D \in SUBSET Task: IsFiniteSet(D) /\ Cardinality(D) \in Nat
  /\ \A R \in SUBSET Stream: IsFiniteSet(R) /\ Cardinality(R) \in Nat
<1>1. IsFiniteSet(Task) /\ IsFiniteSet(Stream)
  BY FS_Interval, AudioAssumption, PlayerAssumption, SMT DEF Task, Stream
<1> QED BY <1>1, FS_Subset, FS_CardinalityType

(* Without a race a call that drives the player is alone, before and after a step. *)
LEMMA DriverIsAlone ==
  ASSUME OneDriver, ~raced, retrying \subseteq Stream
  PROVE  /\ \A j, k \in Task: Driving(task[j]) /\ Driving(task[k]) => j = k
         /\ \A k \in Task: Driving(task[k]) => retrying = {}
         /\ \A s, t \in retrying: s = t
<1>1. Cardinality(Drivers) + Cardinality(retrying) <= 1
  BY DEF OneDriver
<1>2. IsFiniteSet(Drivers) /\ IsFiniteSet(retrying)
  BY DriversAreFew DEF Drivers
<1>3. /\ Drivers # {} => retrying = {}
      /\ \A x, y \in Drivers: x = y
      /\ \A x, y \in retrying: x = y
  BY <1>1, <1>2, OneBetween
<1> QED BY <1>3 DEF Drivers

LEMMA DriverIsAloneNext ==
  ASSUME OneDriver', ~raced', retrying' \subseteq Stream
  PROVE  /\ \A j, k \in Task: Driving(task'[j]) /\ Driving(task'[k]) => j = k
         /\ \A k \in Task: Driving(task'[k]) => retrying' = {}
         /\ \A s, t \in retrying': s = t
<1>1. Cardinality(Drivers') + Cardinality(retrying') <= 1
  BY DEF OneDriver
<1>2. IsFiniteSet(Drivers') /\ IsFiniteSet(retrying')
  BY DriversAreFew DEF Drivers
<1>3. /\ Drivers' # {} => retrying' = {}
      /\ \A x, y \in Drivers': x = y
      /\ \A x, y \in retrying': x = y
  BY <1>1, <1>2, OneBetween
<1> QED BY <1>3 DEF Drivers

LEMMA RaceIsNoted ==
  ASSUME NEW left, NoteRace(left), retrying' \subseteq Stream
  PROVE  OneDriver' /\ (raced => raced')
<1>1. Cardinality(Drivers') \in Nat /\ Cardinality(retrying') \in Nat
  BY DriversAreFew DEF Drivers
<1>2. ~(Cardinality(Drivers') + Cardinality(retrying') > 1)
        => Cardinality(Drivers') + Cardinality(retrying') <= 1
  BY <1>1
<1> QED BY <1>2, Zenon DEF NoteRace, OneDriver

(* A step that leaves row and stream as they are, or stops the stream. *)
Undisturbed ==
  /\ room = "open" /\ ~raced
  /\ pb'.track = pb.track /\ retrying' \subseteq retrying /\ leftover \subseteq leftover'
  /\ \A s \in retrying': song'[s] = song[s]
  /\ CurLive' => CurLive /\ cur' = cur /\ song'[cur] = song[cur]
  /\ CurLive' /\ cur' \notin leftover' =>
       \A k \in Task: /\ task'[k].pc \in PcEnd => task[k].pc \in PcEnd
                      /\ task[k].pc = "playUrl" => task'[k].pc = "playUrl"
  /\ \A k \in Task: task'[k].pc = "playUrl" => task'[k] = task[k]

LEMMA UndisturbedAgrees ==
  ASSUME AgreeInv, ~raced' /\ room' = "open" => Undisturbed
  PROVE  Agreement'
<1> SUFFICES ASSUME ~raced', room' = "open"
             PROVE  TrackAgrees' /\ EndIsQuiet' /\ RetriesAgree' /\ PlaysAgree'
  BY DEF Agreement
<1>1. Undisturbed /\ TrackAgrees /\ EndIsQuiet /\ RetriesAgree /\ PlaysAgree
  BY DEF AgreeInv, Agreement, Undisturbed
<1>2. TrackAgrees'
  BY <1>1 DEF TrackAgrees, Undisturbed
<1>3. EndIsQuiet'
  BY <1>1 DEF EndIsQuiet, Undisturbed
<1>4. RetriesAgree'
  BY <1>1 DEF RetriesAgree, Undisturbed
<1>5. PlaysAgree'
  BY <1>1 DEF PlaysAgree, Undisturbed
<1> QED BY <1>2, <1>3, <1>4, <1>5

(* A call that moves on while the streams stay as they are. *)
LEMMA CallMovesOn ==
  ASSUME PlayerInv, AudioInv, AgreeInv, NEW k \in Task, NEW tk, Become(k, tk),
         NoteRace(leftover), UNCHANGED <<cur, proc, retrying, song, room>>,
         pb'.track = pb.track, task[k].pc # "playUrl", tk.pc # "playUrl",
         tk.pc \in PcEnd => task[k].pc \in PcEnd
  PROVE  AgreeInv'
<1>1. retrying' \subseteq Stream
  BY DEF AudioInv, AudioTypeOK
<1>2. OneDriver' /\ (raced => raced')
  BY <1>1, RaceIsNoted
<1>3. \A j \in Task: task'[j] = IF j = k THEN tk ELSE task[j]
  BY DEF Become, PlayerInv, PlayerTypeOK
<1>4. ~raced' /\ room' = "open" => Undisturbed
  BY <1>2, <1>3 DEF Undisturbed, CurLive, NoteRace
<1> QED BY <1>2, <1>4, UndisturbedAgrees DEF AgreeInv

(* A live process of the room is the one its object names. *)
LEMMA LiveIsHeld ==
  ASSUME AudioInv, CurLive
  PROVE  HasFfmpeg
<1>1. cur \in Stream /\ proc[cur] = "live" /\ cur = spawned /\ Stream \subseteq Nat
  BY DEF CurLive, AudioInv, NewestIsRoom, Stream
<1>2. \A t \in Stream: t > cur => attempt[t] = 0
  BY <1>1 DEF AudioInv, UnbornIsBlank
<1>3. IsRoomFfmpeg(cur)
  BY <1>1, <1>2 DEF AudioInv, OrphansOnlyFromRetry
<1> QED BY <1>1, <1>3, AudioAssumption DEF IsRoomFfmpeg, HasFfmpeg

LEMMA StopSilences ==
  ASSUME AudioInv, StopStream
  PROVE  ~CurLive' /\ UNCHANGED retrying
<1>1. CASE cur = NoRoom
  BY <1>1, AudioAssumption DEF StopStream, CurLive, Stream, processVars
<1>2. CASE cur # NoRoom
  <2>1. UNCHANGED <<cur, retrying>> /\ proc' = IF HasFfmpeg THEN Killed(cur) ELSE proc
    BY <1>2 DEF StopStream, Stopped
  <2>2. CASE CurLive
    BY <2>1, <2>2, LiveIsHeld DEF Killed, CurLive, AudioInv, AudioTypeOK
  <2>3. CASE ~CurLive
    BY <2>1, <2>3 DEF Killed, CurLive, AudioInv, AudioTypeOK
  <2> QED BY <2>1, <2>2, <2>3
<1> QED BY <1>1, <1>2

(* doSkip, and previous: the stream stops and a call goes on that has not the
   row's track to announce. *)
LEMMA StopMovesOn ==
  ASSUME PlayerInv, AudioInv, AgreeInv, NEW k \in Task, NEW tk, Become(k, tk),
         StopStream, NoteRace(leftover), UNCHANGED <<song, room, pb>>, tk.pc # "playUrl"
  PROVE  AgreeInv'
<1>1. ~CurLive' /\ UNCHANGED retrying /\ retrying' \subseteq Stream
  BY StopSilences DEF AudioInv, AudioTypeOK
<1>2. OneDriver' /\ (raced => raced')
  BY <1>1, RaceIsNoted
<1>3. \A j \in Task: task'[j] = IF j = k THEN tk ELSE task[j]
  BY DEF Become, PlayerInv, PlayerTypeOK
<1>4. ~raced' /\ room' = "open" => Undisturbed
  BY <1>1, <1>2, <1>3 DEF Undisturbed, NoteRace
<1> QED BY <1>2, <1>4, UndisturbedAgrees DEF AgreeInv

(* A stream of the row's track starts. *)
LEMMA StartAgrees ==
  ASSUME PlayerInv, AudioInv, AgreeInv, NEW k \in Task, Driving(task[k]),
         NEW t \in SomeTrack, StartSong(t), Become(k, Free), NoteRace(leftover),
         UNCHANGED room, ~raced /\ room = "open" => pb'.track = t
  PROVE  AgreeInv'
<1>1. /\ UNCHANGED retrying /\ spawned' \in Stream /\ cur' = spawned'
      /\ song'[spawned'] = t /\ retrying' \subseteq Stream
  <2>1. /\ UNCHANGED retrying /\ spawned' = spawned + 1 /\ cur' = spawned'
        /\ spawned < MaxSpawns
    BY DEF StartSong, StartStream, SpawnFfmpeg
  <2>2. spawned' \in Stream
    BY <2>1, AudioAssumption DEF Stream, AudioInv, AudioTypeOK
  <2> QED BY <2>1, <2>2 DEF StartSong, PlayerInv, PlayerTypeOK, AudioInv, AudioTypeOK
<1>2. OneDriver' /\ (raced => raced')
  BY <1>1, RaceIsNoted
<1>3. \A j \in Task: task'[j] = IF j = k THEN Free ELSE task[j]
  BY DEF Become, PlayerInv, PlayerTypeOK
<1>4. ASSUME ~raced', room' = "open"
      PROVE  TrackAgrees' /\ EndIsQuiet' /\ RetriesAgree' /\ PlaysAgree'
  <2>1. retrying' = {} /\ \A j \in Task: j # k => ~Driving(task[j])
    BY <1>1, <1>2, <1>4, DriverIsAlone DEF AgreeInv
  <2>2. \A j \in Task: task'[j].pc # "playUrl" /\ task'[j].pc \notin PcEnd
    BY <1>3, <2>1, TaskRecords DEF Driving, PcPlay, PcEnd
  <2> QED BY <1>1, <1>2, <1>4, <2>1, <2>2
          DEF TrackAgrees, EndIsQuiet, RetriesAgree, PlaysAgree
<1> QED BY <1>2, <1>4 DEF AgreeInv, Agreement

(* The row is saved; the call goes on to ask for the URL. *)
LEMMA PlaySaveAgrees ==
  ASSUME PlayerInv, AudioInv, AgreeInv, NEW k \in Task, PlaySave(k)
  PROVE  AgreeInv'
<1> DEFINE t == task[k].track
<1>0. /\ task[k].pc = "playSave" /\ t \in SomeTrack /\ Driving(task[k])
      /\ NoteRace(leftover) /\ UNCHANGED room /\ task[k] \in TaskRecord
  BY DEF PlaySave, PlayerInv, PlayerTypeOK, TaskRecord, Driving, PcPlay
<1>1. CASE Become(k, Free) /\ UNCHANGED <<audioVars, pb, song>>
  BY <1>0, <1>1, TaskRecords, CallMovesOn DEF audioVars, PcEnd
<1>2. CASE Become(k, Free) /\ StartSong(t) /\ pb' = SavedPlayback(t)
  <2>1. pb'.track = t
    BY <1>2 DEF SavedPlayback
  <2> HIDE DEF t
  <2> QED BY <1>0, <1>2, <2>1, StartAgrees
<1>3. CASE /\ UNCHANGED <<audioVars, song>> /\ pb' = SavedPlayback(t)
           /\ Become(k, [task[k] EXCEPT !.pc = "playUrl"])
  <2>1. UNCHANGED <<cur, proc, retrying, song>> /\ retrying' \subseteq Stream /\ pb'.track = t
    BY <1>3 DEF audioVars, SavedPlayback, AudioInv, AudioTypeOK
  <2>2. OneDriver' /\ (raced => raced')
    BY <1>0, <2>1, RaceIsNoted
  <2>3. /\ task'[k].pc = "playUrl" /\ task'[k].track = t
        /\ \A j \in Task: j # k => task'[j] = task[j]
    BY <1>0, <1>3, TaskMoves DEF Become, PlayerInv, PlayerTypeOK, Pc, PcPlay
  <2>4. ASSUME ~raced', room' = "open"
        PROVE  TrackAgrees' /\ EndIsQuiet' /\ RetriesAgree' /\ PlaysAgree'
    <3>1. retrying' = {} /\ \A j \in Task: j # k => ~Driving(task'[j])
      BY <1>0, <2>1, <2>2, <2>3, <2>4, DriverIsAlone DEF AgreeInv
    <3>2. \A j \in Task: /\ task'[j].pc \notin PcEnd
                         /\ task'[j].pc = "playUrl" => j = k
      BY <2>3, <3>1 DEF Driving, PcPlay, PcEnd
    <3> QED BY <2>1, <2>3, <3>1, <3>2
            DEF TrackAgrees, EndIsQuiet, RetriesAgree, PlaysAgree
  <2> QED BY <2>2, <2>4 DEF AgreeInv, Agreement
<1> QED BY <1>1, <1>2, <1>3 DEF PlaySave

LEMMA PlayUrlAgrees ==
  ASSUME PlayerInv, AudioInv, AgreeInv, NEW k \in Task, PlayUrl(k)
  PROVE  AgreeInv'
<1> DEFINE t == task[k].track
<1>1. /\ task[k].pc = "playUrl" /\ t \in SomeTrack /\ Driving(task[k])
      /\ NoteRace(leftover) /\ UNCHANGED <<room, pb>> /\ StartSong(t) /\ Become(k, Free)
  BY DEF PlayUrl, PlayerInv, PlayerTypeOK, TaskRecord, Driving, PcPlay
<1>2. ~raced /\ room = "open" => pb'.track = t
  BY <1>1 DEF AgreeInv, Agreement, PlaysAgree
<1> HIDE DEF t
<1> QED BY <1>1, <1>2, StartAgrees

(* A play that fails beside a stream leaves it over. *)
LEMMA PlayUrlFailsAgrees ==
  ASSUME PlayerInv, AudioInv, AgreeInv, NEW k \in Task, PlayUrlFails(k)
  PROVE  AgreeInv'
<1> DEFINE left == leftover \cup {s \in Stream: proc[s] = "live"}
<1>1. UNCHANGED <<audioVars, pb, song, room>> /\ OnTrackEnd(k) /\ NoteRace(left)
  BY DEF PlayUrlFails
<1>2. UNCHANGED <<cur, proc, retrying>> /\ retrying' \subseteq Stream
  BY <1>1 DEF audioVars, AudioInv, AudioTypeOK
<1>3. leftover' = left
  BY <1>1 DEF NoteRace
<1> HIDE DEF left
<1>4. OneDriver' /\ (raced => raced')
  BY <1>1, <1>2, RaceIsNoted
<1>5. leftover \subseteq leftover' /\ (CurLive' => CurLive /\ cur' \in leftover')
  BY <1>2, <1>3 DEF left, CurLive
<1>6. task'[k].pc # "playUrl" /\ \A j \in Task: j # k => task'[j] = task[j]
  BY <1>1, TaskRecords, EndingRecord DEF OnTrackEnd, PlayerInv, PlayerTypeOK
<1>7. ~raced' /\ room' = "open" => Undisturbed
  BY <1>1, <1>2, <1>4, <1>5, <1>6 DEF Undisturbed
<1> QED BY <1>4, <1>7, UndisturbedAgrees DEF AgreeInv

(* Nothing is left to play, and no stream runs that the row could fall behind,
   unless a refused URL has left it over. *)
LEMMA EndIdleAgrees ==
  ASSUME PlayerInv, AudioInv, AgreeInv, NEW k \in Task, EndIdle(k)
  PROVE  AgreeInv'
<1>1. /\ task[k].pc = "endIdle" /\ Driving(task[k]) /\ task[k].pc \in PcEnd
      /\ NoteRace(leftover) /\ Become(k, Free) /\ UNCHANGED <<audioVars, song, room>>
  BY DEF EndIdle, Driving, PcEnd
<1>2. UNCHANGED <<cur, proc, retrying>> /\ retrying' \subseteq Stream
  BY <1>1 DEF audioVars, AudioInv, AudioTypeOK
<1>3. OneDriver' /\ (raced => raced')
  BY <1>1, <1>2, RaceIsNoted
<1>4. task'[k] = Free /\ \A j \in Task: j # k => task'[j] = task[j]
  BY <1>1 DEF Become, PlayerInv, PlayerTypeOK
<1>5. ASSUME ~raced', room' = "open"
      PROVE  TrackAgrees' /\ EndIsQuiet' /\ RetriesAgree' /\ PlaysAgree'
  <2>1. retrying' = {} /\ \A j \in Task: j # k => ~Driving(task[j])
    BY <1>1, <1>2, <1>3, <1>5, DriverIsAlone DEF AgreeInv
  <2>2. CurLive' => cur' \in leftover'
    BY <1>1, <1>2, <1>3, <1>5 DEF AgreeInv, Agreement, EndIsQuiet, CurLive, NoteRace
  <2>3. \A j \in Task: task'[j].pc # "playUrl"
    BY <1>4, <2>1, TaskRecords DEF Driving, PcPlay
  <2> QED BY <2>1, <2>2, <2>3 DEF TrackAgrees, EndIsQuiet, RetriesAgree, PlaysAgree
<1> QED BY <1>3, <1>5 DEF AgreeInv, Agreement

LEMMA TaskStepAgrees ==
  ASSUME PlayerInv, AudioInv, AgreeInv, NEW k \in Task, TaskStep(k)
  PROVE  AgreeInv'
<1> DEFINE tk == task[k]
<1>0. /\ tk \in TaskRecord /\ pb \in [track: SomeTrack, isPlaying: BOOLEAN]
      /\ \A pc \in Pc: [tk EXCEPT !.pc = pc].pc = pc
  BY TaskMoves DEF PlayerInv, PlayerTypeOK
<1>1. CASE PlayFind(k) \/ PlayMark(k) \/ PrevRead(k) \/ PrevUnplayCurrent(k) \/ AutoStatus(k)
           \/ SkipAge(k)
  <2>1. /\ NoteRace(leftover) /\ UNCHANGED <<audioVars, song, room, pb>> /\ tk.pc # "playUrl"
    BY <1>1 DEF PlayFind, PlayMark, PrevRead, PrevUnplayCurrent, AutoStatus, SkipAge
  <2>2. PICK new: Become(k, new) /\ new.pc \notin PcEnd \cup {"playUrl"}
    <3>1. CASE PlayFind(k) \/ PlayMark(k) \/ PrevUnplayCurrent(k)
      <4>1. PICK pc \in {"playMark", "playSave", "prevUnplayPrev"}:
              Become(k, Free) \/ Become(k, [tk EXCEPT !.pc = pc])
        BY <3>1 DEF PlayFind, PlayMark, PrevUnplayCurrent
      <4>2. [tk EXCEPT !.pc = pc].pc = pc /\ pc \notin PcEnd \cup {"playUrl"}
        BY <1>0 DEF PcEnd, Pc, PcPlay, PcPrev
      <4> QED BY <4>1, <4>2, TaskRecords DEF PcEnd
    <3>2. CASE PrevRead(k)
      <4>1. PICK i, p, t: \/ Become(k, Free)
                          \/ Become(k, [tk EXCEPT !.pc = "prevUnplayCurrent", !.row = i,
                                                  !.prev = p, !.track = t])
        BY <3>2, Zenon DEF PrevRead
      <4>2. [tk EXCEPT !.pc = "prevUnplayCurrent", !.row = i, !.prev = p, !.track = t].pc
              = "prevUnplayCurrent"
        BY <1>0 DEF TaskRecord
      <4> QED BY <4>1, <4>2, TaskRecords DEF PcEnd
    <3>3. CASE AutoStatus(k)
      <4>1. tk.track \in SomeTrack
        BY <1>0 DEF TaskRecord
      <4> QED BY <3>3, <4>1, TaskRecords DEF AutoStatus, PcEnd
    <3>4. CASE SkipAge(k)
      <4>1. PICK pc \in {"skipNext", "voteNext", "prevRead"}:
              Become(k, Free) \/ Become(k, [tk EXCEPT !.pc = pc])
        BY <1>0, <3>4 DEF SkipAge, TaskRecord
      <4>2. [tk EXCEPT !.pc = pc].pc = pc /\ pc \notin PcEnd \cup {"playUrl"}
        BY <1>0 DEF PcEnd, Pc, PcSkip, PcPrev
      <4> QED BY <4>1, <4>2, TaskRecords DEF PcEnd
    <3> QED BY <1>1, <3>1, <3>2, <3>3, <3>4
  <2> QED BY <2>1, <2>2, CallMovesOn DEF audioVars
<1>2. CASE EndPb(k) \/ EndNext(k) \/ EndWait(k) \/ EndTake(k)
  <2>1. /\ NoteRace(leftover) /\ UNCHANGED <<audioVars, song, room, pb>> /\ tk.pc \in PcEnd
        /\ tk.pc # "playUrl"
    BY <1>2 DEF EndPb, EndNext, EndWait, EndTake, PcEnd
  <2>2. PICK new: Become(k, new) /\ new.pc # "playUrl"
    <3>1. CASE EndPb(k)
      BY <1>0, <3>1 DEF EndPb, PcEnd, Pc
    <3>2. CASE EndNext(k)
      <4>0. PICK pc \in {"endWait", "endTake"}:
              Become(k, At("endIdle"))
                \/ \E i, t: Become(k, [tk EXCEPT !.pc = pc, !.row = i, !.track = t])
        BY <3>2 DEF EndNext
      <4>1. PICK i, t: Become(k, At("endIdle"))
                         \/ Become(k, [tk EXCEPT !.pc = pc, !.row = i, !.track = t])
        BY <4>0
      <4>2. [tk EXCEPT !.pc = pc, !.row = i, !.track = t].pc = pc
        BY <1>0 DEF TaskRecord
      <4> QED BY <4>1, <4>2, TaskRecords DEF PcEnd, Pc
    <3>3. CASE EndWait(k)
      BY <1>0, <3>3 DEF EndWait, PcEnd, Pc
    <3>4. CASE EndTake(k)
      <4>1. tk.track \in SomeTrack
        BY <1>0 DEF TaskRecord
      <4> QED BY <3>4, <4>1, TaskRecords DEF EndTake
    <3> QED BY <1>2, <3>1, <3>2, <3>3, <3>4
  <2> QED BY <2>1, <2>2, CallMovesOn DEF audioVars
<1>3. CASE SkipNext(k) \/ VoteNext(k)
  <2>1. NoteRace(leftover) /\ UNCHANGED <<room, pb>> /\ tk.pc # "playUrl"
    BY <1>3 DEF SkipNext, VoteNext
  <2>2. CASE Become(k, Free) /\ UNCHANGED <<audioVars, song>>
    BY <2>1, <2>2, TaskRecords, CallMovesOn DEF audioVars, PcEnd
  <2>3. CASE DoSkip(k)
    BY <2>1, <2>3, TaskRecords, StopMovesOn DEF DoSkip, Pc, PcEnd
  <2> QED BY <1>3, <2>2, <2>3 DEF SkipNext, VoteNext
<1>4. CASE PrevUnplayPrev(k)
  <2>1. /\ NoteRace(leftover) /\ UNCHANGED <<song, room, pb>> /\ StopStream
        /\ Become(k, Free) \/ Become(k, Playing(tk.track))
    BY <1>4 DEF PrevUnplayPrev
  <2>2. tk.track \in SomeTrack
    BY <1>0 DEF TaskRecord
  <2> QED BY <2>1, <2>2, TaskRecords, StopMovesOn
<1>5. CASE PauseResumeSave(k)
  <2> DEFINE b == room # "gone" /\ tk.pc = "resumeSave"
  <2>1. /\ NoteRace(leftover) /\ UNCHANGED <<audioVars, song, room>> /\ Become(k, Free)
        /\ pb' = [pb EXCEPT !.isPlaying = b] /\ tk.pc # "playUrl"
    BY <1>5 DEF PauseResumeSave
  <2> HIDE DEF b
  <2>2. pb'.track = pb.track
    BY <1>0, <2>1
  <2> QED BY <2>1, <2>2, TaskRecords, CallMovesOn DEF audioVars, PcEnd
<1> QED BY <1>1, <1>2, <1>3, <1>4, <1>5, PlaySaveAgrees, PlayUrlAgrees, PlayUrlFailsAgrees,
           EndIdleAgrees DEF TaskStep

(* Requests start where they await for the first time; none of them drives yet, or
   it carries a track to play. *)
LEMMA RequestAgrees ==
  ASSUME PlayerInv, AudioInv, AgreeInv, NEW k \in Task,
         \/ \E t \in Track: CallPlay(k, t) \/ CallAdd(k, t)
         \/ \E u \in Voter: CallVoteSkip(k, u)
         \/ CallSkip(k) \/ CallPrevious(k) \/ CallPause(k) \/ CallResume(k)
  PROVE  AgreeInv'
<1>1. /\ task[k].pc = "free" /\ NoteRace(leftover)
      /\ UNCHANGED <<cur, proc, retrying, song, room, pb>>
  BY DEF CallPlay, CallAdd, CallVoteSkip, CallSkip, CallPrevious, CallPause, CallResume,
         Request, FreeSlot, PauseStream, ResumeStream, audioVars, processVars
<1>2. PICK new: Become(k, new) /\ new.pc \notin PcEnd \cup {"playUrl"}
  <2>1. CASE \E t \in Track: CallPlay(k, t)
    BY <2>1, TaskRecords DEF CallPlay, PcEnd, SomeTrack
  <2>2. CASE \E t \in Track: CallAdd(k, t)
    <3>1. PICK t \in Track: Become(k, [At("autoStatus") EXCEPT !.track = t])
      BY <2>2 DEF CallAdd
    <3>2. [At("autoStatus") EXCEPT !.track = t].pc = "autoStatus"
      BY DEF At, Free
    <3> QED BY <3>1, <3>2 DEF PcEnd
  <2>3. CASE \E u \in Voter: CallVoteSkip(k, u)
    <3>1. PICK u \in Voter: Become(k, [At("voteAge") EXCEPT !.user = u])
      BY <2>3 DEF CallVoteSkip
    <3>2. [At("voteAge") EXCEPT !.user = u].pc = "voteAge"
      BY DEF At, Free
    <3> QED BY <3>1, <3>2 DEF PcEnd
  <2>4. CASE CallSkip(k) \/ CallPrevious(k) \/ CallPause(k) \/ CallResume(k)
    <3>1. \E pc \in {"skipAge", "prevAge", "pauseSave", "resumeSave"}: Become(k, At(pc))
      BY <2>4 DEF CallSkip, CallPrevious, CallPause, CallResume
    <3>2. \A pc \in {"skipAge", "prevAge", "pauseSave", "resumeSave"}: At(pc).pc = pc
      BY TaskRecords DEF Pc, PcSkip, PcPrev
    <3> QED BY <3>1, <3>2 DEF PcEnd
  <2> QED BY <2>1, <2>2, <2>3, <2>4
<1> QED BY <1>1, <1>2, CallMovesOn

(* Steps in which no call moves and no process lives or dies. *)
LEMMA NobodyMoves ==
  ASSUME AgreeInv, UNCHANGED <<task, retrying, raced, leftover>>,
         \/ room' # "open"
         \/ UNCHANGED <<proc, song, room, pb>> /\ (cur' = cur \/ cur' \notin Stream)
  PROVE  AgreeInv'
<1>1. OneDriver'
  <2>1. Drivers' = Drivers
    BY DEF Drivers
  <2> QED BY <2>1 DEF AgreeInv, OneDriver
<1>2. ~raced' /\ room' = "open" => Undisturbed
  BY DEF Undisturbed, CurLive
<1>3. Agreement'
  BY <1>2, UndisturbedAgrees
<1> QED BY <1>1, <1>3 DEF AgreeInv

(* Processes start, close and retry. *)
LEMMA StreamEventAgrees ==
  ASSUME PlayerInv, AudioInv, AgreeInv, NEW s \in Stream, StreamEvent(s)
  PROVE  AgreeInv'
<1>1. /\ UNCHANGED <<pb, task, song, room>> /\ NoteRace(leftover)
      /\ \/ UNCHANGED <<proc, retrying>>
         \/ proc' = [proc EXCEPT ![s] = "gone"] /\ UNCHANGED retrying
         \/ CloseRetry(s)
  BY DEF StreamEvent, DropData, ReadHeader, Media, Drain, CloseStale, Closing
<1>2. UNCHANGED cur /\ proc \in [Stream -> ProcState]
  BY DEF StreamEvent, DropData, ReadHeader, Media, Drain, CloseStale, CloseRetry,
         roomVars, AudioInv, AudioTypeOK, ProcState
<1>3. CASE UNCHANGED retrying
  <2>1. CurLive' => CurLive
    BY <1>1, <1>2, <1>3 DEF AudioInv, AudioTypeOK, CurLive, CloseRetry, Closing
  <2>2. retrying' \subseteq Stream
    BY <1>3 DEF AudioInv, AudioTypeOK
  <2>3. OneDriver' /\ (raced => raced')
    BY <1>1, <2>2, RaceIsNoted
  <2>4. ~raced' /\ room' = "open" => Undisturbed
    BY <1>1, <1>2, <1>3, <2>1, <2>2, <2>3 DEF Undisturbed, NoteRace
  <2> QED BY <2>3, <2>4, UndisturbedAgrees DEF AgreeInv
<1>4. CASE CloseRetry(s)
  <2>1. /\ cur = s /\ proc[s] = "live" /\ proc' = [proc EXCEPT ![s] = "gone"]
        /\ retrying' = retrying \cup {s}
    BY <1>4 DEF CloseRetry, Closing, IsRoomFfmpeg
  <2>2. CurLive /\ ~CurLive' /\ retrying' \subseteq Stream
    BY <1>2, <2>1 DEF CurLive, AudioInv, AudioTypeOK
  <2>3. OneDriver' /\ (raced => raced')
    BY <1>1, <2>2, RaceIsNoted
  <2>4. ASSUME ~raced', room' = "open"
        PROVE  TrackAgrees' /\ EndIsQuiet' /\ RetriesAgree' /\ PlaysAgree'
    <3>1. \A k \in Task: ~Driving(task'[k])
      BY <2>1, <2>2, <2>3, <2>4, DriverIsAloneNext
    <3>2. \A k \in Task: task[k].pc # "playUrl"
      BY <1>1, <3>1 DEF Driving, PcPlay
    <3>3. TrackAgrees /\ EndIsQuiet
      BY <1>1, <2>3, <2>4 DEF AgreeInv, Agreement
    <3>4. retrying' = {s} /\ (s \notin leftover => pb.track = song[s])
      BY <2>1, <2>2, <3>2, <3>3 DEF TrackAgrees, EndIsQuiet
    <3>5. leftover' = leftover
      BY <1>1 DEF NoteRace
    <3> QED BY <1>1, <2>2, <3>2, <3>4, <3>5
            DEF TrackAgrees, EndIsQuiet, RetriesAgree, PlaysAgree
  <2> QED BY <2>3, <2>4 DEF AgreeInv, Agreement
<1> QED BY <1>1, <1>3, <1>4

LEMMA RespawnAgrees ==
  ASSUME PlayerInv, AudioInv, AgreeInv, NEW s \in Stream, RespawnSong(s)
  PROVE  AgreeInv'
<1>1. /\ s \in retrying /\ retrying' = retrying \ {s}
      /\ NoteRace(IF s \in leftover THEN leftover \cup {spawned'} ELSE leftover)
      /\ UNCHANGED <<pb, task, room>>
      /\ spawned' = spawned + 1 /\ cur' = spawned' /\ spawned < MaxSpawns
      /\ song' = [song EXCEPT ![spawned'] = song[s]]
  BY DEF RespawnSong, RetrySpawn, SpawnFfmpeg
<1>2. /\ spawned' \in Stream /\ song'[cur'] = song[s] /\ retrying' \subseteq Stream
  BY <1>1, AudioAssumption DEF Stream, AudioInv, AudioTypeOK, PlayerInv, PlayerTypeOK
<1>3. OneDriver' /\ (raced => raced')
  BY <1>1, <1>2, RaceIsNoted
<1>4. ASSUME ~raced', room' = "open"
      PROVE  TrackAgrees' /\ EndIsQuiet' /\ RetriesAgree' /\ PlaysAgree'
  <2>1. retrying \subseteq Stream
    BY DEF AudioInv, AudioTypeOK
  <2>2. retrying = {s} /\ \A k \in Task: ~Driving(task[k])
    BY <1>1, <1>3, <1>4, <2>1, DriverIsAlone DEF AgreeInv
  <2>3. \A k \in Task: task'[k].pc \notin PcEnd \cup {"playUrl"}
    BY <1>1, <2>2 DEF Driving, PcPlay, PcEnd
  <2>4. cur' \notin leftover' => s \notin leftover
    BY <1>1 DEF NoteRace
  <2>5. cur' \notin leftover' => pb.track = song[s]
    BY <1>1, <1>3, <1>4, <2>4 DEF AgreeInv, Agreement, RetriesAgree
  <2> QED BY <1>1, <1>2, <2>2, <2>3, <2>5
          DEF TrackAgrees, EndIsQuiet, RetriesAgree, PlaysAgree
<1> QED BY <1>3, <1>4 DEF AgreeInv, Agreement

LEMMA StreamEndsAgrees ==
  ASSUME PlayerInv, AudioInv, AgreeInv, NEW k \in Task, NEW s \in Stream, StreamEnds(k, s)
  PROVE  AgreeInv'
<1>1. /\ task[k].pc = "free" /\ OnTrackEnd(k) /\ NoteRace(leftover)
      /\ UNCHANGED <<pb, song, room, cur>>
      /\ \/ /\ cur = s /\ proc' = [proc EXCEPT ![s] = "gone"] /\ UNCHANGED retrying
         \/ /\ s \in retrying /\ retrying' = retrying \ {s} /\ UNCHANGED proc
  BY DEF StreamEnds, FreeSlot, CloseEnd, Closing, IsRoomFfmpeg, EndStream, RetryFails
<1>2. retrying' \subseteq Stream /\ proc \in [Stream -> ProcState]
  BY <1>1 DEF AudioInv, AudioTypeOK, ProcState
<1>3. OneDriver' /\ (raced => raced')
  BY <1>1, <1>2, RaceIsNoted
<1>4. task'[k].pc # "playUrl" /\ \A j \in Task: j # k => task'[j] = task[j]
  BY <1>1, TaskRecords, EndingRecord DEF OnTrackEnd, PlayerInv, PlayerTypeOK
<1>5. ~raced' /\ room' = "open" => ~CurLive'
  <2>1. CASE cur = s /\ proc' = [proc EXCEPT ![s] = "gone"]
    BY <1>1, <1>2, <2>1 DEF CurLive
  <2>2. CASE s \in retrying /\ UNCHANGED proc
    BY <1>1, <1>3, <2>2 DEF AgreeInv, Agreement, EndIsQuiet, CurLive
  <2> QED BY <1>1, <2>1, <2>2
<1>6. ~raced' /\ room' = "open" => Undisturbed
  BY <1>1, <1>3, <1>4, <1>5 DEF Undisturbed, NoteRace
<1> QED BY <1>3, <1>6, UndisturbedAgrees DEF AgreeInv

LEMMA StepAgrees ==
  ASSUME PlayerInv, AudioInv, AgreeInv, [PlayerNext]_vars
  PROVE  AgreeInv'
<1>1. CASE UserNext
  <2>1. CASE \/ \E i \in Row: RemoveRow(i)
             \/ \E t \in Track: DeleteTrack(t) \/ Enqueue(t)
    BY <2>1, NobodyMoves DEF RemoveRow, DeleteTrack, Enqueue, audioVars
  <2> QED BY <1>1, <2>1, RequestAgrees DEF UserNext
<1>2. CASE \E k \in Task: TaskStep(k)
  BY <1>2, TaskStepAgrees
<1>3. CASE \E s \in Stream: StreamStep(s)
  BY <1>3, StreamEventAgrees, RespawnAgrees, StreamEndsAgrees DEF StreamStep
<1>4. CASE StartedAtSaved \/ Age \/ RoomDeleted \/ UNCHANGED vars
  BY <1>4, NobodyMoves DEF StartedAtSaved, Age, RoomDeleted, audioVars, playerVars, vars
<1>5. CASE CloseRoom
  <2>1. room' # "open" /\ UNCHANGED <<task, retrying, raced, leftover>>
    BY <1>5 DEF CloseRoom, DestroyRoom, Stopped, audioVars
  <2> QED BY <2>1, NobodyMoves
<1>6. CASE ListenerStep
  <2>1. /\ UNCHANGED <<task, retrying, raced, leftover, proc, song, room, pb>>
        /\ cur' = cur \/ cur' = 0
    BY <1>6 DEF ListenerStep, ListenerNext, AddListener, RemoveListener, UnsyncListener,
                ResyncListener, processVars, roomVars, playerVars
  <2>2. 0 \notin Stream
    BY AudioAssumption DEF Stream
  <2> QED BY <2>1, <2>2, NobodyMoves
<1> QED BY <1>1, <1>2, <1>3, <1>4, <1>5, <1>6 DEF PlayerNext

LEMMA AgreesAtFirst == PlayerInit => AgreeInv
<1> SUFFICES ASSUME PlayerInit PROVE AgreeInv
  OBVIOUS
<1>1. retrying = {} /\ cur = NoRoom /\ \A k \in Task: task[k].pc = "free"
  BY TaskRecords DEF PlayerInit, AudioInit
<1>2. Drivers = {}
  BY <1>1 DEF Drivers, Driving, PcPlay, PcEnd
<1>3. OneDriver
  BY <1>1, <1>2, FS_EmptySet DEF OneDriver
<1>4. ~CurLive
  BY <1>1, AudioAssumption DEF CurLive, Stream
<1> QED BY <1>1, <1>3, <1>4
        DEF AgreeInv, Agreement, TrackAgrees, EndIsQuiet, RetriesAgree, PlaysAgree

(* Row, retries, calls and stream carry one track as long as nothing overlaps,
   but for the streams that refused URLs have left over. *)
THEOREM PlaysStayInAgreement == PlayerSpec => []AgreeInv
<1>1. AudioInv /\ PlayerInv /\ AgreeInv /\ [PlayerNext]_vars => AgreeInv'
  BY StepAgrees
<1> QED BY <1>1, AgreesAtFirst, PlayerInvariant, PlayerDrivesAudio, AudioInvariant, PTL
        DEF PlayerSpec

(* When everything has settled and no two driving calls have overlapped, the room
   hears the track its playback row says, through skips, retries and failures, and
   so does every listener in sync; except while a stream runs on that a play with
   a refused URL was to replace. *)
THEOREM PlaysAgreeAtRest == PlayerSpec => []SerializedPlaysAgree
<1>1. AudioInv /\ AgreeInv => SerializedPlaysAgree
  <2> SUFFICES ASSUME AudioInv, AgreeInv, AtRest, ~raced, room = "open", cur \in Stream,
                      proc[cur] = "live", cur \notin leftover
               PROVE  /\ pb.track = song[cur]
                      /\ \A l \in Listener: sync[l] = "synced" => song[lastInit[l]] = pb.track
    BY DEF SerializedPlaysAgree
  <2>1. pb.track = song[cur]
    BY DEF AgreeInv, Agreement, TrackAgrees, CurLive, AtRest
  <2> QED BY <2>1 DEF AudioInv, SyncedToRoom
<1> QED BY <1>1, PlaysStayInAgreement, PlayerDrivesAudio, AudioInvariant, PTL

===============================================================================
