-------------------------------- MODULE Queue --------------------------------
(***************************************************************************)
(* QueueService (server/src/queue/queue.service.ts): the room_queues rows  *)
(* of one room, and the requests that add, remove and reorder them while   *)
(* PlayerService plays them.                                               *)
(*                                                                         *)
(* A request is a task.  Its pc names the query it awaits; the step that   *)
(* leaves a pc runs the query and the code up to the next await.  Only the *)
(* saves are transactions: a limit is checked queries before the rows that *)
(* must respect it are written.                                            *)
(***************************************************************************)
EXTENDS Integers, Sequences, FiniteSets, FiniteSetsExt, Functions

CONSTANTS Track,
          NoTrack,      \* a null track
          QueueUser,    \* users that add tracks
          Host,         \* room.hostId; not limited
          AutoDJ,       \* addedBy = null, isAutoDj = true
          MaxQueue,     \* 50 unplayed rows
          MaxSelect,    \* room.maxSelectPerAdd
          PerWindow,    \* room.enqueueLimitPerWindow
          Cooldown,     \* room.replayCooldownMin # 0
          Windows,      \* whether those windows pass in the instance
          Kinds,        \* the kinds of request users make in the instance
          Lists,        \* the lists of tracks users add in the instance
          MaxIds,       \* bound: rows of the room, the played ones included
          MaxRequests,  \* bound: requests in flight at a time
          MaxQueueCalls \* bound: requests made in a behaviour

ASSUME QueueAssumption ==
  /\ NoTrack \notin Track
  /\ AutoDJ \notin QueueUser \cup {Host}
  /\ \A n \in {MaxQueue, MaxSelect, PerWindow, MaxIds, MaxRequests,
               MaxQueueCalls} : n \in Nat
  /\ MaxRequests # 0
  /\ Cooldown \in BOOLEAN /\ Windows \in BOOLEAN
  /\ Lists \subseteq Seq(Track) \ {<<>>}

VARIABLES
  rows,     \* the rows, by id
  playing,  \* room_playbacks.track
  status,   \* "none", no such row; else "playing" or "paused", its isPlaying
  taken,    \* tracks of plays that have marked their rows and not saved the playback
  ending,   \* the row onTrackEnd has chosen and waits three seconds to take, Idle
            \* when it has found none and will save that nothing plays, or 0
  heard,    \* the tracks play_histories forbids under the cooldown
  req,      \* req[k]: the request in slot k
  queueCalls, \* requests made so far
  overlap,  \* what has overlapped so far: two writers ("write"), a writer and a
            \* play ("play"), a previous and any of these ("previous"); "twice", a
            \* list has named a track twice; "late", a reorder has found its row
            \* played; "unplayed", a reorder has put a row back into the queue that
            \* was played meanwhile; and "back", previous has put back a row of given
  given     \* played rows whose position a reorder has given to a row that waits

queueVars == <<rows, playing, status, taken, ending, heard, req, queueCalls, overlap, given>>

Id == 1 .. MaxIds
Slot == 1 .. MaxRequests
Idle == MaxIds + 1

NoRow == [track |-> NoTrack, by |-> AutoDJ, pos |-> 0, played |-> TRUE,
          recent |-> FALSE, version |-> 0]

Present == {i \in Id : rows[i] # NoRow}
Unplayed == {i \in Present : ~rows[i].played}
QueuedTracks == {rows[i].track : i \in Unplayed}
RecentBy(u) == {i \in Present : rows[i].by = u /\ rows[i].recent}

\* COALESCE(MAX(q.position), 0) over all rows of the room, played or not.
LastPosition == Max({rows[i].pos : i \in Present} \cup {0})

\* What findOne may return for played = false, ordered by position.
NextRows == {i \in Unplayed : \A j \in Unplayed : rows[i].pos <= rows[j].pos}

PcAdd == {"addRoom", "addDup", "addNow", "addCooldown", "addQuota", "addMax", "addSave"}
PcPrevious == {"prevFind", "prevCurrent", "prevEarlier", "prevMark"}
PcRequest == PcAdd \cup PcPrevious
               \cup {"free", "removeRoom", "removeRow", "reorderWrite", "autoStatus", "playMark"}

FreeReq == [pc |-> "free", user |-> Host, tracks |-> <<>>, id |-> 0, pos |-> 0, old |-> NoRow,
            prev |-> 0]

\* Calls that will write tracks or positions they derive from what they read.
Writing(k) == req[k].pc \in PcAdd \cup {"reorderWrite"}
Writers == {k \in Slot : Writing(k)}

\* Calls of previous, until play has marked the rows of the track it goes back to.
Backward == {k \in Slot : req[k].pc \in PcPrevious}

OverlapKinds == {"write", "play", "previous", "twice", "late", "unplayed", "back"}

(***************************************************************************)
(* Types.                                                                  *)
(***************************************************************************)
QueueTypeOK ==
  /\ \A i \in Present :
       /\ rows[i].track \in Track
       /\ rows[i].by \in QueueUser \cup {Host, AutoDJ}
       /\ rows[i].pos \in Int /\ rows[i].version \in Nat \ {0}
       /\ rows[i].played \in BOOLEAN /\ rows[i].recent \in BOOLEAN
  /\ playing \in Track \cup {NoTrack} /\ taken \subseteq Track
  /\ status \in {"none", "playing", "paused"} /\ ending \in Id \cup {0, Idle}
  /\ heard \subseteq Track
  /\ \A k \in Slot : req[k].pc \in PcRequest /\ Range(req[k].tracks) \subseteq Track
  /\ overlap \subseteq OverlapKinds /\ given \subseteq Id

QueueInit ==
  /\ rows = [i \in Id |-> NoRow]
  /\ playing = NoTrack /\ status = "none" /\ taken = {} /\ ending = 0
  /\ heard = {}
  /\ req = [k \in Slot |-> FreeReq]
  /\ queueCalls = 0
  /\ overlap = {} /\ given = {}

-----------------------------------------------------------------------------
(* Requests *)

Begin(k, r) ==
  /\ req[k].pc = "free"
  /\ queueCalls < MaxQueueCalls
  /\ queueCalls' = queueCalls + 1
  /\ req' = [req EXCEPT ![k] = r]

Goto(k, pc) == req' = [req EXCEPT ![k] = [@ EXCEPT !.pc = pc]]
Over(k) == req' = [req EXCEPT ![k] = FreeReq]
KeepPlayback == UNCHANGED <<playing, status, taken, ending, heard>>
KeepQueue == KeepPlayback /\ UNCHANGED <<rows, queueCalls, overlap, given>>

\* Which overlaps a call that will write begins (a history variable).
Overlaps == {o \in {"write"} : Writers # {}} \cup {o \in {"play"} : taken # {}}
              \cup {o \in {"previous"} : Backward # {}}

\* POST queue/:roomId.  addTracks first counts the unplayed rows.
AddTracks(k, u, tracks) ==
  /\ Begin(k, [FreeReq EXCEPT !.pc = "addRoom", !.user = u, !.tracks = tracks])
  /\ Cardinality(Unplayed) + Len(tracks) <= MaxQueue
  /\ overlap' = overlap \cup Overlaps
                  \cup {o \in {"twice"} : ~IsInjective(tracks)}
  /\ KeepPlayback /\ UNCHANGED <<rows, given>>

\* It reads the room, and makes a tracks row for each track it does not know.
AddRoom(k) ==
  /\ req[k].pc = "addRoom"
  /\ IF req[k].user # Host /\ Len(req[k].tracks) > MaxSelect
       THEN Over(k) ELSE Goto(k, "addDup")
  /\ KeepQueue

\* What is left of a list of tracks, each at its place, without those of T.
Without(tracks, T) == Restrict(tracks, {n \in DOMAIN tracks : tracks[n] \notin T})

\* Mutant of AddDup: what waits is not dropped.
AddDupBlind(k) ==
  /\ req[k].pc = "addDup"
  /\ Goto(k, "addNow")
  /\ KeepQueue

\* What is queued, and then what is played, is dropped from the list.
AddDup(k) ==
  /\ req[k].pc = "addDup"
  /\ LET unique == Without(req[k].tracks, QueuedTracks)
     IN req' = [req EXCEPT ![k] = [@ EXCEPT !.pc = "addNow", !.tracks = unique]]
  /\ KeepQueue

AddNow(k) ==
  /\ req[k].pc = "addNow"
  /\ LET unique == Without(req[k].tracks, {playing})
     IN IF DOMAIN unique = {} THEN Over(k)
        ELSE req' = [req EXCEPT ![k] = [@ EXCEPT
               !.tracks = unique,
               !.pc = IF req[k].user = Host THEN "addMax"
                      ELSE IF Cooldown THEN "addCooldown" ELSE "addQuota"]]
  /\ KeepQueue

AddCooldown(k) ==
  /\ req[k].pc = "addCooldown"
  /\ IF Range(req[k].tracks) \cap heard # {} THEN Over(k) ELSE Goto(k, "addQuota")
  /\ KeepQueue

\* Mutant of WithinQuota: only rows that still wait are counted.
WithinQuotaUnplayed(u, n) ==
  Cardinality({i \in Unplayed : rows[i].by = u}) + n <= PerWindow

WithinQuota(u, n) == Cardinality(RecentBy(u)) + n <= PerWindow

AddQuota(k) ==
  /\ req[k].pc = "addQuota"
  /\ IF WithinQuota(req[k].user, Cardinality(DOMAIN req[k].tracks))
       THEN Goto(k, "addMax") ELSE Over(k)
  /\ KeepQueue

AddMax(k) ==
  /\ req[k].pc = "addMax"
  /\ req' = [req EXCEPT ![k] = [@ EXCEPT !.pc = "addSave", !.pos = LastPosition + 1]]
  /\ KeepQueue

\* Only the age of a limited user's rows is ever looked at.
NewRow(t, u, p) == [track |-> t, by |-> u, pos |-> p, played |-> FALSE,
                    recent |-> u \in QueueUser \ {Host}, version |-> 1]

\* Ids are unique: one that a call still holds is not given again.
FreshIds == Id \ (Present \cup UNION {{req[k].id, req[k].prev} : k \in Slot} \cup {ending})

\* How many members of S are before x.
Rank(x, S) == Cardinality({y \in S : y < x})

\* The entries are saved together, at positions counted up from the one read.
SaveRows(tracks, u, p) ==
  /\ Cardinality(DOMAIN tracks) <= Cardinality(FreshIds)
  /\ rows' = [i \in Id |->
       IF i \in FreshIds /\ \E n \in DOMAIN tracks : Rank(n, DOMAIN tracks) = Rank(i, FreshIds)
         THEN LET n == CHOOSE n \in DOMAIN tracks :
                         Rank(n, DOMAIN tracks) = Rank(i, FreshIds)
              IN NewRow(tracks[n], u, p + Rank(n, DOMAIN tracks))
         ELSE rows[i]]

\* The controller then calls autoPlayIfIdle with the first track.
AddSave(k) ==
  /\ req[k].pc = "addSave"
  /\ SaveRows(req[k].tracks, req[k].user, req[k].pos)
  /\ req' = [req EXCEPT ![k] = [FreeReq EXCEPT
                             !.pc = "autoStatus",
                             !.tracks = <<req[k].tracks[Min(DOMAIN req[k].tracks)]>>]]
  /\ KeepPlayback /\ UNCHANGED <<queueCalls, overlap, given>>

\* DELETE queue/:roomId/:queueId finds the row, played or not, reads the room
\* and removes the row by its id.
RemoveTrack(k, u, i) ==
  /\ Begin(k, [FreeReq EXCEPT !.pc = "removeRoom", !.user = u, !.id = i])
  /\ i \in Present
  /\ KeepPlayback /\ UNCHANGED <<rows, overlap, given>>

RemoveRoom(k) ==
  /\ req[k].pc = "removeRoom"
  /\ IF req[k].user = Host \/ rows[req[k].id].by = req[k].user
       THEN Goto(k, "removeRow") ELSE Over(k)
  /\ KeepQueue

RemoveRow(k) ==
  /\ req[k].pc = "removeRow"
  /\ rows' = [rows EXCEPT ![req[k].id] = NoRow]
  /\ given' = given \ {req[k].id}
  /\ Over(k)
  /\ KeepPlayback /\ UNCHANGED <<queueCalls, overlap>>

\* PUT queue/:roomId/reorder.  The client names a row with the version it knows
\* and a position, both of the queue it shows: the row may have been played since.
Reorder(k, i, p) ==
  /\ Begin(k, [FreeReq EXCEPT !.pc = "reorderWrite", !.id = i, !.pos = p,
                              !.old = rows[i]])
  /\ i \in Present /\ p # rows[i].pos
  /\ overlap' = overlap \cup Overlaps \cup {o \in {"late"} : rows[i].played}
  /\ KeepPlayback /\ UNCHANGED <<rows, given>>

\* Mutant of Shifted: the row at the new position stays.
ShiftedLess(row, old, new) ==
  IF row.played THEN row
  ELSE IF old < row.pos /\ row.pos < new THEN [row EXCEPT !.pos = @ - 1]
  ELSE IF new < row.pos /\ row.pos < old THEN [row EXCEPT !.pos = @ + 1]
  ELSE row

\* The rows between the two positions make room.
Shifted(row, old, new) ==
  IF row.played THEN row
  ELSE IF old < row.pos /\ row.pos <= new THEN [row EXCEPT !.pos = @ - 1]
  ELSE IF new <= row.pos /\ row.pos < old THEN [row EXCEPT !.pos = @ + 1]
  ELSE row

\* Mutant of ReorderWrite: the version goes down.
ReorderWriteBack(k) ==
  /\ req[k].pc = "reorderWrite"
  /\ rows' = [rows EXCEPT ![req[k].id] =
                IF @ = NoRow THEN NoRow
                ELSE [req[k].old EXCEPT !.pos = req[k].pos, !.version = @ - 1]]
  /\ Over(k)
  /\ KeepPlayback /\ UNCHANGED <<queueCalls, overlap, given>>

\* save writes back every column of the row as it was read (its age is not one of
\* them).  A row removed meanwhile is inserted without its room, and so stays out
\* of this one.
ReorderWrite(k) ==
  /\ req[k].pc = "reorderWrite"
  /\ LET old == req[k].old
         moved == [old EXCEPT !.pos = req[k].pos, !.version = @ + 1,
                              !.recent = rows[req[k].id].recent]
     IN rows' = [i \in Id |-> IF rows[i] = NoRow THEN NoRow
                              ELSE IF i = req[k].id THEN moved
                              ELSE Shifted(rows[i], old.pos, req[k].pos)]
  /\ overlap' = overlap \cup
       {o \in {"unplayed"} : LET i == req[k].id IN
          rows[i] # NoRow /\ rows[i].played /\ ~req[k].old.played}
  /\ given' = given \cup {i \in Present : rows'[i].played /\
       \E j \in Present : ~rows'[j].played /\ rows'[j].pos = rows'[i].pos}
  /\ Over(k)
  /\ KeepPlayback /\ UNCHANGED queueCalls

-----------------------------------------------------------------------------
(* What PlayerService does to the rows: module Player has its control. *)

\* play: the unplayed rows of the track are marked, then the playback saved.
Marked(t) == [i \in Id |-> IF rows[i].track = t THEN [rows[i] EXCEPT !.played = TRUE]
                                                ELSE rows[i]]

\* The overlaps of a step of a play with the writers and with those calls of previous.
PlayOverlap(others) ==
  overlap' = overlap \cup {o \in {"play"} : Writers # {}}
               \cup {o \in {"previous"} : others # {}}

\* autoPlayIfIdle: a room that is not playing plays the track that was added.
AutoStatus(k) ==
  /\ req[k].pc = "autoStatus"
  /\ IF status = "playing" THEN Over(k) ELSE Goto(k, "playMark")
  /\ KeepQueue

\* PUT player/:roomId/play of any track.
PlayAsked(k, t) ==
  /\ Begin(k, [FreeReq EXCEPT !.pc = "playMark", !.tracks = <<t>>])
  /\ KeepPlayback /\ UNCHANGED <<rows, overlap, given>>

PlayMark(k) ==
  /\ req[k].pc \in {"playMark", "prevMark"}
  /\ LET t == Head(req[k].tracks) IN rows' = Marked(t) /\ taken' = taken \cup {t}
  /\ PlayOverlap(Backward \ {k})
  /\ Over(k)
  /\ UNCHANGED <<playing, status, ending, heard, queueCalls, given>>

\* previous, refused while a play is prepared: the row of the playing track, the last
\* one of those played.
PreviousAsked(k, i) ==
  /\ Begin(k, [FreeReq EXCEPT !.pc = "prevFind", !.id = i, !.pos = rows[i].pos])
  /\ ending \notin Id
  /\ LET Played == {j \in Present \ Unplayed : rows[j].track = playing}
     IN i \in Played /\ \A j \in Played : rows[j].pos <= rows[i].pos
  /\ overlap' = overlap \cup
       {o \in {"previous"} : Writers # {} \/ Backward # {} \/ taken # {}}
  /\ KeepPlayback /\ UNCHANGED <<rows, given>>

\* It looks for the last row played from before that position.
PreviousFind(k) ==
  /\ req[k].pc = "prevFind"
  /\ LET Earlier == {j \in Present \ Unplayed : rows[j].pos < req[k].pos}
     IN IF Earlier = {} THEN Over(k)
        ELSE \E j \in Earlier :
               /\ \A n \in Earlier : rows[n].pos <= rows[j].pos
               /\ req' = [req EXCEPT ![k] = [@ EXCEPT !.pc = "prevCurrent", !.prev = j,
                                                      !.tracks = <<rows[j].track>>]]
  /\ KeepQueue

\* A row that is still there waits again, at the position it has kept.
Unplay(i) ==
  /\ rows' = IF i \in Present THEN [rows EXCEPT ![i].played = FALSE] ELSE rows
  /\ given' = given \ {i}
  /\ overlap' = overlap \cup {o \in {"back"} : i \in given}
  /\ KeepPlayback /\ UNCHANGED queueCalls

\* It un-plays the two rows; then it stops the stream and calls play.
PreviousCurrent(k) ==
  req[k].pc = "prevCurrent" /\ Unplay(req[k].id) /\ Goto(k, "prevEarlier")

PreviousEarlier(k) ==
  req[k].pc = "prevEarlier" /\ Unplay(req[k].prev) /\ Goto(k, "prevMark")

\* onTrackEnd, at the end of a track or a skip, chooses the next row or finds none.
TrackEnds ==
  /\ taken = {} /\ ending = 0
  /\ ending' \in IF NextRows = {} THEN {Idle} ELSE NextRows
  /\ playing # NoTrack \/ NextRows # {}
  /\ UNCHANGED <<rows, playing, status, taken, heard, req, queueCalls, overlap, given>>

\* It saves that nothing plays.
EndIdle ==
  /\ ending = Idle
  /\ ending' = 0 /\ playing' = NoTrack
  /\ status' = IF status = "none" THEN "none" ELSE "paused"
  /\ UNCHANGED <<rows, taken, heard, req, queueCalls, overlap, given>>

\* Or, three seconds later, it marks that row and plays its track.
TakeNext(t) ==
  /\ ending \in Id
  /\ rows[ending] # NoRow => t = rows[ending].track
  /\ rows' = Marked(t)
  /\ taken' = taken \cup {t}
  /\ ending' = 0
  /\ PlayOverlap(Backward)
  /\ UNCHANGED <<playing, status, heard, req, queueCalls, given>>

\* play saves the playback; recordPlay writes the history.
PlaySave(t) ==
  /\ t \in taken
  /\ taken' = taken \ {t}
  /\ playing' = t /\ status' = "playing"
  /\ heard' = heard \cup {t}
  /\ PlayOverlap(Backward)
  /\ UNCHANGED <<rows, ending, req, queueCalls, given>>

\* pause and resume update the playback row when there is one.
PauseOrResume ==
  /\ status # "none"
  /\ status' \in {"paused", "playing"}
  /\ UNCHANGED <<rows, playing, taken, ending, heard, req, queueCalls, overlap, given>>

\* The window of the limit and that of the cooldown pass.
Ages(i) ==
  /\ rows[i].recent
  /\ rows' = [rows EXCEPT ![i].recent = FALSE]
  /\ KeepPlayback /\ UNCHANGED <<req, queueCalls, overlap, given>>

Forgets(t) ==
  /\ t \in heard
  /\ heard' = heard \ {t}
  /\ UNCHANGED <<rows, playing, status, taken, ending, req, queueCalls, overlap, given>>

-----------------------------------------------------------------------------
Requests(k) ==
  \/ \E u \in QueueUser \cup {Host} :
       \/ "add" \in Kinds /\ \E s \in Lists : AddTracks(k, u, s)
       \/ "remove" \in Kinds /\ \E i \in Id : RemoveTrack(k, u, i)
  \/ "reorder" \in Kinds /\ \E i \in Present, p \in Id : Reorder(k, i, p)
  \/ "play" \in Kinds /\ \E t \in Track : PlayAsked(k, t)
  \/ "previous" \in Kinds /\ \E i \in Id : PreviousAsked(k, i)

QueueStep(k) ==
  \/ AddRoom(k) \/ AddDup(k) \/ AddNow(k) \/ AddCooldown(k) \/ AddQuota(k)
  \/ AddMax(k) \/ AddSave(k)
  \/ RemoveRoom(k) \/ RemoveRow(k) \/ ReorderWrite(k) \/ AutoStatus(k) \/ PlayMark(k)
  \/ PreviousFind(k) \/ PreviousCurrent(k) \/ PreviousEarlier(k)

Plays ==
  \/ TrackEnds \/ EndIdle
  \/ "pause" \in Kinds /\ PauseOrResume
  \/ \E t \in Track : TakeNext(t) \/ PlaySave(t)
Time == Windows /\ ((\E i \in Id : Ages(i)) \/ (\E t \in Track : Forgets(t)))

QueueNext == (\E k \in Slot : Requests(k) \/ QueueStep(k)) \/ Plays \/ Time
QueueSpec == QueueInit /\ [][QueueNext]_queueVars

-----------------------------------------------------------------------------
(* Properties *)

(***************************************************************************)
(* The rows that wait have different positions, whatever is played,        *)
(* removed or put back by previous meanwhile: the order everybody sees is  *)
(* the order they are played in.  There are three ways to break it: two    *)
(* additions or reorders that overlap; a reorder that comes when its row   *)
(* has been played; and a reorder that gave a played row's position away,  *)
(* because it shifts only rows that wait, before previous put it back.     *)
(***************************************************************************)
PositionsDiffer ==
  {"write", "late", "back"} \cap overlap # {} \/
    \A i, j \in Unplayed : i # j => rows[i].pos # rows[j].pos

(***************************************************************************)
(* As long as none of those overlap and no list names a track twice, no    *)
(* track that users add waits twice, or waits when a play has marked its   *)
(* rows, or waits while it plays: except that previous puts back the rows  *)
(* of two tracks before its play marks those of the one and replaces the   *)
(* other as what plays.                                                    *)
(***************************************************************************)
Returning == {Head(req[k].tracks) : k \in {k \in Slot : req[k].pc = "prevMark"}}
Replacing == taken # {} \/ \E k \in Slot : req[k].pc \in {"prevEarlier", "prevMark"}

NoTrackTwice ==
  overlap \cap {"write", "play", "previous", "twice", "unplayed"} # {} \/
    /\ \A i, j \in Unplayed :
         i # j => rows[i].track # rows[j].track \/ rows[i].track \in Returning
    /\ playing \in QueuedTracks => Replacing
    /\ taken \cap QueuedTracks = {}

(***************************************************************************)
(* The limit of a user is checked three queries before the rows are        *)
(* saved: it is exceeded by no more than what the other requests that can  *)
(* be in flight select.                                                    *)
(***************************************************************************)
QuotaNearlyHolds ==
  \A u \in QueueUser \ {Host} :
    Cardinality(RecentBy(u)) <= PerWindow + (MaxRequests - 1) * MaxSelect

=============================================================================
