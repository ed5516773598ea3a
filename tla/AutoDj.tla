-------------------------------- MODULE AutoDj --------------------------------
(***************************************************************************)
(* AutoDjService (server/src/services/auto-dj.service.ts): the fills of    *)
(* one room, started by the debounced trigger and by the scan, the host's  *)
(* requests that turn AutoDJ on, off, pause and restart it, and users and  *)
(* a player that change the queue meanwhile.                               *)
(*                                                                         *)
(* Of the queue (module Queue) a fill sees how many rows wait and of which *)
(* tracks.  Where the candidates come from (the pool, yt-dlp, the charts,  *)
(* Gemini) is left to chance: their queries give any tracks, or throw.     *)
(***************************************************************************)
EXTENDS Integers, FiniteSets

CONSTANTS Track,
          NoTrack,
          Repeated,     \* tracks that the candidates may name twice
          Thresholds,   \* what room.autoDjThreshold may be
          FailLimit,    \* AUTODJ_MAX_FAIL_COUNT
          MaxFills,     \* bound: checkAndFill calls in flight at a time
          MaxRest,      \* bound: rows not in auto waiting at a time
          MaxCopies,    \* bound: rows of one track that AutoDJ added and that wait
          MaxHostCalls  \* bound: requests of the host about AutoDJ

ASSUME AutoDjAssumption ==
  /\ IsFiniteSet(Track) /\ NoTrack \notin Track /\ Repeated \subseteq Track
  /\ Thresholds \subseteq Nat /\ Thresholds # {}
  /\ {FailLimit, MaxFills, MaxRest, MaxCopies, MaxHostCalls} \subseteq Nat

VARIABLES
  auto,       \* rows AutoDJ added that wait since then: <<t, k>> is one of track t
  rest,       \* the other rows that wait: users', and those put back by previous
  playing,    \* the room plays something (room_playbacks.isPlaying)
  setting,    \* the room's row: autoDjEnabled, autoDjPaused, autoDjThreshold
  processing, \* processing.has(roomId)
  fails,      \* failCounts.get(roomId), 0 when absent
  fill,       \* fill[f]: the checkAndFill call in slot f
  host,       \* the host's request about AutoDJ
  hostCalls,  \* so far
  doubled,    \* two fills have both passed the test of the processing flag
  late,       \* rows AutoDJ has saved since it was last turned off
  peak        \* the highest threshold the room has had

queueView == <<auto, rest, playing>>
djVars == <<queueView, setting, processing, fails, fill, host, hostCalls, doubled, late,
            peak>>

Fill == 1 .. MaxFills

PcFill == {"free", "fillRoom", "fillCount", "fillPick", "fillDup", "fillFresh",
           "fillDisable", "fillEach", "fillSave", "batch"}
PcHost == {"free", "enableRead", "enableSave", "pauseRead", "pauseSave",
           "toggleRead", "toggleUpdate", "toggleSave", "changeRead", "changeSave"}

Row == Track \X (1 .. MaxCopies)
Pick == Track \X {1, 2}
FreeFill == [pc |-> "free", limit |-> 0, n |-> 0, picks |-> {}, first |-> NoTrack]

Setting == [enabled: BOOLEAN, paused: BOOLEAN, threshold: Thresholds]
NoRow == CHOOSE row \in Setting : TRUE
FreeHost == [pc |-> "free", row |-> NoRow, to |-> FALSE]

(***************************************************************************)
(* Types.                                                                  *)
(***************************************************************************)
AutoDjTypeOK ==
  /\ auto \subseteq Row /\ rest \in Nat /\ playing \in BOOLEAN
  /\ setting \in Setting
  /\ {processing, doubled} \subseteq BOOLEAN
  /\ fails \in Nat /\ late \in Nat /\ peak \in Nat
  /\ \A f \in Fill : /\ fill[f].pc \in PcFill
                     /\ fill[f].picks \subseteq Pick
                     /\ fill[f].limit \in Nat
                     /\ fill[f].n \in 0 .. fill[f].limit + 1
  /\ host.pc \in PcHost /\ host.row \in Setting

\* The service starts with nothing in memory; the room is set as it was left.
AutoDjInit ==
  /\ auto = {} /\ rest = 0 /\ playing = FALSE
  /\ setting \in Setting
  /\ processing = FALSE /\ fails = 0
  /\ fill = [f \in Fill |-> FreeFill]
  /\ host = FreeHost
  /\ hostCalls = 0
  /\ doubled = FALSE /\ late = 0
  /\ peak = setting.threshold

-----------------------------------------------------------------------------
(* Starting a fill *)

\* checkAndFill tests the flag and asks for the room.
StartFill(f) ==
  /\ fill[f].pc = "free" /\ \A g \in 1 .. f - 1 : fill[g].pc # "free"
  /\ IF processing THEN UNCHANGED fill
     ELSE fill' = [fill EXCEPT ![f] = [FreeFill EXCEPT !.pc = "fillRoom"]]

\* trigger, 5 seconds after a track changed, a row was removed or the host
\* restarted AutoDJ: such a timer may be due at any time.
Trigger(f) ==
  /\ StartFill(f)
  /\ UNCHANGED <<queueView, setting, processing, fails, host, hostCalls,
                 doubled, late, peak>>

\* scanAll lists the rooms with AutoDJ on, and starts what is not processing.
Scan(f) ==
  /\ setting.enabled /\ ~processing
  /\ StartFill(f)
  /\ UNCHANGED <<queueView, setting, processing, fails, host, hostCalls, doubled,
                 late, peak>>

-----------------------------------------------------------------------------
(* checkAndFill *)

Waiting == Cardinality(auto) + rest
Queued == {r[1] : r \in auto}

FillAt(f, pc) == fill[f].pc = pc
FillGoto(f, pc) == fill' = [fill EXCEPT ![f].pc = pc]

\* The early returns come before the flag is set, ...
Return(f) == fill' = [fill EXCEPT ![f] = FreeFill]
\* ... and the finally clause clears it.
Finally(f) == Return(f) /\ processing' = FALSE

\* The room with its threshold, and in the same turn the failures.
FillRoom(f) ==
  /\ FillAt(f, "fillRoom")
  /\ IF setting.enabled /\ ~setting.paused /\ fails < FailLimit
       THEN fill' = [fill EXCEPT ![f] = [FreeFill EXCEPT !.pc = "fillCount",
                                                         !.limit = setting.threshold]]
       ELSE Return(f)
  /\ UNCHANGED <<queueView, setting, processing, fails, host, hostCalls, doubled,
                 late, peak>>

\* Mutants of FillCount: one row more than is missing, and a flag never set.
FillCountMore(f) ==
  /\ FillAt(f, "fillCount")
  /\ Waiting <= fill[f].limit
  /\ fill' = [fill EXCEPT ![f].pc = "fillPick", ![f].n = fill[f].limit - Waiting + 2]
  /\ processing' = TRUE
  /\ UNCHANGED <<queueView, setting, fails, host, hostCalls, doubled, late, peak>>
FillCountUnmarked(f) ==
  /\ FillAt(f, "fillCount")
  /\ Waiting <= fill[f].limit
  /\ fill' = [fill EXCEPT ![f].pc = "fillPick", ![f].n = fill[f].limit - Waiting + 1]
  /\ UNCHANGED <<queueView, setting, processing, fails, host, hostCalls,
                 doubled, late, peak>>

\* The rows that wait; the flag is set after this third await.
FillCount(f) ==
  /\ FillAt(f, "fillCount")
  /\ LET remaining == Waiting
         limit == fill[f].limit
     IN IF remaining > limit
          THEN Return(f) /\ UNCHANGED <<processing, doubled>>
          ELSE /\ fill' = [fill EXCEPT ![f].pc = "fillPick",
                                       ![f].n = limit - remaining + 1]
               /\ processing' = TRUE
               /\ doubled' = (doubled \/ processing)
  /\ UNCHANGED <<queueView, setting, fails, host, hostCalls, late, peak>>

\* Mutant of NoPicks: the early return is outside the try, and keeps the flag.
NoPicksUncleared(f) ==
  /\ fails' = fails + 1
  /\ IF fails' >= FailLimit THEN FillGoto(f, "fillDisable") ELSE Return(f)
  /\ UNCHANGED processing

\* A fill that found nothing counts a failure; the last one turns AutoDJ off.
NoPicks(f) ==
  /\ fails' = fails + 1
  /\ IF fails' >= FailLimit THEN FillGoto(f, "fillDisable") /\ UNCHANGED processing
                            ELSE Finally(f)

\* pickTracks asks for candidates and drops those that wait or were played
\* lately.  When none of them is fresh, AutoDJ is turned off first.  A history
\* names a track as often as it was played.
Lowest(c) == \A t \in Track : <<t, 2>> \in c => <<t, 1>> \in c
Candidates == {c \in SUBSET {p \in Pick : p[1] \notin Queued} :
                 Lowest(c) /\ \A t \in Track : <<t, 2>> \in c => t \in Repeated}

FillPick(f) ==
  /\ FillAt(f, "fillPick")
  /\ \/ \E fresh \in Candidates :
          /\ fill' = [fill EXCEPT ![f].pc = IF fresh = {} THEN "fillFresh" ELSE "fillDup",
                                  ![f].picks = fresh]
          /\ UNCHANGED <<fails, processing>>
     \/ NoPicks(f)
  /\ UNCHANGED <<queueView, setting, host, hostCalls, doubled, late, peak>>

\* Each candidate is looked for in the queue once more, until there are enough:
\* among AutoDJ's rows and among the others, which are of some tracks.
\* (The position of the first row is read next: module Queue is about positions.)
Least(m, n) == IF m < n THEN m ELSE n

FillDup(f) ==
  /\ FillAt(f, "fillDup")
  /\ \E other \in SUBSET Track :
       /\ Cardinality(other) <= rest
       /\ LET left == {p \in fill[f].picks : p[1] \notin Queued \cup other}
          IN IF left = {} THEN NoPicks(f)
             ELSE \E picks \in {c \in SUBSET left : Lowest(c)} :
                    /\ Cardinality(picks) = Least(Cardinality(left), fill[f].n)
                    /\ fill' = [fill EXCEPT ![f].pc = "fillEach", ![f].picks = picks,
                                            ![f].limit = 0, ![f].n = 0]
                    /\ UNCHANGED <<fails, processing>>
  /\ UNCHANGED <<queueView, setting, host, hostCalls, doubled, late, peak>>

\* disableAutoDj writes one column.
Disabled == [setting EXCEPT !.enabled = FALSE]

FillFresh(f) ==
  /\ FillAt(f, "fillFresh")
  /\ setting' = Disabled /\ late' = 0
  /\ NoPicks(f)
  /\ UNCHANGED <<queueView, host, hostCalls, doubled, peak>>

FillDisable(f) ==
  /\ FillAt(f, "fillDisable")
  /\ setting' = Disabled /\ late' = 0
  /\ Finally(f)
  /\ UNCHANGED <<queueView, fails, host, hostCalls, doubled, peak>>

\* Mutant of LoopEnds: the flag is not cleared.
LoopEndsUncleared(f, first) ==
  /\ Return(f)
  /\ fails' = 0
  /\ UNCHANGED processing

\* After the loop a fill that added something forgets the failures and hands
\* its first track to handleAutoDjBatchComplete.
LoopEnds(f, first) ==
  /\ fill' = [fill EXCEPT ![f] = IF first = NoTrack THEN FreeFill
                                 ELSE [FreeFill EXCEPT !.pc = "batch", !.first = first]]
  /\ processing' = FALSE
  /\ fails' = IF first = NoTrack THEN fails ELSE 0

\* Mutant of FillEach: the room is not read again.
FillEachBlind(f) ==
  /\ FillAt(f, "fillEach")
  /\ FillGoto(f, "fillSave")
  /\ UNCHANGED <<queueView, setting, processing, fails, host, hostCalls,
                 doubled, late, peak>>

\* Before each row the room is read again: enabled, but not paused.
FillEach(f) ==
  /\ FillAt(f, "fillEach")
  /\ IF setting.enabled THEN FillGoto(f, "fillSave") /\ UNCHANGED <<processing, fails>>
                        ELSE LoopEnds(f, fill[f].first)
  /\ UNCHANGED <<queueView, setting, host, hostCalls, doubled, late, peak>>

\* The rows of a track are alike: a new one is numbered after those that wait.
Last(r) == r \in auto /\ <<r[1], r[2] + 1>> \notin auto
Free(r) == r \notin auto /\ (r[2] = 1 \/ Last(<<r[1], r[2] - 1>>))

FillSave(f) ==
  /\ FillAt(f, "fillSave")
  /\ \E p \in fill[f].picks, k \in 1 .. MaxCopies :
       /\ Lowest(fill[f].picks \ {p})
       /\ Free(<<p[1], k>>)
       /\ auto' = auto \cup {<<p[1], k>>}
       /\ LET first == IF fill[f].first = NoTrack THEN p[1] ELSE fill[f].first
          IN IF fill[f].picks = {p} THEN LoopEnds(f, first)
             ELSE /\ fill' = [fill EXCEPT ![f].pc = "fillEach", ![f].picks = @ \ {p},
                                          ![f].first = first]
                  /\ UNCHANGED <<processing, fails>>
  /\ late' = IF setting.enabled THEN 0 ELSE late + 1
  /\ UNCHANGED <<rest, playing, setting, host, hostCalls, doubled, peak>>

\* play marks every waiting row of the track, n others among them;
\* handleTrackChanged then forgets the failures.
TrackChanged == fails' = 0
Plays(t, n) ==
  /\ auto' = {r \in auto : r[1] # t}
  /\ rest' = rest - n
  /\ playing' = TRUE
  /\ TrackChanged

\* A room that plays nothing plays the first track.
Batch(f) ==
  /\ FillAt(f, "batch")
  /\ IF playing THEN UNCHANGED <<queueView, fails>>
                ELSE \E n \in 0 .. rest : Plays(fill[f].first, n)
  /\ Return(f)
  /\ UNCHANGED <<setting, processing, host, hostCalls, doubled, late, peak>>

\* Any query after the flag is set may throw: the catch clause counts it.
FillThrows(f) ==
  /\ fill[f].pc \in PcFill \ {"free", "fillRoom", "fillCount", "batch"}
  /\ fails' = fails + 1
  /\ Finally(f)
  /\ UNCHANGED <<queueView, setting, host, hostCalls, doubled, late, peak>>

FillStep(f) ==
  \/ FillRoom(f) \/ FillCount(f) \/ FillPick(f) \/ FillDup(f) \/ FillFresh(f)
  \/ FillDisable(f) \/ FillEach(f) \/ FillSave(f) \/ Batch(f)

-----------------------------------------------------------------------------
(* The host *)

HostBegins(pc, to) ==
  /\ host.pc = "free" /\ hostCalls < MaxHostCalls
  /\ host' = [FreeHost EXCEPT !.pc = pc, !.to = to]
  /\ hostCalls' = hostCalls + 1
  /\ UNCHANGED <<queueView, setting, processing, fails, fill,
                 doubled, late, peak>>

HostAt(pc) == host.pc = pc
KeepFills == UNCHANGED <<queueView, processing, fill, hostCalls, doubled>>

Most(m, n) == IF m < n THEN n ELSE m

\* save writes the row as it was read, with what the request changes.
SaveSetting(row) ==
  /\ setting' = row
  /\ peak' = Most(peak, row.threshold)
  /\ late' = IF setting.enabled /\ ~row.enabled THEN 0 ELSE late

Reads(pc, next) ==
  /\ HostAt(pc)
  /\ host' = [host EXCEPT !.pc = next, !.row = setting]
  /\ KeepFills /\ UNCHANGED <<setting, fails, late, peak>>

\* PATCH rooms/:id writes what its body has: any threshold, paused or not.
Patched(row) == {new \in Setting : new.enabled = row.enabled}

\* With autoDjEnabled: turned on, it is paused by a second update, after the
\* first is saved.
SetEnabled(to) == HostBegins("enableRead", to) /\ setting.enabled # to
EnableRead == Reads("enableRead", "enableSave")
EnableSave ==
  /\ HostAt("enableSave")
  /\ \E row \in Patched([host.row EXCEPT !.enabled = host.to]) : SaveSetting(row)
  /\ host' = IF host.to THEN [FreeHost EXCEPT !.pc = "pauseRead"] ELSE FreeHost
  /\ KeepFills /\ UNCHANGED fails
PauseRead == Reads("pauseRead", "pauseSave")
PauseSave ==
  /\ HostAt("pauseSave")
  /\ SaveSetting([host.row EXCEPT !.paused = TRUE])
  /\ fails' = 0
  /\ host' = FreeHost
  /\ KeepFills

\* POST rooms/:id/autodj/pause toggles what it read; restarting triggers.
TogglePause == HostBegins("toggleRead", FALSE)
ToggleRead ==
  /\ HostAt("toggleRead")
  /\ host' = [host EXCEPT !.pc = "toggleUpdate", !.to = ~setting.paused]
  /\ KeepFills /\ UNCHANGED <<setting, fails, late, peak>>
ToggleUpdate == Reads("toggleUpdate", "toggleSave")
ToggleSave ==
  /\ HostAt("toggleSave")
  /\ SaveSetting([host.row EXCEPT !.paused = host.to])
  /\ host' = FreeHost
  /\ KeepFills /\ UNCHANGED fails

\* Without it: another mode or folder is among the changes or not.
ChangeRoom == HostBegins("changeRead", FALSE)
ChangeRead == Reads("changeRead", "changeSave")
ChangeSave ==
  /\ HostAt("changeSave")
  /\ \E row \in Patched(host.row) : SaveSetting(row)
  /\ \/ fails' = 0 /\ host.row.enabled
     \/ UNCHANGED fails
  /\ host' = FreeHost
  /\ KeepFills

HostStep == EnableRead \/ EnableSave \/ PauseRead \/ PauseSave \/ ToggleRead
              \/ ToggleUpdate \/ ToggleSave \/ ChangeRead \/ ChangeSave

-----------------------------------------------------------------------------
(* What users and the player do meanwhile *)

Elsewhere == UNCHANGED <<setting, processing, fill, host, hostCalls, doubled, late,
                         peak>>

UserAdds ==
  /\ rest < MaxRest
  /\ rest' = rest + 1
  /\ Elsewhere /\ UNCHANGED <<auto, playing, fails>>

UserRemoves ==
  /\ \/ rest > 0 /\ rest' = rest - 1 /\ UNCHANGED auto
     \/ \E r \in auto : Last(r) /\ auto' = auto \ {r} /\ UNCHANGED rest
  /\ Elsewhere /\ UNCHANGED <<playing, fails>>

\* previous sets a row back that was played, of the queue of any time: once for
\* the current track and once for the one before it, which then starts.
PutBack ==
  /\ playing /\ rest < MaxRest
  /\ rest' = rest + 1
  /\ Elsewhere /\ UNCHANGED <<auto, playing, fails>>

\* A track that waits starts, or the last one ends.
TrackStarts ==
  /\ \E t \in Track, n \in 0 .. rest : (n > 0 \/ t \in Queued) /\ Plays(t, n)
  /\ Elsewhere

TrackEnds ==
  /\ playing /\ Waiting = 0
  /\ playing' = FALSE /\ TrackChanged
  /\ Elsewhere /\ UNCHANGED <<auto, rest>>

HostAsks == (\E to \in BOOLEAN : SetEnabled(to)) \/ TogglePause \/ ChangeRoom

AutoDjNext ==
  \/ UserAdds \/ UserRemoves \/ PutBack \/ TrackStarts \/ TrackEnds
  \/ HostAsks \/ HostStep
  \/ \E f \in Fill : Trigger(f) \/ Scan(f) \/ FillStep(f) \/ FillThrows(f)

AutoDjSpec == AutoDjInit /\ [][AutoDjNext]_djVars

\* The database and the sources of candidates answer, so of the fills in flight
\* one goes on; and the scan comes round.
FairAutoDjSpec ==
  /\ AutoDjSpec
  /\ WF_djVars(\E f \in Fill : FillStep(f))
  /\ WF_djVars(\E f \in Fill : Scan(f))

-----------------------------------------------------------------------------
(* Properties *)

(***************************************************************************)
(* A fill adds what it measured to be missing.  Of the rows AutoDJ added   *)
(* that wait since then, there are never more than one above the highest   *)
(* threshold the host has set, and no two of a track but one that          *)
(* candidates may name twice; whatever users add, remove and play, previous *)
(* puts back and the host changes while it fills, unless two fills have    *)
(* passed the test of the flag.  (Rows that previous puts back may come on *)
(* top, AutoDJ's among them.)                                              *)
(***************************************************************************)
FillsAreMeasured ==
  doubled \/ /\ Cardinality(auto) <= peak + 1
             /\ \A p, q \in auto : p[1] = q[1] => p = q \/ p[1] \in Repeated

(***************************************************************************)
(* Turned off in the middle of a fill, AutoDJ adds one more row at the     *)
(* most, and one for each of two fills that run at once.                   *)
(***************************************************************************)
OffStopsTheFill == late <= (IF doubled THEN MaxFills ELSE 1)

(***************************************************************************)
(* The flag is never left behind: whoever set it is still running.         *)
(***************************************************************************)
FlagHasOwner ==
  processing => \E f \in Fill : fill[f].pc \notin {"free", "fillRoom", "fillCount", "batch"}

Running == setting.enabled /\ ~setting.paused

(***************************************************************************)
(* A room whose queue is empty does not stay so while AutoDJ runs: a track *)
(* is added, or AutoDJ has failed so often that it gave up.                *)
(***************************************************************************)
EmptyQueueIsFilled == Running /\ Waiting = 0 ~> Waiting > 0 \/ ~Running \/ fails >= FailLimit

=============================================================================
