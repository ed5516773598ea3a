----------------------------- MODULE AutoDjProofs -----------------------------
(***************************************************************************)
(* Proofs about AutoDjService, for every number of tracks, fills in flight *)
(* and every threshold.                                                    *)
(*                                                                         *)
(* A fill is past the test of the processing flag once it has counted the  *)
(* rows (Past).  Until two of them overlap (doubled), the one that is past *)
(* owns the flag and is alone: it alone adds rows, so what it measured     *)
(* stays an upper bound while rows are removed, played and put back.  The  *)
(* threshold may change meanwhile: what a fill has read is at most the     *)
(* highest that was set (peak).                                            *)
(***************************************************************************)
EXTENDS AutoDj, FiniteSetTheorems, TLAPS

FillRecord == [pc: PcFill, limit: Nat, n: Nat, picks: SUBSET Pick,
               first: Track \cup {NoTrack}]
HostRecord == [pc: PcHost, row: Setting, to: BOOLEAN]

(* The shape of the state. *)
Shape ==
  /\ AutoDjTypeOK
  /\ setting.threshold <= peak
  /\ fill \in [Fill -> FillRecord]
  /\ host \in HostRecord

PcBefore == {"free", "fillRoom", "fillCount", "batch"}

(* A fill between setting the flag and the finally clause that clears it. *)
Past(r) == r.pc \notin PcBefore

(* Without an overlap the fill that is past the test has set the flag, and is
   the only one. *)
PastIsAlone ==
  ~doubled => /\ \A f \in Fill: Past(fill[f]) => processing
              /\ \A f, g \in Fill: Past(fill[f]) /\ Past(fill[g]) => f = g

(* The fills that have read a room with AutoDJ on, and are saving a row. *)
Saving == {f \in Fill: fill[f].pc = "fillSave"}
MayBeLate == IF doubled THEN MaxFills ELSE 1

(* Only these are still to add a row to a room where AutoDJ is off. *)
LateIsCounted ==
  /\ late <= MayBeLate
  /\ ~setting.enabled => late + Cardinality(Saving) <= MayBeLate

(* A track waits once in rows a, but one that candidates may name twice. *)
Distinct(a) == \A p, q \in a: p[1] = q[1] => p = q \/ p[1] \in Repeated

(* What fill r may still add to rows a fits under threshold m, the highest that it
   can have read, and does not wait among them. *)
Fits(a, m, r) ==
  /\ r.limit <= m
  /\ r.pc \in {"fillPick", "fillDup"} => Cardinality(a) + r.n <= m + 1
  /\ r.pc \in {"fillDup", "fillEach", "fillSave"} =>
       \A t \in Track: <<t, 2>> \in r.picks => t \in Repeated
  /\ r.pc \in {"fillEach", "fillSave"} =>
       /\ Cardinality(a) + Cardinality(r.picks) <= m + 1
       /\ \A p \in r.picks, q \in a: p[1] = q[1] => p[1] \in Repeated

FillsFit ==
  ~doubled => /\ Cardinality(auto) <= peak + 1
              /\ Distinct(auto)
              /\ \A f \in Fill: Fits(auto, peak, fill[f])

AutoDjInv ==
  /\ Shape
  /\ FlagHasOwner
  /\ PastIsAlone
  /\ LateIsCounted
  /\ FillsFit

FillMove(f) == Trigger(f) \/ Scan(f) \/ FillStep(f) \/ FillThrows(f)
UserMove == UserAdds \/ UserRemoves \/ PutBack \/ TrackStarts \/ TrackEnds

-------------------------------------------------------------------------------
(* Finite sets. *)
LEMMA RowsAreFinite ==
  /\ IsFiniteSet(Fill) /\ Cardinality(Fill) = MaxFills
  /\ \A S \in SUBSET Row: IsFiniteSet(S) /\ Cardinality(S) \in Nat
  /\ \A S \in SUBSET Pick: IsFiniteSet(S) /\ Cardinality(S) \in Nat
<1>1. /\ \A n \in Nat: IsFiniteSet(1 .. n) /\ Cardinality(1 .. n) = n
      /\ MaxCopies \in Nat /\ MaxFills \in Nat /\ {1, 2} = 1 .. 2
  <2>1. ASSUME NEW n \in Nat
        PROVE  IsFiniteSet(1 .. n) /\ Cardinality(1 .. n) = n
    BY FS_Interval, 1 \in Int, n \in Int
  <2> QED BY <2>1, AutoDjAssumption
<1>2. IsFiniteSet(1 .. MaxCopies) /\ IsFiniteSet({1, 2}) /\ IsFiniteSet(Fill)
        /\ Cardinality(Fill) = MaxFills
  BY <1>1, Zenon, 2 \in Nat DEF Fill
<1>3. IsFiniteSet(Row) /\ IsFiniteSet(Pick)
  BY <1>2, FS_Product, AutoDjAssumption DEF Row, Pick
<1>4. ASSUME NEW T, IsFiniteSet(T), NEW S \in SUBSET T
      PROVE  IsFiniteSet(S) /\ Cardinality(S) \in Nat
  BY <1>4, FS_Subset, FS_CardinalityType
<1> QED BY <1>2, <1>3, <1>4

LEMMA SmallerIsLess ==
  ASSUME NEW S, IsFiniteSet(S), NEW T \in SUBSET S
  PROVE  Cardinality(T) <= Cardinality(S)
BY FS_Subset

(* What waits is counted in Nat, and AutoDJ's part of it is no more. *)
LEMMA WaitingIsNat ==
  ASSUME Shape
  PROVE  /\ Waiting \in Nat /\ Cardinality(auto) \in Nat
         /\ Cardinality(auto) <= Waiting
<1>1. Cardinality(auto) \in Nat /\ rest \in Nat
  BY RowsAreFinite DEF Shape, AutoDjTypeOK
<1> QED BY <1>1 DEF Waiting

-------------------------------------------------------------------------------
(* The host's steps and the users' leave the fills alone. *)
LEMMA FreeHostRecord == NoRow \in Setting /\ FreeHost \in HostRecord
<1>1. PICK n \in Thresholds: TRUE
  BY AutoDjAssumption
<1>2. [enabled |-> FALSE, paused |-> FALSE, threshold |-> n] \in Setting
  BY DEF Setting
<1>3. NoRow \in Setting
  BY <1>2, Zenon DEF NoRow
<1> QED BY <1>3 DEF FreeHost, HostRecord, PcHost

LEMMA PatchedIsSetting == \A row: Patched(row) \subseteq Setting
BY DEF Patched

(* What is saved is known to the highest threshold. *)
LEMMA SavedIsKnown ==
  ASSUME Shape, NEW row \in Setting, SaveSetting(row)
  PROVE  peak' \in Nat /\ peak <= peak' /\ setting'.threshold <= peak'
<1>1. row.threshold \in Nat /\ peak \in Nat
  BY AutoDjAssumption DEF Setting, Shape, AutoDjTypeOK
<1>2. setting'.threshold = row.threshold /\ peak' = Most(peak, row.threshold)
  BY DEF SaveSetting
<1> QED BY <1>1, <1>2 DEF Most

LEMMA HostKeepsFills ==
  ASSUME Shape, HostAsks \/ HostStep
  PROVE  /\ UNCHANGED <<auto, rest, playing, processing, fill, doubled>>
         /\ setting' \in Setting /\ host' \in HostRecord
         /\ peak' \in Nat /\ peak <= peak' /\ setting'.threshold <= peak'
         /\ fails' \in {0, fails}
         /\ late' = IF setting.enabled /\ ~setting'.enabled THEN 0 ELSE late
<1> USE DEF Shape, AutoDjTypeOK, HostRecord, Setting, PcHost, FreeHost, KeepFills,
            queueView, HostAt, Reads
<1>1. CASE HostAsks
  <2>1. PICK pc \in PcHost, to \in BOOLEAN : HostBegins(pc, to)
    BY <1>1, Zenon DEF HostAsks, SetEnabled, TogglePause, ChangeRoom
  <2>2. [FreeHost EXCEPT !.pc = pc, !.to = to] \in HostRecord
    BY FreeHostRecord
  <2> QED BY <2>1, <2>2 DEF HostBegins
<1>2. CASE EnableRead \/ PauseRead \/ ToggleRead \/ ToggleUpdate \/ ChangeRead
  <2>1. /\ UNCHANGED <<auto, rest, playing, processing, fill, doubled, setting, fails>>
        /\ UNCHANGED <<late, peak>>
        /\ setting \in Setting /\ peak \in Nat /\ setting.threshold <= peak
    BY <1>2 DEF EnableRead, PauseRead, ToggleRead, ToggleUpdate, ChangeRead
  <2>2. host' \in HostRecord
    <3>1. \A pc \in PcHost: [host EXCEPT !.pc = pc, !.row = setting] \in HostRecord
      OBVIOUS
    <3>2. \A pc \in PcHost: [host EXCEPT !.pc = pc, !.to = ~setting.paused] \in HostRecord
      OBVIOUS
    <3> QED BY <1>2, <3>1, <3>2
            DEF EnableRead, PauseRead, ToggleRead, ToggleUpdate, ChangeRead
  <2> QED BY <2>1, <2>2
<1>3. CASE EnableSave
  <2>1. PICK row \in Patched([host.row EXCEPT !.enabled = host.to]): SaveSetting(row)
    BY <1>3 DEF EnableSave
  <2>2. row \in Setting
    BY PatchedIsSetting
  <2> QED BY <1>3, <2>1, <2>2, SavedIsKnown, FreeHostRecord DEF EnableSave, SaveSetting
<1>4. CASE PauseSave
  <2>1. [host.row EXCEPT !.paused = TRUE] \in Setting
    OBVIOUS
  <2> QED BY <1>4, <2>1, SavedIsKnown, FreeHostRecord DEF PauseSave, SaveSetting
<1>5. CASE ToggleSave
  <2>1. [host.row EXCEPT !.paused = host.to] \in Setting
    OBVIOUS
  <2> QED BY <1>5, <2>1, SavedIsKnown, FreeHostRecord DEF ToggleSave, SaveSetting
<1>6. CASE ChangeSave
  <2>1. PICK row \in Patched(host.row): SaveSetting(row)
    BY <1>6 DEF ChangeSave
  <2>2. row \in Setting
    BY PatchedIsSetting
  <2> QED BY <1>6, <2>1, <2>2, SavedIsKnown, FreeHostRecord DEF ChangeSave, SaveSetting
<1> QED BY <1>1, <1>2, <1>3, <1>4, <1>5, <1>6 DEF HostStep

LEMMA PlayedRows ==
  ASSUME Shape, NEW t, NEW n \in 0 .. rest, Plays(t, n)
  PROVE  auto' \in SUBSET auto /\ rest' \in Nat /\ playing' \in BOOLEAN /\ fails' = 0
<1>1. rest \in Nat
  BY DEF Shape, AutoDjTypeOK
<1> QED BY <1>1 DEF Plays, TrackChanged

LEMMA UsersKeepFills ==
  ASSUME Shape, UserMove \/ UNCHANGED djVars
  PROVE  /\ UNCHANGED <<setting, processing, fill, host, doubled, late, peak>>
         /\ auto' \in SUBSET auto /\ rest' \in Nat /\ playing' \in BOOLEAN
         /\ fails' \in {0, fails}
<1> USE DEF Shape, AutoDjTypeOK, Elsewhere, queueView, Plays, TrackChanged
<1>1. CASE UserAdds
  BY <1>1 DEF UserAdds
<1>5. CASE UserRemoves
  <2>1. CASE rest > 0 /\ rest' = rest - 1 /\ UNCHANGED auto
    BY <1>5, <2>1 DEF UserRemoves
  <2>2. CASE \E r \in auto: Last(r) /\ auto' = auto \ {r} /\ UNCHANGED rest
    BY <1>5, <2>2 DEF UserRemoves
  <2> QED BY <1>5, <2>1, <2>2 DEF UserRemoves
<1>2. CASE TrackStarts
  <2>1. PICK t \in Track, n \in 0 .. rest: Plays(t, n)
    BY <1>2, Zenon DEF TrackStarts
  <2> QED BY <1>2, <2>1, PlayedRows DEF TrackStarts
<1>6. CASE PutBack
  BY <1>6 DEF PutBack
<1>3. CASE TrackEnds
  BY <1>3 DEF TrackEnds
<1>4. CASE UNCHANGED djVars
  BY <1>4 DEF djVars
<1> QED BY <1>1, <1>2, <1>3, <1>4, <1>5, <1>6 DEF UserMove

-------------------------------------------------------------------------------
(* The life of a fill: how a step that makes r of fill f changes the flag. *)
Life(f, r) ==
  \/ ~Past(fill[f]) /\ ~Past(r) /\ UNCHANGED <<processing, doubled>>
  \/ ~Past(fill[f]) /\ Past(r) /\ processing' = TRUE /\ doubled' = (doubled \/ processing)
  \/ Past(fill[f]) /\ Past(r) /\ UNCHANGED <<processing, doubled>>
  \/ Past(fill[f]) /\ ~Past(r) /\ processing' = FALSE /\ UNCHANGED doubled

(* How it changes the rows that are late: it saves one, it turns AutoDJ off, it
   goes on to save in a room where AutoDJ is on, or it does nothing of this. *)
Tardy(f, r) ==
  \/ /\ fill[f].pc = "fillSave" /\ r.pc # "fillSave" /\ UNCHANGED setting
     /\ late' = IF setting.enabled THEN 0 ELSE late + 1
  \/ r.pc # "fillSave" /\ late' = 0 /\ ~setting'.enabled
  \/ setting.enabled /\ UNCHANGED <<setting, late>>
  \/ r.pc # "fillSave" /\ UNCHANGED <<setting, late>>

(* And what it may add, and adds, to the queue. *)
Adds(f, r) ==
  \/ auto' \subseteq auto /\ (~Past(r) \/ r.pc \in {"fillFresh", "fillDisable"})
  \/ /\ ~Past(fill[f]) /\ r.pc = "fillPick" /\ UNCHANGED auto
     /\ Waiting <= r.limit /\ r.limit = fill[f].limit /\ r.n = r.limit - Waiting + 1
  \/ /\ fill[f].pc = "fillPick" /\ r.pc = "fillDup" /\ UNCHANGED auto
     /\ r.n = fill[f].n /\ r.picks \in Candidates
  \/ /\ fill[f].pc = "fillDup" /\ r.pc = "fillEach" /\ UNCHANGED auto
     /\ r.picks \subseteq {p \in fill[f].picks: p[1] \notin Queued}
     /\ Cardinality(r.picks) <= fill[f].n
  \/ /\ fill[f].pc = "fillEach" /\ r.pc = "fillSave" /\ UNCHANGED auto
     /\ r.picks = fill[f].picks
  \/ /\ fill[f].pc = "fillSave"
     /\ \E p \in fill[f].picks, k \in 1 .. MaxCopies:
          /\ <<p[1], k>> \notin auto /\ auto' = auto \cup {<<p[1], k>>}
          /\ ~Past(r) \/ (r.pc = "fillEach" /\ r.picks = fill[f].picks \ {p})

Change(f, r) ==
  /\ fill' = [fill EXCEPT ![f] = r]
  /\ UNCHANGED <<host, peak>>
  /\ rest' \in Nat /\ setting'.threshold = setting.threshold
  /\ r.limit \in {0, fill[f].limit, setting.threshold} /\ r.n <= r.limit + 1
  /\ auto' \subseteq Row /\ playing' \in BOOLEAN
  /\ setting' \in Setting /\ fails' \in Nat
  /\ Life(f, r) /\ Tardy(f, r) /\ Adds(f, r)

(* A record of a fill with other values is a record of a fill. *)
LEMMA Records ==
  ASSUME Shape, NEW f \in Fill
  PROVE  /\ fill[f] \in FillRecord /\ fill[f].n <= fill[f].limit + 1
         /\ fill = [fill EXCEPT ![f] = fill[f]]
         /\ FreeFill \in FillRecord /\ FreeFill.pc = "free"
         /\ FreeFill.limit = 0 /\ FreeFill.n = 0 /\ FreeFill.first = NoTrack
<1>1. fill[f] \in FillRecord /\ fill = [fill EXCEPT ![f] = fill[f]]
  BY DEF Shape
<1>2. fill[f].n <= fill[f].limit + 1
  BY DEF Shape, AutoDjTypeOK
<1>3. FreeFill \in FillRecord
  BY DEF FreeFill, FillRecord, PcFill
<1> QED BY <1>1, <1>2, <1>3 DEF FreeFill

(* What the steps of a fill before it counts leave alone. *)
fillApart == <<queueView, setting, processing, fails, host, doubled, late, peak>>

(* Before the flag is set. *)
LEMMA EarlyChanges ==
  ASSUME Shape, NEW f \in Fill, Trigger(f) \/ Scan(f) \/ FillRoom(f) \/ Batch(f)
  PROVE  \E r \in FillRecord: Change(f, r)
<1> USE Records DEF Change, Adds, Life, Tardy, queueView, fillApart, Past, PcBefore,
                    PcFill, FillAt, FillGoto, Return
<1>1. CASE Trigger(f) \/ Scan(f)
  <2>1. UNCHANGED fillApart /\ StartFill(f)
    BY <1>1 DEF Trigger, Scan
  <2>2. CASE processing
    <3> WITNESS fill[f] \in FillRecord
    <3> QED BY <2>1, <2>2 DEF StartFill, Shape, AutoDjTypeOK
  <2>3. CASE ~processing
    <3> DEFINE r == [FreeFill EXCEPT !.pc = "fillRoom"]
    <3>1. /\ r \in FillRecord /\ r.pc = "fillRoom" /\ r.limit = 0 /\ r.n = 0
      BY Records DEF FillRecord
    <3>2. fill' = [fill EXCEPT ![f] = r] /\ fill[f].pc = "free"
      BY <2>1, <2>3 DEF StartFill
    <3> HIDE DEF r
    <3>3. Change(f, r)
      BY <2>1, <3>1, <3>2 DEF Shape, AutoDjTypeOK
    <3> QED BY <3>1, <3>3
  <2> QED BY <2>2, <2>3
<1>2. CASE FillRoom(f)
  <2>1. CASE setting.enabled /\ ~setting.paused /\ fails < FailLimit
    <3>1. setting.threshold \in Nat /\ fill[f] \in FillRecord
      BY AutoDjAssumption, Records DEF Shape, AutoDjTypeOK, Setting
    <3> DEFINE r == [FreeFill EXCEPT !.pc = "fillCount", !.limit = setting.threshold]
    <3>2. fill' = [fill EXCEPT ![f] = r]
      BY <1>2, <2>1 DEF FillRoom
    <3>3. r \in FillRecord /\ r.pc = "fillCount" /\ r.limit = setting.threshold
                  /\ r.n = 0
      BY <3>1, Records DEF FillRecord
    <3> HIDE DEF r
    <3>4. /\ fill[f].pc = "fillRoom" /\ setting.threshold \in Nat
          /\ UNCHANGED fillApart
      BY <1>2, <3>1 DEF FillRoom
    <3>5. Change(f, r)
      BY <3>2, <3>3, <3>4 DEF Shape, AutoDjTypeOK
    <3> QED BY <3>3, <3>5
  <2>2. CASE ~(setting.enabled /\ ~setting.paused /\ fails < FailLimit)
    <3> WITNESS FreeFill \in FillRecord
    <3>1. Return(f) /\ UNCHANGED fillApart
      BY <1>2, <2>2 DEF FillRoom
    <3> QED BY <1>2, <3>1 DEF FillRoom, Shape, AutoDjTypeOK
  <2> QED BY <2>1, <2>2
<1>3. CASE Batch(f)
  <2> WITNESS FreeFill \in FillRecord
  <2>1. /\ auto' \subseteq auto /\ playing' \in BOOLEAN /\ fails' \in Nat /\ rest' \in Nat
        /\ Return(f) /\ UNCHANGED <<setting, processing, host, doubled, late, peak>>
    <3>1. CASE playing
      BY <1>3, <3>1 DEF Batch, Shape, AutoDjTypeOK
    <3>2. CASE ~playing
      <4>1. PICK n \in 0 .. rest: Plays(fill[f].first, n)
        BY <1>3, <3>2 DEF Batch
      <4>2. auto' \in SUBSET auto /\ rest' \in Nat /\ playing' \in BOOLEAN /\ fails' = 0
        BY <4>1, PlayedRows
      <4> QED BY <1>3, <4>2 DEF Batch
    <3> QED BY <3>1, <3>2
  <2>2. fill[f].pc = "batch"
    BY <1>3 DEF Batch
  <2> QED BY <2>1, <2>2 DEF Shape, AutoDjTypeOK
<1> QED BY <1>1, <1>2, <1>3

LEMMA BatchRecords ==
  ASSUME NEW r \in FillRecord, NEW first \in Track \cup {NoTrack}
  PROVE  LET s == [r EXCEPT !.pc = "batch", !.first = first]
         IN s \in FillRecord /\ s.pc = "batch" /\ s.limit = r.limit /\ s.n = r.n
BY DEF FillRecord, PcFill

(* What the ends of a fill have in common. *)
Leaves(f, r) ==
  /\ fill' = [fill EXCEPT ![f] = r]
  /\ r.pc \in {"free", "batch", "fillDisable"} /\ fails' \in Nat
  /\ r.limit \in {0, fill[f].limit} /\ r.n <= r.limit + 1
  /\ IF Past(r) THEN UNCHANGED processing ELSE processing' = FALSE

LEMMA Leaving ==
  ASSUME Shape, NEW f \in Fill,
         \/ NoPicks(f)
         \/ Finally(f) /\ fails' \in Nat
         \/ \E first \in Track \cup {NoTrack}: LoopEnds(f, first)
  PROVE  \E r \in FillRecord: Leaves(f, r)
<1> USE Records DEF Leaves, Past, PcBefore, PcFill, Return, Finally, Shape, AutoDjTypeOK
<1>1. CASE Finally(f) /\ fails' \in Nat
  <2> WITNESS FreeFill \in FillRecord
  <2> QED BY <1>1
<1>2. CASE NoPicks(f)
  <2>1. fails' \in Nat
    <3>1. fails' = fails + 1 /\ fails \in Nat
      BY <1>2 DEF NoPicks
    <3> QED BY <3>1
  <2>2. CASE fails' >= FailLimit
    <3> DEFINE r == [fill[f] EXCEPT !.pc = "fillDisable"]
    <3>1. /\ r \in FillRecord /\ r.pc = "fillDisable" /\ r.limit = fill[f].limit
          /\ r.n = fill[f].n
      BY Records DEF FillRecord
    <3>2. fill' = [fill EXCEPT ![f] = r] /\ UNCHANGED processing
      BY <1>2, <2>2 DEF NoPicks, FillGoto
    <3> HIDE DEF r
    <3>3. Leaves(f, r)
      BY <2>1, <3>1, <3>2
    <3> QED BY <3>1, <3>3
  <2>3. CASE ~(fails' >= FailLimit)
    BY <1>1, <1>2, <2>1, <2>3 DEF NoPicks
  <2> QED BY <2>2, <2>3
<1>3. ASSUME NEW first \in Track \cup {NoTrack}, LoopEnds(f, first)
      PROVE  \E r \in FillRecord: Leaves(f, r)
  <2>1. fails' \in Nat
    BY <1>3 DEF LoopEnds
  <2>2. CASE first = NoTrack
    BY <1>1, <1>3, <2>1, <2>2 DEF LoopEnds
  <2>3. CASE first # NoTrack
    <3> DEFINE r == [FreeFill EXCEPT !.pc = "batch", !.first = first]
    <3>1. r \in FillRecord /\ r.pc = "batch" /\ r.limit = 0 /\ r.n = 0
      BY BatchRecords
    <3>2. fill' = [fill EXCEPT ![f] = r] /\ processing' = FALSE
      BY <1>3, <2>3 DEF LoopEnds
    <3> HIDE DEF r
    <3>3. Leaves(f, r)
      BY <2>1, <3>1, <3>2
    <3> QED BY <3>1, <3>3
  <2> QED BY <2>2, <2>3
<1> QED BY <1>1, <1>2, <1>3

(* From the flag on. *)
LEMMA LeavingChanges ==
  ASSUME Shape, NEW f \in Fill, Past(fill[f]), fill[f].pc # "fillSave",
         NEW r \in FillRecord, Leaves(f, r),
         UNCHANGED <<auto, rest, playing, host, doubled, peak>>, setting' \in Setting,
         setting'.threshold = setting.threshold,
         \/ UNCHANGED <<setting, late>>
         \/ ~setting'.enabled /\ late' = 0
  PROVE  Change(f, r)
BY DEF Change, Leaves, Life, Tardy, Adds, Past, PcBefore, Shape, AutoDjTypeOK

LEMMA CountChanges ==
  ASSUME Shape, NEW f \in Fill, FillCount(f)
  PROVE  \E r \in FillRecord: Change(f, r)
<1> USE DEF Change, Life, Tardy, Adds, Past, PcBefore, Shape, AutoDjTypeOK, queueView
<1>1. /\ fill[f].pc = "fillCount"
      /\ UNCHANGED <<queueView, setting, fails, host, late, peak>>
  BY DEF FillCount, FillAt
<1>2. CASE Waiting > fill[f].limit
  <2>1. Change(f, FreeFill)
    BY <1>1, <1>2, Records DEF FillCount, Return
  <2> QED BY <2>1, Records, Zenon
<1>3. CASE ~(Waiting > fill[f].limit)
  <2> DEFINE r == [fill[f] EXCEPT !.pc = "fillPick", !.n = fill[f].limit - Waiting + 1]
  <2>1. /\ fill[f].limit - Waiting + 1 \in 0 .. fill[f].limit + 1
        /\ fill[f].limit \in Nat /\ Waiting <= fill[f].limit
    BY <1>3, WaitingIsNat
  <2>2. /\ r \in FillRecord /\ r.pc = "fillPick" /\ r.limit = fill[f].limit
        /\ r.n = r.limit - Waiting + 1
    <3>1. fill[f] \in FillRecord
      BY Records
    <3>2. fill[f].limit - Waiting + 1 \in Nat /\ "fillPick" \in PcFill
      BY <2>1 DEF PcFill
    <3> QED BY <2>1, <3>1, <3>2 DEF FillRecord
  <2>3. fill' = [fill EXCEPT ![f] = r] /\ processing' = TRUE /\ doubled' = (doubled \/ processing)
    BY <1>3 DEF FillCount
  <2> HIDE DEF r
  <2>9. Change(f, r)
    BY <1>1, <2>1, <2>2, <2>3
  <2> QED BY <2>2, <2>9
<1> QED BY <1>2, <1>3

LEMMA PickChanges ==
  ASSUME Shape, NEW f \in Fill, FillPick(f) \/ FillDup(f)
  PROVE  \E r \in FillRecord: Change(f, r)
<1>1. /\ UNCHANGED <<auto, rest, playing, setting, host, doubled, late, peak>>
      /\ fill[f].pc \in {"fillPick", "fillDup"} /\ fill[f].picks \subseteq Pick
      /\ setting \in Setting /\ fails \in Nat
  BY DEF FillPick, FillDup, FillAt, queueView, Shape, AutoDjTypeOK
<1>2. Past(fill[f]) /\ fill[f].pc # "fillSave"
  BY <1>1 DEF Past, PcBefore
<1>3. CASE NoPicks(f)
  BY <1>1, <1>2, <1>3, Leaving, LeavingChanges
<1>4. ASSUME NEW fresh \in Candidates, fill[f].pc = "fillPick",
             fill' = [fill EXCEPT ![f].pc = IF fresh = {} THEN "fillFresh" ELSE "fillDup",
                                  ![f].picks = fresh],
             UNCHANGED <<fails, processing>>
      PROVE  \E r \in FillRecord: Change(f, r)
  <2> DEFINE r == [fill[f] EXCEPT !.pc = IF fresh = {} THEN "fillFresh" ELSE "fillDup",
                                  !.picks = fresh]
  <2>1. fresh \in SUBSET Pick
    BY DEF Candidates
  <2>2. /\ r \in FillRecord /\ r.n = fill[f].n /\ r.picks = fresh /\ r.limit = fill[f].limit
        /\ fill[f].n <= fill[f].limit + 1
        /\ r.pc \in {"fillFresh", "fillDup"}
    BY <2>1, Records DEF FillRecord, PcFill
  <2>3. fill' = [fill EXCEPT ![f] = r]
    BY <1>4
  <2> HIDE DEF r
  <2>9. Change(f, r)
    BY <1>1, <1>2, <1>4, <2>2, <2>3
       DEF Change, Life, Tardy, Adds, Past, PcBefore, Shape, AutoDjTypeOK
  <2> QED BY <2>2, <2>9
<1>5. ASSUME NEW other \in SUBSET Track,
             NEW picks \in SUBSET {p \in fill[f].picks: p[1] \notin Queued \cup other},
             Cardinality(picks) =
               Least(Cardinality({p \in fill[f].picks: p[1] \notin Queued \cup other}),
                     fill[f].n),
             fill' = [fill EXCEPT ![f].pc = "fillEach", ![f].picks = picks,
                                  ![f].limit = 0, ![f].n = 0],
             fill[f].pc = "fillDup", UNCHANGED <<fails, processing>>
      PROVE  \E r \in FillRecord: Change(f, r)
  <2> DEFINE r == [fill[f] EXCEPT !.pc = "fillEach", !.picks = picks, !.limit = 0, !.n = 0]
  <2>1. picks \in SUBSET Pick /\ picks \subseteq {p \in fill[f].picks: p[1] \notin Queued}
    BY <1>1
  <2>2. r \in FillRecord /\ r.picks = picks /\ r.pc = "fillEach" /\ r.limit = 0 /\ r.n = 0
    BY <2>1, Records DEF FillRecord, PcFill
  <2>3. fill' = [fill EXCEPT ![f] = r]
    BY <1>5
  <2>4. Cardinality(picks) <= fill[f].n
    <3>1. {p \in fill[f].picks: p[1] \notin Queued \cup other} \in SUBSET Pick
      BY <1>1
    <3>2. Cardinality({p \in fill[f].picks: p[1] \notin Queued \cup other}) \in Nat
      BY <3>1, RowsAreFinite
    <3>3. fill[f].n \in Nat
      BY DEF Shape, AutoDjTypeOK
    <3> QED BY <1>5, <3>2, <3>3 DEF Least
  <2> HIDE DEF r
  <2>5. Adds(f, r)
    BY <1>1, <1>5, <2>1, <2>2, <2>4, Zenon DEF Adds
  <2>6. Life(f, r) /\ Tardy(f, r)
    BY <1>1, <1>2, <1>5, <2>2 DEF Life, Tardy, Past, PcBefore
  <2>7. /\ r.limit \in {0, fill[f].limit, setting.threshold} /\ r.n <= r.limit + 1
        /\ auto' \subseteq Row /\ playing' \in BOOLEAN /\ rest' \in Nat
        /\ fails' \in Nat /\ setting' \in Setting /\ setting' = setting
    BY <1>1, <1>5, <2>2 DEF Shape, AutoDjTypeOK
  <2>9. Change(f, r)
    BY <1>1, <2>3, <2>5, <2>6, <2>7, Zenon DEF Change
  <2> QED BY <2>2, <2>9
<1>6. CASE FillPick(f)
  BY <1>3, <1>4, <1>6 DEF FillPick, FillAt
<1>7. CASE FillDup(f)
  BY <1>3, <1>5, <1>7, Zenon DEF FillDup, FillAt
<1> QED BY <1>6, <1>7

LEMMA DisableChanges ==
  ASSUME Shape, NEW f \in Fill, FillFresh(f) \/ FillDisable(f)
  PROVE  \E r \in FillRecord: Change(f, r)
<1>1. /\ fill[f].pc \in {"fillFresh", "fillDisable"}
      /\ UNCHANGED <<auto, rest, playing, host, doubled, peak>>
      /\ setting' = Disabled /\ late' = 0
  BY DEF FillFresh, FillDisable, FillAt, queueView
<1>2. Past(fill[f]) /\ fill[f].pc # "fillSave"
  BY <1>1 DEF Past, PcBefore
<1>3. setting' \in Setting /\ ~setting'.enabled /\ setting'.threshold = setting.threshold
  BY <1>1 DEF Disabled, Setting, Shape, AutoDjTypeOK
<1>4. \E r \in FillRecord: Leaves(f, r)
  <2>1. CASE FillFresh(f)
    BY <2>1, Leaving DEF FillFresh
  <2>2. CASE FillDisable(f)
    BY <2>2, Leaving DEF FillDisable, Shape, AutoDjTypeOK
  <2> QED BY <2>1, <2>2
<1> QED BY <1>1, <1>2, <1>3, <1>4, LeavingChanges

LEMMA EachChanges ==
  ASSUME Shape, NEW f \in Fill, FillEach(f)
  PROVE  \E r \in FillRecord: Change(f, r)
<1>1. /\ fill[f].pc = "fillEach" /\ setting \in Setting
      /\ UNCHANGED <<auto, rest, playing, setting, host, doubled, late, peak>>
  BY DEF FillEach, FillAt, queueView, Shape, AutoDjTypeOK
<1>2. Past(fill[f]) /\ fill[f].pc # "fillSave"
  BY <1>1 DEF Past, PcBefore
<1>3. CASE ~setting.enabled
  <2>1. fill[f].first \in Track \cup {NoTrack}
    BY DEF Shape, FillRecord
  <2>2. \E r \in FillRecord: Leaves(f, r)
    BY <1>3, <2>1, Leaving DEF FillEach
  <2> QED BY <1>1, <1>2, <2>2, LeavingChanges
<1>4. CASE setting.enabled
  <2> DEFINE r == [fill[f] EXCEPT !.pc = "fillSave"]
  <2>1. /\ r \in FillRecord /\ r.pc = "fillSave" /\ r.picks = fill[f].picks
        /\ r.limit = fill[f].limit /\ r.n = fill[f].n /\ fill[f].n <= fill[f].limit + 1
    BY Records DEF FillRecord, PcFill
  <2>2. fill' = [fill EXCEPT ![f] = r] /\ UNCHANGED <<fails, processing>>
    BY <1>4 DEF FillEach, FillGoto
  <2> HIDE DEF r
  <2>3. Change(f, r)
    BY <1>1, <1>2, <1>4, <2>1, <2>2
       DEF Change, Life, Tardy, Adds, Past, PcBefore, Shape, AutoDjTypeOK
  <2> QED BY <2>1, <2>3
<1> QED BY <1>3, <1>4

LEMMA SaveChanges ==
  ASSUME Shape, NEW f \in Fill, FillSave(f)
  PROVE  \E r \in FillRecord: Change(f, r)
<1>1. /\ fill[f].pc = "fillSave" /\ setting \in Setting /\ late \in Nat /\ fails \in Nat
      /\ UNCHANGED <<rest, playing, setting, host, doubled, peak>>
      /\ late' = IF setting.enabled THEN 0 ELSE late + 1
      /\ fill[f] \in FillRecord /\ fill[f].picks \subseteq Pick
  BY Records DEF FillSave, FillAt, Shape, AutoDjTypeOK
<1>2. Past(fill[f])
  BY <1>1 DEF Past, PcBefore
<1> DEFINE First(p) == IF fill[f].first = NoTrack THEN p[1] ELSE fill[f].first
<1>3. PICK p \in fill[f].picks, k \in 1 .. MaxCopies:
        /\ Free(<<p[1], k>>)
        /\ auto' = auto \cup {<<p[1], k>>}
        /\ IF fill[f].picks = {p} THEN LoopEnds(f, First(p))
           ELSE /\ fill' = [fill EXCEPT ![f].pc = "fillEach", ![f].picks = @ \ {p},
                                        ![f].first = First(p)]
                /\ UNCHANGED <<processing, fails>>
  BY DEF FillSave
<1>4. p[1] \in Track /\ First(p) \in Track \cup {NoTrack}
  BY <1>1 DEF Pick, FillRecord
<1>5. /\ <<p[1], k>> \notin auto /\ auto' \subseteq Row /\ auto' = auto \cup {<<p[1], k>>}
  BY <1>3, <1>4 DEF Free, Row, Shape, AutoDjTypeOK
<1> HIDE DEF First
<1>6. CASE fill[f].picks = {p}
  <2>1. PICK r \in FillRecord: Leaves(f, r)
    BY <1>3, <1>4, <1>6, Leaving
  <2>2. ~Past(r) /\ r.pc # "fillSave"
    <3>1. r = fill'[f]
      BY <2>1 DEF Leaves, Shape
    <3>2. LoopEnds(f, First(p))
      BY <1>3, <1>6
    <3>3. fill'[f] = IF First(p) = NoTrack THEN FreeFill
                     ELSE [FreeFill EXCEPT !.pc = "batch", !.first = First(p)]
      BY <3>2 DEF LoopEnds, Shape
    <3>4. FreeFill.pc = "free" /\ FreeFill \in FillRecord
      BY Records DEF FreeFill
    <3>5. fill'[f].pc \in {"free", "batch"}
      BY <3>3, <3>4 DEF FillRecord
    <3> QED BY <3>1, <3>5 DEF Past, PcBefore
  <2>3. playing' \in BOOLEAN /\ Life(f, r)
    BY <1>1, <1>2, <2>1, <2>2 DEF Leaves, Life, Shape, AutoDjTypeOK
  <2>4. Tardy(f, r)
    BY <1>1, <2>2 DEF Tardy
  <2>5. Adds(f, r)
    BY <1>1, <1>5, <2>2, Zenon DEF Adds
  <2>6. /\ setting' \in Setting /\ UNCHANGED <<host, peak>> /\ rest' \in Nat
        /\ setting'.threshold = setting.threshold
        /\ r.limit \in {0, fill[f].limit, setting.threshold} /\ r.n <= r.limit + 1
    BY <1>1, <2>1 DEF Leaves, Shape, AutoDjTypeOK
  <2>7. Change(f, r)
    BY <1>5, <2>1, <2>3, <2>4, <2>5, <2>6, Zenon DEF Change, Leaves
  <2> QED BY <2>7
<1>7. CASE fill[f].picks # {p}
  <2> DEFINE r == [fill[f] EXCEPT !.pc = "fillEach", !.picks = @ \ {p}, !.first = First(p)]
  <2>1. /\ r \in FillRecord /\ r.pc = "fillEach" /\ r.picks = fill[f].picks \ {p}
        /\ r.limit = fill[f].limit /\ r.n = fill[f].n /\ fill[f].n <= fill[f].limit + 1
    BY <1>1, <1>4, Records DEF FillRecord, PcFill
  <2>2. fill' = [fill EXCEPT ![f] = r] /\ UNCHANGED <<processing, fails>>
    BY <1>3, <1>7
  <2> HIDE DEF r
  <2>3. Change(f, r)
    BY <1>1, <1>2, <1>3, <1>5, <2>1, <2>2
       DEF Change, Life, Tardy, Adds, Past, PcBefore, Shape, AutoDjTypeOK
  <2> QED BY <2>1, <2>3
<1> QED BY <1>6, <1>7

LEMMA ThrowChanges ==
  ASSUME Shape, NEW f \in Fill, FillThrows(f)
  PROVE  \E r \in FillRecord: Change(f, r)
<1>1. /\ UNCHANGED <<auto, rest, playing, setting, host, doubled, late, peak>>
      /\ Past(fill[f]) /\ Finally(f) /\ fails' \in Nat /\ setting \in Setting
  BY DEF FillThrows, queueView, Shape, AutoDjTypeOK, Past, PcBefore
<1>2. FreeFill.pc = "free" /\ FreeFill.limit = 0 /\ FreeFill.n = 0
  BY DEF FreeFill
<1>3. Change(f, FreeFill)
  BY <1>1, <1>2 DEF Change, Life, Tardy, Adds, Past, PcBefore, Finally, Return, Shape,
                    AutoDjTypeOK
<1> QED BY <1>3, Records, Zenon

LEMMA FillChanges ==
  ASSUME Shape, NEW f \in Fill, FillMove(f)
  PROVE  \E r \in FillRecord: Change(f, r)
BY EarlyChanges, CountChanges, PickChanges, DisableChanges, EachChanges, SaveChanges,
   ThrowChanges, Zenon DEF FillMove, FillStep

-------------------------------------------------------------------------------
(* Every step is one of three kinds. *)
Others ==
  \/ HostAsks \/ HostStep
  \/ UserMove \/ UNCHANGED djVars

LEMMA StepKinds ==
  ASSUME [AutoDjNext]_djVars
  PROVE  Others \/ \E f \in Fill: FillMove(f)
BY Zenon DEF AutoDjNext, Others, UserMove, FillMove

LEMMA OthersKeepFills ==
  ASSUME Shape, Others
  PROVE  /\ UNCHANGED <<processing, fill, doubled>>
         /\ auto' \in SUBSET auto /\ rest' \in Nat /\ playing' \in BOOLEAN
         /\ setting' \in Setting /\ host' \in HostRecord /\ fails' \in Nat
         /\ peak' \in Nat /\ peak <= peak' /\ setting'.threshold <= peak'
         /\ late' = IF setting.enabled /\ ~setting'.enabled THEN 0 ELSE late
<1> USE DEF Shape, AutoDjTypeOK
<1>1. CASE HostAsks \/ HostStep
  BY <1>1, HostKeepsFills
<1>2. CASE UserMove \/ UNCHANGED djVars
  BY <1>2, UsersKeepFills
<1> QED BY <1>1, <1>2 DEF Others

LEMMA FillOfChange ==
  ASSUME Shape, NEW f \in Fill, NEW r \in FillRecord, Change(f, r)
  PROVE  /\ fill'[f] = r /\ \A g \in Fill \ {f}: fill'[g] = fill[g]
         /\ fill' \in [Fill -> FillRecord]
BY DEF Shape, Change

-------------------------------------------------------------------------------
(* The state keeps its shape. *)
LEMMA ShapeIsKept ==
  ASSUME Shape, [AutoDjNext]_djVars
  PROVE  Shape'
<1>1. CASE Others
  BY <1>1, OthersKeepFills DEF Shape, AutoDjTypeOK, HostRecord
<1>2. ASSUME NEW f \in Fill, NEW r \in FillRecord, Change(f, r)
      PROVE  Shape'
  <2>1. fill' \in [Fill -> FillRecord]
    BY <1>2, FillOfChange
  <2>2. \A g \in Fill: /\ fill'[g].pc \in PcFill /\ fill'[g].picks \subseteq Pick
                        /\ fill'[g].limit \in Nat
                        /\ fill'[g].n \in 0 .. fill'[g].limit + 1
    <3>1. \A g \in Fill: fill'[g] \in FillRecord /\ fill'[g].n <= fill'[g].limit + 1
      BY <1>2, <2>1, FillOfChange, Records DEF Change
    <3> QED BY <3>1 DEF FillRecord
  <2>3. processing' \in BOOLEAN /\ doubled' \in BOOLEAN
    BY <1>2 DEF Change, Life, Shape, AutoDjTypeOK
  <2>4. late' \in Nat
    BY <1>2 DEF Change, Tardy, Shape, AutoDjTypeOK
  <2> QED BY <1>2, <2>1, <2>2, <2>3, <2>4 DEF Change, Shape, AutoDjTypeOK
<1> QED BY <1>1, <1>2, StepKinds, FillChanges

(* Who sets the flag clears it, and is alone until two fills overlap. *)
LEMMA FlagIsKept ==
  ASSUME Shape, FlagHasOwner, PastIsAlone, [AutoDjNext]_djVars
  PROVE  FlagHasOwner' /\ PastIsAlone'
<1>1. CASE Others
  BY <1>1, OthersKeepFills DEF FlagHasOwner, PastIsAlone
<1>2. ASSUME NEW f \in Fill, NEW r \in FillRecord, Change(f, r)
      PROVE  FlagHasOwner' /\ PastIsAlone'
  <2>1. fill'[f] = r /\ \A g \in Fill \ {f}: fill'[g] = fill[g]
    BY <1>2, FillOfChange
  <2>2. FlagHasOwner <=> (processing => \E g \in Fill: Past(fill[g]))
    BY DEF FlagHasOwner, Past, PcBefore
  <2>3. FlagHasOwner' <=> (processing' => \E g \in Fill: Past(fill'[g]))
    BY DEF FlagHasOwner, Past, PcBefore
  <2>4. CASE ~Past(fill[f]) /\ ~Past(r) /\ UNCHANGED <<processing, doubled>>
    BY <2>1, <2>2, <2>3, <2>4 DEF PastIsAlone
  <2>5. CASE /\ ~Past(fill[f]) /\ Past(r)
             /\ processing' = TRUE /\ doubled' = (doubled \/ processing)
    BY <2>1, <2>3, <2>5 DEF PastIsAlone
  <2>6. CASE Past(fill[f]) /\ Past(r) /\ UNCHANGED <<processing, doubled>>
    BY <2>1, <2>3, <2>6 DEF PastIsAlone
  <2>7. CASE Past(fill[f]) /\ ~Past(r) /\ processing' = FALSE /\ UNCHANGED doubled
    BY <2>1, <2>3, <2>7 DEF PastIsAlone
  <2> QED BY <1>2, <2>4, <2>5, <2>6, <2>7 DEF Change, Life
<1> QED BY <1>1, <1>2, StepKinds, FillChanges

-------------------------------------------------------------------------------
(* AutoDJ turned off. *)
LEMMA FewAreSaving ==
  ASSUME NEW S \in SUBSET Fill
  PROVE  /\ IsFiniteSet(S) /\ Cardinality(S) \in Nat /\ Cardinality(S) <= MaxFills
         /\ (\A f, g \in S: f = g) => Cardinality(S) <= 1
<1>1. IsFiniteSet(S) /\ Cardinality(S) \in Nat /\ Cardinality(S) <= MaxFills
  BY RowsAreFinite, FS_Subset, FS_CardinalityType
<1>2. ASSUME \A f, g \in S: f = g
      PROVE  Cardinality(S) <= 1
  <2>1. CASE S = {}
    BY <2>1, FS_EmptySet
  <2>2. CASE S # {}
    <3>1. PICK f \in S: TRUE
      BY <2>2
    <3>2. S = {f}
      BY <1>2, <3>1
    <3> QED BY <3>2, FS_Singleton
  <2> QED BY <2>1, <2>2
<1> QED BY <1>1, <1>2

LEMMA LateIsKept ==
  ASSUME Shape, PastIsAlone, PastIsAlone', LateIsCounted, [AutoDjNext]_djVars
  PROVE  LateIsCounted'
<1>1. late \in Nat /\ MaxFills \in Nat /\ MayBeLate \in Nat
  BY AutoDjAssumption DEF MayBeLate, Shape, AutoDjTypeOK
<1>2. /\ Saving \in SUBSET Fill /\ IsFiniteSet(Saving)
      /\ Cardinality(Saving) \in Nat /\ Cardinality(Saving) <= MayBeLate
  <2>1. Saving \in SUBSET Fill /\ (~doubled => \A f, g \in Saving: f = g)
    BY DEF Saving, PastIsAlone, Past, PcBefore
  <2> QED BY <2>1, FewAreSaving DEF MayBeLate
<1>3. Cardinality(Saving') \in Nat /\ Cardinality(Saving') <= MayBeLate'
  <2>1. Saving' \in SUBSET Fill /\ (~doubled' => \A f, g \in Saving': f = g)
    BY DEF Saving, PastIsAlone, Past, PcBefore
  <2> QED BY <2>1, FewAreSaving DEF MayBeLate
<1>4. CASE Others
  <2>1. Saving' = Saving /\ MayBeLate' = MayBeLate
    BY <1>4, OthersKeepFills DEF Saving, MayBeLate
  <2>2. late' = IF setting.enabled /\ ~setting'.enabled THEN 0 ELSE late
    BY <1>4, OthersKeepFills
  <2> QED BY <1>1, <1>2, <2>1, <2>2 DEF LateIsCounted
<1>5. ASSUME NEW f \in Fill, NEW r \in FillRecord, Change(f, r)
      PROVE  LateIsCounted'
  <2>1. fill'[f] = r /\ \A g \in Fill \ {f}: fill'[g] = fill[g]
    BY <1>5, FillOfChange
  <2>2. MayBeLate <= MayBeLate' /\ MayBeLate' \in Nat
    <3>1. doubled => doubled'
      BY <1>5 DEF Change, Life
    <3>2. 1 <= MaxFills
      BY <1>1 DEF Fill
    <3> QED BY <1>1, <3>1, <3>2 DEF MayBeLate
  <2>3. CASE /\ fill[f].pc = "fillSave" /\ r.pc # "fillSave" /\ UNCHANGED setting
             /\ late' = IF setting.enabled THEN 0 ELSE late + 1
    <3>1. f \in Saving /\ Saving' = Saving \ {f}
      BY <2>1, <2>3 DEF Saving
    <3>2. Cardinality(Saving') = Cardinality(Saving) - 1
      BY <1>2, <3>1, FS_RemoveElement
    <3> QED BY <1>1, <1>2, <1>3, <2>2, <2>3, <3>2 DEF LateIsCounted
  <2>4. CASE r.pc # "fillSave" /\ late' = 0 /\ ~setting'.enabled
    BY <1>3, <2>2, <2>4 DEF LateIsCounted
  <2>5. CASE setting.enabled /\ UNCHANGED <<setting, late>>
    BY <1>1, <2>2, <2>5 DEF LateIsCounted
  <2>6. CASE r.pc # "fillSave" /\ UNCHANGED <<setting, late>>
    <3>1. Saving' \in SUBSET Saving
      BY <2>1, <2>6 DEF Saving
    <3>2. Cardinality(Saving') <= Cardinality(Saving)
      BY <1>2, <3>1, SmallerIsLess
    <3> QED BY <1>1, <1>2, <1>3, <2>2, <2>6, <3>2 DEF LateIsCounted
  <2> QED BY <1>5, <2>3, <2>4, <2>5, <2>6 DEF Change, Tardy
<1> QED BY <1>4, <1>5, StepKinds, FillChanges

-------------------------------------------------------------------------------
(* What a fill measured stays enough while rows go. *)
LEMMA FitsWithLess ==
  ASSUME NEW a \in SUBSET Row, NEW b \in SUBSET a, NEW m \in Nat, NEW h \in Nat, m <= h
  PROVE  /\ Cardinality(b) <= Cardinality(a)
         /\ Distinct(a) => Distinct(b)
         /\ \A r \in FillRecord: Fits(a, m, r) => Fits(b, h, r)
<1>1. /\ Cardinality(a) \in Nat /\ Cardinality(b) \in Nat
      /\ Cardinality(b) <= Cardinality(a)
  BY RowsAreFinite, SmallerIsLess
<1>2. ASSUME NEW r \in FillRecord
      PROVE  r.n \in Nat /\ r.limit \in Nat /\ Cardinality(r.picks) \in Nat
  BY RowsAreFinite, AutoDjAssumption DEF FillRecord
<1>3. \A r \in FillRecord: Fits(a, m, r) => Fits(b, h, r)
  BY <1>1, <1>2 DEF Fits
<1> QED BY <1>1, <1>3 DEF Distinct

(* The one fill that is past the test adds what it measured. *)
LEMMA AddedRowFits ==
  ASSUME Shape, NEW f \in Fill, NEW r \in FillRecord, Change(f, r),
         Cardinality(auto) <= peak + 1, Distinct(auto), Fits(auto, peak, fill[f])
  PROVE  /\ Cardinality(auto') <= peak' + 1 /\ Distinct(auto')
         /\ Fits(auto', peak', r)
<1>1. /\ auto \in SUBSET Row /\ auto' \in SUBSET Row /\ peak \in Nat
      /\ Cardinality(auto) \in Nat /\ IsFiniteSet(auto)
      /\ fill[f] \in FillRecord /\ r \in FillRecord
  BY RowsAreFinite, AutoDjAssumption DEF Shape, AutoDjTypeOK, Change
<1>2. /\ Cardinality(r.picks) \in Nat /\ Cardinality(fill[f].picks) \in Nat
      /\ IsFiniteSet(fill[f].picks) /\ r.n \in Nat /\ fill[f].n \in Nat
      /\ r.limit \in Nat
      /\ r.picks \subseteq Pick /\ fill[f].picks \subseteq Pick
  BY <1>1, RowsAreFinite DEF FillRecord
<1>9. peak' = peak /\ fill[f].limit <= peak /\ r.limit <= peak
  BY <1>1, AutoDjAssumption DEF Shape, Change, Fits, AutoDjTypeOK, Setting
<1>3. CASE auto' \subseteq auto /\ (~Past(r) \/ r.pc \in {"fillFresh", "fillDisable"})
  <2>1. Cardinality(auto') \in Nat
    BY <1>1, RowsAreFinite
  <2>2. Cardinality(auto') <= Cardinality(auto) /\ Distinct(auto')
    BY <1>1, <1>3, RowsAreFinite, SmallerIsLess DEF Distinct
  <2>3. Fits(auto', peak', r)
    BY <1>3, <1>9 DEF Fits, Past, PcBefore
  <2> QED BY <1>1, <1>9, <2>1, <2>2, <2>3
<1>4. CASE /\ ~Past(fill[f]) /\ r.pc = "fillPick" /\ UNCHANGED auto
           /\ Waiting <= r.limit /\ r.limit = fill[f].limit /\ r.n = r.limit - Waiting + 1
  <2>1. Cardinality(auto) + r.n <= peak + 1
    BY <1>9, <1>1, <1>2, <1>4, WaitingIsNat
  <2> QED BY <1>9, <1>4, <2>1 DEF Fits
<1>5. CASE /\ fill[f].pc = "fillPick" /\ r.pc = "fillDup" /\ UNCHANGED auto
           /\ r.n = fill[f].n /\ r.picks \in Candidates
  BY <1>1, <1>2, <1>5, <1>9 DEF Fits, Candidates
<1>6. CASE /\ fill[f].pc = "fillDup" /\ r.pc = "fillEach" /\ UNCHANGED auto
           /\ r.picks \subseteq {p \in fill[f].picks: p[1] \notin Queued}
           /\ Cardinality(r.picks) <= fill[f].n
  <2>1. \A p \in r.picks, q \in auto: p[1] # q[1]
    BY <1>6 DEF Queued
  <2> QED BY <1>1, <1>2, <1>6, <1>9, <2>1 DEF Fits
<1>7. CASE /\ fill[f].pc = "fillEach" /\ r.pc = "fillSave" /\ UNCHANGED auto
           /\ r.picks = fill[f].picks
  BY <1>1, <1>2, <1>7, <1>9 DEF Fits
<1>8. ASSUME fill[f].pc = "fillSave", NEW p \in fill[f].picks, NEW k \in 1 .. MaxCopies,
             <<p[1], k>> \notin auto, auto' = auto \cup {<<p[1], k>>},
             ~Past(r) \/ (r.pc = "fillEach" /\ r.picks = fill[f].picks \ {p})
      PROVE  /\ Cardinality(auto') <= peak' + 1 /\ Distinct(auto')
             /\ Fits(auto', peak', r)
  <2>1. Cardinality(auto') = Cardinality(auto) + 1
    BY <1>1, <1>8, FS_AddElement
  <2>2. /\ Cardinality(fill[f].picks \ {p}) = Cardinality(fill[f].picks) - 1
        /\ Cardinality(fill[f].picks \ {p}) \in Nat
    <3>1. fill[f].picks \ {p} \in SUBSET Pick
      BY <1>2
    <3> QED BY <1>2, <3>1, FS_RemoveElement, RowsAreFinite
  <2>3. /\ Cardinality(auto) + Cardinality(fill[f].picks) <= peak + 1
        /\ \A q \in auto: p[1] = q[1] => p[1] \in Repeated
        /\ \A x \in fill[f].picks, q \in auto: x[1] = q[1] => x[1] \in Repeated
        /\ \A t \in Track: <<t, 2>> \in fill[f].picks => t \in Repeated
    BY <1>8 DEF Fits
  <2>4. Cardinality(auto') <= peak' + 1
    BY <1>1, <1>2, <1>9, <2>1, <2>2, <2>3
  <2>5. Distinct(auto')
    BY <1>8, <2>3 DEF Distinct
  <2>6. \A x \in fill[f].picks \ {p}, q \in auto': x[1] = q[1] => x[1] \in Repeated
    <3> SUFFICES ASSUME NEW x \in fill[f].picks \ {p}, x[1] = p[1]
                 PROVE  x[1] \in Repeated
      BY <1>8, <2>3
    <3>1. p = <<p[1], p[2]>> /\ x = <<x[1], x[2]>> /\ p[1] \in Track
          /\ p[2] \in {1, 2} /\ x[2] \in {1, 2}
      BY <1>2 DEF Pick
    <3>2. p[2] = 2 \/ x[2] = 2
      BY <3>1
    <3> QED BY <2>3, <3>1, <3>2
  <2>7. Fits(auto', peak', r)
    <3>1. CASE ~Past(r)
      BY <1>9, <3>1 DEF Fits, Past, PcBefore
    <3>2. CASE r.pc = "fillEach" /\ r.picks = fill[f].picks \ {p}
      <4>1. Cardinality(auto') + Cardinality(r.picks) <= peak' + 1
        BY <1>1, <1>2, <1>9, <2>1, <2>2, <2>3, <3>2
      <4>2. \A t \in Track: <<t, 2>> \in r.picks => t \in Repeated
        BY <2>3, <3>2
      <4> QED BY <1>9, <2>6, <3>2, <4>1, <4>2 DEF Fits
    <3> QED BY <1>8, <3>1, <3>2
  <2> QED BY <2>4, <2>5, <2>7
<1> QED BY <1>3, <1>4, <1>5, <1>6, <1>7, <1>8, Zenon DEF Change, Adds

LEMMA FitIsKept ==
  ASSUME Shape, PastIsAlone, FillsFit, [AutoDjNext]_djVars
  PROVE  FillsFit'
<1>1. auto \in SUBSET Row /\ \A f \in Fill: fill[f] \in FillRecord
  BY DEF Shape, AutoDjTypeOK
<1>5. peak \in Nat
  BY DEF Shape, AutoDjTypeOK
<1>2. CASE Others
  <2>1. UNCHANGED <<fill, doubled>> /\ auto' \in SUBSET auto
    BY <1>2, OthersKeepFills
  <2>2. Cardinality(auto) \in Nat /\ Cardinality(auto') \in Nat /\ peak' \in Nat
        /\ peak <= peak'
    BY <1>1, <1>2, <2>1, OthersKeepFills, RowsAreFinite
  <2>3. /\ Cardinality(auto') <= Cardinality(auto)
        /\ Distinct(auto) => Distinct(auto')
        /\ \A f \in Fill: Fits(auto, peak, fill[f]) => Fits(auto', peak', fill[f])
    BY <1>1, <1>5, <2>1, <2>2, FitsWithLess
  <2> QED BY <1>5, <2>1, <2>2, <2>3 DEF FillsFit
<1>3. ASSUME NEW f \in Fill, NEW r \in FillRecord, Change(f, r), ~doubled'
      PROVE  /\ Cardinality(auto') <= peak' + 1 /\ Distinct(auto')
             /\ \A g \in Fill: Fits(auto', peak', fill'[g])
  <2>1. ~doubled
    BY <1>3 DEF Change, Life
  <2>2. /\ Cardinality(auto) <= peak + 1 /\ Distinct(auto)
        /\ \A g \in Fill: Fits(auto, peak, fill[g])
    BY <2>1 DEF FillsFit
  <2>3. fill'[f] = r /\ \A g \in Fill \ {f}: fill'[g] = fill[g]
    BY <1>3, FillOfChange
  <2>4. /\ Cardinality(auto') <= peak' + 1 /\ Distinct(auto') /\ Fits(auto', peak', r)
    BY <1>3, <2>2, AddedRowFits
  <2>5. ASSUME NEW g \in Fill \ {f}
        PROVE  Fits(auto', peak', fill[g])
    <3>1. CASE Past(fill[f])
      <4>1. ~Past(fill[g])
        BY <2>1, <3>1 DEF PastIsAlone
      <4>2. peak' = peak /\ fill[g].limit <= peak
        BY <1>3, <2>2 DEF Change, Fits
      <4> QED BY <4>1, <4>2 DEF Fits, Past, PcBefore
    <3>2. CASE ~Past(fill[f])
      <4>1. auto' \in SUBSET auto
        BY <1>3, <3>2 DEF Change, Adds, Past, PcBefore
      <4>2. peak' = peak
        BY <1>3 DEF Change
      <4> QED BY <1>1, <1>5, <2>2, <4>1, <4>2, FitsWithLess
    <3> QED BY <3>1, <3>2
  <2> QED BY <2>3, <2>4, <2>5
<1>4. ASSUME NEW f \in Fill, NEW r \in FillRecord, Change(f, r)
      PROVE  FillsFit'
  BY <1>3, <1>4 DEF FillsFit
<1> QED BY <1>2, <1>4, StepKinds, FillChanges

-------------------------------------------------------------------------------
LEMMA AutoDjInitInv == AutoDjInit => AutoDjInv
<1> SUFFICES ASSUME AutoDjInit PROVE AutoDjInv
  OBVIOUS
<1>1. \A f \in Fill: /\ fill[f] = FreeFill /\ FreeFill.pc = "free" /\ FreeFill.n = 0
                     /\ FreeFill.limit = 0 /\ FreeFill.picks = {}
  BY DEF AutoDjInit, FreeFill
<1>2. FreeFill \in FillRecord /\ MaxFills \in Nat /\ peak \in Nat
      /\ setting \in Setting /\ peak = setting.threshold
  <2>1. FreeFill \in FillRecord
    BY DEF FreeFill, FillRecord, PcFill
  <2>2. setting \in Setting /\ peak = setting.threshold
    BY DEF AutoDjInit
  <2> QED BY <2>1, <2>2, AutoDjAssumption DEF Setting
<1>3. Shape
  <2>1. /\ auto \subseteq Row /\ rest \in Nat /\ playing \in BOOLEAN
        /\ late \in Nat /\ fails \in Nat /\ processing \in BOOLEAN /\ doubled \in BOOLEAN
    BY DEF AutoDjInit
  <2>2. fill \in [Fill -> FillRecord] /\ host = FreeHost
    BY <1>2 DEF AutoDjInit
  <2>3. host \in HostRecord /\ host.pc \in PcHost /\ host.row \in Setting
    BY <2>2, FreeHostRecord DEF HostRecord
  <2>4. \A f \in Fill: /\ fill[f].pc \in PcFill /\ fill[f].picks \subseteq Pick
                       /\ fill[f].limit \in Nat /\ fill[f].n \in 0 .. fill[f].limit + 1
    BY <1>1 DEF PcFill
  <2>5. setting.threshold <= peak
    BY <1>2
  <2>6. AutoDjTypeOK
    BY <1>2, <2>1, <2>3, <2>4 DEF AutoDjTypeOK
  <2> QED BY <2>2, <2>3, <2>5, <2>6 DEF Shape
<1>4. FlagHasOwner /\ PastIsAlone
  BY <1>1 DEF AutoDjInit, FlagHasOwner, PastIsAlone, Past, PcBefore
<1>5. LateIsCounted
  <2>1. Saving = {}
    BY <1>1 DEF Saving
  <2> QED BY <1>2, <2>1, FS_EmptySet DEF AutoDjInit, LateIsCounted, MayBeLate
<1>6. FillsFit
  <2>1. Cardinality(auto) = 0
    BY FS_EmptySet DEF AutoDjInit
  <2> QED BY <1>1, <1>2, <2>1 DEF AutoDjInit, FillsFit, Distinct, Fits
<1> QED BY <1>3, <1>4, <1>5, <1>6 DEF AutoDjInv

(* The inductive invariant holds in every state, with or without fairness. *)
THEOREM AutoDjInvariant == AutoDjSpec => []AutoDjInv
<1>1. AutoDjInv /\ [AutoDjNext]_djVars => AutoDjInv'
  BY ShapeIsKept, FlagIsKept, LateIsKept, FitIsKept DEF AutoDjInv
<1> QED BY AutoDjInitInv, <1>1, PTL DEF AutoDjSpec

(* The state keeps its shape; a fill never wants more than one row above
   the threshold it has read. *)
THEOREM AutoDjTypeCorrect == AutoDjSpec => []AutoDjTypeOK
<1>1. AutoDjInv => AutoDjTypeOK
  BY DEF AutoDjInv, Shape
<1> QED BY <1>1, AutoDjInvariant, PTL

(* A room is never left marked as processing: the fill that marked it still runs,
   whatever it met and however many others started meanwhile. *)
THEOREM FlagIsOwned == AutoDjSpec => []FlagHasOwner
<1>1. AutoDjInv => FlagHasOwner
  BY DEF AutoDjInv
<1> QED BY <1>1, AutoDjInvariant, PTL

(* Turned off in the middle of a fill, AutoDJ adds one row at the most, and one
   for each fill in flight when fills have overlapped. *)
THEOREM OffStops == AutoDjSpec => []OffStopsTheFill
<1>1. AutoDjInv => OffStopsTheFill
  BY DEF AutoDjInv, LateIsCounted, MayBeLate, OffStopsTheFill
<1> QED BY <1>1, AutoDjInvariant, PTL

(* Until two fills overlap, the rows AutoDJ added that wait since then are at most
   one above the highest threshold the host has set, and no track waits twice among
   them but one that candidates may name twice; whatever is played, removed and put
   back meanwhile. *)
THEOREM FillsFitMeasure == AutoDjSpec => []FillsAreMeasured
<1>1. AutoDjInv => FillsAreMeasured
  BY DEF AutoDjInv, FillsFit, Distinct, FillsAreMeasured
<1> QED BY <1>1, AutoDjInvariant, PTL

===============================================================================
