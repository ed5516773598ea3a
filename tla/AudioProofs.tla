----------------------------- MODULE AudioProofs -----------------------------
(***************************************************************************)
(* Proofs about AudioService, for every set of listeners and every bound.  *)
(*                                                                         *)
(* None of the invariants of Audio is inductive by itself.  AudioInv adds  *)
(* the facts about numbering that the code relies on without saying so:    *)
(* the room's object is the newest one, what is not spawned yet has left   *)
(* no trace, and a retry belongs to a process that is gone.                *)
(***************************************************************************)
EXTENDS Audio, TLAPS

(* Spawns are numbered in order and the newest object is the room's; a room
   that is not in the map has no listeners, and object 0 never streams. *)
NewestIsRoom ==
  /\ cur \in Stream => cur = spawned
  /\ cur = NoRoom => \A l \in Listener: sync[l] = "absent"
  /\ ~ffmpeg[0] /\ ~init[0]

(* Nothing is known of a process before it is spawned. *)
UnbornIsBlank ==
  \A s \in Stream:
    /\ proc[s] = "unborn" <=> s > spawned
    /\ s > spawned => attempt[s] = 0
    /\ s \in started \cup ended \cup stray => s <= spawned

(* A stream has an init segment only if its header was parsed. *)
InitFromHeader == \A s \in Stream: init[s] => header[s] = "done"

RetryOfGone == \A s \in retrying: proc[s] = "gone"

(* A respawn serves an older startStream, whose own process has started. *)
OriginIsOlder ==
  \A s \in Stream: origin[s] <= s /\ (origin[s] = s \/ origin[s] \in started)

AudioInv ==
  /\ AudioTypeOK
  /\ NewestIsRoom
  /\ UnbornIsBlank
  /\ InitFromHeader
  /\ RetryOfGone
  /\ OriginIsOlder
  /\ SyncedToRoom
  /\ StrayIsDrainOrOrphan
  /\ ChainEndsOnce
  /\ EndAfterStart
  /\ OrphansOnlyFromRetry

-------------------------------------------------------------------------------
LEMMA InitInv == AudioInit => AudioInv
BY AudioAssumption
   DEF AudioInit, AudioInv, AudioTypeOK, NewestIsRoom, UnbornIsBlank, InitFromHeader,
       RetryOfGone, OriginIsOlder, SyncedToRoom, StrayIsDrainOrOrphan, ChainEndsOnce,
       Active, EndAfterStart, OrphansOnlyFromRetry, Stream, Object

(* No conjunct but the type looks at the playing flags. *)
LEMMA PlayingIsFree ==
  ASSUME AudioInv, playing' \in [Object -> BOOLEAN],
         UNCHANGED <<processVars, listenerVars, cur, ffmpeg, init, sharing>>
  PROVE  AudioInv'
BY DEF AudioInv, AudioTypeOK, NewestIsRoom, UnbornIsBlank, InitFromHeader, RetryOfGone,
       OriginIsOlder, SyncedToRoom, StrayIsDrainOrOrphan, ChainEndsOnce, Active, EndAfterStart,
       OrphansOnlyFromRetry, IsRoomFfmpeg, processVars, listenerVars

LEMMA StutterKeeps == AudioInv /\ UNCHANGED audioVars => AudioInv'
BY DEF AudioInv, AudioTypeOK, NewestIsRoom, UnbornIsBlank, InitFromHeader, RetryOfGone,
       OriginIsOlder, SyncedToRoom, StrayIsDrainOrOrphan, ChainEndsOnce, Active, EndAfterStart,
       OrphansOnlyFromRetry, IsRoomFfmpeg, audioVars

ProcState == {"unborn", "live", "killed", "gone"}

(* What the two callers of spawnFfmpeg owe it: p only loses live processes, a
   respawn (from # 0) comes from a chain that has a started stream, has not
   ended and has nothing else active, and whoever still lives beside the new
   process is superseded by a retry. *)
LEMMA SpawnKeeps ==
  ASSUME AudioInv,
         NEW p \in [Stream -> ProcState], NEW f \in [Object -> BOOLEAN],
         NEW tries \in Nat, NEW from \in Object,
         SpawnFfmpeg(p, f, tries, from),
         retrying' \subseteq retrying,
         ~f[0],
         \A s \in Stream: /\ p[s] = "live" => proc[s] = "live"
                          /\ p[s] = "unborn" <=> proc[s] = "unborn"
                          /\ s \in retrying => p[s] = "gone",
         from # 0 => /\ from <= spawned /\ from \in started /\ from \notin ended
                     /\ \A s \in Stream: p[s] = "live" \/ s \in retrying' => origin[s] # from,
         \A s \in Stream: p[s] = "live" =>
           tries > 0 \/ \E t \in Stream: t > s /\ attempt[t] > 0
  PROVE  AudioInv'
<1> DEFINE n == spawned + 1
<1> USE AudioAssumption DEF AudioInv, Stream, Object
<1>1. n \in Stream /\ spawned' = n /\ cur' = n /\ spawned \in Nat
  BY DEF SpawnFfmpeg, AudioTypeOK
<1>2. /\ proc' = [p EXCEPT ![n] = "live"]
      /\ ffmpeg' = [f EXCEPT ![n] = TRUE]
      /\ playing' = [playing EXCEPT ![n] = TRUE]
      /\ init' = [init EXCEPT ![n] = FALSE]
      /\ attempt' = [attempt EXCEPT ![n] = tries]
      /\ origin' = [origin EXCEPT ![n] = IF from = 0 THEN n ELSE from]
      /\ sync' = UnsyncAll
      /\ UNCHANGED <<header, started, ended, lastInit, stray>>
  BY DEF SpawnFfmpeg
<1>3. UnsyncAll \in [Listener -> {"absent", "unsynced"}]
  BY DEF UnsyncAll
<1> HIDE DEF n
<1>4. AudioTypeOK'
  <2>1. /\ proc' \in [Stream -> ProcState]
        /\ ffmpeg' \in [Object -> BOOLEAN]
        /\ playing' \in [Object -> BOOLEAN]
        /\ init' \in [Object -> BOOLEAN]
    BY <1>1, <1>2 DEF AudioTypeOK, ProcState
  <2>2. attempt' \in [Stream -> Nat]
    BY <1>1, <1>2 DEF AudioTypeOK
  <2>3. (IF from = 0 THEN n ELSE from) \in Stream
    BY <1>1
  <2>4. origin' \in [Stream -> Stream]
    BY <1>1, <1>2, <2>3 DEF AudioTypeOK
  <2> QED
    <3>1. spawned' \in 0 .. MaxSpawns /\ cur' \in Object \cup {NoRoom}
      BY <1>1
    <3>2. retrying' \subseteq Stream
      BY DEF AudioTypeOK
    <3>3. sync' \in [Listener -> {"absent", "unsynced", "synced"}]
      BY <1>2, <1>3
    <3>4. sharing' \subseteq Stream /\ stray' \subseteq Stream
      <4>1. sharing' = sharing \cup {n} /\ stray' = stray
        BY DEF SpawnFfmpeg, n
      <4>2. sharing \subseteq Stream /\ stray \subseteq Stream
        BY DEF AudioTypeOK
      <4> QED BY ONLY <4>1, <4>2, <1>1
    <3>5. /\ header' \in [Stream -> {"wait", "done", "lost"}]
          /\ started' \subseteq Stream /\ ended' \subseteq Stream
          /\ lastInit' \in [Listener -> Stream \cup {NoRoom}]
      BY <1>2 DEF AudioTypeOK
    <3> QED
      BY ONLY <2>1, <2>2, <2>4, <3>1, <3>2, <3>3, <3>4, <3>5 DEF AudioTypeOK, ProcState, Stream, Object
<1>13. \A s \in Stream: /\ s > spawned' <=> s > spawned /\ s # n
                        /\ s <= spawned => s <= spawned' /\ s # n /\ n > s
                        /\ s > spawned \/ s <= spawned
  BY <1>1 DEF n
<1>14. \A s \in Stream:
         /\ proc'[s] = IF s = n THEN "live" ELSE p[s]
         /\ attempt'[s] = IF s = n THEN tries ELSE attempt[s]
         /\ origin'[s] = IF s # n THEN origin[s] ELSE IF from = 0 THEN n ELSE from
  BY <1>2 DEF AudioTypeOK
<1>15. \A o \in Object: /\ ffmpeg'[o] = IF o = n THEN TRUE ELSE f[o]
                        /\ init'[o] = IF o = n THEN FALSE ELSE init[o]
  BY <1>2 DEF AudioTypeOK
<1>5. NewestIsRoom'
  <2>1. cur' = spawned' /\ cur' # NoRoom
    BY <1>1
  <2>2. 0 \in Object /\ n # 0
    BY <1>1
  <2>3. ~ffmpeg'[0] /\ ~init'[0]
    BY <2>2, <1>15 DEF NewestIsRoom
  <2> QED
    BY <2>1, <2>3 DEF NewestIsRoom
<1>6. UnbornIsBlank'
  <2> SUFFICES ASSUME NEW s \in Stream
               PROVE  /\ proc'[s] = "unborn" <=> s > spawned'
                      /\ s > spawned' => attempt'[s] = 0
                      /\ s \in started' \cup ended' \cup stray' => s <= spawned'
    BY DEF UnbornIsBlank
  <2>1. s > spawned' <=> s > spawned /\ s # n
    BY <1>13
  <2>2. proc[s] = "unborn" <=> s > spawned
    BY DEF UnbornIsBlank
  <2>3. proc'[s] = "unborn" <=> s > spawned'
    BY <2>1, <2>2, <1>14
  <2>4. s > spawned' => attempt'[s] = 0
    BY <2>1, <1>14 DEF UnbornIsBlank
  <2>5. s \in started' \cup ended' \cup stray' => s <= spawned'
    BY <1>2, <1>13 DEF UnbornIsBlank
  <2> QED BY <2>3, <2>4, <2>5
<1>7. InitFromHeader' /\ EndAfterStart'
  BY <1>2, <1>15 DEF InitFromHeader, EndAfterStart
<1>8. RetryOfGone'
  <2> SUFFICES ASSUME NEW s \in retrying'
               PROVE  proc'[s] = "gone"
    BY DEF RetryOfGone
  <2>1. s \in Stream /\ s \in retrying /\ p[s] = "gone"
    BY DEF AudioTypeOK
  <2>2. s # n
    BY <2>1, <1>1, <1>13 DEF UnbornIsBlank, RetryOfGone
  <2> QED BY <2>1, <2>2, <1>14
<1>9. OriginIsOlder'
  <2> SUFFICES ASSUME NEW s \in Stream
               PROVE  origin'[s] <= s /\ (origin'[s] = s \/ origin'[s] \in started')
    BY DEF OriginIsOlder
  <2>1. CASE s # n
    BY <2>1, <1>2, <1>14 DEF OriginIsOlder
  <2>2. CASE s = n
    <3>1. from <= n
      BY <1>1 DEF n
    <3> QED BY <2>2, <3>1, <1>1, <1>2, <1>14
  <2> QED BY <2>1, <2>2
<1>10. SyncedToRoom'
  BY <1>2, <1>3 DEF SyncedToRoom
<1>11. ChainEndsOnce'
  <2>1. \A s \in Stream: Active(s)' => s = n \/ (Active(s) /\ s <= spawned /\ s # n)
    BY <1>1, <1>2 DEF Active, UnbornIsBlank, RetryOfGone, AudioTypeOK
  <2>2. \A s \in Stream: s # n => origin'[s] = origin[s]
    BY <1>14
  <2>3. origin'[n] = IF from = 0 THEN n ELSE from
    BY <1>1, <1>14
  <2>4. origin'[n] \notin ended
    <3>1. n \notin ended
      BY <1>1, <1>13 DEF UnbornIsBlank
    <3> QED BY <2>3, <3>1
  <2>5. \A s \in Stream: s # n /\ Active(s)' => origin[s] # origin'[n]
    <3> SUFFICES ASSUME NEW s \in Stream, s # n, Active(s)'
                 PROVE  origin[s] # origin'[n]
      OBVIOUS
    <3>1. CASE from = 0
      <4>1. origin[s] <= s /\ s <= spawned /\ origin'[n] = n
        BY <3>1, <2>1, <2>3 DEF OriginIsOlder
      <4>2. origin[s] \in Stream /\ n > spawned
        BY <1>1 DEF AudioTypeOK, n
      <4> QED BY <4>1, <4>2, <1>1
    <3>2. CASE from # 0
      <4>1. p[s] = "live" \/ s \in retrying'
        BY <1>1, <1>2 DEF Active, AudioTypeOK
      <4> QED BY <4>1, <3>2, <2>3
    <3> QED BY <3>1, <3>2
  <2> QED
    BY <2>1, <2>2, <2>4, <2>5, <1>2 DEF ChainEndsOnce
<1>12. OrphansOnlyFromRetry'
  <2> SUFFICES ASSUME NEW s \in Stream, proc'[s] = "live", ~IsRoomFfmpeg(s)'
               PROVE  \E t \in Stream: t > s /\ attempt'[t] > 0
    BY DEF OrphansOnlyFromRetry
  <2>1. s # n
    BY <1>1, <1>2 DEF IsRoomFfmpeg, AudioTypeOK
  <2>2. p[s] = "live" /\ s <= spawned
    BY <2>1, <1>1, <1>2 DEF UnbornIsBlank, AudioTypeOK
  <2>3. CASE tries > 0
    BY <2>2, <2>3, <1>1, <1>13, <1>14
  <2>4. CASE \E t \in Stream: t > s /\ attempt[t] > 0
    <3>1. PICK t \in Stream: t > s /\ attempt[t] > 0
      BY <2>4
    <3>2. t # n
      BY <3>1, <1>1, <1>13 DEF UnbornIsBlank
    <3> QED BY <3>1, <3>2, <1>14
  <2> QED BY <2>2, <2>3, <2>4
<1>16. StrayIsDrainOrOrphan'
  <2> SUFFICES ASSUME NEW s \in stray, proc'[s] = "live"
               PROVE  \E t \in Stream: t > s /\ attempt'[t] > 0
    BY <1>2 DEF StrayIsDrainOrOrphan
  <2>1. s \in Stream /\ s <= spawned
    BY DEF UnbornIsBlank, AudioTypeOK
  <2>2. proc[s] = "live"
    BY <2>1, <1>13, <1>14
  <2>3. PICK t \in Stream: t > s /\ attempt[t] > 0
    BY <2>2 DEF StrayIsDrainOrOrphan
  <2>4. t # n
    BY <2>3, <1>1, <1>13 DEF UnbornIsBlank
  <2> QED BY <2>3, <2>4, <1>14
<1> QED
  BY <1>4, <1>5, <1>6, <1>7, <1>8, <1>9, <1>10, <1>11, <1>12, <1>16

-------------------------------------------------------------------------------
LEMMA StartStreamKeeps ==
  ASSUME AudioInv, StartStream
  PROVE  AudioInv'
<1> USE AudioAssumption DEF AudioInv, Stream, Object
<1>1. retrying' \subseteq retrying
  BY DEF StartStream
<1>2. CASE HasFfmpeg
  <2>1. cur \in Stream
    BY <1>2 DEF HasFfmpeg, NewestIsRoom, AudioTypeOK
  <2> DEFINE f == [ffmpeg EXCEPT ![cur] = FALSE]
  <2>2. SpawnFfmpeg(Killed(cur), f, 0, 0)
    BY <1>2 DEF StartStream
  <2>3. Killed(cur) \in [Stream -> ProcState] /\ f \in [Object -> BOOLEAN] /\ ~f[0]
    BY <2>1 DEF Killed, ProcState, AudioTypeOK, NewestIsRoom
  <2>4. \A s \in Stream:
          Killed(cur)[s] = IF s = cur /\ proc[s] = "live" THEN "killed" ELSE proc[s]
    BY <2>1 DEF Killed, AudioTypeOK
  <2>5. \A s \in Stream: s # cur => ~IsRoomFfmpeg(s)
    BY DEF IsRoomFfmpeg
  <2>6. \A s \in Stream: Killed(cur)[s] = "live" =>
          \E t \in Stream: t > s /\ attempt[t] > 0
    BY <2>4, <2>5 DEF OrphansOnlyFromRetry
  <2>7. \A s \in Stream: /\ Killed(cur)[s] = "live" => proc[s] = "live"
                         /\ Killed(cur)[s] = "unborn" <=> proc[s] = "unborn"
                         /\ s \in retrying => Killed(cur)[s] = "gone"
    BY <2>4 DEF RetryOfGone
  <2> HIDE DEF f
  <2> QED
    BY <1>1, <2>2, <2>3, <2>6, <2>7, SpawnKeeps
<1>3. CASE ~HasFfmpeg
  <2>1. SpawnFfmpeg(proc, ffmpeg, 0, 0)
    BY <1>3 DEF StartStream
  <2>2. proc \in [Stream -> ProcState] /\ ffmpeg \in [Object -> BOOLEAN] /\ ~ffmpeg[0]
    BY DEF ProcState, AudioTypeOK, NewestIsRoom
  <2>3. \A s \in Stream: ~IsRoomFfmpeg(s)
    BY <1>3 DEF HasFfmpeg, IsRoomFfmpeg
  <2>4. \A s \in Stream: proc[s] = "live" => \E t \in Stream: t > s /\ attempt[t] > 0
    BY <2>3 DEF OrphansOnlyFromRetry
  <2> QED
    BY <1>1, <2>1, <2>2, <2>4, SpawnKeeps DEF RetryOfGone
<1> QED BY <1>2, <1>3

LEMMA RetrySpawnKeeps ==
  ASSUME AudioInv, NEW s \in Stream, RetrySpawn(s)
  PROVE  AudioInv'
<1> USE AudioAssumption DEF AudioInv, Stream, Object
<1>1. SpawnFfmpeg(proc, ffmpeg, attempt[s] + 1, origin[s])
  BY DEF RetrySpawn
<1>2. proc \in [Stream -> ProcState] /\ ffmpeg \in [Object -> BOOLEAN] /\ ~ffmpeg[0]
  BY DEF ProcState, AudioTypeOK, NewestIsRoom
<1>3. attempt[s] + 1 \in Nat /\ attempt[s] + 1 > 0 /\ origin[s] \in Object
  <2>1. attempt[s] \in Nat /\ origin[s] \in Stream
    BY DEF AudioTypeOK
  <2> QED BY <2>1
<1>4. retrying' \subseteq retrying /\ s \in retrying /\ s \notin retrying'
  BY DEF RetrySpawn
<1>5. origin[s] <= spawned /\ origin[s] \in started /\ origin[s] \notin ended
  <2>1. s <= spawned
    BY <1>4 DEF RetryOfGone, UnbornIsBlank, AudioTypeOK
  <2>2. origin[s] \in started
    BY <1>4 DEF OriginIsOlder, EndAfterStart
  <2> QED
    BY <2>1, <2>2, <1>4 DEF OriginIsOlder, ChainEndsOnce, Active, AudioTypeOK
<1>6. \A t \in Stream: proc[t] = "live" \/ t \in retrying' => origin[t] # origin[s]
  BY <1>4 DEF ChainEndsOnce, Active, RetryOfGone
<1>7. \A t \in Stream: t \in retrying => proc[t] = "gone"
  BY DEF RetryOfGone
<1> QED
  BY <1>1, <1>2, <1>3, <1>4, <1>5, <1>6, <1>7, SpawnKeeps

-------------------------------------------------------------------------------
(* stopStream, and destroyRoom behind it. *)
LEMMA StoppedKeeps ==
  ASSUME AudioInv, cur # NoRoom, Stopped,
         cur' \in {cur, NoRoom},
         sync' \in [Listener -> {"absent", "unsynced"}],
         cur' = NoRoom => \A l \in Listener: sync'[l] = "absent",
         lastInit' \in [Listener -> Stream \cup {NoRoom}],
         sharing' \subseteq Stream
  PROVE  AudioInv'
<1> USE AudioAssumption DEF AudioInv, Stream, Object
<1>1. /\ proc' \in [Stream -> ProcState]
      /\ \A s \in Stream: proc'[s] = IF s = cur /\ ffmpeg[s] /\ proc[s] = "live"
                                     THEN "killed" ELSE proc[s]
  <2>1. proc' = IF HasFfmpeg THEN Killed(cur) ELSE proc
    BY DEF Stopped
  <2>2. proc \in [Stream -> ProcState] /\ ~ffmpeg[0] /\ cur \in Object
    BY DEF AudioTypeOK, NewestIsRoom, ProcState
  <2>3. QED
    BY ONLY <2>1, <2>2, cur # NoRoom, AudioAssumption
       DEF HasFfmpeg, Killed, ProcState, Stream, Object
<1>2. /\ ffmpeg' \in [Object -> BOOLEAN]
      /\ playing' \in [Object -> BOOLEAN]
      /\ init' \in [Object -> BOOLEAN]
      /\ \A o \in Object: /\ ffmpeg'[o] = (o # cur /\ ffmpeg[o])
                          /\ init'[o] = (o # cur /\ init[o])
  <2>1. /\ ffmpeg' = [ffmpeg EXCEPT ![cur] = FALSE]
        /\ playing' = [playing EXCEPT ![cur] = FALSE]
        /\ init' = [init EXCEPT ![cur] = FALSE]
    BY DEF Stopped
  <2>2. /\ ffmpeg \in [Object -> BOOLEAN]
        /\ playing \in [Object -> BOOLEAN]
        /\ init \in [Object -> BOOLEAN]
    BY DEF AudioTypeOK
  <2>3. QED
    BY ONLY <2>1, <2>2
<1>3. UNCHANGED <<spawned, header, started, retrying, attempt, origin, ended, stray>>
  BY DEF Stopped
<1>4. AudioTypeOK'
  BY <1>1, <1>2, <1>3 DEF AudioTypeOK, ProcState
<1>5. NewestIsRoom'
  BY <1>2, <1>3 DEF NewestIsRoom
<1>6. UnbornIsBlank' /\ InitFromHeader' /\ OriginIsOlder' /\ EndAfterStart'
  <2>1. \A s \in Stream: proc'[s] = "unborn" <=> proc[s] = "unborn"
    BY <1>1
  <2>2. UnbornIsBlank'
    BY <1>3, <2>1 DEF UnbornIsBlank
  <2>3. InitFromHeader'
    BY <1>2, <1>3 DEF InitFromHeader
  <2>4. OriginIsOlder' /\ EndAfterStart'
    BY <1>3 DEF OriginIsOlder, EndAfterStart
  <2> QED BY <2>2, <2>3, <2>4
<1>7. RetryOfGone'
  BY <1>1, <1>3 DEF RetryOfGone, AudioTypeOK
<1>8. SyncedToRoom'
  BY DEF SyncedToRoom
<1>9. ChainEndsOnce'
  BY <1>1, <1>3 DEF ChainEndsOnce, Active
<1>10. OrphansOnlyFromRetry'
  <2> SUFFICES ASSUME NEW s \in Stream, proc'[s] = "live"
               PROVE  \E t \in Stream: t > s /\ attempt[t] > 0
    BY <1>3 DEF OrphansOnlyFromRetry
  <2>1. proc[s] = "live" /\ ~IsRoomFfmpeg(s)
    BY <1>1 DEF IsRoomFfmpeg
  <2> QED BY <2>1 DEF OrphansOnlyFromRetry
<1>11. StrayIsDrainOrOrphan'
  BY <1>1, <1>3 DEF StrayIsDrainOrOrphan, AudioTypeOK
<1> QED BY <1>4, <1>5, <1>6, <1>7, <1>8, <1>9, <1>10, <1>11

LEMMA UnsyncAllType ==
  AudioTypeOK => UnsyncAll \in [Listener -> {"absent", "unsynced"}]
BY DEF UnsyncAll

LEMMA ControlKeeps ==
  ASSUME AudioInv, ControlNext
  PROVE  AudioInv'
<1>1. CASE StartStream
  BY <1>1, StartStreamKeeps
<1>2. CASE StopStream
  <2>1. CASE cur = NoRoom
    <3>1. UNCHANGED audioVars
      BY <1>2, <2>1 DEF StopStream, audioVars, processVars, listenerVars
    <3> QED BY <3>1, StutterKeeps
  <2>2. CASE cur # NoRoom
    BY <1>2, <2>2, UnsyncAllType, StoppedKeeps DEF StopStream, AudioInv, AudioTypeOK
  <2> QED BY <2>1, <2>2
<1>3. CASE PauseStream \/ ResumeStream
  <2>1. playing' \in [Object -> BOOLEAN] /\ UNCHANGED <<processVars, listenerVars, cur, ffmpeg, init, sharing>>
    BY <1>3 DEF PauseStream, ResumeStream, AudioInv, AudioTypeOK
  <2> QED BY <2>1, PlayingIsFree
<1>4. CASE DestroyRoom
  BY <1>4, StoppedKeeps DEF DestroyRoom
<1> QED BY <1>1, <1>2, <1>3, <1>4 DEF ControlNext

-------------------------------------------------------------------------------
(* A listener's step touches its own fields; addListener may also make the
   room's object 0, which has neither process nor init segment. *)
LEMMA ListenerKeeps ==
  ASSUME AudioInv, NEW l \in Listener,
         AddListener(l) \/ RemoveListener(l) \/ UnsyncListener(l) \/ ResyncListener(l)
  PROVE  AudioInv'
<1> USE AudioAssumption DEF AudioInv, Stream, Object
<1>1. UNCHANGED processVars
  BY DEF AddListener, RemoveListener, UnsyncListener, ResyncListener
<1>2. CASE AddListener(l)
  <2>1. /\ ffmpeg' \in [Object -> BOOLEAN] /\ playing' \in [Object -> BOOLEAN]
        /\ init' \in [Object -> BOOLEAN]
        /\ \A o \in Object: (ffmpeg'[o] <=> ffmpeg[o]) /\ (init'[o] <=> init[o])
        /\ cur' = IF cur = NoRoom THEN 0 ELSE cur
    <3>1. CASE cur = NoRoom
      BY <1>2, <3>1 DEF AddListener, AudioTypeOK, NewestIsRoom
    <3>2. CASE cur # NoRoom
      BY <1>2, <3>2 DEF AddListener, AudioTypeOK
    <3> QED BY <3>1, <3>2
  <2>2. /\ sync' \in [Listener -> {"absent", "unsynced", "synced"}]
        /\ \A k \in Listener: sync'[k] = IF k = l THEN "unsynced" ELSE sync[k]
        /\ UNCHANGED <<lastInit, sharing>>
    BY <1>2 DEF AddListener, AudioTypeOK
  <2>3. AudioTypeOK'
    <3>1. cur' \in Object \cup {NoRoom}
      BY <2>1 DEF AudioTypeOK
    <3> QED BY <1>1, <2>1, <2>2, <3>1 DEF AudioTypeOK, processVars
  <2>4. NewestIsRoom' /\ InitFromHeader'
    BY <1>1, <2>1, <2>2 DEF NewestIsRoom, InitFromHeader, processVars
  <2>5. /\ UnbornIsBlank' /\ RetryOfGone' /\ OriginIsOlder' /\ ChainEndsOnce' /\ EndAfterStart'
        /\ StrayIsDrainOrOrphan'
    BY <1>1 DEF UnbornIsBlank, RetryOfGone, OriginIsOlder, ChainEndsOnce, Active,
                EndAfterStart, StrayIsDrainOrOrphan, processVars
  <2>6. SyncedToRoom'
    BY <2>1, <2>2 DEF SyncedToRoom
  <2>7. OrphansOnlyFromRetry'
    <3>1. \A s \in Stream: IsRoomFfmpeg(s)' <=> IsRoomFfmpeg(s)
      BY <2>1 DEF IsRoomFfmpeg
    <3> QED BY <1>1, <3>1 DEF OrphansOnlyFromRetry, processVars
  <2> QED BY <2>3, <2>4, <2>5, <2>6, <2>7
<1>3. CASE RemoveListener(l) \/ UnsyncListener(l) \/ ResyncListener(l)
  <2>1. UNCHANGED roomVars /\ sync[l] # "absent"
    BY <1>3 DEF RemoveListener, UnsyncListener, ResyncListener
  <2>2. cur \in Object
    BY <2>1 DEF NewestIsRoom, AudioTypeOK
  <2>3. /\ sync' \in [Listener -> {"absent", "unsynced", "synced"}]
        /\ lastInit' \in [Listener -> Stream \cup {NoRoom}]
        /\ \A k \in Listener: k # l => sync'[k] = sync[k] /\ lastInit'[k] = lastInit[k]
        /\ sync'[l] = "synced" =>
             \/ sync[l] = "synced" /\ lastInit'[l] = lastInit[l]
             \/ init[cur] /\ lastInit'[l] = cur
    <3>1. CASE RemoveListener(l)
      BY <3>1 DEF RemoveListener, AudioTypeOK
    <3>2. CASE UnsyncListener(l)
      BY <3>2 DEF UnsyncListener, AudioTypeOK
    <3>3. CASE ResyncListener(l)
      <4>1. init[cur] => cur \in Stream
        BY <2>2 DEF NewestIsRoom
      <4> QED BY <3>3, <4>1 DEF ResyncListener, AudioTypeOK, listenerVars
    <3> QED BY <1>3, <3>1, <3>2, <3>3
  <2>4. AudioTypeOK'
    BY <1>1, <2>1, <2>3 DEF AudioTypeOK, processVars, roomVars
  <2>5. NewestIsRoom'
    BY <1>1, <2>1, <2>2 DEF NewestIsRoom, processVars, roomVars
  <2>6. /\ UnbornIsBlank' /\ InitFromHeader' /\ RetryOfGone' /\ OriginIsOlder'
        /\ ChainEndsOnce' /\ EndAfterStart' /\ OrphansOnlyFromRetry' /\ StrayIsDrainOrOrphan'
    BY <1>1, <2>1 DEF UnbornIsBlank, InitFromHeader, RetryOfGone, OriginIsOlder, ChainEndsOnce,
                Active, EndAfterStart, OrphansOnlyFromRetry, StrayIsDrainOrOrphan, IsRoomFfmpeg,
                processVars, roomVars
  <2>7. SyncedToRoom'
    <3> SUFFICES ASSUME NEW k \in Listener, sync'[k] = "synced"
                 PROVE  cur \in Stream /\ init[cur] /\ lastInit'[k] = cur
      BY <2>1 DEF SyncedToRoom, roomVars
    <3>1. CASE sync[k] = "synced" /\ lastInit'[k] = lastInit[k]
      BY <3>1 DEF SyncedToRoom
    <3>2. CASE init[cur] /\ lastInit'[k] = cur
      BY <3>2, <2>2 DEF NewestIsRoom
    <3> QED BY <2>3, <3>1, <3>2
  <2> QED BY <2>4, <2>5, <2>6, <2>7
<1> QED BY <1>2, <1>3

-------------------------------------------------------------------------------
(* Who is in sync follows the room, so a process whose media strays is not the
   room's, and if it is alive a retry has superseded it. *)
LEMMA BroadcastStrays ==
  ASSUME AudioInv, NEW s \in Stream, s <= spawned, BroadcastChunk(s) \/ UNCHANGED stray
  PROVE  /\ stray' \subseteq Stream
         /\ \A t \in stray': t <= spawned
         /\ \A t \in stray': proc[t] # "live" \/ \E u \in Stream: u > t /\ attempt[u] > 0
<1> USE DEF AudioInv
<1>1. \A t \in stray: /\ t \in Stream /\ t <= spawned
                      /\ proc[t] # "live" \/ \E u \in Stream: u > t /\ attempt[u] > 0
  BY DEF UnbornIsBlank, StrayIsDrainOrOrphan, AudioTypeOK
<1>2. stray' \subseteq stray \cup {s}
  BY DEF BroadcastChunk
<1>3. ASSUME s \in stray', s \notin stray
      PROVE  proc[s] # "live" \/ \E u \in Stream: u > s /\ attempt[u] > 0
  <2>1. PICK l \in Listener: sync[l] = "synced" /\ lastInit[l] # s
    BY <1>3 DEF BroadcastChunk
  <2>2. cur # s
    BY <2>1 DEF SyncedToRoom
  <2> QED BY <2>2 DEF OrphansOnlyFromRetry, IsRoomFfmpeg
<1> QED BY <1>1, <1>2, <1>3

(* The events of a process that leave its room alone. *)
LEMMA DataKeeps ==
  ASSUME AudioInv, NEW s \in Stream,
         DropData(s) \/ Media(s) \/ Drain(s)
  PROVE  AudioInv'
<1> USE AudioAssumption DEF AudioInv, Stream, Object
<1>1. UNCHANGED <<spawned, retrying, attempt, origin, ended, roomVars, listenerVars>>
  BY DEF DropData, Media, Drain
<1>2. /\ header' \in [Stream -> {"wait", "done", "lost"}]
      /\ \A t \in Stream: header[t] = "done" => header'[t] = "done"
  BY DEF DropData, Media, Drain, AudioTypeOK
<1>3. /\ started \subseteq started' /\ started' \subseteq Stream
      /\ started' \subseteq started \cup {s} /\ proc[s] # "unborn"
  BY DEF DropData, Media, Drain, AudioTypeOK
<1>9. s <= spawned
  BY <1>3 DEF UnbornIsBlank, AudioTypeOK
<1>4. /\ proc' \in [Stream -> ProcState]
      /\ \A t \in Stream: /\ proc'[t] = "live" <=> proc[t] = "live"
                          /\ proc'[t] = "unborn" <=> proc[t] = "unborn"
                          /\ proc[t] = "gone" => proc'[t] = "gone"
  BY DEF DropData, Media, Drain, AudioTypeOK, ProcState
<1>10. /\ stray' \subseteq Stream
       /\ \A t \in stray': t <= spawned
       /\ \A t \in stray': proc[t] # "live" \/ \E u \in Stream: u > t /\ attempt[u] > 0
  <2>1. BroadcastChunk(s) \/ UNCHANGED stray
    BY DEF DropData, Media, Drain
  <2> QED BY <1>9, <2>1, BroadcastStrays
<1>5. AudioTypeOK'
  BY <1>1, <1>2, <1>3, <1>4, <1>10 DEF AudioTypeOK, roomVars, listenerVars, ProcState
<1>6. NewestIsRoom' /\ SyncedToRoom' /\ InitFromHeader'
  BY <1>1, <1>2 DEF NewestIsRoom, SyncedToRoom, InitFromHeader, roomVars, listenerVars
<1>7. UnbornIsBlank' /\ RetryOfGone' /\ OriginIsOlder' /\ EndAfterStart'
  BY <1>1, <1>3, <1>4, <1>9, <1>10 DEF UnbornIsBlank, RetryOfGone, OriginIsOlder, EndAfterStart, AudioTypeOK
<1>8. ChainEndsOnce' /\ OrphansOnlyFromRetry'
  BY <1>1, <1>4 DEF ChainEndsOnce, Active, OrphansOnlyFromRetry, IsRoomFfmpeg, roomVars
<1>11. StrayIsDrainOrOrphan'
  BY <1>1, <1>4, <1>10 DEF StrayIsDrainOrOrphan
<1> QED BY <1>5, <1>6, <1>7, <1>8, <1>11

LEMMA ReadHeaderKeeps ==
  ASSUME AudioInv, NEW s \in Stream, NEW withMedia \in BOOLEAN, ReadHeader(s, withMedia)
  PROVE  AudioInv'
<1> USE AudioAssumption DEF AudioInv, Stream, Object
<1>1. UNCHANGED <<spawned, proc, retrying, attempt, origin, ended, cur, ffmpeg, playing, sharing, listenerVars>>
  BY DEF ReadHeader
<1>2. /\ header' \in [Stream -> {"wait", "done", "lost"}]
      /\ init' \in [Object -> BOOLEAN]
      /\ \A t \in Stream: header'[t] = IF t = s THEN "done" ELSE header[t]
      /\ \A o \in Object: init'[o] <=> o = s \/ init[o]
  BY DEF ReadHeader, AudioTypeOK
<1>3. /\ started \subseteq started' /\ started' \subseteq Stream
      /\ started' \subseteq started \cup {s} /\ proc[s] # "unborn"
  BY DEF ReadHeader, AudioTypeOK
<1>10. s <= spawned
  BY <1>3 DEF UnbornIsBlank, AudioTypeOK
<1>11. /\ stray' \subseteq Stream
       /\ \A t \in stray': t <= spawned
       /\ \A t \in stray': proc[t] # "live" \/ \E u \in Stream: u > t /\ attempt[u] > 0
  <2>1. BroadcastChunk(s) \/ UNCHANGED stray
    BY DEF ReadHeader
  <2> QED BY <1>10, <2>1, BroadcastStrays
<1>4. AudioTypeOK'
  BY <1>1, <1>2, <1>3, <1>11 DEF AudioTypeOK, listenerVars
<1>5. NewestIsRoom'
  BY <1>1, <1>2 DEF NewestIsRoom, listenerVars
<1>8. SyncedToRoom'
  BY <1>1, <1>2 DEF SyncedToRoom, listenerVars
<1>9. InitFromHeader'
  BY <1>2 DEF InitFromHeader
<1>6. UnbornIsBlank' /\ RetryOfGone' /\ OriginIsOlder' /\ EndAfterStart'
  BY <1>1, <1>3, <1>10, <1>11 DEF UnbornIsBlank, RetryOfGone, OriginIsOlder, EndAfterStart
<1>7. ChainEndsOnce' /\ OrphansOnlyFromRetry'
  BY <1>1 DEF ChainEndsOnce, Active, OrphansOnlyFromRetry, IsRoomFfmpeg
<1>12. StrayIsDrainOrOrphan'
  BY <1>1, <1>11 DEF StrayIsDrainOrOrphan
<1> QED BY <1>4, <1>5, <1>6, <1>7, <1>8, <1>9, <1>12

-------------------------------------------------------------------------------
(* The close event: what its two handlers share. *)
LEMMA ClosingFacts ==
  ASSUME AudioInv, NEW s \in Stream, Closing(s)
  PROVE  /\ proc[s] = "live"
         /\ proc' \in [Stream -> ProcState]
         /\ \A t \in Stream: proc'[t] = IF t = s THEN "gone" ELSE proc[t]
         /\ started' = started \cup {s} /\ started' \subseteq Stream
         /\ UNCHANGED <<spawned, header, attempt, origin, stray>>
BY DEF Closing, AudioInv, AudioTypeOK, ProcState

(* The fields EndStream sets. *)
LEMMA EndStreamFacts ==
  ASSUME AudioInv, NEW s \in Stream, EndStream(s)
  PROVE  /\ ffmpeg' \in [Object -> BOOLEAN]
         /\ playing' \in [Object -> BOOLEAN]
         /\ \A o \in Object: ffmpeg'[o] = (o # s /\ ffmpeg[o])
         /\ ended' = ended \cup {origin[s]} /\ ended' \subseteq Stream
         /\ UNCHANGED <<cur, init, sharing, listenerVars>>
BY AudioAssumption DEF EndStream, AudioInv, AudioTypeOK, Stream, Object

LEMMA CloseWithoutEndKeeps ==
  ASSUME AudioInv, NEW s \in Stream, CloseStale(s) \/ CloseRetry(s)
  PROVE  AudioInv'
<1> USE AudioAssumption DEF AudioInv, Stream, Object
<1>1. Closing(s)
  BY DEF CloseStale, CloseRetry
<1>2. /\ proc[s] = "live"
      /\ proc' \in [Stream -> ProcState]
      /\ \A t \in Stream: proc'[t] = IF t = s THEN "gone" ELSE proc[t]
      /\ started' = started \cup {s} /\ started' \subseteq Stream
      /\ UNCHANGED <<spawned, header, attempt, origin, stray>>
  BY <1>1, ClosingFacts
<1>3. retrying' \in {retrying, retrying \cup {s}} /\ UNCHANGED <<ended, roomVars, listenerVars>>
  BY DEF CloseStale, CloseRetry
<1>9. s <= spawned
  BY <1>2 DEF UnbornIsBlank, AudioTypeOK
<1>4. AudioTypeOK'
  BY <1>2, <1>3 DEF AudioTypeOK, ProcState, roomVars, listenerVars
<1>5. NewestIsRoom' /\ SyncedToRoom' /\ InitFromHeader'
  BY <1>2, <1>3 DEF NewestIsRoom, SyncedToRoom, InitFromHeader, roomVars, listenerVars
<1>6. UnbornIsBlank' /\ RetryOfGone' /\ OriginIsOlder' /\ EndAfterStart'
  BY <1>2, <1>3, <1>9 DEF UnbornIsBlank, RetryOfGone, OriginIsOlder, EndAfterStart, AudioTypeOK
<1>7. ChainEndsOnce'
  <2>1. \A t \in Stream: Active(t)' => Active(t)
    BY <1>2, <1>3 DEF Active
  <2> QED BY <1>2, <1>3, <2>1 DEF ChainEndsOnce
<1>8. OrphansOnlyFromRetry' /\ StrayIsDrainOrOrphan'
  BY <1>2, <1>3 DEF OrphansOnlyFromRetry, StrayIsDrainOrOrphan, IsRoomFfmpeg, AudioTypeOK, roomVars
<1> QED BY <1>4, <1>5, <1>6, <1>7, <1>8

(* onEnd is called: after a close, or after a retry that failed.  Both take the
   last active stream of its chain. *)
LEMMA EndKeeps ==
  ASSUME AudioInv, NEW s \in Stream, CloseEnd(s) \/ RetryFails(s)
  PROVE  AudioInv'
<1> USE AudioAssumption DEF AudioInv, Stream, Object
<1>1. EndStream(s)
  BY DEF CloseEnd, RetryFails
<1>2. /\ ffmpeg' \in [Object -> BOOLEAN]
      /\ playing' \in [Object -> BOOLEAN]
      /\ \A o \in Object: ffmpeg'[o] = (o # s /\ ffmpeg[o])
      /\ ended' = ended \cup {origin[s]} /\ ended' \subseteq Stream
      /\ UNCHANGED <<cur, init, sharing, listenerVars>>
  BY <1>1, EndStreamFacts
<1>3. /\ Active(s)
      /\ proc' \in [Stream -> ProcState]
      /\ \A t \in Stream: proc'[t] = IF t = s THEN "gone" ELSE proc[t]
      /\ started' = started \cup {s} /\ started' \subseteq Stream
      /\ retrying' = retrying \ {s}
      /\ UNCHANGED <<spawned, header, attempt, origin, stray>>
  <2>1. CASE CloseEnd(s)
    <3>1. Closing(s) /\ retrying' = retrying
      BY <2>1 DEF CloseEnd
    <3>2. s \notin retrying
      BY <3>1 DEF Closing, RetryOfGone
    <3> QED BY <3>1, <3>2, ClosingFacts DEF Active
  <2>2. CASE RetryFails(s)
    BY <2>2 DEF RetryFails, Active, RetryOfGone, EndAfterStart, AudioTypeOK, ProcState
  <2> QED BY <2>1, <2>2
<1>4. s <= spawned
  <2>1. proc[s] # "unborn"
    BY <1>3 DEF Active, RetryOfGone
  <2> QED BY <2>1 DEF UnbornIsBlank, AudioTypeOK
<1>5. AudioTypeOK'
  BY <1>2, <1>3 DEF AudioTypeOK, ProcState, listenerVars
<1>6. NewestIsRoom' /\ SyncedToRoom' /\ InitFromHeader'
  BY <1>2, <1>3 DEF NewestIsRoom, SyncedToRoom, InitFromHeader, listenerVars
<1>7. UnbornIsBlank'
  <2>1. origin[s] <= spawned
    BY <1>4 DEF OriginIsOlder, AudioTypeOK
  <2>2. proc[s] # "unborn"
    BY <1>4 DEF UnbornIsBlank, AudioTypeOK
  <2> QED BY <1>2, <1>3, <1>4, <2>1, <2>2 DEF UnbornIsBlank
<1>8. RetryOfGone' /\ OriginIsOlder'
  BY <1>3 DEF RetryOfGone, OriginIsOlder, AudioTypeOK
<1>9. EndAfterStart'
  BY <1>2, <1>3 DEF EndAfterStart, OriginIsOlder
<1>10. ChainEndsOnce'
  <2>1. \A t \in Stream: Active(t)' => Active(t) /\ t # s
    BY <1>3 DEF Active
  <2> QED BY <1>2, <1>3, <2>1 DEF ChainEndsOnce
<1>11. OrphansOnlyFromRetry' /\ StrayIsDrainOrOrphan'
  <2>1. OrphansOnlyFromRetry'
    BY <1>2, <1>3 DEF OrphansOnlyFromRetry, IsRoomFfmpeg
  <2>2. stray \subseteq Stream
    BY DEF AudioTypeOK
  <2>3. StrayIsDrainOrOrphan'
    BY <1>3, <2>2 DEF StrayIsDrainOrOrphan
  <2> QED BY <2>1, <2>3
<1> QED BY <1>5, <1>6, <1>7, <1>8, <1>9, <1>10, <1>11

-------------------------------------------------------------------------------
LEMMA NextKeeps == AudioInv /\ [AudioNext]_audioVars => AudioInv'
<1> SUFFICES ASSUME AudioInv, [AudioNext]_audioVars
             PROVE  AudioInv'
  OBVIOUS
<1>1. CASE ControlNext
  BY <1>1, ControlKeeps
<1>2. CASE ListenerNext
  BY <1>2, ListenerKeeps DEF ListenerNext
<1>3. CASE ProcessNext
  <2>1. PICK s \in Stream:
          \/ DropData(s) \/ Media(s) \/ Drain(s)
          \/ \E withMedia \in BOOLEAN: ReadHeader(s, withMedia)
          \/ CloseStale(s) \/ CloseRetry(s)
          \/ CloseEnd(s) \/ RetryFails(s)
          \/ RetrySpawn(s)
    BY <1>3 DEF ProcessNext
  <2>2. CASE DropData(s) \/ Media(s) \/ Drain(s)
    BY <2>2, DataKeeps
  <2>3. CASE \E withMedia \in BOOLEAN: ReadHeader(s, withMedia)
    BY <2>3, ReadHeaderKeeps
  <2>4. CASE CloseStale(s) \/ CloseRetry(s)
    BY <2>4, CloseWithoutEndKeeps
  <2>5. CASE CloseEnd(s) \/ RetryFails(s)
    BY <2>5, EndKeeps
  <2>6. CASE RetrySpawn(s)
    BY <2>6, RetrySpawnKeeps
  <2> QED BY <2>1, <2>2, <2>3, <2>4, <2>5, <2>6
<1>4. CASE UNCHANGED audioVars
  BY <1>4, StutterKeeps
<1> QED BY <1>1, <1>2, <1>3, <1>4 DEF AudioNext

(* The inductive invariant holds in every state of every behaviour of the
   service, whatever its callers, its listeners and ffmpeg do. *)
THEOREM AudioInvariant == AudioSpec => []AudioInv
<1>1. AudioInit => AudioInv
  BY InitInv
<1>2. AudioInv /\ [AudioNext]_audioVars => AudioInv'
  BY NextKeeps
<1> QED BY <1>1, <1>2, PTL DEF AudioSpec

(* The service's state keeps its shape: every object, process and listener field
   spawnFfmpeg and the handlers write stays in its range. *)
THEOREM AudioTypeCorrect == AudioSpec => []AudioTypeOK
<1>1. AudioInv => AudioTypeOK
  BY DEF AudioInv
<1> QED BY <1>1, AudioInvariant, PTL

(* A listener in sync was sent the init segment of the stream broadcastChunk
   sends it now, and a live process whose media strays to it was superseded by
   a retry. *)
THEOREM SyncedListenersAreCurrent == AudioSpec => []SyncedHasCurrentInit
<1>1. AudioInv => SyncedHasCurrentInit
  BY DEF AudioInv, SyncedHasCurrentInit
<1> QED BY <1>1, AudioInvariant, PTL

(* onEnd is called at most once for each startStream, however often the close
   handler respawned ffmpeg for it. *)
THEOREM EachStartEndsOnce == AudioSpec => []ChainEndsOnce
<1>1. AudioInv => ChainEndsOnce
  BY DEF AudioInv
<1> QED BY <1>1, AudioInvariant, PTL

(* onEnd never overtakes onStart. *)
THEOREM EndsFollowStarts == AudioSpec => []EndAfterStart
<1>1. AudioInv => EndAfterStart
  BY DEF AudioInv
<1> QED BY <1>1, AudioInvariant, PTL

(* A live ffmpeg the room lost hold of was superseded by a retry's respawn. *)
THEOREM OrphansComeFromRetries == AudioSpec => []OrphansOnlyFromRetry
<1>1. AudioInv => OrphansOnlyFromRetry
  BY DEF AudioInv
<1> QED BY <1>1, AudioInvariant, PTL

-------------------------------------------------------------------------------
(***************************************************************************)
(* AudioService implements StreamSync: every step of the service opens,    *)
(* publishes or cuts a stream, tunes or detunes a listener, or changes     *)
(* nothing StreamSync can see.                                             *)
(***************************************************************************)
LEMMA RefinesInit == AudioInit => Sync!SyncInit
BY AudioAssumption
   DEF AudioInit, Sync!SyncInit, Sync!Nobody, Published, Tuned, Stream

(* A step that moves none of what the mapping reads is invisible. *)
LEMMA InvisibleStep ==
  ASSUME UNCHANGED <<spawned, cur, lastInit>>,
         cur \in Stream => (init'[cur] <=> init[cur]),
         \A l \in Listener: sync'[l] = "synced" <=> sync[l] = "synced"
  PROVE  UNCHANGED <<spawned, Published, Tuned>>
<1>1. UNCHANGED Published
  BY DEF Published, Stream
<1>2. UNCHANGED Tuned
  BY DEF Tuned
<1> QED BY <1>1, <1>2

(* spawnFfmpeg opens a stream nobody is tuned to. *)
LEMMA SpawnOpens ==
  ASSUME AudioInv, NEW p, NEW f, NEW tries, NEW from, SpawnFfmpeg(p, f, tries, from)
  PROVE  Sync!Open
<1>1. spawned' = spawned + 1
  BY DEF SpawnFfmpeg
<1>2. Published' = NoRoom
  BY AudioAssumption DEF SpawnFfmpeg, Published, AudioInv, AudioTypeOK, Stream, Object
<1>3. \A l \in Listener: sync'[l] # "synced"
  BY DEF SpawnFfmpeg, UnsyncAll
<1>4. Tuned' = Sync!Nobody
  BY <1>3 DEF Tuned, Sync!Nobody
<1> QED BY <1>1, <1>2, <1>4 DEF Sync!Open

(* stopStream and destroyRoom cut it. *)
LEMMA StoppedCuts ==
  ASSUME AudioInv, cur # NoRoom, Stopped, cur' \in {cur, NoRoom},
         \A l \in Listener: sync'[l] # "synced"
  PROVE  Sync!Cut
<1>1. UNCHANGED spawned
  BY DEF Stopped
<1>2. Published' = NoRoom
  BY AudioAssumption DEF Stopped, Published, AudioInv, AudioTypeOK, Stream, Object
<1>3. Tuned' = Sync!Nobody
  BY DEF Tuned, Sync!Nobody
<1> QED BY <1>1, <1>2, <1>3 DEF Sync!Cut

LEMMA ListenerTunes ==
  ASSUME AudioInv, NEW l \in Listener,
         AddListener(l) \/ RemoveListener(l) \/ UnsyncListener(l) \/ ResyncListener(l)
  PROVE  Sync!Tune(l) \/ Sync!Detune(l) \/ UNCHANGED <<spawned, Published, Tuned>>
<1> USE AudioAssumption DEF AudioInv, Stream, Object
<1>1. CASE AddListener(l)
  <2>1. \A k \in Listener: Tuned'[k] = Tuned[k]
    BY <1>1 DEF AddListener, Tuned, AudioTypeOK
  <2>2. Tuned' = Tuned
    BY <2>1 DEF Tuned
  <2>3. Published' = Published
    BY <1>1 DEF AddListener, Published, AudioTypeOK
  <2> QED BY <1>1, <2>2, <2>3 DEF AddListener, processVars
<1>2. ASSUME UNCHANGED <<spawned, roomVars>>,
             \A k \in Listener: k # l => Tuned'[k] = Tuned[k],
             Tuned'[l] = NoRoom
      PROVE  Sync!Detune(l)
  <2>1. Tuned' = [Tuned EXCEPT ![l] = NoRoom]
    BY <1>2 DEF Tuned
  <2>2. UNCHANGED Published
    BY <1>2 DEF Published, roomVars
  <2> QED BY <1>2, <2>1, <2>2 DEF Sync!Detune
<1>3. CASE RemoveListener(l) \/ UnsyncListener(l)
  <2>1. UNCHANGED <<spawned, roomVars>>
    BY <1>3 DEF RemoveListener, UnsyncListener, processVars
  <2>2. (\A k \in Listener: k # l => Tuned'[k] = Tuned[k]) /\ Tuned'[l] = NoRoom
    BY <1>3 DEF RemoveListener, UnsyncListener, Tuned, AudioTypeOK
  <2> QED BY <1>2, <2>1, <2>2
<1>4. CASE ResyncListener(l)
  <2>1. UNCHANGED <<spawned, roomVars>>
    BY <1>4 DEF ResyncListener, processVars
  <2>2. cur \in Object
    BY <1>4 DEF ResyncListener, NewestIsRoom, AudioTypeOK
  <2>3. CASE init[cur] /\ sync' = [sync EXCEPT ![l] = "synced"] /\ lastInit' = [lastInit EXCEPT ![l] = cur]
    <3>1. cur \in Stream /\ Published = cur
      BY <2>2, <2>3 DEF NewestIsRoom, Published
    <3>2. \A k \in Listener: Tuned'[k] = IF k = l THEN Published ELSE Tuned[k]
      BY <2>3, <3>1 DEF Tuned, AudioTypeOK
    <3>3. Tuned' = [Tuned EXCEPT ![l] = Published]
      BY <3>2 DEF Tuned
    <3>4. UNCHANGED Published /\ Published # NoRoom
      BY <2>1, <3>1 DEF Published, roomVars
    <3> QED BY <2>1, <3>3, <3>4 DEF Sync!Tune
  <2>4. CASE sync' = [sync EXCEPT ![l] = "unsynced"] /\ UNCHANGED lastInit
    <3>1. (\A k \in Listener: k # l => Tuned'[k] = Tuned[k]) /\ Tuned'[l] = NoRoom
      BY <2>4 DEF Tuned, AudioTypeOK
    <3> QED BY <1>2, <2>1, <3>1
  <2>5. CASE UNCHANGED listenerVars
    BY <2>1, <2>5 DEF Published, Tuned, roomVars, listenerVars
  <2> QED BY <1>4, <2>3, <2>4, <2>5 DEF ResyncListener
<1> QED BY <1>1, <1>3, <1>4

(* The header of the room's own stream publishes it; any other is invisible. *)
LEMMA HeaderPublishes ==
  ASSUME AudioInv, NEW s \in Stream, NEW withMedia \in BOOLEAN, ReadHeader(s, withMedia)
  PROVE  Sync!Publish \/ UNCHANGED <<spawned, Published, Tuned>>
<1> USE AudioAssumption DEF AudioInv, Stream, Object
<1>1. UNCHANGED <<spawned, cur, listenerVars>> /\ UNCHANGED Tuned
  BY DEF ReadHeader, Tuned, listenerVars
<1>2. CASE cur = s
  <2>1. ~init[s] /\ init'[s] /\ spawned = s
    BY <1>2 DEF ReadHeader, InitFromHeader, NewestIsRoom, AudioTypeOK
  <2>2. Published = NoRoom /\ Published' = spawned /\ spawned > 0
    BY <1>1, <1>2, <2>1 DEF Published
  <2> QED BY <1>1, <2>2 DEF Sync!Publish
<1>3. CASE cur # s
  <2>1. cur \in Stream => (init'[cur] <=> init[cur])
    BY <1>3 DEF ReadHeader, AudioTypeOK
  <2> QED BY <1>1, <2>1, InvisibleStep DEF listenerVars
<1> QED BY <1>2, <1>3

LEMMA RefinesNext ==
  AudioInv /\ [AudioNext]_audioVars =>
    Sync!SyncNext \/ UNCHANGED <<spawned, Published, Tuned>>
<1> SUFFICES ASSUME AudioInv, [AudioNext]_audioVars
             PROVE  Sync!SyncNext \/ UNCHANGED <<spawned, Published, Tuned>>
  OBVIOUS
<1>1. CASE StartStream
  <2>1. Sync!Open
    BY <1>1, SpawnOpens DEF StartStream
  <2> QED BY <2>1 DEF Sync!SyncNext
<1>2. CASE StopStream \/ DestroyRoom
  <2>1. CASE cur = NoRoom
    BY <1>2, <2>1, InvisibleStep DEF StopStream, DestroyRoom, processVars
  <2>2. CASE cur # NoRoom
    <3>1. Stopped /\ cur' \in {cur, NoRoom} /\ \A l \in Listener: sync'[l] # "synced"
      BY <1>2, <2>2 DEF StopStream, DestroyRoom, UnsyncAll
    <3> QED BY <2>2, <3>1, StoppedCuts DEF Sync!SyncNext
  <2> QED BY <2>1, <2>2
<1>3. CASE PauseStream \/ ResumeStream
  BY <1>3, InvisibleStep DEF PauseStream, ResumeStream, processVars, listenerVars
<1>4. CASE ListenerNext
  BY <1>4, ListenerTunes DEF ListenerNext, Sync!SyncNext
<1>5. CASE ProcessNext
  <2>1. PICK s \in Stream:
          \/ DropData(s) \/ Media(s) \/ Drain(s)
          \/ \E withMedia \in BOOLEAN: ReadHeader(s, withMedia)
          \/ CloseStale(s) \/ CloseRetry(s) \/ CloseEnd(s) \/ RetryFails(s)
          \/ RetrySpawn(s)
    BY <1>5 DEF ProcessNext
  <2>2. CASE \E withMedia \in BOOLEAN: ReadHeader(s, withMedia)
    BY <2>2, HeaderPublishes DEF Sync!SyncNext
  <2>3. CASE RetrySpawn(s)
    <3>1. Sync!Open
      BY <2>3, SpawnOpens DEF RetrySpawn
    <3> QED BY <3>1 DEF Sync!SyncNext
  <2>4. CASE \/ DropData(s) \/ Media(s) \/ Drain(s)
             \/ CloseStale(s) \/ CloseRetry(s) \/ CloseEnd(s) \/ RetryFails(s)
    <3>1. UNCHANGED <<spawned, cur, init, listenerVars>>
      BY <2>4 DEF DropData, Media, Drain, CloseStale, CloseRetry, CloseEnd,
                  RetryFails, Closing, EndStream, roomVars
    <3> QED BY <3>1, InvisibleStep DEF listenerVars
  <2> QED BY <2>1, <2>2, <2>3, <2>4
<1>6. CASE UNCHANGED audioVars
  BY <1>6, InvisibleStep DEF audioVars
<1> QED
  BY <1>1, <1>2, <1>3, <1>4, <1>5, <1>6 DEF AudioNext, ControlNext

(* What AudioService does with its processes, objects and sync flags is what
   StreamSync promises the listeners. *)
THEOREM AudioImplementsStreamSync == AudioSpec => ImplementsStreamSync
<1>1. AudioInit => Sync!SyncInit
  BY RefinesInit
<1>2. AudioInv /\ [AudioNext]_audioVars => [Sync!SyncNext]_Sync!syncVars
  BY RefinesNext DEF Sync!syncVars
<1> QED
  BY <1>1, <1>2, AudioInvariant, PTL DEF AudioSpec, ImplementsStreamSync, Sync!SyncSpec

===============================================================================
