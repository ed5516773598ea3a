------------------------------- MODULE Preload -------------------------------
(***************************************************************************)
(* PreloadService (server/src/services/preload.service.ts): the downloads  *)
(* of the next tracks of all rooms, the pool of slots they share and the   *)
(* map of entries the player takes buffers from.                           *)
(*                                                                         *)
(* startDownload makes a new entry object each time it is called; download *)
(* d and its object have the same number.  A buffer has size 1.            *)
(*                                                                         *)
(* A waiting download is resumed by a promise job: acquireSlot's            *)
(* `activeDownloads++` runs behind everything else the releasing turn still *)
(* does, and before the next turn (Microtasks).                            *)
(***************************************************************************)
EXTENDS Naturals, Sequences, FiniteSets

CONSTANTS Track,
          MaxDownloads,    \* bound: calls of startDownload in a behaviour
          MaxConcurrent,   \* PRELOAD_MAX_CONCURRENT
          MaxMemory,       \* PRELOAD_MAX_MEMORY_BYTES, in buffers
          RetryCount,      \* PRELOAD_RETRY_COUNT
          NoEntry          \* entries.get(trackId) === undefined

ASSUME PreloadAssumption ==
  /\ MaxDownloads \in Nat /\ MaxMemory \in Nat /\ RetryCount \in Nat
  /\ MaxConcurrent \in Nat \ {0}
  /\ NoEntry \notin Nat

Download == 1 .. MaxDownloads

VARIABLES
  begun,      \* calls of startDownload so far
  track,      \* track[d]: the track download d is for
  retry,      \* retry[d]: its retry parameter
  pc,         \* pc[d]: where it stands; "resumed" between r() and activeDownloads++
  state,      \* state[d]: the state field of its entry object
  size,       \* size[d]: the size field of its entry object (0: no buffer)
  entries,    \* entries[t]: the object in the map
  loaded,     \* objects in the order their buffers came (entry.at)
  active,     \* activeDownloads
  waiting     \* downloadQueue

poolVars  == <<active, waiting>>
entryVars == <<state, size, entries, loaded>>
preloadVars == <<begun, track, retry, pc, poolVars, entryVars>>

PreloadTypeOK ==
  /\ begun \in 0 .. MaxDownloads
  /\ track \in [Download -> Track \cup {NoEntry}]
  /\ retry \in [Download -> 0 .. RetryCount]
  /\ pc \in [Download -> {"none", "waiting", "resumed", "admitted", "running", "over"}]
  /\ state \in [Download -> {"downloading", "preloaded", "failed"}]
  /\ size \in [Download -> 0 .. 1]
  /\ entries \in [Track -> Download \cup {NoEntry}]
  /\ loaded \in Seq(Download)
  /\ active \in Nat
  /\ waiting \in Seq(Download)

PreloadInit ==
  /\ begun = 0
  /\ track = [d \in Download |-> NoEntry]
  /\ retry = [d \in Download |-> 0]
  /\ pc = [d \in Download |-> "none"]
  /\ state = [d \in Download |-> "downloading"]
  /\ size = [d \in Download |-> 0]
  /\ entries = [t \in Track |-> NoEntry]
  /\ loaded = <<>>
  /\ active = 0
  /\ waiting = <<>>

-------------------------------------------------------------------------------
(* No promise job of the pool is due: the event loop may start a new turn. *)
NextTurn == \A d \in Download: pc[d] # "resumed"

NobodyResumed(q) == {}
ReleasedTwice(a) == a - 2

(* releaseSlot on the slots a and the queue q: the first waiter, if any, is
   resumed.  The three parts of what it leaves. *)
Resumed(q) == IF q = <<>> THEN {} ELSE {Head(q)}
StillWaiting(q) == IF q = <<>> THEN <<>> ELSE Tail(q)
Released(a) == a - 1

PcAfterRelease(p, q) == [d \in Download |-> IF d \in Resumed(q) THEN "resumed" ELSE p[d]]

(* startDownload up to its first await, with acquireSlot, on the pool and the
   pcs p its caller leaves. *)
Begin(t, tries, a, q, p) ==
  LET d == begun + 1 IN
  /\ begun < MaxDownloads
  /\ begun' = d
  /\ track' = [track EXCEPT ![d] = t]
  /\ retry' = [retry EXCEPT ![d] = tries]
  /\ entries' = [entries EXCEPT ![t] = d]
  /\ IF a < MaxConcurrent
     THEN active' = a + 1 /\ waiting' = q /\ pc' = [p EXCEPT ![d] = "admitted"]
     ELSE active' = a /\ waiting' = Append(q, d) /\ pc' = [p EXCEPT ![d] = "waiting"]

(* triggerPreload has found track t among the next tracks of a room. *)
TriggerPreload(t) ==
  /\ NextTurn
  /\ entries[t] # NoEntry => state[entries[t]] = "failed"
  /\ Begin(t, 0, active, waiting, pc)
  /\ UNCHANGED <<state, size, loaded>>

(* The rest of acquireSlot for a download that waited. *)
Resume(d) ==
  /\ pc[d] = "resumed"
  /\ pc' = [pc EXCEPT ![d] = "admitted"]
  /\ active' = active + 1
  /\ UNCHANGED <<begun, track, retry, waiting, entryVars>>

(* totalMemory: what the entries of the map hold. *)
Mapped == {t \in Track: entries[t] # NoEntry}
Held == {t \in Mapped: size[entries[t]] = 1}

(* evictIfNeeded: of the preloaded entries the n that came first go. *)
Preloaded == {t \in Mapped: state[entries[t]] = "preloaded"}
Oldest(n) == {t \in Preloaded:
  Cardinality({u \in Preloaded: \E i, j \in DOMAIN loaded:
                 i < j /\ loaded[i] = entries[u] /\ loaded[j] = entries[t]}) < n}
Evicted == IF Cardinality(Held) <= MaxMemory THEN {} ELSE Oldest(Cardinality(Held) - MaxMemory)

(* releaseBuffer for the tracks of S, on the sizes z. *)
ReleaseBuffers(S, z) ==
  /\ size' = [d \in Download |-> IF \E t \in S: entries[t] = d THEN 0 ELSE z[d]]
  /\ entries' = [t \in Track |-> IF t \in S THEN NoEntry ELSE entries[t]]

(* Behind acquireSlot: make room, then start yt-dlp. *)
StartYtdlp(d) ==
  /\ pc[d] = "admitted"
  /\ pc' = [pc EXCEPT ![d] = "running"]
  /\ ReleaseBuffers(Evicted, size)
  /\ UNCHANGED <<begun, track, retry, state, loaded, poolVars>>

(* The buffer is there; `finally` releases the slot. *)
Downloaded(d) ==
  /\ NextTurn
  /\ pc[d] = "running"
  /\ state' = [state EXCEPT ![d] = "preloaded"]
  /\ size' = [size EXCEPT ![d] = 1]
  /\ loaded' = Append(loaded, d)
  /\ active' = Released(active)
  /\ waiting' = StillWaiting(waiting)
  /\ pc' = PcAfterRelease([pc EXCEPT ![d] = "over"], waiting)
  /\ UNCHANGED <<begun, track, retry, entries>>

(* yt-dlp failed: the slot is released, and the retry asks for a slot in the
   same turn, ahead of the waiter that was just resumed. *)
Retried(d) ==
  /\ NextTurn
  /\ pc[d] = "running"
  /\ retry[d] < RetryCount
  /\ Begin(track[d], retry[d] + 1, Released(active), StillWaiting(waiting),
           PcAfterRelease([pc EXCEPT ![d] = "over"], waiting))
  /\ UNCHANGED <<state, size, loaded>>

StateKept(d) == state
StateFailed(d) == [state EXCEPT ![d] = "failed"]

(* The last try failed. *)
GivenUp(d) ==
  /\ NextTurn
  /\ pc[d] = "running"
  /\ retry[d] = RetryCount
  /\ state' = StateFailed(d)
  /\ active' = Released(active)
  /\ waiting' = StillWaiting(waiting)
  /\ pc' = PcAfterRelease([pc EXCEPT ![d] = "over"], waiting)
  /\ UNCHANGED <<begun, track, retry, size, entries, loaded>>

-------------------------------------------------------------------------------
(* The player is done with the track: release, or getBuffer on a buffer older
   than PRELOAD_TTL_MS.  refCount is 1 in every entry (addRef has no caller),
   so the entry goes, whatever its download is at. *)
Release(t) ==
  /\ NextTurn
  /\ entries[t] # NoEntry
  /\ ReleaseBuffers({t}, size)
  /\ UNCHANGED <<begun, track, retry, pc, state, loaded, poolVars>>

-------------------------------------------------------------------------------
DownloadStep(d) == StartYtdlp(d) \/ Resume(d) \/ Downloaded(d) \/ Retried(d) \/ GivenUp(d)

PreloadNext ==
  \/ \E t \in Track: TriggerPreload(t) \/ Release(t)
  \/ \E d \in Download: DownloadStep(d)

PreloadSpec == PreloadInit /\ [][PreloadNext]_preloadVars

(* Promise jobs run, and yt-dlp ends: it has a timeout. *)
FairPreloadSpec == PreloadSpec /\ \A d \in Download: WF_preloadVars(DownloadStep(d))

-------------------------------------------------------------------------------
(* The counter is the number of downloads that hold a slot: no error path keeps
   one or gives one back twice. *)
SlotsAreCounted ==
  active = Cardinality({d \in Download: pc[d] \in {"admitted", "running"}})

(* Nobody waits while a slot is free: all are taken or about to be. *)
NobodyWaitsInVain ==
  waiting # <<>> =>
    active + Cardinality({d \in Download: pc[d] = "resumed"}) >= MaxConcurrent

(* What the map says of a track can be relied on: an entry that is downloading
   has a download that goes on (triggerPreload leaves it alone), and one that is
   preloaded has its buffer (play takes it for the track's song). *)
EntriesTellTheTruth == \A t \in Mapped:
  LET d == entries[t] IN
  /\ track[d] = t
  /\ state[d] = "downloading" => pc[d] \in {"waiting", "resumed", "admitted", "running"}
  /\ state[d] = "preloaded" => size[d] = 1

(* A download that waits for a slot gets one and ends, also when it or those
   before it fail and retry.  (At begun = MaxDownloads the model has no number
   for another retry; a download that could still retry succeeds there.) *)
WaitersAreServed == \A d \in Download: pc[d] = "waiting" ~> pc[d] = "over"

===============================================================================
