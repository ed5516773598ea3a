---------------------------- MODULE PreloadProofs ----------------------------
(***************************************************************************)
(* Proofs about PreloadService, for every number of tracks, downloads and  *)
(* slots, and every limit of retries and memory.                           *)
(*                                                                         *)
(* The pool is a counter, a queue and, through the promise jobs, the pcs   *)
(* of the downloads.  PoolOK says of the three what the operations of the  *)
(* pool keep; a retry is a release and a begin in one step, so PoolOK is   *)
(* stated of values, not of the variables.                                 *)
(***************************************************************************)
EXTENDS Preload, FiniteSetTheorems, SequenceTheorems, TLAPS

Pc == {"none", "waiting", "resumed", "admitted", "running", "over"}

Holding(p) == {d \in Download: p[d] \in {"admitted", "running"}}
Woken(p) == {d \in Download: p[d] = "resumed"}

PoolOK(a, q, p) ==
  /\ a \in Nat /\ q \in Seq(Download) /\ p \in [Download -> Pc]
  /\ a = Cardinality(Holding(p))
  /\ q # <<>> => a + Cardinality(Woken(p)) >= MaxConcurrent
  /\ \A i \in 1 .. Len(q): p[q[i]] = "waiting"
  /\ \A i, j \in 1 .. Len(q): q[i] = q[j] => i = j

(* Downloads that have begun have a track; those that have not are blank, and no
   entry is one of them. *)
BegunOnly ==
  /\ \A d \in Download: d <= begun => track[d] \in Track
  /\ \A d \in Download: d > begun =>
       pc[d] = "none" /\ state[d] = "downloading" /\ size[d] = 0
  /\ \A t \in Track: entries[t] # NoEntry => entries[t] <= begun

PreloadInv ==
  /\ PreloadTypeOK
  /\ PoolOK(active, waiting, pc)
  /\ BegunOnly
  /\ EntriesTellTheTruth

-------------------------------------------------------------------------------
(* The pool. *)
LEMMA DownloadsAreFinite ==
  ASSUME NEW S \in SUBSET Download
  PROVE  IsFiniteSet(S) /\ Cardinality(S) \in Nat
<1>1. IsFiniteSet(Download)
  BY FS_Interval, PreloadAssumption, SMT DEF Download
<1> QED BY <1>1, FS_Subset, FS_CardinalityType

LEMMA HoldingAreFinite ==
  ASSUME NEW p
  PROVE  /\ IsFiniteSet(Holding(p)) /\ Cardinality(Holding(p)) \in Nat
         /\ IsFiniteSet(Woken(p)) /\ Cardinality(Woken(p)) \in Nat
BY DownloadsAreFinite DEF Holding, Woken

(* A new download takes a free slot or waits. *)
LEMMA BeginKeepsPool ==
  ASSUME NEW a, NEW q, NEW p, PoolOK(a, q, p), NEW d \in Download, p[d] = "none"
  PROVE  /\ PoolOK(a + 1, q, [p EXCEPT ![d] = "admitted"])
         /\ a >= MaxConcurrent => PoolOK(a, Append(q, d), [p EXCEPT ![d] = "waiting"])
<1>0. /\ a \in Nat /\ MaxConcurrent \in Nat /\ a = Cardinality(Holding(p))
      /\ q \in Seq(Download) /\ p \in [Download -> Pc]
      /\ IsFiniteSet(Holding(p)) /\ Cardinality(Holding(p)) \in Nat
      /\ IsFiniteSet(Woken(p)) /\ Cardinality(Woken(p)) \in Nat
      /\ q # <<>> => a + Cardinality(Woken(p)) >= MaxConcurrent
  BY HoldingAreFinite, PreloadAssumption DEF PoolOK
<1>1. PoolOK(a + 1, q, [p EXCEPT ![d] = "admitted"])
  <2> DEFINE r == [p EXCEPT ![d] = "admitted"]
  <2>1. r \in [Download -> Pc] /\ Holding(r) = Holding(p) \cup {d} /\ Woken(r) = Woken(p)
    BY DEF PoolOK, Pc, Holding, Woken
  <2>2. Cardinality(Holding(r)) = Cardinality(Holding(p)) + 1
    BY <1>0, <2>1, FS_AddElement, d \notin Holding(p) DEF Holding
  <2>3. \A i \in 1 .. Len(q): r[q[i]] = "waiting"
    BY DEF PoolOK
  <2>4. q # <<>> => a + 1 + Cardinality(Woken(r)) >= MaxConcurrent
    BY <1>0, <2>1
  <2> HIDE DEF r
  <2>9. PoolOK(a + 1, q, r)
    BY <1>0, <2>1, <2>2, <2>3, <2>4 DEF PoolOK
  <2> QED BY <2>9 DEF r
<1>2. ASSUME a >= MaxConcurrent
      PROVE  PoolOK(a, Append(q, d), [p EXCEPT ![d] = "waiting"])
  <2> DEFINE r == [p EXCEPT ![d] = "waiting"]
  <2>1. r \in [Download -> Pc] /\ Holding(r) = Holding(p) /\ Woken(r) = Woken(p)
    BY DEF PoolOK, Pc, Holding, Woken
  <2>2. /\ Append(q, d) \in Seq(Download) /\ Len(Append(q, d)) = Len(q) + 1
        /\ Append(q, d)[Len(q) + 1] = d
        /\ \A i \in 1 .. Len(q): Append(q, d)[i] = q[i]
        /\ Len(q) \in Nat
    BY DEF PoolOK
  <2>3. \A i \in 1 .. Len(q): q[i] \in Download /\ q[i] # d
    BY DEF PoolOK
  <2>4. \A i \in 1 .. Len(Append(q, d)): r[Append(q, d)[i]] = "waiting"
    BY <2>2, <2>3 DEF PoolOK
  <2>5. \A i, j \in 1 .. Len(Append(q, d)): Append(q, d)[i] = Append(q, d)[j] => i = j
    BY <2>2, <2>3 DEF PoolOK
  <2>6. a + Cardinality(Woken(r)) >= MaxConcurrent
    BY <1>0, <1>2, <2>1
  <2> HIDE DEF r
  <2>9. PoolOK(a, Append(q, d), r)
    BY <1>0, <2>1, <2>2, <2>4, <2>5, <2>6 DEF PoolOK
  <2> QED BY <2>9 DEF r
<1> QED BY <1>1, <1>2

(* acquireSlot goes on, and yt-dlp starts. *)
LEMMA GoingOnKeepsPool ==
  ASSUME NEW a, NEW q, NEW p, PoolOK(a, q, p), NEW d \in Download
  PROVE  /\ p[d] = "resumed" => PoolOK(a + 1, q, [p EXCEPT ![d] = "admitted"])
         /\ p[d] = "admitted" => PoolOK(a, q, [p EXCEPT ![d] = "running"])
<1>0. /\ a \in Nat /\ MaxConcurrent \in Nat /\ a = Cardinality(Holding(p))
      /\ q \in Seq(Download) /\ p \in [Download -> Pc]
      /\ IsFiniteSet(Holding(p)) /\ Cardinality(Holding(p)) \in Nat
      /\ IsFiniteSet(Woken(p)) /\ Cardinality(Woken(p)) \in Nat
      /\ q # <<>> => a + Cardinality(Woken(p)) >= MaxConcurrent
  BY HoldingAreFinite, PreloadAssumption DEF PoolOK
<1>1. ASSUME p[d] = "resumed"
      PROVE  PoolOK(a + 1, q, [p EXCEPT ![d] = "admitted"])
  <2> DEFINE r == [p EXCEPT ![d] = "admitted"]
  <2>1. /\ r \in [Download -> Pc]
        /\ Holding(r) = Holding(p) \cup {d} /\ d \notin Holding(p)
        /\ Woken(r) = Woken(p) \ {d} /\ d \in Woken(p)
    BY <1>1 DEF PoolOK, Pc, Holding, Woken
  <2>2. /\ Cardinality(Holding(r)) = Cardinality(Holding(p)) + 1
        /\ Cardinality(Woken(r)) = Cardinality(Woken(p)) - 1
    <3> HIDE DEF r
    <3>1. Cardinality(Holding(r)) = Cardinality(Holding(p)) + 1
      BY <1>0, <2>1, FS_AddElement
    <3>2. Cardinality(Woken(r)) = Cardinality(Woken(p)) - 1
      BY <1>0, <2>1, FS_RemoveElement
    <3> QED BY <3>1, <3>2
  <2>3. \A i \in 1 .. Len(q): r[q[i]] = "waiting"
    BY <1>1 DEF PoolOK
  <2>4. q # <<>> => a + 1 + Cardinality(Woken(r)) >= MaxConcurrent
    BY <1>0, <2>2
  <2> HIDE DEF r
  <2>9. PoolOK(a + 1, q, r)
    BY <1>0, <2>1, <2>2, <2>3, <2>4 DEF PoolOK
  <2> QED BY <2>9 DEF r
<1>2. ASSUME p[d] = "admitted"
      PROVE  PoolOK(a, q, [p EXCEPT ![d] = "running"])
  <2> DEFINE r == [p EXCEPT ![d] = "running"]
  <2>1. r \in [Download -> Pc] /\ Holding(r) = Holding(p) /\ Woken(r) = Woken(p)
    BY <1>2 DEF PoolOK, Pc, Holding, Woken
  <2>2. \A i \in 1 .. Len(q): r[q[i]] = "waiting"
    BY <1>2 DEF PoolOK
  <2> HIDE DEF r
  <2>9. PoolOK(a, q, r)
    BY <1>0, <2>1, <2>2 DEF PoolOK
  <2> QED BY <2>9 DEF r
<1> QED BY <1>1, <1>2

(* releaseSlot: the slot of d goes back, and the first who waits is resumed. *)
LEMMA ReleaseKeepsPool ==
  ASSUME NEW a, NEW q, NEW p, PoolOK(a, q, p), NEW d \in Download, p[d] = "running"
  PROVE  PoolOK(Released(a), StillWaiting(q), PcAfterRelease([p EXCEPT ![d] = "over"], q))
<1>0. /\ a \in Nat /\ MaxConcurrent \in Nat /\ a = Cardinality(Holding(p))
      /\ q \in Seq(Download) /\ p \in [Download -> Pc]
      /\ IsFiniteSet(Holding(p)) /\ Cardinality(Holding(p)) \in Nat
      /\ IsFiniteSet(Woken(p)) /\ Cardinality(Woken(p)) \in Nat
      /\ q # <<>> => a + Cardinality(Woken(p)) >= MaxConcurrent
  BY HoldingAreFinite, PreloadAssumption DEF PoolOK
<1> DEFINE r == PcAfterRelease([p EXCEPT ![d] = "over"], q)
<1>1. /\ \A s \in Resumed(q): s \in Download /\ p[s] = "waiting"
      /\ q = <<>> => Resumed(q) = {}
  <2>1. q # <<>> => Head(q) = q[1] /\ 1 \in 1 .. Len(q) /\ q[1] \in Download
    BY <1>0
  <2> QED BY <2>1 DEF Resumed, PoolOK
<1>2. /\ r \in [Download -> Pc]
      /\ \A x \in Download: r[x] = IF x \in Resumed(q) THEN "resumed"
                                   ELSE IF x = d THEN "over" ELSE p[x]
  BY <1>0 DEF Pc, PcAfterRelease
<1>3. /\ Holding(r) = Holding(p) \ {d} /\ d \in Holding(p)
      /\ Woken(r) = Woken(p) \cup Resumed(q) /\ Resumed(q) \cap Woken(p) = {}
  BY <1>1, <1>2 DEF Holding, Woken
<1>4. Cardinality(Holding(r)) = Cardinality(Holding(p)) - 1 /\ Cardinality(Holding(r)) \in Nat
  BY <1>0, <1>3, FS_RemoveElement, HoldingAreFinite
<1>5. CASE q = <<>>
  <2>1. StillWaiting(q) = <<>> /\ Len(<<>>) = 0 /\ <<>> \in Seq(Download)
    BY <1>5 DEF StillWaiting
  <2> HIDE DEF r
  <2>9. PoolOK(Released(a), StillWaiting(q), r)
    BY <1>0, <1>2, <1>4, <2>1 DEF PoolOK, Released
  <2> QED BY <2>9 DEF r
<1>6. CASE q # <<>>
  <2>1. /\ Tail(q) \in Seq(Download) /\ Len(q) \in Nat /\ Len(Tail(q)) = Len(q) - 1
        /\ \A i \in 1 .. Len(Tail(q)): Tail(q)[i] = q[i + 1] /\ i + 1 \in 1 .. Len(q)
        /\ Head(q) = q[1] /\ 1 \in 1 .. Len(q)
    BY <1>0, <1>6
  <2>2. Resumed(q) = {q[1]} /\ StillWaiting(q) = Tail(q)
    BY <1>6, <2>1 DEF Resumed, StillWaiting
  <2>3. Cardinality(Woken(r)) = Cardinality(Woken(p)) + 1
    BY <1>0, <1>3, <2>2, FS_AddElement
  <2>4. \A i \in 1 .. Len(q): /\ q[i] \in Download /\ p[q[i]] = "waiting"
                              /\ i # 1 => q[i] # q[1]
    BY <1>0, <2>1 DEF PoolOK
  <2>5. \A i \in 1 .. Len(Tail(q)): r[Tail(q)[i]] = "waiting"
    <3> SUFFICES ASSUME NEW i \in 1 .. Len(Tail(q))
                 PROVE  r[q[i + 1]] = "waiting"
      BY <2>1
    <3>1. i + 1 \in 1 .. Len(q) /\ i + 1 # 1
      BY <2>1
    <3>2. q[i + 1] \in Download /\ p[q[i + 1]] = "waiting" /\ q[i + 1] # q[1]
      BY <2>4, <3>1
    <3> HIDE DEF r
    <3> QED BY <1>2, <2>2, <3>2
  <2>6. \A i, j \in 1 .. Len(Tail(q)): Tail(q)[i] = Tail(q)[j] => i = j
    <3>1. \A i, j \in 1 .. Len(q): q[i] = q[j] => i = j
      BY DEF PoolOK
    <3> QED BY <2>1, <3>1
  <2>7. Released(a) = Cardinality(Holding(r)) /\ Released(a) \in Nat
        /\ Released(a) + Cardinality(Woken(r)) >= MaxConcurrent
    BY <1>0, <1>4, <1>6, <2>3 DEF Released
  <2> HIDE DEF r
  <2>9. PoolOK(Released(a), StillWaiting(q), r)
    BY <1>2, <2>1, <2>2, <2>5, <2>6, <2>7 DEF PoolOK
  <2> QED BY <2>9 DEF r
<1> QED BY <1>5, <1>6

-------------------------------------------------------------------------------
(* The entries. *)
LEMMA NumbersOfDownloads ==
  ASSUME PreloadInv
  PROVE  /\ begun \in Nat /\ MaxDownloads \in Nat /\ NoEntry \notin Download
         /\ begun < MaxDownloads => begun + 1 \in Download
BY PreloadAssumption DEF PreloadInv, PreloadTypeOK, Download

(* startDownload makes a blank entry for its track, and asks for a slot of the
   pool its caller leaves. *)
LEMMA BeginKeeps ==
  ASSUME PreloadInv, NEW t \in Track, NEW tries \in 0 .. RetryCount,
         NEW a, NEW q, NEW p, PoolOK(a, q, p), Begin(t, tries, a, q, p),
         UNCHANGED <<state, size, loaded>>,
         \A d \in Download: d > begun => p[d] = "none",
         \A u \in Track \ {t}: entries[u] # NoEntry =>
            \/ p[entries[u]] \in {"waiting", "resumed", "admitted", "running"}
            \/ p[entries[u]] = pc[entries[u]]
  PROVE  PreloadInv'
<1> DEFINE d == begun + 1
<1>1. /\ d \in Download /\ begun \in Nat /\ MaxDownloads \in Nat /\ NoEntry \notin Download
      /\ p[d] = "none" /\ state[d] = "downloading" /\ size[d] = 0
  <2>1. d \in Download /\ begun \in Nat /\ MaxDownloads \in Nat /\ NoEntry \notin Download
    BY NumbersOfDownloads DEF Begin
  <2> QED BY <2>1 DEF PreloadInv, BegunOnly
<1>2. /\ begun' = d /\ track' = [track EXCEPT ![d] = t] /\ retry' = [retry EXCEPT ![d] = tries]
      /\ entries' = [entries EXCEPT ![t] = d]
  BY DEF Begin
<1>3. /\ p \in [Download -> Pc] /\ pc' \in [Download -> Pc]
      /\ pc'[d] \in {"admitted", "waiting"}
      /\ \A x \in Download: x # d => pc'[x] = p[x]
  BY <1>1 DEF Begin, PoolOK, Pc
<1>4. IF a < MaxConcurrent
        THEN active' = a + 1 /\ waiting' = q /\ pc' = [p EXCEPT ![d] = "admitted"]
        ELSE active' = a /\ waiting' = Append(q, d) /\ pc' = [p EXCEPT ![d] = "waiting"]
  BY DEF Begin
<1> HIDE DEF d
<1>5. /\ PoolOK(a + 1, q, [p EXCEPT ![d] = "admitted"])
      /\ a >= MaxConcurrent => PoolOK(a, Append(q, d), [p EXCEPT ![d] = "waiting"])
  BY <1>1, BeginKeepsPool
<1>6. PoolOK(active', waiting', pc')
  <2>1. CASE a < MaxConcurrent
    BY <1>4, <1>5, <2>1
  <2>2. CASE ~(a < MaxConcurrent)
    <3>1. a >= MaxConcurrent
      BY <2>2, PreloadAssumption DEF PoolOK
    <3> QED BY <1>4, <1>5, <2>2, <3>1
  <2> QED BY <2>1, <2>2
<1>7. PreloadTypeOK'
  <2>1. begun' \in 0 .. MaxDownloads
    BY <1>1, <1>2 DEF Download
  <2> QED BY <1>1, <1>2, <1>3, <1>6, <2>1 DEF PreloadInv, PreloadTypeOK, PoolOK, Pc
<1>8. BegunOnly'
  <2>1. \A x \in Download: x > begun' => x > begun /\ x # d
    BY <1>1, <1>2 DEF Download, d
  <2>2. \A u \in Track: entries'[u] # NoEntry => entries'[u] <= begun'
    <3> SUFFICES ASSUME NEW u \in Track, entries'[u] # NoEntry
                 PROVE  entries'[u] <= d
      BY <1>2
    <3>1. CASE u = t
      BY <1>1, <1>2, <3>1 DEF PreloadInv, PreloadTypeOK, Download
    <3>2. CASE u # t
      <4>1. entries'[u] = entries[u] /\ entries[u] \in Download /\ entries[u] <= begun
        BY <1>2, <3>2 DEF PreloadInv, PreloadTypeOK, BegunOnly
      <4> QED BY <1>1, <4>1 DEF Download, d
    <3> QED BY <3>1, <3>2
  <2>3. \A x \in Download: x <= begun' => x <= begun \/ x = d
    BY <1>1, <1>2 DEF Download, d
  <2>4. \A x \in Download: x <= begun' => track'[x] \in Track
    BY <1>2, <2>3 DEF PreloadInv, BegunOnly, PreloadTypeOK
  <2> QED BY <1>2, <1>3, <2>1, <2>2, <2>4 DEF PreloadInv, BegunOnly
<1>9. EntriesTellTheTruth'
  <2> SUFFICES ASSUME NEW u \in Track, entries'[u] # NoEntry
               PROVE  /\ track'[entries'[u]] = u
                      /\ state[entries'[u]] = "downloading" =>
                           pc'[entries'[u]] \in {"waiting", "resumed", "admitted", "running"}
                      /\ state[entries'[u]] = "preloaded" => size[entries'[u]] = 1
    BY DEF EntriesTellTheTruth, Mapped
  <2>1. CASE u = t
    BY <1>1, <1>2, <1>3, <2>1 DEF PreloadInv, PreloadTypeOK
  <2>2. CASE u # t
    <3>1. entries'[u] = entries[u] /\ entries[u] \in Download /\ entries[u] # d
      BY <1>1, <1>2, <2>2 DEF PreloadInv, PreloadTypeOK, BegunOnly, d, Download
    <3>2. /\ track[entries[u]] = u
          /\ state[entries[u]] = "downloading" =>
               pc[entries[u]] \in {"waiting", "resumed", "admitted", "running"}
          /\ state[entries[u]] = "preloaded" => size[entries[u]] = 1
      BY <3>1, NumbersOfDownloads DEF PreloadInv, EntriesTellTheTruth, Mapped
    <3>3. track'[entries[u]] = u /\ pc'[entries[u]] = p[entries[u]]
      BY <1>2, <1>3, <3>1, <3>2 DEF PreloadInv, PreloadTypeOK
    <3> QED BY <2>2, <3>1, <3>2, <3>3
  <2> QED BY <2>1, <2>2
<1> QED BY <1>6, <1>7, <1>8, <1>9 DEF PreloadInv

(* A step that begins nothing, gives no new entry and keeps the pool. *)
LEMMA NoBeginKeeps ==
  ASSUME PreloadInv, UNCHANGED <<begun, track, retry>>,
         PoolOK(active', waiting', pc'),
         \A d \in Download: d > begun => pc'[d] = "none" /\ state'[d] = state[d] /\ size'[d] = 0,
         state' \in [Download -> {"downloading", "preloaded", "failed"}],
         size' \in [Download -> 0 .. 1], loaded' \in Seq(Download),
         entries' \in [Track -> Download \cup {NoEntry}],
         \A u \in Track: entries'[u] # NoEntry =>
           /\ entries'[u] = entries[u]
           /\ state'[entries[u]] = "downloading" =>
                pc'[entries[u]] \in {"waiting", "resumed", "admitted", "running"}
           /\ state'[entries[u]] = "preloaded" => size'[entries[u]] = 1
  PROVE  PreloadInv'
<1>1. PreloadTypeOK'
  BY DEF PreloadInv, PreloadTypeOK, PoolOK, Pc
<1>2. BegunOnly'
  BY DEF PreloadInv, BegunOnly
<1>3. EntriesTellTheTruth'
  BY DEF PreloadInv, EntriesTellTheTruth, Mapped
<1> QED BY <1>1, <1>2, <1>3 DEF PreloadInv

(* releaseBuffer clears what the map no longer names. *)
LEMMA BuffersReleased ==
  ASSUME PreloadInv, NEW S \in SUBSET Track, ReleaseBuffers(S, size)
  PROVE  /\ size' \in [Download -> 0 .. 1]
         /\ entries' \in [Track -> Download \cup {NoEntry}]
         /\ \A d \in Download: d > begun => size'[d] = 0
         /\ \A u \in Track: entries'[u] # NoEntry =>
              /\ entries'[u] = entries[u] /\ entries[u] \in Download
              /\ state[entries[u]] = "preloaded" => size'[entries[u]] = 1
<1>1. /\ size' \in [Download -> 0 .. 1] /\ entries' \in [Track -> Download \cup {NoEntry}]
      /\ \A d \in Download: d > begun => size'[d] = 0
  BY DEF ReleaseBuffers, PreloadInv, PreloadTypeOK, BegunOnly
<1>2. ASSUME NEW u \in Track, entries'[u] # NoEntry
      PROVE  /\ entries'[u] = entries[u] /\ entries[u] \in Download
             /\ state[entries[u]] = "preloaded" => size'[entries[u]] = 1
  <2>1. u \notin S /\ entries'[u] = entries[u] /\ entries[u] \in Download
    BY <1>2 DEF ReleaseBuffers, PreloadInv, PreloadTypeOK
  <2>2. \A s \in S: entries[s] # entries[u]
    BY <1>2, <2>1 DEF PreloadInv, EntriesTellTheTruth, Mapped
  <2>3. size'[entries[u]] = size[entries[u]]
    BY <2>1, <2>2 DEF ReleaseBuffers
  <2> QED BY <1>2, <2>1, <2>3 DEF PreloadInv, EntriesTellTheTruth, Mapped
<1> QED BY <1>1, <1>2

-------------------------------------------------------------------------------
(* The end of a download: its slot is released. *)
LEMMA AfterRelease ==
  ASSUME PreloadInv, NEW d \in Download, pc[d] = "running"
  PROVE  LET p == PcAfterRelease([pc EXCEPT ![d] = "over"], waiting) IN
         /\ PoolOK(Released(active), StillWaiting(waiting), p)
         /\ \A x \in Download:
              \/ x = d /\ p[x] = "over"
              \/ x # d /\ p[x] = pc[x]
              \/ x # d /\ pc[x] = "waiting" /\ p[x] = "resumed"
         /\ \A x \in Download: x > begun => x # d /\ p[x] = "none"
<1> DEFINE p == PcAfterRelease([pc EXCEPT ![d] = "over"], waiting)
<1>1. PoolOK(Released(active), StillWaiting(waiting), p)
  BY ReleaseKeepsPool DEF PreloadInv
<1>2. \A s \in Resumed(waiting): s \in Download /\ pc[s] = "waiting"
  <2>1. waiting # <<>> => Head(waiting) = waiting[1] /\ 1 \in 1 .. Len(waiting)
                            /\ waiting[1] \in Download
    BY DEF PreloadInv, PreloadTypeOK
  <2> QED BY <2>1 DEF Resumed, PreloadInv, PoolOK
<1>3. \A x \in Download: p[x] = IF x \in Resumed(waiting) THEN "resumed"
                                ELSE IF x = d THEN "over" ELSE pc[x]
  BY DEF PcAfterRelease, PreloadInv, PreloadTypeOK
<1>4. \A x \in Download: \/ x = d /\ p[x] = "over"
                         \/ x # d /\ p[x] = pc[x]
                         \/ x # d /\ pc[x] = "waiting" /\ p[x] = "resumed"
  BY <1>2, <1>3
<1>5. \A x \in Download: x > begun => x # d /\ p[x] = "none"
  BY <1>4 DEF PreloadInv, BegunOnly
<1> QED BY <1>1, <1>4, <1>5

LEMMA TriggerKeeps ==
  ASSUME PreloadInv, NEW t \in Track, TriggerPreload(t)
  PROVE  PreloadInv'
<1>1. /\ PoolOK(active, waiting, pc) /\ 0 \in 0 .. RetryCount
      /\ \A d \in Download: d > begun => pc[d] = "none"
  BY PreloadAssumption DEF PreloadInv, BegunOnly
<1>2. Begin(t, 0, active, waiting, pc) /\ UNCHANGED <<state, size, loaded>>
  BY DEF TriggerPreload
<1> QED BY <1>1, <1>2, BeginKeeps

LEMMA RetriedKeeps ==
  ASSUME PreloadInv, NEW d \in Download, Retried(d)
  PROVE  PreloadInv'
<1> DEFINE p == PcAfterRelease([pc EXCEPT ![d] = "over"], waiting)
<1>1. /\ pc[d] = "running" /\ UNCHANGED <<state, size, loaded>>
      /\ Begin(track[d], retry[d] + 1, Released(active), StillWaiting(waiting), p)
  BY DEF Retried
<1>2. /\ PoolOK(Released(active), StillWaiting(waiting), p)
      /\ \A x \in Download: \/ x = d /\ p[x] = "over"
                            \/ x # d /\ p[x] = pc[x]
                            \/ x # d /\ pc[x] = "waiting" /\ p[x] = "resumed"
      /\ \A x \in Download: x > begun => p[x] = "none"
  BY <1>1, AfterRelease
<1> HIDE DEF p
<1>3. retry[d] + 1 \in 0 .. RetryCount
  BY PreloadAssumption DEF Retried, PreloadInv, PreloadTypeOK
<1>4. ASSUME NEW u \in Track \ {track[d]}, entries[u] # NoEntry
      PROVE  \/ p[entries[u]] \in {"waiting", "resumed", "admitted", "running"}
             \/ p[entries[u]] = pc[entries[u]]
  <2>1. entries[u] \in Download /\ track[entries[u]] = u
    BY <1>4 DEF PreloadInv, PreloadTypeOK, EntriesTellTheTruth, Mapped
  <2> QED BY <1>2, <2>1
<1>5. track[d] \in Track
  <2>1. d <= begun
    BY <1>1, NumbersOfDownloads DEF PreloadInv, BegunOnly, Download
  <2> QED BY <2>1 DEF PreloadInv, BegunOnly
<1> QED BY <1>1, <1>2, <1>3, <1>4, <1>5, BeginKeeps

LEMMA EndedKeeps ==
  ASSUME PreloadInv, NEW d \in Download, Downloaded(d) \/ GivenUp(d)
  PROVE  PreloadInv'
<1> DEFINE p == PcAfterRelease([pc EXCEPT ![d] = "over"], waiting)
<1>1. /\ pc[d] = "running" /\ pc' = p /\ active' = Released(active)
      /\ waiting' = StillWaiting(waiting) /\ UNCHANGED <<begun, track, retry, entries>>
  BY DEF Downloaded, GivenUp
<1>2. /\ PoolOK(active', waiting', pc')
      /\ \A x \in Download: \/ x = d
                            \/ x # d /\ pc'[x] = pc[x]
                            \/ x # d /\ pc[x] = "waiting" /\ pc'[x] = "resumed"
      /\ \A x \in Download: x > begun => x # d /\ pc'[x] = "none"
  BY <1>1, AfterRelease
<1> HIDE DEF p
<1>3. /\ state' \in [Download -> {"downloading", "preloaded", "failed"}]
      /\ size' \in [Download -> 0 .. 1] /\ loaded' \in Seq(Download)
      /\ entries' \in [Track -> Download \cup {NoEntry}]
      /\ \A x \in Download: x # d => state'[x] = state[x] /\ size'[x] = size[x]
      /\ state'[d] # "downloading" /\ (state'[d] = "preloaded" => size'[d] = 1)
  <2>1. CASE Downloaded(d)
    <3>1. /\ state' = [state EXCEPT ![d] = "preloaded"] /\ size' = [size EXCEPT ![d] = 1]
          /\ loaded' = Append(loaded, d)
      BY <2>1 DEF Downloaded
    <3>2. loaded' \in Seq(Download)
      BY <3>1 DEF PreloadInv, PreloadTypeOK
    <3> QED BY <1>1, <3>1, <3>2 DEF PreloadInv, PreloadTypeOK
  <2>2. CASE GivenUp(d)
    BY <1>1, <2>2 DEF GivenUp, StateFailed, PreloadInv, PreloadTypeOK
  <2> QED BY <2>1, <2>2
<1>4. \A x \in Download: x > begun => size'[x] = 0 /\ state'[x] = state[x]
  BY <1>2, <1>3 DEF PreloadInv, BegunOnly
<1>5. \A u \in Track: entries[u] # NoEntry =>
        /\ state'[entries[u]] = "downloading" =>
             pc'[entries[u]] \in {"waiting", "resumed", "admitted", "running"}
        /\ state'[entries[u]] = "preloaded" => size'[entries[u]] = 1
  <2> SUFFICES ASSUME NEW u \in Track, entries[u] # NoEntry
               PROVE  /\ state'[entries[u]] = "downloading" =>
                           pc'[entries[u]] \in {"waiting", "resumed", "admitted", "running"}
                      /\ state'[entries[u]] = "preloaded" => size'[entries[u]] = 1
    OBVIOUS
  <2>1. entries[u] \in Download
    BY DEF PreloadInv, PreloadTypeOK
  <2>2. /\ state[entries[u]] = "downloading" =>
             pc[entries[u]] \in {"waiting", "resumed", "admitted", "running"}
        /\ state[entries[u]] = "preloaded" => size[entries[u]] = 1
    BY DEF PreloadInv, EntriesTellTheTruth, Mapped
  <2> QED BY <1>2, <1>3, <2>1, <2>2
<1> QED BY <1>1, <1>2, <1>3, <1>4, <1>5, NoBeginKeeps

(* The other steps. *)
LEMMA GoingOnKeeps ==
  ASSUME PreloadInv, NEW d \in Download, StartYtdlp(d) \/ Resume(d)
  PROVE  PreloadInv'
<1>1. /\ UNCHANGED <<begun, track, retry, state, loaded>>
      /\ \E S \in SUBSET Track: ReleaseBuffers(S, size)
  <2>1. CASE StartYtdlp(d)
    <3>1. Evicted \in SUBSET Track
      BY DEF Evicted, Oldest, Preloaded, Mapped
    <3> QED BY <2>1, <3>1 DEF StartYtdlp
  <2>2. CASE Resume(d)
    <3>1. ReleaseBuffers({}, size)
      BY <2>2 DEF ReleaseBuffers, Resume, entryVars, PreloadInv, PreloadTypeOK
    <3> QED BY <2>2, <3>1 DEF Resume, entryVars
  <2> QED BY <2>1, <2>2
<1>2. PoolOK(active', waiting', pc')
  <2>1. PoolOK(active, waiting, pc)
    BY DEF PreloadInv
  <2>2. CASE StartYtdlp(d)
    BY <2>1, <2>2, GoingOnKeepsPool DEF StartYtdlp, poolVars
  <2>3. CASE Resume(d)
    BY <2>1, <2>3, GoingOnKeepsPool DEF Resume
  <2> QED BY <2>2, <2>3
<1>3. /\ pc[d] \in {"admitted", "resumed"} /\ pc'[d] \in {"running", "admitted"}
      /\ \A x \in Download: x # d => pc'[x] = pc[x]
  BY DEF StartYtdlp, Resume, PreloadInv, PreloadTypeOK
<1>4. \A x \in Download: x > begun => pc'[x] = "none"
  BY <1>3 DEF PreloadInv, BegunOnly
<1>5. PICK S \in SUBSET Track: ReleaseBuffers(S, size)
  BY <1>1
<1>6. /\ size' \in [Download -> 0 .. 1]
      /\ entries' \in [Track -> Download \cup {NoEntry}]
      /\ \A x \in Download: x > begun => size'[x] = 0
      /\ \A u \in Track: entries'[u] # NoEntry =>
           /\ entries'[u] = entries[u] /\ entries[u] \in Download
           /\ state[entries[u]] = "preloaded" => size'[entries[u]] = 1
  BY <1>5, BuffersReleased
<1>7. \A u \in Track: entries'[u] # NoEntry =>
        (state[entries[u]] = "downloading" =>
           pc'[entries[u]] \in {"waiting", "resumed", "admitted", "running"})
  BY <1>3, <1>6 DEF PreloadInv, EntriesTellTheTruth, Mapped
<1> QED BY <1>1, <1>2, <1>4, <1>6, <1>7, NoBeginKeeps DEF PreloadInv, PreloadTypeOK

LEMMA ReleaseKeeps ==
  ASSUME PreloadInv, NEW t \in Track, Release(t)
  PROVE  PreloadInv'
<1>1. /\ UNCHANGED <<begun, track, retry, pc, state, loaded, active, waiting>>
      /\ ReleaseBuffers({t}, size) /\ {t} \in SUBSET Track
  BY DEF Release, poolVars
<1>2. PoolOK(active', waiting', pc')
  BY <1>1 DEF PreloadInv
<1>3. /\ size' \in [Download -> 0 .. 1]
      /\ entries' \in [Track -> Download \cup {NoEntry}]
      /\ \A x \in Download: x > begun => size'[x] = 0
      /\ \A u \in Track: entries'[u] # NoEntry =>
           /\ entries'[u] = entries[u] /\ entries[u] \in Download
           /\ state[entries[u]] = "preloaded" => size'[entries[u]] = 1
  BY <1>1, BuffersReleased
<1>4. \A u \in Track: entries'[u] # NoEntry =>
        (state[entries[u]] = "downloading" =>
           pc'[entries[u]] \in {"waiting", "resumed", "admitted", "running"})
  BY <1>1, <1>3 DEF PreloadInv, EntriesTellTheTruth, Mapped
<1>5. \A x \in Download: x > begun => pc'[x] = "none"
  BY <1>1 DEF PreloadInv, BegunOnly
<1> QED BY <1>1, <1>2, <1>3, <1>4, <1>5, NoBeginKeeps DEF PreloadInv, PreloadTypeOK

-------------------------------------------------------------------------------
LEMMA PreloadNextKeeps ==
  ASSUME PreloadInv, [PreloadNext]_preloadVars
  PROVE  PreloadInv'
<1>1. CASE UNCHANGED preloadVars
  BY <1>1 DEF preloadVars, poolVars, entryVars, PreloadInv, PreloadTypeOK, PoolOK, BegunOnly,
              EntriesTellTheTruth, Mapped, Holding, Woken
<1>2. CASE PreloadNext
  BY <1>2, TriggerKeeps, RetriedKeeps, EndedKeeps, GoingOnKeeps, ReleaseKeeps, Zenon
     DEF PreloadNext, DownloadStep
<1> QED BY <1>1, <1>2

LEMMA PreloadInitInv == PreloadInit => PreloadInv
<1> SUFFICES ASSUME PreloadInit PROVE PreloadInv
  OBVIOUS
<1>1. Holding(pc) = {} /\ Woken(pc) = {} /\ Cardinality({}) = 0
  BY FS_EmptySet DEF PreloadInit, Holding, Woken
<1>2. <<>> \in Seq(Download) /\ Len(<<>>) = 0
  OBVIOUS
<1>3. PreloadTypeOK
  BY <1>2, PreloadAssumption DEF PreloadInit, PreloadTypeOK
<1>4. PoolOK(active, waiting, pc)
  <2>1. pc \in [Download -> Pc] /\ active = 0 /\ waiting = <<>>
    BY DEF PreloadInit, Pc
  <2>2. Cardinality(Holding(pc)) = 0 /\ 1 .. Len(waiting) = {} /\ waiting \in Seq(Download)
    BY <1>1, <1>2, <2>1
  <2> QED BY <2>1, <2>2 DEF PoolOK
<1>5. BegunOnly
  BY PreloadAssumption DEF PreloadInit, BegunOnly, Download
<1>6. EntriesTellTheTruth
  BY DEF PreloadInit, EntriesTellTheTruth, Mapped
<1> QED BY <1>3, <1>4, <1>5, <1>6 DEF PreloadInv

(* The inductive invariant holds in every state. *)
THEOREM PreloadInvariant == PreloadSpec => []PreloadInv
<1>1. PreloadInv /\ [PreloadNext]_preloadVars => PreloadInv'
  BY PreloadNextKeeps
<1> QED BY PreloadInitInv, <1>1, PTL DEF PreloadSpec

(* The state keeps its shape: no path gives a slot back that was not taken. *)
THEOREM PreloadTypeCorrect == PreloadSpec => []PreloadTypeOK
<1>1. PreloadInv => PreloadTypeOK
  BY DEF PreloadInv
<1> QED BY <1>1, PreloadInvariant, PTL

(* The counter of the pool is the number of downloads that hold a slot. *)
THEOREM SlotsCounted == PreloadSpec => []SlotsAreCounted
<1>1. PreloadInv => SlotsAreCounted
  BY DEF PreloadInv, PoolOK, Holding, SlotsAreCounted
<1> QED BY <1>1, PreloadInvariant, PTL

(* A download waits only while all slots are taken or about to be. *)
THEOREM NoVainWait == PreloadSpec => []NobodyWaitsInVain
<1>1. PreloadInv => NobodyWaitsInVain
  BY DEF PreloadInv, PoolOK, Woken, NobodyWaitsInVain
<1> QED BY <1>1, PreloadInvariant, PTL

(* What the map says of a track can be relied on, whatever is released or evicted
   while downloads run. *)
THEOREM EntriesAreTrue == PreloadSpec => []EntriesTellTheTruth
<1>1. PreloadInv => EntriesTellTheTruth
  BY DEF PreloadInv
<1> QED BY <1>1, PreloadInvariant, PTL

===============================================================================
