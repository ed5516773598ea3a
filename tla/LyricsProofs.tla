---------------------------- MODULE LyricsProofs ----------------------------
(***************************************************************************)
(* Proofs about LyricsService and TranslationService, for every number of  *)
(* tracks, requests, workers and slots, and every limit.                   *)
(*                                                                         *)
(* A translation is owned by the workers that are past reading the row     *)
(* (Translating).  Whatever requests, admins and other workers do, only    *)
(* they move its state, and only their own end frees them; a restart is    *)
(* the exception, which `stranded' records.                                *)
(***************************************************************************)
EXTENDS Lyrics, FiniteSetTheorems, SequenceTheorems, WellFoundedInduction, TLAPS

Item == [track: Tracks, rooms: SUBSET Rooms]
Busy(js) == Workers \ Idle(js)
Searching(as) == {a \in Asks: as[a].pc = "search"}

(* The semaphore of the searches, stated of values: a search that ends gives its
   slot on in the same step. *)
SlotsOK(n, q, as) ==
  /\ as \in [Asks -> Ask \cup {NoAsk}] /\ q \in Seq(Asks)
  /\ n = Cardinality(Searching(as)) /\ n \in 0 .. MaxSearches
  /\ q # <<>> => n = MaxSearches
  /\ \A a \in Asks: as[a].pc = "wait" <=> \E i \in 1 .. Len(q): q[i] = a
  /\ \A i, j \in 1 .. Len(q): q[i] = q[j] => i = j

(* The workers and their queue. *)
JobsOK(q, n, js) ==
  /\ js \in [Workers -> Job \cup {NoJob}] /\ q \in Seq(Item)
  /\ n = Cardinality(Busy(js)) /\ n \in 0 .. Concurrency
  /\ \A w \in Workers: js[w].pc = "call" => js[w].left >= 1

(* Each edition of a track's lyrics took an event of the bound. *)
EditionsOK == \A t \in Tracks: edition[t] + budget.events <= MaxEvents + 1

At(js, w) == js[w].pc \notin {"none", "read"}

(* Who translates a track that nobody translated at the same time is alone, and
   the track is not done yet. *)
AloneUnlessDoubled ==
  \A w \in Workers: At(jobs, w) /\ jobs[w].track \notin doubled =>
    /\ rows[jobs[w].track].trans # "done"
    /\ \A v \in Workers: At(jobs, v) /\ jobs[v].track = jobs[w].track => v = w

LyricsInv ==
  /\ LyricsTypeOK
  /\ SlotsOK(running, waitQueue, asks)
  /\ JobsOK(queue, active, jobs)
  /\ EditionsOK
  /\ PendingIsOwned
  /\ AloneUnlessDoubled

-------------------------------------------------------------------------------
LEMMA Bounds ==
  /\ MaxSearches \in Nat \ {0} /\ Concurrency \in Nat \ {0} /\ Chunks \in Nat \ {0}
  /\ DailyLimit \in Nat \ {0} /\ MaxAsks \in Nat /\ MaxEvents \in Nat
BY LyricsAssumption

LEMMA SetsAreFinite ==
  /\ IsFiniteSet(Workers) /\ Cardinality(Workers) = Concurrency
  /\ \A S \in SUBSET Workers: IsFiniteSet(S) /\ Cardinality(S) \in Nat
                              /\ Cardinality(S) <= Concurrency
  /\ \A S \in SUBSET Asks: IsFiniteSet(S) /\ Cardinality(S) \in Nat
  /\ \A S \in SUBSET Tracks: IsFiniteSet(S) /\ Cardinality(S) \in Nat
<1>1. IsFiniteSet(Workers) /\ Cardinality(Workers) = Concurrency
  BY FS_Interval, Bounds, SMT DEF Workers
<1>2. ASSUME NEW T, IsFiniteSet(T), NEW S \in SUBSET T
      PROVE  /\ IsFiniteSet(S) /\ Cardinality(S) \in Nat
             /\ Cardinality(S) <= Cardinality(T)
  BY <1>2, FS_Subset, FS_CardinalityType
<1> QED BY <1>1, <1>2, LyricsAssumption

-------------------------------------------------------------------------------
(* The workers. *)

(* drain gives idle workers new jobs and leaves the others alone. *)
LEMMA DrainKeeps ==
  ASSUME NEW q \in Seq(Item), NEW js \in [Workers -> Job \cup {NoJob}], NEW n,
         n = Cardinality(Busy(js)),
         \A w \in Workers: js[w].pc = "call" => js[w].left >= 1,
         Drain(q, js, n)
  PROVE  /\ JobsOK(queue', active', jobs')
         /\ \A w \in Workers: \/ jobs'[w] = js[w]
                              \/ js[w].pc = "none" /\ jobs'[w].pc = "read"
<1> DEFINE taken == {w \in Idle(js): Rank(js, w) <= Len(q)}
           k == Cardinality(taken)
<1>1. /\ jobs' = [w \in Workers |-> IF w \in taken THEN NewJob(q[Rank(js, w)]) ELSE js[w]]
      /\ queue' = SubSeq(q, k + 1, Len(q)) /\ active' = n + k
  BY DEF Drain
<1>2. /\ taken \in SUBSET Workers /\ taken \in SUBSET Idle(js) /\ k \in Nat
      /\ Idle(js) \in SUBSET Workers /\ Busy(js) \in SUBSET Workers /\ n \in Nat
  BY SetsAreFinite DEF Idle, Busy
<1>3. ASSUME NEW w \in taken
      PROVE  /\ NewJob(q[Rank(js, w)]) \in Job
             /\ NewJob(q[Rank(js, w)]).pc = "read" /\ js[w].pc = "none"
  <2> DEFINE S == {v \in Idle(js): v <= w}
  <2>1. w \in S /\ S \in SUBSET Workers /\ js[w].pc = "none"
    BY <1>2, <1>3 DEF Idle, Workers
  <2>2. Cardinality(S) \in Nat /\ Cardinality(S) # 0
    BY <2>1, SetsAreFinite, FS_EmptySet
  <2>3. Rank(js, w) \in 1 .. Len(q)
    BY <1>3, <2>2 DEF Rank
  <2>4. q[Rank(js, w)] \in Item
    BY <2>3
  <2>5. 0 \in 0 .. Chunks /\ 0 \in 0 .. MaxEvents + 1
    BY Bounds
  <2>6. ASSUME NEW item \in Item
        PROVE  NewJob(item) \in Job /\ NewJob(item).pc = "read"
    BY <2>5 DEF NewJob, Job, Item
  <2> QED BY <2>1, <2>4, <2>6
<1> HIDE DEF taken, k
<1>4. \A w \in Workers: /\ jobs'[w] \in Job \cup {NoJob}
                        /\ w \in taken => jobs'[w] \in Job /\ jobs'[w].pc = "read"
                                          /\ js[w].pc = "none"
                        /\ w \notin taken => jobs'[w] = js[w]
  BY <1>1, <1>2, <1>3
<1>5. Busy(jobs') = Busy(js) \cup taken /\ Busy(js) \cap taken = {}
  BY <1>2, <1>4 DEF Busy, Idle
<1>6. Cardinality(Busy(jobs')) = n + k
  <2>1. IsFiniteSet(Busy(js)) /\ IsFiniteSet(taken)
    BY <1>2, SetsAreFinite
  <2>2. Cardinality(Busy(js) \cup taken) = Cardinality(Busy(js)) + Cardinality(taken)
          - Cardinality(Busy(js) \cap taken)
    BY <2>1, FS_Union
  <2>3. Cardinality(Busy(js) \cap taken) = 0
    BY <1>5, FS_EmptySet, Zenon
  <2>4. Cardinality(Busy(js) \cup taken) = n + k - 0
    BY <2>2, <2>3 DEF k
  <2> QED BY <1>2, <1>5, <2>4
<1>7. active' \in 0 .. Concurrency
  <2>1. Busy(jobs') \in SUBSET Workers
    BY DEF Busy
  <2> QED BY <1>1, <1>2, <1>6, <2>1, SetsAreFinite, Bounds
<1>8. queue' \in Seq(Item)
  BY <1>1, <1>2
<1>9. jobs' \in [Workers -> Job \cup {NoJob}]
  BY <1>1, <1>4
<1> QED BY <1>1, <1>4, <1>6, <1>7, <1>8, <1>9 DEF JobsOK

(* The steps by which a worker's own pc and count move. *)
LEMMA JobGoesKeeps ==
  ASSUME JobsOK(queue, active, jobs), NEW w \in Workers, jobs[w].pc # "none",
         jobs' \in [Workers -> Job \cup {NoJob}], jobs'[w].pc # "none",
         jobs'[w].pc = "call" => jobs'[w].left >= 1,
         \A v \in Workers: v # w => jobs'[v] = jobs[v], UNCHANGED <<queue, active>>
  PROVE  JobsOK(queue', active', jobs')
<1>1. Busy(jobs') = Busy(jobs)
  BY DEF JobsOK, Busy, Idle
<1> QED BY <1>1 DEF JobsOK

(* The end of a job frees its worker, which takes what waits. *)
LEMMA JobOverKeeps ==
  ASSUME JobsOK(queue, active, jobs), NEW w \in Workers, jobs[w].pc # "none", JobOver(w)
  PROVE  /\ JobsOK(queue', active', jobs')
         /\ ~At(jobs', w)
         /\ \A v \in Workers: \/ v # w /\ jobs'[v] = jobs[v]
                              \/ ~At(jobs', v) /\ (v = w \/ ~At(jobs, v))
<1> DEFINE js == [jobs EXCEPT ![w] = NoJob]
<1>1. /\ js \in [Workers -> Job \cup {NoJob}] /\ js[w].pc = "none"
      /\ \A v \in Workers: v # w => js[v] = jobs[v]
      /\ \A v \in Workers: js[v].pc = "call" => js[v].left >= 1
  BY DEF JobsOK, NoJob
<1>2. Busy(js) = Busy(jobs) \ {w} /\ w \in Busy(jobs) /\ IsFiniteSet(Busy(jobs))
  BY <1>1, SetsAreFinite DEF Busy, Idle
<1>3. active - 1 = Cardinality(Busy(js)) /\ queue \in Seq(Item)
  BY <1>2, FS_RemoveElement DEF JobsOK
<1>4. Drain(queue, js, active - 1)
  BY DEF JobOver
<1> HIDE DEF js
<1>5. /\ JobsOK(queue', active', jobs')
      /\ \A v \in Workers: \/ jobs'[v] = js[v]
                           \/ js[v].pc = "none" /\ jobs'[v].pc = "read"
  BY <1>1, <1>3, <1>4, DrainKeeps
<1> QED BY <1>1, <1>5 DEF At

(* A request to translate leaves who works alone. *)
LEMMA EnqueueKeeps ==
  ASSUME JobsOK(queue, active, jobs), NEW t \in Tracks, NEW r \in Rooms, Enqueue(t, r)
  PROVE  /\ JobsOK(queue', active', jobs')
         /\ \A v \in Workers: jobs'[v] = jobs[v] \/ (~At(jobs, v) /\ ~At(jobs', v))
<1> DEFINE known == {i \in DOMAIN queue : queue[i].track = t}
<1>1. CASE /\ queue' = [i \in DOMAIN queue |->
                        IF i \in known
                          THEN [queue[i] EXCEPT !.rooms = @ \cup {r}] ELSE queue[i]]
           /\ UNCHANGED <<active, jobs>>
  <2>1. queue \in Seq(Item) /\ DOMAIN queue = 1 .. Len(queue) /\ Len(queue) \in Nat
    BY DEF JobsOK
  <2>2. \A i \in 1 .. Len(queue): queue[i] \in Item
    BY <2>1
  <2>3. \A i \in 1 .. Len(queue): [queue[i] EXCEPT !.rooms = @ \cup {r}] \in Item
    BY <2>2 DEF Item
  <2>4. queue' \in [1 .. Len(queue) -> Item]
    BY <1>1, <2>1, <2>2, <2>3
  <2>5. queue' \in Seq(Item)
    BY <2>1, <2>4, SeqDef
  <2> QED BY <1>1, <2>5 DEF JobsOK
<1>2. CASE Drain(Append(queue, [track |-> t, rooms |-> {r}]), jobs, active)
  <2>1. [track |-> t, rooms |-> {r}] \in Item
    BY DEF Item
  <2>2. Append(queue, [track |-> t, rooms |-> {r}]) \in Seq(Item)
    BY <2>1 DEF JobsOK
  <2>3. /\ JobsOK(queue', active', jobs')
        /\ \A v \in Workers: \/ jobs'[v] = jobs[v]
                             \/ jobs[v].pc = "none" /\ jobs'[v].pc = "read"
    BY <1>2, <2>2, DrainKeeps DEF JobsOK
  <2> QED BY <2>3 DEF At
<1> QED BY <1>1, <1>2 DEF Enqueue

-------------------------------------------------------------------------------
(* The semaphore of the searches. *)
LEMMA AskGoesKeeps ==
  ASSUME SlotsOK(running, waitQueue, asks), NEW a \in Asks,
         asks[a].pc \notin {"wait", "search"},
         NEW r \in Ask \cup {NoAsk}, r.pc \notin {"wait", "search"},
         asks' = [asks EXCEPT ![a] = r], UNCHANGED <<running, waitQueue>>
  PROVE  SlotsOK(running', waitQueue', asks')
<1>1. Searching(asks') = Searching(asks)
  BY DEF SlotsOK, Searching
<1> QED BY <1>1 DEF SlotsOK

LEMMA SlotTaken ==
  ASSUME SlotsOK(running, waitQueue, asks), NEW a \in Asks, asks[a].pc = "existing",
         NEW r \in Ask, asks' = [asks EXCEPT ![a] = r],
         \/ /\ running < MaxSearches /\ r.pc = "search"
            /\ running' = running + 1 /\ UNCHANGED waitQueue
         \/ /\ running >= MaxSearches /\ r.pc = "wait"
            /\ waitQueue' = Append(waitQueue, a) /\ UNCHANGED running
  PROVE  SlotsOK(running', waitQueue', asks')
<1>0. /\ asks \in [Asks -> Ask \cup {NoAsk}] /\ asks' \in [Asks -> Ask \cup {NoAsk}]
      /\ running = Cardinality(Searching(asks)) /\ running \in 0 .. MaxSearches
      /\ MaxSearches \in Nat /\ waitQueue \in Seq(Asks)
      /\ Searching(asks) \in SUBSET Asks /\ IsFiniteSet(Searching(asks))
      /\ a \notin Searching(asks)
  BY SetsAreFinite, Bounds DEF SlotsOK, Searching
<1>1. CASE /\ running < MaxSearches /\ r.pc = "search"
           /\ running' = running + 1 /\ UNCHANGED waitQueue
  <2>1. Searching(asks') = Searching(asks) \cup {a}
    BY <1>0, <1>1 DEF Searching
  <2>2. running' = Cardinality(Searching(asks'))
    BY <1>0, <1>1, <2>1, FS_AddElement
  <2>3. waitQueue = <<>>
    BY <1>0, <1>1 DEF SlotsOK
  <2>4. \A b \in Asks: asks[b].pc = "wait" <=> asks'[b].pc = "wait"
    BY <1>0, <1>1
  <2> QED BY <1>0, <1>1, <2>2, <2>3, <2>4 DEF SlotsOK
<1>2. CASE /\ running >= MaxSearches /\ r.pc = "wait"
           /\ waitQueue' = Append(waitQueue, a) /\ UNCHANGED running
  <2>1. Searching(asks') = Searching(asks)
    BY <1>0, <1>2 DEF Searching
  <2>2. /\ waitQueue' \in Seq(Asks) /\ Len(waitQueue') = Len(waitQueue) + 1
        /\ Len(waitQueue) \in Nat /\ waitQueue'[Len(waitQueue) + 1] = a
        /\ \A i \in 1 .. Len(waitQueue): waitQueue'[i] = waitQueue[i]
    BY <1>0, <1>2
  <2>3. \A i \in 1 .. Len(waitQueue): waitQueue[i] # a
    BY DEF SlotsOK
  <2>4. \A b \in Asks: asks'[b].pc = "wait" <=> \E i \in 1 .. Len(waitQueue'): waitQueue'[i] = b
    <3>1. \A b \in Asks: asks'[b].pc = "wait" <=> (asks[b].pc = "wait" \/ b = a)
      BY <1>0, <1>2
    <3>2. \A b \in Asks: asks[b].pc = "wait" <=> \E i \in 1 .. Len(waitQueue): waitQueue[i] = b
      BY DEF SlotsOK
    <3> QED BY <2>2, <3>1, <3>2
  <2>5. \A i, j \in 1 .. Len(waitQueue'): waitQueue'[i] = waitQueue'[j] => i = j
    BY <2>2, <2>3 DEF SlotsOK
  <2>6. running = MaxSearches
    BY <1>0, <1>2
  <2> QED BY <1>0, <1>2, <2>1, <2>2, <2>4, <2>5, <2>6 DEF SlotsOK
<1> QED BY <1>1, <1>2

LEMMA SlotReleased ==
  ASSUME SlotsOK(running, waitQueue, asks), NEW a \in Asks, asks[a].pc = "search",
         NEW r \in Ask, r.pc \in {"found", "notFound"},
         \/ /\ waitQueue = <<>> /\ asks' = [asks EXCEPT ![a] = r]
            /\ running' = running - 1 /\ UNCHANGED waitQueue
         \/ /\ waitQueue # <<>>
            /\ asks' = [[asks EXCEPT ![a] = r] EXCEPT ![Head(waitQueue)].pc = "search"]
            /\ waitQueue' = Tail(waitQueue) /\ UNCHANGED running
  PROVE  SlotsOK(running', waitQueue', asks')
<1>0. /\ asks \in [Asks -> Ask \cup {NoAsk}]
      /\ running = Cardinality(Searching(asks)) /\ running \in 0 .. MaxSearches
      /\ MaxSearches \in Nat /\ waitQueue \in Seq(Asks)
      /\ Searching(asks) \in SUBSET Asks /\ IsFiniteSet(Searching(asks))
      /\ a \in Searching(asks)
  BY SetsAreFinite, Bounds DEF SlotsOK, Searching
<1>1. CASE /\ waitQueue = <<>> /\ asks' = [asks EXCEPT ![a] = r]
           /\ running' = running - 1 /\ UNCHANGED waitQueue
  <2>1. Searching(asks') = Searching(asks) \ {a}
    BY <1>0, <1>1 DEF Searching
  <2>2. running' = Cardinality(Searching(asks')) /\ Cardinality(Searching(asks')) \in Nat
    <3>1. Searching(asks') \in SUBSET Asks
      BY DEF Searching
    <3>2. Cardinality(Searching(asks) \ {a}) = Cardinality(Searching(asks)) - 1
      BY <1>0, FS_RemoveElement
    <3>3. Cardinality(Searching(asks')) \in Nat
      BY <3>1, SetsAreFinite
    <3> QED BY <1>0, <1>1, <2>1, <3>2, <3>3
  <2>3. \A b \in Asks: asks[b].pc = "wait" <=> asks'[b].pc = "wait"
    BY <1>0, <1>1
  <2>4. running' \in 0 .. MaxSearches
    BY <1>0, <1>1, <2>2
  <2> QED BY <1>0, <1>1, <2>2, <2>3, <2>4 DEF SlotsOK
<1>2. CASE /\ waitQueue # <<>>
           /\ asks' = [[asks EXCEPT ![a] = r] EXCEPT ![Head(waitQueue)].pc = "search"]
           /\ waitQueue' = Tail(waitQueue) /\ UNCHANGED running
  <2> DEFINE h == Head(waitQueue)
  <2>1. /\ h = waitQueue[1] /\ 1 \in 1 .. Len(waitQueue) /\ h \in Asks
        /\ waitQueue' \in Seq(Asks) /\ Len(waitQueue') = Len(waitQueue) - 1
        /\ Len(waitQueue) \in Nat
        /\ \A i \in 1 .. Len(waitQueue'): waitQueue'[i] = waitQueue[i + 1]
                                          /\ i + 1 \in 1 .. Len(waitQueue)
    BY <1>0, <1>2
  <2>2. asks[h].pc = "wait" /\ h # a
    BY <2>1 DEF SlotsOK
  <2>3. asks[h] \in Ask /\ asks[a] \in Ask
    BY <1>0, <2>1, <2>2 DEF NoAsk
  <2> HIDE DEF h
  <2>4. /\ asks' = [[asks EXCEPT ![a] = r] EXCEPT ![h] = [asks[h] EXCEPT !.pc = "search"]]
        /\ [asks[h] EXCEPT !.pc = "search"] \in Ask
        /\ [asks[h] EXCEPT !.pc = "search"].pc = "search"
    <3>1. asks' = [[asks EXCEPT ![a] = r] EXCEPT ![h].pc = "search"]
      BY <1>2 DEF h
    <3>2. [asks EXCEPT ![a] = r][h] = asks[h]
      BY <1>0, <2>1, <2>2
    <3> QED BY <1>0, <2>1, <2>3, <3>1, <3>2 DEF Ask
  <2>5. /\ asks' \in [Asks -> Ask \cup {NoAsk}]
        /\ asks'[h].pc = "search" /\ asks'[a] = r
        /\ \A b \in Asks \ {a, h}: asks'[b] = asks[b]
    BY <1>0, <2>1, <2>2, <2>4
  <2>6. Searching(asks') = (Searching(asks) \ {a}) \cup {h} /\ h \notin Searching(asks) \ {a}
    BY <1>0, <2>1, <2>2, <2>5 DEF Searching
  <2>7. running = Cardinality(Searching(asks'))
    <3>1. /\ IsFiniteSet(Searching(asks) \ {a})
          /\ Cardinality(Searching(asks) \ {a}) = running - 1
      BY <1>0, FS_RemoveElement
    <3>2. Cardinality((Searching(asks) \ {a}) \cup {h}) = running - 1 + 1
      BY <2>6, <3>1, FS_AddElement
    <3> QED BY <1>0, <2>6, <3>2
  <2>8. \A i, j \in 1 .. Len(waitQueue'): waitQueue'[i] = waitQueue'[j] => i = j
    <3>1. \A i, j \in 1 .. Len(waitQueue): waitQueue[i] = waitQueue[j] => i = j
      BY DEF SlotsOK
    <3> QED BY <2>1, <3>1
  <2>9. \A b \in Asks: asks'[b].pc = "wait" <=> \E i \in 1 .. Len(waitQueue'): waitQueue'[i] = b
    <3>1. \A b \in Asks: asks'[b].pc = "wait" <=> (asks[b].pc = "wait" /\ b # h)
      BY <1>0, <2>5
    <3>2. \A b \in Asks: asks[b].pc = "wait" <=> \E i \in 1 .. Len(waitQueue): waitQueue[i] = b
      BY DEF SlotsOK
    <3>3. \A i \in 1 .. Len(waitQueue): i # 1 => waitQueue[i] # h
      BY <2>1 DEF SlotsOK
    <3>4. \A i \in 1 .. Len(waitQueue): i # 1 =>
            i - 1 \in 1 .. Len(waitQueue') /\ waitQueue'[i - 1] = waitQueue[i]
      BY <2>1
    <3>5. ASSUME NEW b \in Asks, asks[b].pc = "wait", b # h
          PROVE  \E i \in 1 .. Len(waitQueue'): waitQueue'[i] = b
      BY <2>1, <3>2, <3>4, <3>5
    <3>6. ASSUME NEW b \in Asks, NEW i \in 1 .. Len(waitQueue'), waitQueue'[i] = b
          PROVE  asks[b].pc = "wait" /\ b # h
      <4>1. i + 1 \in 1 .. Len(waitQueue) /\ i + 1 # 1 /\ waitQueue[i + 1] = b
        BY <2>1, <3>6
      <4> QED BY <3>2, <3>3, <4>1
    <3> QED BY <3>1, <3>5, <3>6
  <2>10. running = MaxSearches /\ UNCHANGED running
    BY <1>2 DEF SlotsOK
  <2> QED BY <1>0, <2>1, <2>5, <2>7, <2>8, <2>9, <2>10 DEF SlotsOK
<1> QED BY <1>1, <1>2

-------------------------------------------------------------------------------
(* The rest of the state. *)
RowType == [status : {"searching", "found", "notFound"}, data : 0..MaxEvents + 1,
            trans : {"none", "pending", "done", "failed"}, translated : 0..MaxEvents + 1]

RestOK ==
  /\ rows \in [Tracks -> RowType] /\ dailyCount \in Nat
  /\ edition \in [Tracks -> Editions]
  /\ stranded \subseteq Tracks /\ doubled \subseteq Tracks
  /\ budget \in [asks : 0..MaxAsks, events : 0..MaxEvents]
  /\ EditionsOK

LEMMA PartsOfInv ==
  LyricsInv <=> /\ SlotsOK(running, waitQueue, asks) /\ JobsOK(queue, active, jobs)
                /\ RestOK /\ PendingIsOwned /\ AloneUnlessDoubled
BY DEF LyricsInv, LyricsTypeOK, SlotsOK, JobsOK, RestOK, RowType, Item

LEMMA PartsOfNextInv ==
  ASSUME SlotsOK(running', waitQueue', asks'), JobsOK(queue', active', jobs'),
         RestOK', PendingIsOwned', AloneUnlessDoubled'
  PROVE  LyricsInv'
BY DEF LyricsInv, LyricsTypeOK, SlotsOK, JobsOK, RestOK, RowType, Item

(* Whoever works on goes on, and no state of a translation moves. *)
Calm ==
  /\ \A v \in Workers: jobs'[v] = jobs[v] \/ (~At(jobs, v) /\ ~At(jobs', v))
  /\ \A t \in Tracks: rows'[t].trans = rows[t].trans
  /\ UNCHANGED <<doubled, stranded>>

LEMMA CalmKeepsOwners ==
  ASSUME LyricsInv, Calm
  PROVE  PendingIsOwned' /\ AloneUnlessDoubled'
<1>1. \A v \in Workers: /\ At(jobs, v) <=> At(jobs', v)
                        /\ At(jobs, v) => jobs'[v] = jobs[v]
                        /\ At(jobs, v) => jobs[v].track \in Tracks
  BY DEF Calm, At, LyricsInv, JobsOK, Job, NoJob
<1>2. PendingIsOwned'
  BY <1>1 DEF Calm, LyricsInv, PendingIsOwned, Pending, Translating, At
<1>3. AloneUnlessDoubled'
  BY <1>1 DEF Calm, LyricsInv, AloneUnlessDoubled
<1> QED BY <1>2, <1>3

LEMMA TranslateKeeps ==
  ASSUME LyricsInv, NEW a \in Asks, asks[a] \in Ask, Translate(a)
  PROVE  /\ JobsOK(queue', active', jobs')
         /\ \A v \in Workers: jobs'[v] = jobs[v] \/ (~At(jobs, v) /\ ~At(jobs', v))
<1>1. asks[a].track \in Tracks /\ asks[a].room \in Rooms /\ JobsOK(queue, active, jobs)
  BY DEF Ask, LyricsInv
<1>2. CASE UNCHANGED <<queue, active, jobs>>
  BY <1>1, <1>2
<1>3. CASE Enqueue(asks[a].track, asks[a].room)
  BY <1>1, <1>3, EnqueueKeeps
<1> QED BY <1>2, <1>3 DEF Translate

-------------------------------------------------------------------------------
(* The requests. *)
LEMMA AsksAreTyped ==
  ASSUME LyricsInv, NEW a \in Asks, asks[a].pc # "none"
  PROVE  /\ asks[a] \in Ask /\ asks[a].track \in Tracks
         /\ asks[a].data \in 0 .. MaxEvents + 1
         /\ \A pc \in {"row", "existing", "wait", "search", "found", "notFound"}:
              [asks[a] EXCEPT !.pc = pc] \in Ask /\ [asks[a] EXCEPT !.pc = pc].pc = pc
         /\ NoAsk.pc = "none"
BY DEF LyricsInv, SlotsOK, NoAsk, Ask

LEMMA AskLyricsKeeps ==
  ASSUME LyricsInv, NEW a \in Asks, NEW t \in Tracks, NEW r \in Rooms, NEW h \in BOOLEAN,
         AskLyrics(a, t, r, h)
  PROVE  LyricsInv'
<1> DEFINE new == [pc |-> IF h THEN "row" ELSE "existing",
                   track |-> t, room |-> r, handler |-> h, data |-> 0]
<1>1. /\ asks[a].pc = "none" /\ asks' = [asks EXCEPT ![a] = new]
      /\ UNCHANGED <<rows, running, waitQueue, translation, edition, stranded>>
  BY DEF AskLyrics
<1>2. new \in Ask /\ new.pc \in {"row", "existing"}
  BY Bounds DEF Ask
<1>3. budget.asks > 0 /\ budget' = [budget EXCEPT !.asks = @ - 1]
  BY DEF AskLyrics
<1> HIDE DEF new
<1>4. SlotsOK(running', waitQueue', asks')
  BY <1>1, <1>2, AskGoesKeeps DEF LyricsInv
<1>5. RestOK'
  <2>1. RestOK /\ MaxAsks \in Nat /\ MaxEvents \in Nat
    BY PartsOfInv, Bounds
  <2>2. budget' \in [asks : 0..MaxAsks, events : 0..MaxEvents] /\ budget'.events = budget.events
    BY <1>3, <2>1 DEF RestOK
  <2> QED BY <1>1, <2>1, <2>2 DEF RestOK, EditionsOK, translation
<1>6. JobsOK(queue', active', jobs') /\ Calm
  BY <1>1 DEF LyricsInv, translation, Calm
<1> QED BY <1>4, <1>5, <1>6, CalmKeepsOwners, PartsOfNextInv

LEMMA ReadRowKeeps ==
  ASSUME LyricsInv, NEW a \in Asks, ReadRow(a)
  PROVE  LyricsInv'
<1>1. /\ asks[a].pc = "row"
      /\ UNCHANGED <<rows, running, waitQueue, dailyCount, doubled, edition, stranded, budget>>
      /\ \/ AskGoes(a, "existing") /\ UNCHANGED <<queue, active, jobs>>
         \/ AskOver(a) /\ Translate(a)
         \/ AskOver(a) /\ UNCHANGED <<queue, active, jobs>>
  BY DEF ReadRow
<1>2. \E r \in Ask \cup {NoAsk}: /\ asks' = [asks EXCEPT ![a] = r]
                                 /\ r.pc \notin {"wait", "search"}
  <2>1. CASE AskGoes(a, "existing")
    BY <1>1, <2>1, AsksAreTyped DEF AskGoes
  <2>2. CASE AskOver(a)
    BY <1>1, <2>2, AsksAreTyped DEF AskOver
  <2> QED BY <1>1, <2>1, <2>2
<1>3. SlotsOK(running', waitQueue', asks')
  BY <1>1, <1>2, AskGoesKeeps DEF LyricsInv
<1>4. /\ JobsOK(queue', active', jobs')
      /\ \A v \in Workers: jobs'[v] = jobs[v] \/ (~At(jobs, v) /\ ~At(jobs', v))
  BY <1>1, TranslateKeeps, AsksAreTyped DEF LyricsInv
<1>5. RestOK' /\ Calm
  BY <1>1, <1>4, PartsOfInv DEF RestOK, EditionsOK, Calm
<1> QED BY <1>3, <1>4, <1>5, CalmKeepsOwners, PartsOfNextInv

LEMMA ExistingKeeps ==
  ASSUME LyricsInv, NEW a \in Asks, Existing(a)
  PROVE  LyricsInv'
<1>1. /\ asks[a].pc = "existing"
      /\ UNCHANGED <<rows, dailyCount, doubled, edition, stranded, budget>>
      /\ \/ AskOver(a) /\ Translate(a) /\ UNCHANGED <<running, waitQueue>>
         \/ AskOver(a) /\ UNCHANGED <<running, waitQueue, queue, active, jobs>>
         \/ /\ \/ /\ running < MaxSearches /\ AskGoes(a, "search")
                  /\ running' = running + 1 /\ UNCHANGED waitQueue
               \/ /\ running >= MaxSearches /\ AskGoes(a, "wait")
                  /\ waitQueue' = Append(waitQueue, a) /\ UNCHANGED running
            /\ UNCHANGED <<queue, active, jobs>>
  BY DEF Existing
<1>2. SlotsOK(running, waitQueue, asks) /\ asks[a] \in Ask
  BY <1>1, AsksAreTyped DEF LyricsInv
<1>3. SlotsOK(running', waitQueue', asks')
  <2>1. CASE AskOver(a) /\ UNCHANGED <<running, waitQueue>>
    BY <1>1, <1>2, <2>1, AskGoesKeeps, AsksAreTyped DEF AskOver
  <2>2. CASE /\ running < MaxSearches /\ AskGoes(a, "search")
             /\ running' = running + 1 /\ UNCHANGED waitQueue
    BY <1>1, <1>2, <2>2, SlotTaken, AsksAreTyped DEF AskGoes
  <2>3. CASE /\ running >= MaxSearches /\ AskGoes(a, "wait")
             /\ waitQueue' = Append(waitQueue, a) /\ UNCHANGED running
    BY <1>1, <1>2, <2>3, SlotTaken, AsksAreTyped DEF AskGoes
  <2> QED BY <1>1, <2>1, <2>2, <2>3
<1>4. /\ JobsOK(queue', active', jobs')
      /\ \A v \in Workers: jobs'[v] = jobs[v] \/ (~At(jobs, v) /\ ~At(jobs', v))
  BY <1>1, <1>2, TranslateKeeps DEF LyricsInv
<1>5. RestOK' /\ Calm
  BY <1>1, <1>4, PartsOfInv DEF RestOK, EditionsOK, Calm
<1> QED BY <1>3, <1>4, <1>5, CalmKeepsOwners, PartsOfNextInv

LEMMA SearchEndsKeeps ==
  ASSUME LyricsInv, NEW a \in Asks, NEW res \in {"found", "notFound"}, SearchEnds(a, res)
  PROVE  LyricsInv'
<1> DEFINE e == edition[asks[a].track]
           over == [asks EXCEPT ![a].pc = res, ![a].data = e]
<1>1. /\ asks[a].pc = "search"
      /\ UNCHANGED <<rows, translation, edition, stranded, budget>>
      /\ \/ /\ waitQueue = <<>> /\ asks' = over
            /\ running' = running - 1 /\ UNCHANGED waitQueue
         \/ /\ waitQueue # <<>>
            /\ asks' = [over EXCEPT ![Head(waitQueue)].pc = "search"]
            /\ waitQueue' = Tail(waitQueue) /\ UNCHANGED running
  BY Zenon DEF SearchEnds
<1>2. /\ asks[a] \in Ask /\ e \in 0 .. MaxEvents + 1
      /\ asks \in [Asks -> Ask \cup {NoAsk}]
  <2>1. /\ asks \in [Asks -> Ask \cup {NoAsk}] /\ edition \in [Tracks -> Editions]
        /\ asks[a].pc = "search"
    BY <1>1 DEF LyricsInv, LyricsTypeOK
  <2>2. asks[a] \in Ask /\ asks[a].track \in Tracks
    BY <2>1, AsksAreTyped
  <2>3. Editions \in SUBSET (0 .. MaxEvents + 1)
    BY Bounds DEF Editions
  <2> HIDE DEF over
  <2> QED BY <2>1, <2>2, <2>3
<1> HIDE DEF e
<1>3. /\ over \in [Asks -> Ask \cup {NoAsk}] /\ over[a] \in Ask /\ over[a].pc = res
      /\ \A b \in Asks: b # a => over[b] = asks[b]
  BY <1>2 DEF Ask
<1> HIDE DEF over
<1>4. over = [asks EXCEPT ![a] = over[a]]
  BY <1>2, <1>3
<1>5. \E r \in Ask:
        /\ r.pc = res
        /\ \/ /\ waitQueue = <<>> /\ asks' = [asks EXCEPT ![a] = r]
              /\ running' = running - 1 /\ UNCHANGED waitQueue
           \/ /\ waitQueue # <<>>
              /\ asks' = [[asks EXCEPT ![a] = r] EXCEPT ![Head(waitQueue)].pc = "search"]
              /\ waitQueue' = Tail(waitQueue) /\ UNCHANGED running
  BY <1>1, <1>3, <1>4
<1>6. SlotsOK(running', waitQueue', asks')
  BY <1>1, <1>5, SlotReleased DEF LyricsInv
<1>7. RestOK' /\ JobsOK(queue', active', jobs') /\ Calm
  BY <1>1, PartsOfInv DEF RestOK, EditionsOK, Calm, translation
<1> QED BY <1>6, <1>7, CalmKeepsOwners, PartsOfNextInv

LEMMA SaveLyricsKeeps ==
  ASSUME LyricsInv, NEW a \in Asks, SaveLyrics(a)
  PROVE  LyricsInv'
<1> DEFINE t == asks[a].track
<1>1. /\ asks[a].pc \in {"found", "notFound"} /\ AskOver(a)
      /\ rows' = [rows EXCEPT ![t].status = asks[a].pc,
                              ![t].data = IF asks[a].pc = "found" THEN asks[a].data ELSE 0]
      /\ Translate(a) \/ UNCHANGED <<queue, active, jobs>>
      /\ UNCHANGED <<running, waitQueue, dailyCount, doubled, edition, stranded, budget>>
  BY DEF SaveLyrics
<1>2. /\ asks[a] \in Ask /\ t \in Tracks /\ asks[a].data \in 0 .. MaxEvents + 1
      /\ NoAsk.pc = "none"
  BY <1>1, AsksAreTyped
<1>3. SlotsOK(running', waitQueue', asks')
  BY <1>1, <1>2, AskGoesKeeps DEF LyricsInv, AskOver
<1>4. /\ JobsOK(queue', active', jobs')
      /\ \A v \in Workers: jobs'[v] = jobs[v] \/ (~At(jobs, v) /\ ~At(jobs', v))
  BY <1>1, <1>2, TranslateKeeps DEF LyricsInv
<1>5. /\ rows' \in [Tracks -> RowType] /\ \A u \in Tracks: rows'[u].trans = rows[u].trans
  <2> DEFINE s == asks[a].pc
             d == IF asks[a].pc = "found" THEN asks[a].data ELSE 0
  <2>1. /\ rows \in [Tracks -> RowType] /\ rows' = [rows EXCEPT ![t].status = s, ![t].data = d]
        /\ t \in Tracks /\ s \in {"found", "notFound"} /\ d \in 0 .. MaxEvents + 1
    BY <1>1, <1>2, PartsOfInv, Bounds DEF RestOK
  <2> HIDE DEF t, s, d
  <2> QED BY <2>1 DEF RowType
<1>6. RestOK' /\ Calm
  BY <1>1, <1>4, <1>5, PartsOfInv DEF RestOK, EditionsOK, Calm
<1> QED BY <1>3, <1>4, <1>6, CalmKeepsOwners, PartsOfNextInv

-------------------------------------------------------------------------------
(* The workers' steps. *)

(* A worker that goes on with its track may only say that it is pending. *)
LEMMA WorkerGoes ==
  ASSUME LyricsInv, NEW w \in Workers, At(jobs, w), At(jobs', w),
         jobs'[w].track = jobs[w].track, \A v \in Workers: v # w => jobs'[v] = jobs[v],
         \A t \in Tracks: \/ rows'[t].trans = rows[t].trans
                          \/ t = jobs[w].track /\ rows'[t].trans = "pending",
         UNCHANGED <<doubled, stranded>>
  PROVE  PendingIsOwned' /\ AloneUnlessDoubled'
<1>1. \A v \in Workers: /\ At(jobs, v) <=> At(jobs', v)
                        /\ At(jobs, v) => jobs'[v].track = jobs[v].track
                        /\ At(jobs, v) => jobs[v].track \in Tracks
  BY DEF At, LyricsInv, JobsOK, Job, NoJob
<1>2. PendingIsOwned'
  BY <1>1 DEF LyricsInv, PendingIsOwned, Pending, Translating, At
<1>3. AloneUnlessDoubled'
  BY <1>1 DEF LyricsInv, AloneUnlessDoubled
<1> QED BY <1>2, <1>3

(* A worker that ends leaves its track done or failed. *)
LEMMA WorkerEnds ==
  ASSUME LyricsInv, NEW w \in Workers, At(jobs, w), ~At(jobs', w),
         \A v \in Workers: \/ v # w /\ jobs'[v] = jobs[v]
                           \/ ~At(jobs', v) /\ (v = w \/ ~At(jobs, v)),
         \A t \in Tracks: t # jobs[w].track => rows'[t].trans = rows[t].trans,
         rows'[jobs[w].track].trans \in {"done", "failed"},
         UNCHANGED <<doubled, stranded>>
  PROVE  PendingIsOwned' /\ AloneUnlessDoubled'
<1>1. \A v \in Workers: /\ At(jobs', v) => At(jobs, v) /\ jobs'[v] = jobs[v] /\ v # w
                        /\ At(jobs, v) /\ v # w => At(jobs', v) /\ jobs'[v] = jobs[v]
                        /\ At(jobs, v) => jobs[v].track \in Tracks
  BY DEF At, LyricsInv, JobsOK, Job, NoJob
<1>2. PendingIsOwned'
  BY <1>1 DEF LyricsInv, PendingIsOwned, Pending, Translating, At
<1>3. AloneUnlessDoubled'
  BY <1>1 DEF LyricsInv, AloneUnlessDoubled
<1> QED BY <1>2, <1>3

LEMMA JobsAreTyped ==
  ASSUME LyricsInv, NEW w \in Workers, jobs[w].pc # "none"
  PROVE  /\ JobsOK(queue, active, jobs) /\ jobs \in [Workers -> Job \cup {NoJob}]
         /\ jobs[w] \in Job /\ jobs[w].track \in Tracks /\ jobs[w].left \in 0 .. Chunks
         /\ jobs[w].data \in 0 .. MaxEvents + 1
         /\ rows \in [Tracks -> RowType] /\ dailyCount \in Nat
BY PartsOfInv DEF LyricsInv, JobsOK, NoJob, Job, RestOK

LEMMA JobReadKeeps ==
  ASSUME LyricsInv, NEW w \in Workers, JobRead(w)
  PROVE  LyricsInv'
<1> DEFINE t == jobs[w].track
<1>1. /\ jobs[w].pc = "read"
      /\ UNCHANGED <<asks, running, waitQueue, edition, stranded, budget, rows, dailyCount>>
      /\ doubled' = IF jobs'[w].pc = "mark" /\ OthersTranslate(w, t)
                      THEN doubled \cup {t} ELSE doubled
  BY DEF JobRead, UnchangedLyrics
<1>2. /\ JobsOK(queue, active, jobs) /\ jobs \in [Workers -> Job \cup {NoJob}]
      /\ jobs[w] \in Job /\ t \in Tracks /\ rows \in [Tracks -> RowType]
  BY <1>1, JobsAreTyped
<1>3. RestOK' /\ SlotsOK(running', waitQueue', asks')
  BY <1>1, <1>2, PartsOfInv DEF RestOK, EditionsOK
<1>4. CASE JobOver(w)
  <2>1. /\ JobsOK(queue', active', jobs') /\ ~At(jobs', w)
        /\ \A v \in Workers: \/ v # w /\ jobs'[v] = jobs[v]
                             \/ ~At(jobs', v) /\ (v = w \/ ~At(jobs, v))
    BY <1>1, <1>2, <1>4, JobOverKeeps
  <2>2. Calm
    BY <1>1, <2>1 DEF Calm, At
  <2> QED BY <1>3, <2>1, <2>2, CalmKeepsOwners, PartsOfNextInv
<1>5. CASE /\ ~LeftAlone(t) /\ UNCHANGED <<queue, active>>
           /\ jobs' = [jobs EXCEPT ![w].pc = "mark", ![w].data = Row(t).data]
  <2>1. Row(t).data \in 0 .. MaxEvents + 1 /\ Row(t).trans # "done" /\ rows[t] = Row(t)
    BY <1>2, <1>5 DEF RowType, LeftAlone, Row
  <2>2. /\ jobs' \in [Workers -> Job \cup {NoJob}]
        /\ jobs'[w].pc = "mark" /\ jobs'[w].track = t
        /\ \A v \in Workers: v # w => jobs'[v] = jobs[v]
    <3> DEFINE d == Row(t).data
    <3>1. d \in 0 .. MaxEvents + 1 /\ jobs' = [jobs EXCEPT ![w].pc = "mark", ![w].data = d]
      BY <1>5, <2>1
    <3> HIDE DEF d
    <3> QED BY <1>2, <3>1 DEF Job
  <2>3. JobsOK(queue', active', jobs')
    BY <1>1, <1>2, <1>5, <2>2, JobGoesKeeps
  <2>4. /\ ~At(jobs, w) /\ At(jobs', w)
        /\ \A v \in Workers: v # w => (At(jobs', v) <=> At(jobs, v))
        /\ \A v \in Workers: At(jobs, v) => jobs'[v] = jobs[v]
    BY <1>1, <2>2 DEF At
  <2>5. PendingIsOwned'
    BY <1>1, <2>4 DEF LyricsInv, PendingIsOwned, Pending, Translating, At
  <2>6. t \notin doubled' => \A v \in Workers: v # w /\ At(jobs, v) => jobs[v].track # t
    BY <1>1, <2>2 DEF OthersTranslate, Translating, At
  <2>7. doubled \subseteq doubled'
    BY <1>1
  <2>8. AloneUnlessDoubled'
    <3>1. ASSUME NEW v \in Workers, At(jobs', v), jobs'[v].track \notin doubled', v # w
          PROVE  /\ rows[jobs'[v].track].trans # "done"
                 /\ \A u \in Workers: At(jobs', u) /\ jobs'[u].track = jobs'[v].track => u = v
      <4>1. At(jobs, v) /\ jobs'[v] = jobs[v] /\ jobs[v].track \notin doubled
        BY <2>2, <2>4, <2>7, <3>1
      <4>2. /\ rows[jobs[v].track].trans # "done"
            /\ \A u \in Workers: At(jobs, u) /\ jobs[u].track = jobs[v].track => u = v
        BY <4>1 DEF LyricsInv, AloneUnlessDoubled
      <4>3. jobs[v].track # t
        BY <2>6, <3>1, <4>1
      <4> QED BY <2>2, <2>4, <4>1, <4>2, <4>3
    <3>2. ASSUME t \notin doubled'
          PROVE  /\ rows[t].trans # "done"
                 /\ \A u \in Workers: At(jobs', u) /\ jobs'[u].track = t => u = w
      BY <2>1, <2>2, <2>4, <2>6, <3>2
    <3> QED BY <1>1, <2>2, <3>1, <3>2 DEF AloneUnlessDoubled
  <2> QED BY <1>3, <2>3, <2>5, <2>8, PartsOfNextInv
<1> QED BY <1>4, <1>5 DEF JobRead

LEMMA JobMarkKeeps ==
  ASSUME LyricsInv, NEW w \in Workers, JobMark(w)
  PROVE  LyricsInv'
<1> DEFINE t == jobs[w].track
<1>1. /\ jobs[w].pc = "mark" /\ rows' = [rows EXCEPT ![t].trans = "pending"]
      /\ jobs' = [jobs EXCEPT ![w].pc = "lang"] /\ UNCHANGED <<queue, active>>
      /\ UNCHANGED <<asks, running, waitQueue, edition, stranded, budget, dailyCount, doubled>>
  BY DEF JobMark, JobGoes, SetTrans, UnchangedLyrics
<1>2. /\ JobsOK(queue, active, jobs) /\ jobs \in [Workers -> Job \cup {NoJob}]
      /\ jobs[w] \in Job /\ t \in Tracks /\ rows \in [Tracks -> RowType]
  BY <1>1, JobsAreTyped
<1>3. /\ jobs' \in [Workers -> Job \cup {NoJob}] /\ jobs'[w].pc = "lang"
      /\ jobs'[w].track = t /\ \A v \in Workers: v # w => jobs'[v] = jobs[v]
  BY <1>1, <1>2 DEF Job
<1>4. /\ rows' \in [Tracks -> RowType] /\ rows'[t].trans = "pending"
      /\ \A u \in Tracks: u # t => rows'[u] = rows[u]
  BY <1>1, <1>2 DEF RowType
<1>5. RestOK' /\ SlotsOK(running', waitQueue', asks')
  BY <1>1, <1>4, PartsOfInv DEF RestOK, EditionsOK
<1>6. JobsOK(queue', active', jobs')
  BY <1>1, <1>2, <1>3, JobGoesKeeps
<1>7. At(jobs, w) /\ At(jobs', w)
  BY <1>1, <1>3 DEF At
<1>8. PendingIsOwned' /\ AloneUnlessDoubled'
  BY <1>1, <1>3, <1>4, <1>7, WorkerGoes
<1> QED BY <1>5, <1>6, <1>8, PartsOfNextInv

(* Steps that leave the rows alone. *)
LEMMA JobGoesOn ==
  ASSUME LyricsInv, NEW w \in Workers, At(jobs, w), UNCHANGED rows,
         jobs' \in [Workers -> Job \cup {NoJob}], At(jobs', w),
         jobs'[w].track = jobs[w].track, \A v \in Workers: v # w => jobs'[v] = jobs[v],
         jobs'[w].pc = "call" => jobs'[w].left >= 1, UNCHANGED <<queue, active>>,
         UNCHANGED <<asks, running, waitQueue, edition, stranded, doubled>>,
         dailyCount' \in Nat,
         \/ UNCHANGED budget
         \/ budget.events > 0 /\ budget' = [budget EXCEPT !.events = @ - 1]
  PROVE  LyricsInv'
<1>1. RestOK /\ SlotsOK(running, waitQueue, asks) /\ JobsOK(queue, active, jobs)
  BY PartsOfInv
<1>2. JobsOK(queue', active', jobs')
  BY <1>1, JobGoesKeeps DEF At
<1>3. /\ budget' \in [asks : 0..MaxAsks, events : 0..MaxEvents]
      /\ budget'.events <= budget.events
  BY <1>1, Bounds DEF RestOK
<1>4. EditionsOK'
  <2>1. ASSUME NEW t \in Tracks
        PROVE  edition'[t] + budget'.events <= MaxEvents + 1
    <3>1. /\ edition[t] \in Nat /\ budget.events \in Nat /\ budget'.events \in Nat
          /\ edition[t] + budget.events <= MaxEvents + 1
      BY <1>1, <1>3, Bounds DEF RestOK, EditionsOK, Editions
    <3> QED BY <1>3, <3>1, Bounds
  <2> QED BY <2>1 DEF EditionsOK
<1>5. RestOK'
  BY <1>1, <1>3, <1>4 DEF RestOK
<1>6. PendingIsOwned' /\ AloneUnlessDoubled'
  BY WorkerGoes
<1> QED BY <1>1, <1>2, <1>5, <1>6, PartsOfNextInv

LEMMA JobLangKeeps ==
  ASSUME LyricsInv, NEW w \in Workers, JobLang(w)
  PROVE  LyricsInv'
<1>1. /\ jobs[w].pc = "lang" /\ UNCHANGED <<queue, active>>
      /\ UNCHANGED <<rows, doubled, asks, running, waitQueue, edition, stranded>>
      /\ \/ dailyCount' = dailyCount /\ UNCHANGED budget
         \/ /\ dailyCount' = 0 /\ budget.events > 0
            /\ budget' = [budget EXCEPT !.events = @ - 1]
      /\ \/ jobs' = [jobs EXCEPT ![w].pc = "skip"]
         \/ jobs' = [jobs EXCEPT ![w].pc = "fail"]
         \/ jobs' = [jobs EXCEPT ![w].pc = "call", ![w].left = Chunks]
  BY DEF JobLang, JobGoes, DayChecked
<1>2. /\ jobs \in [Workers -> Job \cup {NoJob}] /\ jobs[w] \in Job /\ dailyCount \in Nat
  BY <1>1, JobsAreTyped
<1>3. Chunks \in 0 .. Chunks /\ Chunks >= 1
  BY Bounds
<1>4. /\ jobs' \in [Workers -> Job \cup {NoJob}]
      /\ jobs'[w].pc \in {"skip", "fail", "call"}
      /\ jobs'[w].track = jobs[w].track
      /\ jobs'[w].pc = "call" => jobs'[w].left >= 1
      /\ \A v \in Workers: v # w => jobs'[v] = jobs[v]
  <2>1. CASE jobs' = [jobs EXCEPT ![w].pc = "skip"]
    BY <1>2, <2>1 DEF Job
  <2>2. CASE jobs' = [jobs EXCEPT ![w].pc = "fail"]
    BY <1>2, <2>2 DEF Job
  <2>3. CASE jobs' = [jobs EXCEPT ![w].pc = "call", ![w].left = Chunks]
    BY <1>2, <1>3, <2>3 DEF Job
  <2> QED BY <1>1, <2>1, <2>2, <2>3
<1>5. At(jobs, w) /\ At(jobs', w)
  BY <1>1, <1>4 DEF At
<1> QED BY <1>1, <1>2, <1>4, <1>5, JobGoesOn

LEMMA JobCallKeeps ==
  ASSUME LyricsInv, NEW w \in Workers, JobCall(w)
  PROVE  LyricsInv'
<1> DEFINE n == jobs[w].left - 1
<1>1. /\ jobs[w].pc = "call"
      /\ UNCHANGED <<rows, queue, active, doubled, asks, running, waitQueue, edition,
                     stranded, budget>>
  BY DEF JobCall, UnchangedLyrics
<1>2. \E answered \in BOOLEAN:
        /\ dailyCount' = dailyCount + (IF answered THEN 1 ELSE 0)
        /\ \/ /\ n > 0
              /\ jobs' = [jobs EXCEPT ![w].left = n, ![w].good = (jobs[w].good \/ answered)]
           \/ \E next \in {"save", "fail", "fill"}:
                jobs' = [jobs EXCEPT ![w].left = 0, ![w].good = (jobs[w].good \/ answered),
                                     ![w].pc = next]
  BY DEF JobCall
<1>3. /\ jobs \in [Workers -> Job \cup {NoJob}] /\ jobs[w] \in Job /\ dailyCount \in Nat
      /\ jobs[w].left \in 0 .. Chunks /\ jobs[w].left >= 1
  BY <1>1, JobsAreTyped DEF JobsOK
<1>4. PICK answered \in BOOLEAN:
        /\ dailyCount' = dailyCount + (IF answered THEN 1 ELSE 0)
        /\ \/ /\ n > 0
              /\ jobs' = [jobs EXCEPT ![w].left = n, ![w].good = (jobs[w].good \/ answered)]
           \/ \E next \in {"save", "fail", "fill"}:
                jobs' = [jobs EXCEPT ![w].left = 0, ![w].good = (jobs[w].good \/ answered),
                                     ![w].pc = next]
  BY <1>2
<1> DEFINE g == jobs[w].good \/ answered
<1>5. g \in BOOLEAN /\ n \in 0 .. Chunks /\ 0 \in 0 .. Chunks /\ dailyCount' \in Nat
  BY <1>3, <1>4, Bounds
<1>6. \/ n > 0 /\ jobs' = [jobs EXCEPT ![w].left = n, ![w].good = g]
      \/ \E next \in {"save", "fail", "fill"}:
           jobs' = [jobs EXCEPT ![w].left = 0, ![w].good = g, ![w].pc = next]
  BY <1>4
<1> HIDE DEF g, n
<1>7. /\ jobs' \in [Workers -> Job \cup {NoJob}]
      /\ jobs'[w].pc \in {"call", "save", "fail", "fill"}
      /\ jobs'[w].track = jobs[w].track
      /\ jobs'[w].pc = "call" => jobs'[w].left >= 1
      /\ \A v \in Workers: v # w => jobs'[v] = jobs[v]
  <2>1. CASE n > 0 /\ jobs' = [jobs EXCEPT ![w].left = n, ![w].good = g]
    <3>1. /\ jobs' \in [Workers -> Job \cup {NoJob}] /\ jobs'[w].track = jobs[w].track
          /\ \A v \in Workers: v # w => jobs'[v] = jobs[v]
      BY <1>3, <1>5, <2>1 DEF Job
    <3>2. jobs'[w].pc = "call" /\ jobs'[w].left = n
      BY <1>1, <1>3, <2>1 DEF Job
    <3> QED BY <1>5, <2>1, <3>1, <3>2
  <2>2. ASSUME NEW next \in {"save", "fail", "fill"},
               jobs' = [jobs EXCEPT ![w].left = 0, ![w].good = g, ![w].pc = next]
        PROVE  /\ jobs' \in [Workers -> Job \cup {NoJob}]
               /\ jobs'[w].pc = next /\ jobs'[w].track = jobs[w].track
               /\ \A v \in Workers: v # w => jobs'[v] = jobs[v]
    BY <1>3, <1>5, <2>2 DEF Job
  <2> QED BY <1>6, <2>1, <2>2
<1>8. At(jobs, w) /\ At(jobs', w)
  BY <1>1, <1>7 DEF At
<1> QED BY <1>1, <1>5, <1>7, <1>8, JobGoesOn

LEMMA JobFillKeeps ==
  ASSUME LyricsInv, NEW w \in Workers, JobFill(w)
  PROVE  LyricsInv'
<1>1. /\ jobs[w].pc = "fill" /\ jobs' = [jobs EXCEPT ![w].pc = "save"]
      /\ dailyCount' \in {dailyCount, dailyCount + 1}
      /\ UNCHANGED <<rows, queue, active, doubled, asks, running, waitQueue, edition,
                     stranded, budget>>
  BY DEF JobFill, JobGoes, UnchangedLyrics
<1>2. jobs \in [Workers -> Job \cup {NoJob}] /\ jobs[w] \in Job /\ dailyCount \in Nat
  BY <1>1, JobsAreTyped
<1>3. /\ jobs' \in [Workers -> Job \cup {NoJob}] /\ jobs'[w].pc = "save"
      /\ jobs'[w].track = jobs[w].track /\ \A v \in Workers: v # w => jobs'[v] = jobs[v]
  BY <1>1, <1>2 DEF Job
<1>4. At(jobs, w) /\ At(jobs', w) /\ dailyCount' \in Nat
  BY <1>1, <1>2, <1>3 DEF At
<1> QED BY <1>1, <1>3, <1>4, JobGoesOn

(* What JobSave and JobEnd share. *)
LEMMA JobDone ==
  ASSUME LyricsInv, NEW w \in Workers, At(jobs, w), JobOver(w),
         rows' \in [Tracks -> RowType],
         \A t \in Tracks: t # jobs[w].track => rows'[t] = rows[t],
         rows'[jobs[w].track].trans \in {"done", "failed"},
         UNCHANGED <<asks, running, waitQueue, edition, stranded, budget, dailyCount, doubled>>
  PROVE  LyricsInv'
<1>1. /\ JobsOK(queue', active', jobs') /\ ~At(jobs', w)
      /\ \A v \in Workers: \/ v # w /\ jobs'[v] = jobs[v]
                           \/ ~At(jobs', v) /\ (v = w \/ ~At(jobs, v))
  BY JobOverKeeps DEF LyricsInv, At
<1>2. RestOK' /\ SlotsOK(running', waitQueue', asks')
  BY PartsOfInv DEF RestOK, EditionsOK
<1>3. PendingIsOwned' /\ AloneUnlessDoubled'
  BY <1>1, WorkerEnds
<1> QED BY <1>1, <1>2, <1>3, PartsOfNextInv

LEMMA JobSaveKeeps ==
  ASSUME LyricsInv, NEW w \in Workers, JobSave(w)
  PROVE  LyricsInv'
<1> DEFINE t == jobs[w].track
           d == jobs[w].data
<1>1. /\ jobs[w].pc = "save" /\ JobOver(w)
      /\ rows' = [rows EXCEPT ![t].trans = "done", ![t].translated = d]
      /\ UNCHANGED <<asks, running, waitQueue, edition, stranded, budget, dailyCount, doubled>>
  BY DEF JobSave, UnchangedLyrics
<1>2. t \in Tracks /\ rows \in [Tracks -> RowType] /\ d \in 0 .. MaxEvents + 1
  BY <1>1, JobsAreTyped
<1>3. /\ rows' \in [Tracks -> RowType] /\ rows'[t].trans = "done"
      /\ \A u \in Tracks: u # t => rows'[u] = rows[u]
  <2> HIDE DEF t, d
  <2> QED BY <1>1, <1>2 DEF RowType
<1> QED BY <1>1, <1>3, JobDone DEF At

LEMMA JobEndKeeps ==
  ASSUME LyricsInv, NEW w \in Workers, JobEnd(w)
  PROVE  LyricsInv'
<1> DEFINE t == jobs[w].track
           s == EndedAs(jobs[w].pc)
<1>1. /\ jobs[w].pc \in {"skip", "fail"} /\ JobOver(w)
      /\ rows' = [rows EXCEPT ![t].trans = s]
      /\ UNCHANGED <<asks, running, waitQueue, edition, stranded, budget, dailyCount, doubled>>
  BY DEF JobEnd, SetTrans, UnchangedLyrics
<1>2. t \in Tracks /\ rows \in [Tracks -> RowType] /\ s \in {"done", "failed"}
  BY <1>1, JobsAreTyped DEF EndedAs
<1>3. /\ rows' \in [Tracks -> RowType] /\ rows'[t].trans \in {"done", "failed"}
      /\ \A u \in Tracks: u # t => rows'[u] = rows[u]
  <2> HIDE DEF t, s
  <2> QED BY <1>1, <1>2 DEF RowType
<1> QED BY <1>1, <1>3, JobDone DEF At

-------------------------------------------------------------------------------
(* The admin's reset, a restart, and the invariant. *)
LEMMA ResetKeeps ==
  ASSUME LyricsInv, NEW t \in Tracks, ResetLyrics(t)
  PROVE  LyricsInv'
<1>1. /\ budget.events > 0 /\ budget' = [budget EXCEPT !.events = @ - 1]
      /\ rows' = [rows EXCEPT ![t].status = "searching", ![t].data = 0, ![t].translated = 0]
      /\ edition' = [edition EXCEPT ![t] = @ + 1]
      /\ UNCHANGED <<asks, running, waitQueue, queue, active, jobs, dailyCount, doubled, stranded>>
  BY DEF ResetLyrics, translation
<1>2. /\ RestOK /\ rows \in [Tracks -> RowType] /\ edition \in [Tracks -> Editions]
      /\ budget \in [asks : 0..MaxAsks, events : 0..MaxEvents] /\ MaxEvents \in Nat
      /\ \A u \in Tracks: edition[u] + budget.events <= MaxEvents + 1
  BY PartsOfInv, Bounds DEF RestOK, EditionsOK
<1>3. /\ rows' \in [Tracks -> RowType] /\ \A u \in Tracks: rows'[u].trans = rows[u].trans
  <2>1. /\ 0 \in 0 .. MaxEvents + 1 /\ rows \in [Tracks -> RowType]
        /\ rows' = [rows EXCEPT ![t].status = "searching", ![t].data = 0, ![t].translated = 0]
    BY <1>1, <1>2
  <2>2. \A u \in Tracks: u # t => rows'[u] = rows[u]
    BY <2>1
  <2>3. rows'[t] \in RowType /\ rows'[t].trans = rows[t].trans
    BY <2>1 DEF RowType
  <2>4. DOMAIN rows' = Tracks /\ rows' = [u \in Tracks |-> rows'[u]]
    BY <2>1
  <2> QED BY <2>1, <2>2, <2>3, <2>4
<1>4. /\ budget' \in [asks : 0..MaxAsks, events : 0..MaxEvents]
      /\ budget'.events = budget.events - 1 /\ budget.events \in 1 .. MaxEvents
  BY <1>1, <1>2
<1>5. /\ edition' \in [Tracks -> Editions]
      /\ \A u \in Tracks: edition'[u] + budget'.events <= MaxEvents + 1
  <2>1. /\ \A u \in Tracks: edition[u] \in 1 .. MaxEvents + 1
        /\ edition[t] + 1 \in 1 .. MaxEvents + 1
    <3>1. edition[t] \in 1 .. MaxEvents + 1 /\ edition[t] + budget.events <= MaxEvents + 1
      BY <1>2 DEF Editions
    <3> QED BY <1>2, <1>4, <3>1 DEF Editions
  <2>2. edition' \in [Tracks -> Editions]
    BY <1>1, <1>2, <2>1 DEF Editions
  <2>3. \A u \in Tracks: edition'[u] = (IF u = t THEN edition[t] + 1 ELSE edition[u])
    BY <1>1, <1>2
  <2> QED BY <1>2, <1>4, <2>1, <2>2, <2>3
<1>6. RestOK' /\ SlotsOK(running', waitQueue', asks') /\ JobsOK(queue', active', jobs') /\ Calm
  BY <1>1, <1>2, <1>3, <1>4, <1>5, PartsOfInv DEF RestOK, EditionsOK, Calm
<1> QED BY <1>6, CalmKeepsOwners, PartsOfNextInv

LEMMA RestartKeeps ==
  ASSUME LyricsInv, Restart
  PROVE  LyricsInv'
<1>1. /\ budget.events > 0 /\ budget' = [budget EXCEPT !.events = @ - 1]
      /\ asks' = [a \in Asks |-> NoAsk] /\ running' = 0 /\ waitQueue' = <<>>
      /\ dailyCount' = 0 /\ stranded' = stranded \cup Pending
      /\ UNCHANGED <<rows, edition, doubled>>
  BY DEF Restart
<1>2. PICK order \in [1..Cardinality(Pending) -> Pending]:
        Drain([i \in DOMAIN order |-> [track |-> order[i], rooms |-> {}]],
              [w \in Workers |-> NoJob], 0)
  BY DEF Restart
<1> DEFINE js == [w \in Workers |-> NoJob]
           q == [i \in DOMAIN order |-> [track |-> order[i], rooms |-> {}]]
<1>3. q \in Seq(Item)
  <2>1. Pending \in SUBSET Tracks /\ Cardinality(Pending) \in Nat
    BY SetsAreFinite DEF Pending
  <2>2. q \in [1 .. Cardinality(Pending) -> Item]
    BY <2>1 DEF Item
  <2> QED BY <2>1, <2>2, SeqDef
<1>4. /\ js \in [Workers -> Job \cup {NoJob}]
      /\ \A w \in Workers: js[w].pc = "none" /\ (js[w].pc = "call" => js[w].left >= 1)
      /\ Busy(js) = {}
  BY DEF NoJob, Busy, Idle
<1>5. 0 = Cardinality(Busy(js)) /\ Drain(q, js, 0)
  BY <1>2, <1>4, FS_EmptySet
<1> HIDE DEF js, q
<1>6. /\ JobsOK(queue', active', jobs')
      /\ \A w \in Workers: jobs'[w] = js[w] \/ jobs'[w].pc = "read"
  BY <1>3, <1>4, <1>5, DrainKeeps
<1>7. \A w \in Workers: ~At(jobs', w)
  BY <1>4, <1>6 DEF At
<1>8. SlotsOK(running', waitQueue', asks')
  <2>0. NoAsk.pc = "none"
    BY DEF NoAsk
  <2>1. Searching(asks') = {} /\ asks' \in [Asks -> Ask \cup {NoAsk}]
    BY <1>1, <2>0 DEF Searching
  <2>2. /\ 0 = Cardinality(Searching(asks')) /\ 0 \in 0 .. MaxSearches
        /\ waitQueue' \in Seq(Asks) /\ Len(waitQueue') = 0
    <3>1. Cardinality(Searching(asks')) = 0
      BY <2>1, FS_EmptySet, Zenon
    <3> QED BY <1>1, <3>1, Bounds
  <2>3. \A a \in Asks: asks'[a].pc # "wait"
    BY <1>1, <2>0
  <2> QED BY <1>1, <2>1, <2>2, <2>3 DEF SlotsOK
<1>9. RestOK'
  <2>1. RestOK /\ MaxEvents \in Nat
    BY PartsOfInv, Bounds
  <2>2. /\ budget' \in [asks : 0..MaxAsks, events : 0..MaxEvents]
        /\ budget'.events <= budget.events
    BY <1>1, <2>1 DEF RestOK
  <2>3. ASSUME NEW t \in Tracks
        PROVE  edition'[t] + budget'.events <= MaxEvents + 1
    <3>1. /\ edition[t] \in Nat /\ budget.events \in Nat /\ budget'.events \in Nat
          /\ edition[t] + budget.events <= MaxEvents + 1
      BY <2>1, <2>2 DEF RestOK, EditionsOK, Editions
    <3> QED BY <1>1, <2>1, <2>2, <3>1
  <2> QED BY <1>1, <2>1, <2>2, <2>3 DEF RestOK, EditionsOK, Pending
<1>10. PendingIsOwned' /\ AloneUnlessDoubled'
  BY <1>1, <1>7 DEF PendingIsOwned, Pending, AloneUnlessDoubled
<1> QED BY <1>6, <1>8, <1>9, <1>10, PartsOfNextInv

LEMMA InitHolds ==
  ASSUME LyricsInit
  PROVE  LyricsInv
<1>1. SlotsOK(running, waitQueue, asks)
  <2>1. Searching(asks) = {} /\ asks \in [Asks -> Ask \cup {NoAsk}]
    BY DEF LyricsInit, Searching, NoAsk
  <2>2. Cardinality(Searching(asks)) = 0 /\ 0 \in 0 .. MaxSearches
    BY <2>1, FS_EmptySet, Bounds
  <2>3. \A a \in Asks: asks[a].pc # "wait"
    BY DEF LyricsInit, NoAsk
  <2>4. running = 0 /\ waitQueue = <<>> /\ waitQueue \in Seq(Asks) /\ Len(waitQueue) = 0
    BY DEF LyricsInit
  <2> QED BY <2>1, <2>2, <2>3, <2>4 DEF SlotsOK
<1>2. JobsOK(queue, active, jobs)
  <2>1. /\ Busy(jobs) = {} /\ jobs \in [Workers -> Job \cup {NoJob}]
        /\ \A w \in Workers: jobs[w].pc # "call"
    BY DEF LyricsInit, Busy, Idle, NoJob
  <2>2. Cardinality(Busy(jobs)) = 0 /\ 0 \in 0 .. Concurrency
    BY <2>1, FS_EmptySet, Bounds
  <2>3. active = 0 /\ queue \in Seq(Item)
    BY DEF LyricsInit
  <2> QED BY <2>1, <2>2, <2>3 DEF JobsOK
<1>3. RestOK
  <2>1. 0 \in 0 .. MaxEvents + 1 /\ MaxAsks \in 0 .. MaxAsks /\ MaxEvents \in 0 .. MaxEvents
        /\ 1 \in 1 .. MaxEvents + 1 /\ 1 + MaxEvents <= MaxEvents + 1
    BY Bounds
  <2> QED BY <2>1 DEF LyricsInit, RestOK, RowType, Editions, EditionsOK
<1>4. PendingIsOwned /\ AloneUnlessDoubled
  BY DEF LyricsInit, PendingIsOwned, Pending, AloneUnlessDoubled, At, NoJob
<1> QED BY <1>1, <1>2, <1>3, <1>4, PartsOfInv

LEMMA StepKeeps ==
  ASSUME LyricsInv, [LyricsNext]_vars
  PROVE  LyricsInv'
<1>1. ASSUME NEW a \in Asks, AskStep(a)
      PROVE  LyricsInv'
  BY <1>1, ReadRowKeeps, ExistingKeeps, SaveLyricsKeeps, SearchEndsKeeps DEF AskStep
<1>2. ASSUME NEW w \in Workers, JobStep(w)
      PROVE  LyricsInv'
  BY <1>2, JobReadKeeps, JobMarkKeeps, JobLangKeeps, JobCallKeeps, JobFillKeeps,
     JobSaveKeeps, JobEndKeeps DEF JobStep
<1>3. ASSUME UNCHANGED vars
      PROVE  LyricsInv'
  <2>1. UNCHANGED <<rows, asks, running, waitQueue, queue, active, jobs, dailyCount, doubled,
                    edition, stranded, budget>>
    BY <1>3 DEF vars, translation
  <2>2. RestOK' /\ SlotsOK(running', waitQueue', asks') /\ JobsOK(queue', active', jobs') /\ Calm
    BY <2>1, PartsOfInv DEF RestOK, EditionsOK, Calm
  <2> QED BY <2>2, CalmKeepsOwners, PartsOfNextInv
<1> QED BY <1>1, <1>2, <1>3, AskLyricsKeeps, ResetKeeps, RestartKeeps DEF LyricsNext

(* The invariant of LyricsService and TranslationService. *)
THEOREM LyricsInvariant == LyricsSpec => []LyricsInv
<1> QED BY InitHolds, StepKeeps, PTL DEF LyricsSpec

(* Every variable keeps to its type: the searches and the workers never exceed
   MAX_CONCURRENT and CONCURRENCY. *)
THEOREM LyricsTypeCorrect == LyricsSpec => []LyricsTypeOK
<1>1. LyricsInv => LyricsTypeOK
  BY DEF LyricsInv
<1> QED BY <1>1, LyricsInvariant, PTL

(* acquireSlot and releaseSlot neither lose a slot nor give it twice, and nobody
   waits for a slot that is free. *)
THEOREM SearchSlotsKept == LyricsSpec => []SearchSlots
<1>1. LyricsInv => SearchSlots
  BY DEF LyricsInv, SlotsOK, SearchSlots, Searching
<1> QED BY <1>1, LyricsInvariant, PTL

(* A row that says pending is being translated, unless a restart cut it off. *)
THEOREM PendingOwned == LyricsSpec => []PendingIsOwned
<1>1. LyricsInv => PendingIsOwned
  BY DEF LyricsInv
<1> QED BY <1>1, LyricsInvariant, PTL

(* A worker is the only one that moves a translation, and it is not done while
   one works alone: only a track that was doubled goes back from done. *)
LEMMA StepKeepsDone ==
  ASSUME LyricsInv, [LyricsNext]_vars, NEW t \in Tracks,
         rows[t].trans = "done", rows'[t].trans # "done"
  PROVE  t \in doubled
<1>1. rows \in [Tracks -> RowType] /\ rows # rows'
  BY PartsOfInv DEF RestOK
<1>2. ASSUME NEW w \in Workers, At(jobs, w), jobs[w].track = t
      PROVE  t \in doubled
  BY <1>2 DEF LyricsInv, AloneUnlessDoubled
<1>3. ASSUME NEW w \in Workers, JobStep(w)
      PROVE  t \in doubled
  <2>1. CASE JobMark(w)
    BY <1>1, <1>2, <2>1 DEF JobMark, SetTrans, At
  <2>2. CASE JobSave(w)
    <3>1. rows' = [rows EXCEPT ![jobs[w].track].trans = "done",
                               ![jobs[w].track].translated = jobs[w].data]
      BY <2>2 DEF JobSave
    <3>2. rows'[t].trans = "done"
      BY <1>1, <3>1 DEF RowType
    <3> QED BY <3>2
  <2>3. CASE JobEnd(w)
    BY <1>1, <1>2, <2>3 DEF JobEnd, SetTrans, At
  <2>4. ~(JobRead(w) \/ JobLang(w) \/ JobCall(w) \/ JobFill(w))
    BY <1>1 DEF JobRead, JobLang, JobCall, JobFill
  <2> QED BY <1>3, <2>1, <2>2, <2>3, <2>4 DEF JobStep
<1>4. ASSUME NEW a \in Asks, AskStep(a)
      PROVE  FALSE
  <2>1. SaveLyrics(a)
    <3>1. ~ReadRow(a) /\ ~Existing(a)
      BY <1>1 DEF ReadRow, Existing
    <3>2. \A res \in {"found", "notFound"}: ~SearchEnds(a, res)
      BY <1>1 DEF SearchEnds
    <3> QED BY <1>4, <3>1, <3>2 DEF AskStep
  <2> DEFINE u == asks[a].track
             s == asks[a].pc
             d == IF asks[a].pc = "found" THEN asks[a].data ELSE 0
  <2>2. rows' = [rows EXCEPT ![u].status = s, ![u].data = d]
    BY <2>1 DEF SaveLyrics
  <2> HIDE DEF u, s, d
  <2>3. rows'[t].trans = rows[t].trans
    BY <1>1, <2>2 DEF RowType
  <2> QED BY <2>3
<1>5. ASSUME NEW u \in Tracks, ResetLyrics(u)
      PROVE  FALSE
  <2>1. rows' = [rows EXCEPT ![u].status = "searching", ![u].data = 0, ![u].translated = 0]
    BY <1>5 DEF ResetLyrics
  <2>2. rows'[t].trans = rows[t].trans
    BY <1>1, <2>1 DEF RowType
  <2> QED BY <2>2
<1>6. ~Restart /\ ~UNCHANGED vars
  BY <1>1 DEF Restart, vars
<1>7. \A a \in Asks, u \in Tracks, r \in Rooms, h \in BOOLEAN: ~AskLyrics(a, u, r, h)
  BY <1>1 DEF AskLyrics
<1> QED BY <1>3, <1>4, <1>5, <1>6, <1>7 DEF LyricsNext

(* A translation that is done stays done, unless two workers made it. *)
THEOREM DoneKept == LyricsSpec => DoneIsKept
<1>1. LyricsInv /\ [LyricsNext]_vars =>
        [\A t \in Tracks: rows[t].trans = "done" /\ rows'[t].trans # "done" => t \in doubled]_vars
  BY StepKeepsDone
<1> QED BY <1>1, LyricsInvariant, PTL DEF LyricsSpec, DoneIsKept

-------------------------------------------------------------------------------
(* The workers are used: what WorkersAreUsed says beside the count, of values. *)
TracksDiffer(q) == \A i, j \in 1 .. Len(q): q[i].track = q[j].track => i = j
QueueUsed(q, n) == (q # <<>> => n = Concurrency) /\ TracksDiffer(q)

(* A nonempty set of naturals has a least element. *)
LEMMA LeastWorker ==
  ASSUME NEW S, S \subseteq Nat, S # {}
  PROVE  \E x \in S: \A y \in S: x <= y
<1> DEFINE R == {p \in Nat \X Nat: p[1] < p[2]}
<1>1. IsWellFoundedOn(R, Nat)
  BY NatLessThanWellFounded DEF OpToRel
<1>2. PICK x \in S: \A y \in S: <<y, x>> \notin R
  <2> HIDE DEF R
  <2> QED BY WFMin, <1>1
<1>3. \A y \in S: ~(y < x)
  BY <1>2
<1> QED BY <1>3

(* drain leaves an item only when it has found work for every idle worker: the
   least idle worker it passes over would have a rank within the queue. *)
LEMMA DrainUses ==
  ASSUME NEW q \in Seq(Item), TracksDiffer(q), NEW js \in [Workers -> Job \cup {NoJob}],
         NEW n, n = Cardinality(Busy(js)), Drain(q, js, n)
  PROVE  QueueUsed(queue', active')
<1> DEFINE taken == {w \in Idle(js): Rank(js, w) <= Len(q)}
           k == Cardinality(taken)
<1>1. queue' = SubSeq(q, k + 1, Len(q)) /\ active' = n + k
  BY DEF Drain
<1>2. /\ taken \in SUBSET Workers /\ taken \in SUBSET Idle(js) /\ k \in Nat
      /\ Idle(js) \in SUBSET Workers /\ Busy(js) \in SUBSET Workers /\ n \in Nat
      /\ IsFiniteSet(taken) /\ IsFiniteSet(Busy(js)) /\ IsFiniteSet(Idle(js))
      /\ Workers \in SUBSET Nat /\ Len(q) \in Nat
  <2>1. /\ taken \in SUBSET Workers /\ taken \in SUBSET Idle(js)
        /\ Idle(js) \in SUBSET Workers /\ Busy(js) \in SUBSET Workers
    BY DEF Idle, Busy
  <2>2. Workers \in SUBSET Nat
    BY DEF Workers
  <2> HIDE DEF taken
  <2> QED BY <2>1, <2>2, SetsAreFinite
<1>3. /\ queue' \in Seq(Item) /\ (queue' # <<>> => k + 1 <= Len(q))
      /\ \A i \in 1 .. Len(queue'): i + k \in 1 .. Len(q) /\ queue'[i] = q[i + k]
  <2> HIDE DEF k
  <2> QED BY <1>1, <1>2
<1>4. TracksDiffer(queue')
  <2> HIDE DEF k
  <2>1. ASSUME NEW i \in 1 .. Len(queue'), NEW j \in 1 .. Len(queue'),
               queue'[i].track = queue'[j].track
        PROVE  i = j
    <3>1. /\ i + k \in 1 .. Len(q) /\ j + k \in 1 .. Len(q)
          /\ q[i + k].track = q[j + k].track
      BY <1>3, <2>1
    <3>2. i + k = j + k
      BY <3>1 DEF TracksDiffer
    <3> QED BY <1>2, <1>3, <3>2
  <2> QED BY <2>1 DEF TracksDiffer
<1>5. ASSUME queue' # <<>>
      PROVE  active' = Concurrency
  <2>1. k + 1 <= Len(q)
    BY <1>3, <1>5
  <2>2. ASSUME Idle(js) \ taken # {}
        PROVE  FALSE
    <3>1. PICK w \in Idle(js) \ taken: \A v \in Idle(js) \ taken: w <= v
      <4>1. Idle(js) \ taken \subseteq Nat
        BY <1>2
      <4> HIDE DEF taken
      <4> QED BY <2>2, <4>1, LeastWorker
    <3> DEFINE S == {v \in Idle(js): v <= w}
    <3>2. S \in SUBSET (taken \cup {w}) /\ w \notin taken /\ w \in Nat
      BY <1>2, <3>1
    <3> HIDE DEF taken
    <3>3. /\ IsFiniteSet(taken \cup {w}) /\ Cardinality(taken \cup {w}) = k + 1
      BY <1>2, <3>2, FS_AddElement
    <3>4. Cardinality(S) <= k + 1 /\ Cardinality(S) \in Nat
      BY <3>2, <3>3, FS_Subset, FS_CardinalityType
    <3>5. Rank(js, w) <= Len(q)
      BY <1>2, <2>1, <3>4 DEF Rank
    <3> QED BY <3>1, <3>5 DEF taken
  <2>3. taken = Idle(js)
    BY <1>2, <2>2
  <2> HIDE DEF taken
  <2>4. Busy(js) \cup taken = Workers /\ Busy(js) \cap taken = {}
    BY <1>2, <2>3 DEF Busy
  <2>5. Cardinality(Workers) = Cardinality(Busy(js)) + k - Cardinality({})
    BY <1>2, <2>4, FS_Union
  <2> QED BY <1>1, <1>2, <2>5, SetsAreFinite, FS_EmptySet, Bounds
<1> QED BY <1>4, <1>5 DEF QueueUsed

LEMMA EnqueueUses ==
  ASSUME JobsOK(queue, active, jobs), QueueUsed(queue, active),
         NEW t \in Tracks, NEW r \in Rooms, Enqueue(t, r)
  PROVE  QueueUsed(queue', active')
<1> DEFINE known == {i \in DOMAIN queue : queue[i].track = t}
<1>0. queue \in Seq(Item) /\ DOMAIN queue = 1 .. Len(queue) /\ Len(queue) \in Nat
  BY DEF JobsOK
<1>1. CASE /\ known # {}
           /\ queue' = [i \in DOMAIN queue |->
                        IF i \in known
                          THEN [queue[i] EXCEPT !.rooms = @ \cup {r}] ELSE queue[i]]
           /\ UNCHANGED <<active, jobs>>
  <2>0. \A i \in 1 .. Len(queue): queue[i] \in Item
    BY <1>0
  <2>1. \A i \in 1 .. Len(queue): [queue[i] EXCEPT !.rooms = @ \cup {r}] \in Item
                                  /\ [queue[i] EXCEPT !.rooms = @ \cup {r}].track = queue[i].track
    BY <2>0 DEF Item
  <2>2. queue' \in [1 .. Len(queue) -> Item]
    BY <1>0, <1>1, <2>1
  <2>3. queue' \in Seq(Item) /\ Len(queue') = Len(queue)
    BY <1>0, <2>2, SeqDef
  <2>4. \A i \in 1 .. Len(queue): queue'[i].track = queue[i].track
    BY <1>0, <1>1, <2>1
  <2>5. queue # <<>>
    BY <1>0, <1>1
  <2> QED BY <1>1, <2>3, <2>4, <2>5 DEF QueueUsed, TracksDiffer
<1>2. CASE /\ known = {}
           /\ Drain(Append(queue, [track |-> t, rooms |-> {r}]), jobs, active)
  <2>1. PICK item: item = [track |-> t, rooms |-> {r}]
    OBVIOUS
  <2>2. item \in Item /\ item.track = t
    BY <2>1 DEF Item
  <2>3. /\ Append(queue, item) \in Seq(Item) /\ Len(Append(queue, item)) = Len(queue) + 1
        /\ \A i \in 1 .. Len(queue): Append(queue, item)[i] = queue[i]
        /\ Append(queue, item)[Len(queue) + 1] = item
    BY <1>0, <2>2
  <2>4. \A i \in 1 .. Len(queue): queue[i].track # t
    BY <1>0, <1>2
  <2>5. TracksDiffer(Append(queue, item))
    BY <1>0, <2>2, <2>3, <2>4 DEF QueueUsed, TracksDiffer
  <2> QED BY <1>2, <2>1, <2>3, <2>5, DrainUses DEF JobsOK
<1> QED BY <1>1, <1>2 DEF Enqueue

LEMMA JobOverUses ==
  ASSUME JobsOK(queue, active, jobs), QueueUsed(queue, active),
         NEW w \in Workers, jobs[w].pc # "none", JobOver(w)
  PROVE  QueueUsed(queue', active')
<1> DEFINE js == [jobs EXCEPT ![w] = NoJob]
<1>1. /\ js \in [Workers -> Job \cup {NoJob}] /\ js[w].pc = "none"
      /\ \A v \in Workers: v # w => js[v] = jobs[v]
  BY DEF JobsOK, NoJob
<1>2. Busy(js) = Busy(jobs) \ {w} /\ w \in Busy(jobs) /\ IsFiniteSet(Busy(jobs))
  BY <1>1, SetsAreFinite DEF Busy, Idle
<1>3. active - 1 = Cardinality(Busy(js)) /\ queue \in Seq(Item)
  BY <1>2, FS_RemoveElement DEF JobsOK
<1>4. Drain(queue, js, active - 1)
  BY DEF JobOver
<1> HIDE DEF js
<1> QED BY <1>1, <1>3, <1>4, DrainUses DEF QueueUsed

(* restoreQueue names each pending track once. *)
LEMMA RestartUses ==
  ASSUME LyricsInv, Restart
  PROVE  QueueUsed(queue', active')
<1>1. PICK order \in [1..Cardinality(Pending) -> Pending]:
        /\ \A t \in Pending : \E i \in DOMAIN order : order[i] = t
        /\ Drain([i \in DOMAIN order |-> [track |-> order[i], rooms |-> {}]],
                 [w \in Workers |-> NoJob], 0)
  BY DEF Restart
<1>2. Pending \in SUBSET Tracks /\ Cardinality(Pending) \in Nat /\ IsFiniteSet(Pending)
  BY SetsAreFinite DEF Pending
<1>3. \A i, j \in 1 .. Cardinality(Pending): order[i] = order[j] => i = j
  <2>1. order \in Surjection(1 .. Cardinality(Pending), Pending)
    BY <1>1 DEF Surjection
  <2>2. /\ IsFiniteSet(1 .. Cardinality(Pending))
        /\ Cardinality(1 .. Cardinality(Pending)) = Cardinality(Pending)
    BY <1>2, FS_Interval
  <2>3. order \in Injection(1 .. Cardinality(Pending), Pending)
    BY <2>1, <2>2, FS_SurjSameCardinalityImpliesInj
  <2> QED BY <2>3 DEF Injection, IsInjective
<1> DEFINE js == [w \in Workers |-> NoJob]
           q == [i \in DOMAIN order |-> [track |-> order[i], rooms |-> {}]]
<1>4. q \in Seq(Item) /\ Len(q) = Cardinality(Pending)
  <2>1. q \in [1 .. Cardinality(Pending) -> Item]
    BY <1>2 DEF Item
  <2> QED BY <1>2, <2>1, SeqDef
<1>5. TracksDiffer(q)
  BY <1>3, <1>4 DEF TracksDiffer
<1>6. js \in [Workers -> Job \cup {NoJob}] /\ Busy(js) = {}
  BY DEF NoJob, Busy, Idle
<1>7. 0 = Cardinality(Busy(js)) /\ Drain(q, js, 0)
  BY <1>1, <1>6, FS_EmptySet
<1> HIDE DEF js, q
<1> QED BY <1>4, <1>5, <1>6, <1>7, DrainUses

-------------------------------------------------------------------------------
(* The limit of a day, of the count and of the calls that are still to come: those
   of a track that a worker calls for or fills, one pair each. *)
OwedBy(j) ==
  IF j.pc = "call" THEN j.left + CallsOfATrack - Chunks ELSE IF j.pc = "fill" THEN 1 ELSE 0
Owed(js) == {p \in Workers \X (1 .. CallsOfATrack): p[2] <= OwedBy(js[p[1]])}
CallsOK(n, js) == n + Cardinality(Owed(js)) < DailyLimit + Concurrency * CallsOfATrack

LEMMA OwedBounds ==
  ASSUME NEW js
  PROVE  /\ IsFiniteSet(Owed(js)) /\ Cardinality(Owed(js)) \in Nat
         /\ Cardinality(Owed(js)) <= Concurrency * CallsOfATrack
         /\ CallsOfATrack \in Nat /\ CallsOfATrack >= 1 /\ CallsOfATrack >= Chunks
         /\ Concurrency * CallsOfATrack \in Nat
<1>1. /\ CallsOfATrack \in Nat /\ CallsOfATrack >= 1 /\ CallsOfATrack >= Chunks
  BY Bounds DEF CallsOfATrack
<1>2. /\ IsFiniteSet(1 .. CallsOfATrack) /\ Cardinality(1 .. CallsOfATrack) = CallsOfATrack
  BY <1>1, FS_Interval
<1> HIDE DEF CallsOfATrack
<1>3. /\ IsFiniteSet(Workers \X (1 .. CallsOfATrack))
      /\ Cardinality(Workers \X (1 .. CallsOfATrack)) = Concurrency * CallsOfATrack
  BY <1>2, SetsAreFinite, FS_Product
<1>4. Owed(js) \in SUBSET (Workers \X (1 .. CallsOfATrack))
  BY DEF Owed
<1>5. /\ IsFiniteSet(Owed(js))
      /\ Cardinality(Owed(js)) <= Cardinality(Workers \X (1 .. CallsOfATrack))
  BY <1>3, <1>4, FS_Subset
<1>6. Cardinality(Workers \X (1 .. CallsOfATrack)) \in Nat /\ Cardinality(Owed(js)) \in Nat
  BY <1>3, <1>5, FS_CardinalityType
<1> QED BY <1>1, <1>3, <1>5, <1>6

(* A worker that begins its calls has seen the count below the limit: whatever the
   others owe, it is at most the calls of one track each. *)
LEMMA CountIsLow ==
  ASSUME NEW n \in Nat, n < DailyLimit, NEW js
  PROVE  CallsOK(n, js)
<1>1. /\ Cardinality(Owed(js)) \in Nat /\ Concurrency * CallsOfATrack \in Nat
      /\ Cardinality(Owed(js)) <= Concurrency * CallsOfATrack
  BY OwedBounds
<1> QED BY <1>1, Bounds DEF CallsOK

(* No call is counted and nobody owes more. *)
LEMMA NoMoreOwed ==
  ASSUME dailyCount \in Nat, dailyCount' \in Nat, CallsOK(dailyCount, jobs),
         dailyCount' <= dailyCount,
         \A v \in Workers: jobs'[v] = jobs[v] \/ jobs'[v].pc \notin {"call", "fill"}
  PROVE  CallsOK(dailyCount', jobs')
<1>1. Owed(jobs') \in SUBSET Owed(jobs)
  <2>1. \A v \in Workers: OwedBy(jobs'[v]) = OwedBy(jobs[v]) \/ OwedBy(jobs'[v]) = 0
    BY DEF OwedBy
  <2> QED BY <2>1 DEF Owed
<1>2. Cardinality(Owed(jobs')) <= Cardinality(Owed(jobs))
  BY <1>1, OwedBounds, FS_Subset
<1> QED BY <1>2, OwedBounds, Bounds DEF CallsOK

(* A call that is counted was owed. *)
LEMMA CallWasOwed ==
  ASSUME NEW w \in Workers, dailyCount \in Nat, CallsOK(dailyCount, jobs),
         dailyCount' \in {dailyCount, dailyCount + 1},
         \A v \in Workers: v # w => jobs'[v] = jobs[v],
         OwedBy(jobs[w]) \in 1 .. CallsOfATrack, OwedBy(jobs'[w]) \in Nat,
         OwedBy(jobs'[w]) < OwedBy(jobs[w])
  PROVE  CallsOK(dailyCount', jobs')
<1> DEFINE p == <<w, OwedBy(jobs[w])>>
<1>1. p \in Owed(jobs)
  BY DEF Owed
<1>2. Owed(jobs') \in SUBSET (Owed(jobs) \ {p})
  <2>1. ASSUME NEW v \in Workers, NEW i \in 1 .. CallsOfATrack, i <= OwedBy(jobs'[v])
        PROVE  i <= OwedBy(jobs[v]) /\ <<v, i>> # p
    BY <2>1, OwedBounds
  <2> HIDE DEF p
  <2> QED BY <2>1 DEF Owed
<1> HIDE DEF p
<1>3. /\ Cardinality(Owed(jobs) \ {p}) = Cardinality(Owed(jobs)) - 1
      /\ IsFiniteSet(Owed(jobs) \ {p})
  BY <1>1, OwedBounds, FS_RemoveElement
<1>4. Cardinality(Owed(jobs')) <= Cardinality(Owed(jobs)) - 1
  BY <1>2, <1>3, FS_Subset
<1> QED BY <1>4, OwedBounds, Bounds DEF CallsOK

-------------------------------------------------------------------------------
(* Both, step by step, beside the invariant. *)
LyricsLimits == QueueUsed(queue, active) /\ CallsOK(dailyCount, jobs)

LEMMA TranslateKeepsLimits ==
  ASSUME LyricsInv, LyricsLimits, NEW a \in Asks, asks[a] \in Ask,
         Translate(a) \/ UNCHANGED <<queue, active, jobs>>, UNCHANGED dailyCount
  PROVE  LyricsLimits'
<1>1. /\ asks[a].track \in Tracks /\ asks[a].room \in Rooms /\ JobsOK(queue, active, jobs)
      /\ dailyCount \in Nat /\ QueueUsed(queue, active) /\ CallsOK(dailyCount, jobs)
  BY PartsOfInv DEF Ask, LyricsInv, RestOK, LyricsLimits
<1>2. CASE UNCHANGED <<queue, active, jobs>>
  BY <1>1, <1>2 DEF LyricsLimits
<1>3. CASE Enqueue(asks[a].track, asks[a].room)
  <2>1. QueueUsed(queue', active')
    BY <1>1, <1>3, EnqueueUses
  <2>2. \A v \in Workers: jobs'[v] = jobs[v] \/ jobs'[v].pc \notin {"call", "fill"}
    BY <1>1, <1>3, EnqueueKeeps DEF At
  <2>3. CallsOK(dailyCount', jobs')
    BY <1>1, <2>2, NoMoreOwed
  <2> QED BY <2>1, <2>3 DEF LyricsLimits
<1> QED BY <1>2, <1>3 DEF Translate

LEMMA AskStepKeepsLimits ==
  ASSUME LyricsInv, LyricsLimits, NEW a \in Asks, AskStep(a)
  PROVE  LyricsLimits'
<1>1. CASE ReadRow(a)
  BY <1>1, AsksAreTyped, TranslateKeepsLimits DEF ReadRow
<1>2. CASE Existing(a)
  BY <1>2, AsksAreTyped, TranslateKeepsLimits DEF Existing
<1>3. CASE SaveLyrics(a)
  BY <1>3, AsksAreTyped, TranslateKeepsLimits DEF SaveLyrics
<1>4. ASSUME NEW res \in {"found", "notFound"}, SearchEnds(a, res)
      PROVE  LyricsLimits'
  <2>1. UNCHANGED <<queue, active, jobs, dailyCount>>
    BY <1>4 DEF SearchEnds, translation
  <2> QED BY <2>1 DEF LyricsLimits
<1> QED BY <1>1, <1>2, <1>3, <1>4 DEF AskStep

LEMMA JobOverKeepsLimits ==
  ASSUME LyricsInv, LyricsLimits, NEW w \in Workers, jobs[w].pc # "none", JobOver(w),
         UNCHANGED dailyCount
  PROVE  LyricsLimits'
<1>1. /\ JobsOK(queue, active, jobs) /\ dailyCount \in Nat
      /\ QueueUsed(queue, active) /\ CallsOK(dailyCount, jobs)
  BY PartsOfInv DEF RestOK, LyricsLimits
<1>2. QueueUsed(queue', active')
  BY <1>1, JobOverUses
<1>3. \A v \in Workers: jobs'[v] = jobs[v] \/ jobs'[v].pc \notin {"call", "fill"}
  BY <1>1, JobOverKeeps DEF At
<1> QED BY <1>1, <1>2, <1>3, NoMoreOwed DEF LyricsLimits

LEMMA JobStepKeepsLimits ==
  ASSUME LyricsInv, LyricsLimits, NEW w \in Workers, JobStep(w)
  PROVE  LyricsLimits'
<1>0. /\ QueueUsed(queue, active) /\ CallsOK(dailyCount, jobs) /\ dailyCount \in Nat
      /\ jobs \in [Workers -> Job \cup {NoJob}]
  BY PartsOfInv DEF LyricsLimits, RestOK, JobsOK
<1>1. CASE JobOver(w) /\ UNCHANGED dailyCount /\ jobs[w].pc # "none"
  BY <1>1, JobOverKeepsLimits
<1>2. ASSUME UNCHANGED <<queue, active>>, dailyCount' \in Nat, dailyCount' <= dailyCount,
             NEW pc \in {"mark", "lang", "skip", "fail"}, jobs'[w].pc = pc,
             \A v \in Workers: v # w => jobs'[v] = jobs[v]
      PROVE  LyricsLimits'
  <2>1. CallsOK(dailyCount', jobs')
    BY <1>0, <1>2, NoMoreOwed
  <2> QED BY <1>0, <1>2, <2>1 DEF LyricsLimits
<1>3. CASE JobRead(w)
  <2>1. CASE JobOver(w)
    BY <1>1, <1>3, <2>1 DEF JobRead
  <2>2. CASE /\ jobs' = [jobs EXCEPT ![w].pc = "mark", ![w].data = Row(jobs[w].track).data]
             /\ UNCHANGED <<queue, active>>
    <3>1. jobs[w].pc = "read" /\ UNCHANGED dailyCount
      BY <1>3 DEF JobRead
    <3>2. jobs[w] \in Job
      BY <3>1, JobsAreTyped
    <3> DEFINE d == Row(jobs[w].track).data
    <3>3. jobs' = [jobs EXCEPT ![w].pc = "mark", ![w].data = d]
      BY <2>2
    <3> HIDE DEF d
    <3>4. jobs'[w].pc = "mark" /\ \A v \in Workers: v # w => jobs'[v] = jobs[v]
      BY <1>0, <3>2, <3>3 DEF Job
    <3> QED BY <1>0, <1>2, <2>2, <3>1, <3>4
  <2> QED BY <1>3, <2>1, <2>2 DEF JobRead
<1>4. CASE JobMark(w)
  <2>1. /\ jobs[w].pc = "mark" /\ jobs' = [jobs EXCEPT ![w].pc = "lang"]
        /\ UNCHANGED <<queue, active, dailyCount>>
    BY <1>4 DEF JobMark, JobGoes
  <2>2. jobs'[w].pc = "lang" /\ \A v \in Workers: v # w => jobs'[v] = jobs[v]
    BY <1>0, <2>1, JobsAreTyped DEF Job
  <2> QED BY <1>0, <1>2, <2>1, <2>2
<1>5. CASE JobLang(w)
  <2>1. /\ jobs[w].pc = "lang" /\ UNCHANGED <<queue, active>>
        /\ dailyCount' \in {0, dailyCount}
        /\ \/ jobs' = [jobs EXCEPT ![w].pc = "skip"]
           \/ jobs' = [jobs EXCEPT ![w].pc = "fail"]
           \/ /\ dailyCount' < DailyLimit
              /\ jobs' = [jobs EXCEPT ![w].pc = "call", ![w].left = Chunks]
    BY <1>5 DEF JobLang, JobGoes, DayChecked, WithinLimit
  <2>2. /\ jobs[w] \in Job /\ dailyCount' \in Nat /\ dailyCount' <= dailyCount
    BY <1>0, <2>1, JobsAreTyped
  <2>3. CASE jobs' = [jobs EXCEPT ![w].pc = "skip"]
    <3>1. jobs'[w].pc = "skip" /\ \A v \in Workers: v # w => jobs'[v] = jobs[v]
      BY <1>0, <2>2, <2>3 DEF Job
    <3> QED BY <1>2, <2>1, <2>2, <3>1
  <2>4. CASE jobs' = [jobs EXCEPT ![w].pc = "fail"]
    <3>1. jobs'[w].pc = "fail" /\ \A v \in Workers: v # w => jobs'[v] = jobs[v]
      BY <1>0, <2>2, <2>4 DEF Job
    <3> QED BY <1>2, <2>1, <2>2, <3>1
  <2>5. CASE dailyCount' < DailyLimit
    BY <1>0, <2>1, <2>2, <2>5, CountIsLow DEF LyricsLimits
  <2> QED BY <2>1, <2>3, <2>4, <2>5
<1>6. CASE JobCall(w)
  <2> DEFINE n == jobs[w].left - 1
             c == CallsOfATrack - Chunks
  <2>1. jobs[w].pc = "call" /\ UNCHANGED <<queue, active>>
    BY <1>6 DEF JobCall
  <2>2. PICK answered \in BOOLEAN:
          /\ dailyCount' = dailyCount + (IF answered THEN 1 ELSE 0)
          /\ \/ /\ n > 0
                /\ jobs' = [jobs EXCEPT ![w].left = n, ![w].good = (jobs[w].good \/ answered)]
             \/ \E next \in {"save", "fail"} \cup (IF Chunks > 1 THEN {"fill"} ELSE {}):
                  jobs' = [jobs EXCEPT ![w].left = 0, ![w].good = (jobs[w].good \/ answered),
                                       ![w].pc = next]
    BY <1>6 DEF JobCall
  <2> DEFINE g == jobs[w].good \/ answered
  <2>3. /\ jobs[w] \in Job /\ jobs[w].left \in 1 .. Chunks
        /\ c \in {0, 1} /\ (Chunks > 1 => c = 1) /\ CallsOfATrack = Chunks + c /\ Chunks \in Nat
    BY <2>1, JobsAreTyped, Bounds DEF LyricsInv, JobsOK, CallsOfATrack
  <2>4. /\ dailyCount' \in {dailyCount, dailyCount + 1} /\ n + 1 = jobs[w].left
        /\ n \in 0 .. Chunks - 1
        /\ \/ n > 0 /\ jobs' = [jobs EXCEPT ![w].left = n, ![w].good = g]
           \/ \E next \in {"save", "fail"} \cup (IF Chunks > 1 THEN {"fill"} ELSE {}):
                jobs' = [jobs EXCEPT ![w].left = 0, ![w].good = g, ![w].pc = next]
    <3>1. dailyCount' \in {dailyCount, dailyCount + 1}
      BY <1>0, <2>2
    <3>2. n + 1 = jobs[w].left /\ n \in 0 .. Chunks - 1
      BY <2>3
    <3> QED BY <2>2, <3>1, <3>2
  <2> HIDE DEF g, n, c
  <2>5. /\ \A v \in Workers: v # w => jobs'[v] = jobs[v]
        /\ \/ jobs'[w].pc = "call" /\ jobs'[w].left = n
           \/ jobs'[w].pc \in {"save", "fail"}
           \/ Chunks > 1 /\ jobs'[w].pc = "fill"
    BY <1>0, <2>1, <2>3, <2>4 DEF Job
  <2>6. OwedBy(jobs[w]) = n + 1 + c
    BY <2>1, <2>3, <2>4 DEF OwedBy
  <2>7. OwedBy(jobs'[w]) \in {n + c, 0} \/ (c = 1 /\ OwedBy(jobs'[w]) = 1)
    BY <2>3, <2>4, <2>5 DEF OwedBy
  <2>8. /\ OwedBy(jobs[w]) \in 1 .. CallsOfATrack /\ OwedBy(jobs'[w]) \in Nat
        /\ OwedBy(jobs'[w]) < OwedBy(jobs[w])
    BY <2>3, <2>4, <2>6, <2>7
  <2>9. CallsOK(dailyCount', jobs')
    BY <1>0, <2>4, <2>5, <2>8, CallWasOwed
  <2> QED BY <1>0, <2>1, <2>9 DEF LyricsLimits
<1>7. CASE JobFill(w)
  <2>1. /\ jobs[w].pc = "fill" /\ jobs' = [jobs EXCEPT ![w].pc = "save"]
        /\ dailyCount' \in {dailyCount, dailyCount + 1} /\ UNCHANGED <<queue, active>>
    BY <1>7 DEF JobFill, JobGoes
  <2>2. jobs'[w].pc = "save" /\ \A v \in Workers: v # w => jobs'[v] = jobs[v]
    BY <1>0, <2>1, JobsAreTyped DEF Job
  <2>3. OwedBy(jobs[w]) = 1 /\ OwedBy(jobs'[w]) = 0 /\ 1 \in 1 .. CallsOfATrack
    BY <2>1, <2>2, OwedBounds DEF OwedBy
  <2>4. /\ OwedBy(jobs[w]) \in 1 .. CallsOfATrack /\ OwedBy(jobs'[w]) \in Nat
        /\ OwedBy(jobs'[w]) < OwedBy(jobs[w])
    BY <2>3
  <2>5. CallsOK(dailyCount', jobs')
    BY <1>0, <2>1, <2>2, <2>4, CallWasOwed
  <2> QED BY <1>0, <2>1, <2>5 DEF LyricsLimits
<1>8. CASE JobSave(w)
  BY <1>1, <1>8 DEF JobSave
<1>9. CASE JobEnd(w)
  BY <1>1, <1>9 DEF JobEnd
<1> QED BY <1>3, <1>4, <1>5, <1>6, <1>7, <1>8, <1>9 DEF JobStep

LEMMA StepKeepsLimits ==
  ASSUME LyricsInv, LyricsLimits, [LyricsNext]_vars
  PROVE  LyricsLimits'
<1>1. CASE UNCHANGED <<queue, active, jobs, dailyCount>>
  BY <1>1 DEF LyricsLimits
<1>2. ASSUME NEW a \in Asks, NEW t \in Tracks, NEW r \in Rooms, NEW h \in BOOLEAN,
             AskLyrics(a, t, r, h)
      PROVE  UNCHANGED <<queue, active, jobs, dailyCount>>
  BY <1>2 DEF AskLyrics, translation
<1>3. ASSUME NEW t \in Tracks, ResetLyrics(t)
      PROVE  UNCHANGED <<queue, active, jobs, dailyCount>>
  BY <1>3 DEF ResetLyrics, translation
<1>4. CASE Restart
  <2>1. QueueUsed(queue', active')
    BY <1>4, RestartUses
  <2>2. dailyCount' = 0 /\ 0 \in Nat /\ 0 < DailyLimit
    BY <1>4, Bounds DEF Restart
  <2>3. CallsOK(0, jobs')
    BY <2>2, CountIsLow
  <2> QED BY <2>1, <2>2, <2>3 DEF LyricsLimits
<1>5. CASE UNCHANGED vars
  BY <1>1, <1>5 DEF vars, translation
<1> QED BY <1>1, <1>2, <1>3, <1>4, <1>5, AskStepKeepsLimits, JobStepKeepsLimits DEF LyricsNext

LEMMA LimitsHoldAtFirst ==
  ASSUME LyricsInit
  PROVE  LyricsLimits
<1>1. queue = <<>> /\ dailyCount = 0
  BY DEF LyricsInit
<1>2. QueueUsed(queue, active)
  BY <1>1 DEF QueueUsed, TracksDiffer
<1>3. CallsOK(dailyCount, jobs)
  BY <1>1, CountIsLow, Bounds
<1> QED BY <1>2, <1>3 DEF LyricsLimits

(* What the invariant needs beside it for the next two theorems: an item waits only
   while every worker is busy, each track waits once, and the calls counted and
   still owed keep below what the workers may make together. *)
THEOREM LimitsHold == LyricsSpec => []LyricsLimits
<1> QED BY LyricsInvariant, LimitsHoldAtFirst, StepKeepsLimits, PTL DEF LyricsSpec

(* The counter of TranslationService is the number of its workers; a track waits
   only while all of them work, and once. *)
THEOREM WorkersUsed == LyricsSpec => []WorkersAreUsed
<1>1. LyricsInv /\ LyricsLimits => WorkersAreUsed
  <2> SUFFICES ASSUME LyricsInv, LyricsLimits PROVE WorkersAreUsed
    OBVIOUS
  <2>1. DOMAIN queue = 1 .. Len(queue)
    BY DEF LyricsInv, JobsOK
  <2> QED BY <2>1 DEF LyricsInv, JobsOK, Busy, LyricsLimits, QueueUsed, TracksDiffer,
                      WorkersAreUsed
<1> QED BY <1>1, LyricsInvariant, LimitsHold, PTL

(* The daily limit of Gemini, which is read before the first call of a track only,
   is exceeded by the calls of one track per worker at most. *)
THEOREM CallsLimited == LyricsSpec => []CallsAreLimited
<1>1. LyricsInv /\ LyricsLimits => CallsAreLimited
  <2> SUFFICES ASSUME LyricsInv, LyricsLimits PROVE CallsAreLimited
    OBVIOUS
  <2>1. dailyCount \in Nat /\ CallsOK(dailyCount, jobs)
    BY DEF LyricsInv, LyricsTypeOK, LyricsLimits
  <2> QED BY <2>1, OwedBounds, Bounds DEF CallsOK, CallsAreLimited
<1> QED BY <1>1, LyricsInvariant, LimitsHold, PTL

===============================================================================
