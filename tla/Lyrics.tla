------------------------------- MODULE Lyrics -------------------------------
(***************************************************************************)
(* Lyrics and their translation: LyricsService (a search per track, behind *)
(* a semaphore), TranslationService (a queue drained by a fixed number of  *)
(* workers, with the state of each translation in the track's row), the    *)
(* handler that joins them, and a restart of the server, which loses       *)
(* everything but the rows.                                                *)
(*                                                                         *)
(* A row's data is 0 or the edition of the lyrics it holds; `translated'   *)
(* is the edition that was translated.  An admin's reset asks for the next *)
(* edition.                                                                *)
(***************************************************************************)
EXTENDS Naturals, Sequences, FiniteSets

CONSTANTS
  Tracks, Rooms,
  Asks,         \* requests for lyrics in flight
  MaxSearches,  \* MAX_CONCURRENT of the searches
  Concurrency,  \* CONCURRENCY of the translations
  Chunks,       \* calls of Gemini that the lyrics of a track take
  DailyLimit,   \* calls of Gemini a day
  Korean,       \* tracks with Korean lyrics, which are not translated
  InTarget,     \* tracks whose lyrics are in the target language already
  MaxAsks,      \* bound: requests
  MaxEvents     \* bound: resets by an admin, restarts and new days, together

ASSUME LyricsAssumption ==
  /\ {MaxSearches, Concurrency, Chunks, DailyLimit} \subseteq Nat \ {0}
  /\ {MaxAsks, MaxEvents} \subseteq Nat
  /\ IsFiniteSet(Tracks) /\ IsFiniteSet(Asks)

Workers == 1..Concurrency
Editions == 1..MaxEvents + 1

VARIABLES
  rows,        \* the lyrics columns of each track
  asks,        \* getLyrics and the handlers that call it
  running,     \* LyricsService.running
  waitQueue,   \* LyricsService.waitQueue
  queue,       \* TranslationService.queue
  active,      \* TranslationService.activeCount
  jobs,        \* processTrack of each worker
  dailyCount,  \* calls of Gemini counted today
  edition,     \* what a search for the track finds
  stranded,    \* history: tracks that were pending when the server restarted
  doubled,     \* history: tracks two workers translated at once
  budget       \* what is left of the bounds

translation == <<queue, active, jobs, dailyCount, doubled>>
vars == <<rows, asks, running, waitQueue, translation, edition, stranded, budget>>

NoAsk == [pc |-> "none"]
Ask == [pc : {"row", "existing", "wait", "search", "found", "notFound"},
        track : Tracks, room : Rooms, handler : BOOLEAN,
        data : 0..MaxEvents + 1]
NoJob == [pc |-> "none"]
Job == [pc : {"read", "mark", "lang", "skip", "call", "fill", "save", "fail"},
        track : Tracks, rooms : SUBSET Rooms, left : 0..Chunks,
        good : BOOLEAN, data : 0..MaxEvents + 1]

LyricsTypeOK ==
  /\ rows \in [Tracks -> [status : {"searching", "found", "notFound"},
                          data : 0..MaxEvents + 1,
                          trans : {"none", "pending", "done", "failed"},
                          translated : 0..MaxEvents + 1]]
  /\ asks \in [Asks -> Ask \cup {NoAsk}]
  /\ running \in 0..MaxSearches
  /\ waitQueue \in Seq(Asks)
  /\ queue \in Seq([track : Tracks, rooms : SUBSET Rooms])
  /\ active \in 0..Concurrency
  /\ jobs \in [Workers -> Job \cup {NoJob}]
  /\ dailyCount \in Nat
  /\ edition \in [Tracks -> Editions]
  /\ stranded \subseteq Tracks /\ doubled \subseteq Tracks
  /\ budget \in [asks : 0..MaxAsks, events : 0..MaxEvents]

LyricsInit ==
  /\ rows = [t \in Tracks |-> [status |-> "searching", data |-> 0,
                               trans |-> "none", translated |-> 0]]
  /\ asks = [a \in Asks |-> NoAsk]
  /\ running = 0 /\ waitQueue = <<>>
  /\ queue = <<>> /\ active = 0 /\ dailyCount = 0
  /\ jobs = [w \in Workers |-> NoJob]
  /\ edition = [t \in Tracks |-> 1]
  /\ stranded = {} /\ doubled = {}
  /\ budget = [asks |-> MaxAsks, events |-> MaxEvents]

-----------------------------------------------------------------------------
(* TranslationService: the queue and its workers.                          *)

(* drain: each free worker, in turn, takes the head of the queue.          *)
Idle(js) == {w \in Workers : js[w].pc = "none"}
Rank(js, w) == Cardinality({v \in Idle(js) : v <= w})

NewJob(item) == [pc |-> "read", track |-> item.track, rooms |-> item.rooms,
                 left |-> 0, good |-> FALSE, data |-> 0]

Drain(q, js, n) ==
  LET taken == {w \in Idle(js) : Rank(js, w) <= Len(q)}
      k == Cardinality(taken)
  IN  /\ jobs' = [w \in Workers |->
                    IF w \in taken THEN NewJob(q[Rank(js, w)]) ELSE js[w]]
      /\ queue' = SubSeq(q, k + 1, Len(q))
      /\ active' = n + k

(* enqueue: a track that waits already only gets one more room.            *)
Enqueue(t, r) ==
  LET known == {i \in DOMAIN queue : queue[i].track = t}
  IN  \/ /\ known # {}
         /\ queue' = [i \in DOMAIN queue |->
                        IF i \in known
                          THEN [queue[i] EXCEPT !.rooms = @ \cup {r}] ELSE queue[i]]
         /\ UNCHANGED <<active, jobs>>
      \/ /\ known = {}
         /\ Drain(Append(queue, [track |-> t, rooms |-> {r}]), jobs, active)

(* Mutant: the worker does not look at the queue again.                    *)
JobOverIdle(w) ==
  /\ jobs' = [jobs EXCEPT ![w] = NoJob]
  /\ active' = active - 1
  /\ UNCHANGED queue

(* The finally of a job: the worker is free and takes what waits.          *)
JobOver(w) == Drain(queue, [jobs EXCEPT ![w] = NoJob], active - 1)

JobGoes(w, pc) ==
  /\ jobs' = [jobs EXCEPT ![w].pc = pc]
  /\ UNCHANGED <<queue, active>>

Row(t) == rows[t]
SetTrans(t, s) == rows' = [rows EXCEPT ![t].trans = s]
UnchangedLyrics == UNCHANGED <<asks, running, waitQueue, edition, stranded, budget>>

(* A worker that has read the row and found that it must be translated.    *)
Translating(w) == jobs[w].pc \notin {"none", "read"}
OthersTranslate(w, t) ==
  \E v \in Workers \ {w} : Translating(v) /\ jobs[v].track = t

(* Mutant: a translation that is done is made again.                       *)
PendingOnly(t) == Row(t).data = 0 \/ Row(t).trans = "pending"

(* Why a worker leaves a track alone: there are no lyrics, it is done, or  *)
(* it is pending, which is taken for another worker's.                     *)
LeftAlone(t) == Row(t).data = 0 \/ Row(t).trans \in {"done", "pending"}

JobRead(w) ==
  LET t == jobs[w].track
  IN  /\ jobs[w].pc = "read"
      /\ \/ /\ LeftAlone(t)
            /\ JobOver(w)
         \/ /\ ~LeftAlone(t)
            /\ jobs' = [jobs EXCEPT ![w].pc = "mark", ![w].data = Row(t).data]
            /\ UNCHANGED <<queue, active>>
      /\ doubled' = IF jobs'[w].pc = "mark" /\ OthersTranslate(w, t)
                      THEN doubled \cup {t} ELSE doubled
      /\ UnchangedLyrics /\ UNCHANGED <<rows, dailyCount>>

JobMark(w) ==
  /\ jobs[w].pc = "mark"
  /\ SetTrans(jobs[w].track, "pending")
  /\ JobGoes(w, "lang")
  /\ UnchangedLyrics /\ UNCHANGED <<dailyCount, doubled>>

(* The language is saved; a translation that is not needed is done, one    *)
(* that cannot be made (no model, no such language, the limit) has failed. *)
(* A new day resets the counter when it is looked at (checkDailyLimit).    *)
DayChecked ==
  \/ UNCHANGED <<dailyCount, budget>>
  \/ /\ dailyCount # 0 /\ budget.events > 0
     /\ dailyCount' = 0
     /\ budget' = [budget EXCEPT !.events = @ - 1]

(* Mutant: the limit is not looked at.                                     *)
LimitIgnored == dailyCount' < DailyLimit \/ UNCHANGED dailyCount

WithinLimit == dailyCount' < DailyLimit

JobLang(w) ==
  /\ jobs[w].pc = "lang"
  /\ \/ /\ jobs[w].track \in InTarget
        /\ JobGoes(w, "skip")
        /\ UNCHANGED <<dailyCount, budget>>
     \/ /\ JobGoes(w, "fail")
        /\ DayChecked
     \/ /\ jobs[w].track \notin InTarget
        /\ DayChecked
        /\ WithinLimit
        /\ jobs' = [jobs EXCEPT ![w].pc = "call", ![w].left = Chunks]
        /\ UNCHANGED <<queue, active>>
  /\ UNCHANGED <<rows, doubled, asks, running, waitQueue, edition, stranded>>

(* One call of Gemini per chunk; only a call that is answered is counted.  *)
(* After the last one, at least half of the lines are there (good), a few  *)
(* of them may be asked for again, or it has failed.  A track of a single  *)
(* chunk is not asked for again.                                           *)
JobCall(w) ==
  /\ jobs[w].pc = "call"
  /\ \E answered \in BOOLEAN :
       LET good == jobs[w].good \/ answered
           left == jobs[w].left - 1
       IN  /\ dailyCount' = dailyCount + (IF answered THEN 1 ELSE 0)
           /\ \/ /\ left > 0
                 /\ jobs' = [jobs EXCEPT ![w].left = left, ![w].good = good]
              \/ /\ left = 0
                 /\ \E next \in (IF good THEN {"save", "fail"} ELSE {"fail"})
                              \cup (IF good /\ Chunks > 1 THEN {"fill"} ELSE {}) :
                      jobs' = [jobs EXCEPT ![w].left = 0, ![w].good = good,
                                           ![w].pc = next]
  /\ UnchangedLyrics /\ UNCHANGED <<rows, queue, active, doubled>>

JobFill(w) ==
  /\ jobs[w].pc = "fill"
  /\ dailyCount' \in {dailyCount, dailyCount + 1}
  /\ JobGoes(w, "save")
  /\ UnchangedLyrics /\ UNCHANGED <<rows, doubled>>

JobSave(w) ==
  /\ jobs[w].pc = "save"
  /\ rows' = [rows EXCEPT ![jobs[w].track].trans = "done",
                          ![jobs[w].track].translated = jobs[w].data]
  /\ JobOver(w)
  /\ UnchangedLyrics /\ UNCHANGED <<dailyCount, doubled>>

(* Mutant: a translation that failed is left pending.                      *)
EndedPending(pc) == IF pc = "skip" THEN "done" ELSE "pending"

EndedAs(pc) == IF pc = "skip" THEN "done" ELSE "failed"

JobEnd(w) ==
  /\ jobs[w].pc \in {"skip", "fail"}
  /\ SetTrans(jobs[w].track, EndedAs(jobs[w].pc))
  /\ JobOver(w)
  /\ UnchangedLyrics /\ UNCHANGED <<dailyCount, doubled>>

JobStep(w) ==
  \/ JobRead(w) \/ JobMark(w) \/ JobLang(w) \/ JobCall(w)
  \/ JobFill(w) \/ JobSave(w) \/ JobEnd(w)

-----------------------------------------------------------------------------
(* LyricsService and its callers.                                          *)

AskGoes(a, pc) == asks' = [asks EXCEPT ![a].pc = pc]
AskOver(a) == asks' = [asks EXCEPT ![a] = NoAsk]

(* GET /player/:roomId/lyrics, or the search that follows a change of the  *)
(* track, which starts with getLyrics.                                     *)
AskLyrics(a, t, r, handler) ==
  /\ asks[a].pc = "none" /\ budget.asks > 0
  /\ asks' = [asks EXCEPT ![a] =
                [pc |-> IF handler THEN "row" ELSE "existing",
                 track |-> t, room |-> r, handler |-> handler, data |-> 0]]
  /\ budget' = [budget EXCEPT !.asks = @ - 1]
  /\ UNCHANGED <<rows, running, waitQueue, translation, edition, stranded>>

(* The handler queues the translation, unless it is switched off.          *)
Translate(a) ==
  \/ UNCHANGED <<queue, active, jobs>>
  \/ /\ asks[a].handler
     /\ asks[a].track \notin Korean
     /\ Enqueue(asks[a].track, asks[a].room)

ReadRow(a) ==
  LET t == asks[a].track
  IN  /\ asks[a].pc = "row"
      /\ \/ /\ Row(t).data = 0 /\ Row(t).status # "notFound"
            /\ AskGoes(a, "existing")
            /\ UNCHANGED <<queue, active, jobs>>
         \/ /\ Row(t).data # 0 /\ Row(t).trans \in {"none", "failed"}
            /\ AskOver(a)
            /\ Translate(a)
         \/ /\ IF Row(t).data = 0 THEN Row(t).status = "notFound"
                                  ELSE Row(t).trans \in {"pending", "done"}
            /\ AskOver(a)
            /\ UNCHANGED <<queue, active, jobs>>
      /\ UNCHANGED <<rows, running, waitQueue, dailyCount, doubled, edition,
                     stranded, budget>>

(* getLyrics returns what is there; what was not found is searched for     *)
(* again when a day has passed.  Else it takes a slot or waits for one.    *)
Existing(a) ==
  LET row == Row(asks[a].track)
  IN  /\ asks[a].pc = "existing"
      /\ \/ /\ row.status = "found" /\ row.data # 0
            /\ AskOver(a) /\ Translate(a)
            /\ UNCHANGED <<running, waitQueue>>
         \/ /\ row.status = "notFound"
            /\ AskOver(a)
            /\ UNCHANGED <<running, waitQueue, queue, active, jobs>>
         \/ /\ ~(row.status = "found" /\ row.data # 0)
            /\ \/ /\ running < MaxSearches
                  /\ AskGoes(a, "search")
                  /\ running' = running + 1
                  /\ UNCHANGED waitQueue
               \/ /\ running >= MaxSearches
                  /\ AskGoes(a, "wait")
                  /\ waitQueue' = Append(waitQueue, a)
                  /\ UNCHANGED running
            /\ UNCHANGED <<queue, active, jobs>>
      /\ UNCHANGED <<rows, dailyCount, doubled, edition, stranded, budget>>

(* Mutant: nobody is resumed.                                              *)
SearchEndsAlone(a, res) ==
  /\ asks[a].pc = "search"
  /\ asks' = [asks EXCEPT ![a].pc = res, ![a].data = edition[asks[a].track]]
  /\ running' = running - 1
  /\ UNCHANGED <<rows, waitQueue, translation, edition, stranded, budget>>

(* Mutant: the slot is counted twice when it is handed on.                 *)
SearchEndsTwice(a, res) ==
  /\ asks[a].pc = "search"
  /\ asks' = [asks EXCEPT ![a].pc = res, ![a].data = edition[asks[a].track]]
  /\ running' = running - 2
  /\ UNCHANGED <<rows, waitQueue, translation, edition, stranded, budget>>

(* The search ends and the slot goes to the first who waits, whose turn    *)
(* comes before the next event.                                            *)
SearchEnds(a, res) ==
  /\ asks[a].pc = "search"
  /\ LET over == [asks EXCEPT ![a].pc = res, ![a].data = edition[asks[a].track]]
     IN  \/ /\ waitQueue = <<>>
            /\ asks' = over
            /\ running' = running - 1
            /\ UNCHANGED waitQueue
         \/ /\ waitQueue # <<>>
            /\ asks' = [over EXCEPT ![Head(waitQueue)].pc = "search"]
            /\ waitQueue' = Tail(waitQueue)
            /\ UNCHANGED running
  /\ UNCHANGED <<rows, translation, edition, stranded, budget>>

SaveLyrics(a) ==
  LET t == asks[a].track
  IN  /\ asks[a].pc \in {"found", "notFound"}
      /\ rows' = [rows EXCEPT ![t].status = asks[a].pc,
                              ![t].data =
                                IF asks[a].pc = "found" THEN asks[a].data ELSE 0]
      /\ AskOver(a)
      /\ IF asks[a].pc = "found" THEN Translate(a) ELSE UNCHANGED <<queue, active, jobs>>
      /\ UNCHANGED <<running, waitQueue, dailyCount, doubled, edition, stranded, budget>>

AskStep(a) ==
  \/ ReadRow(a) \/ Existing(a) \/ SaveLyrics(a)
  \/ \E res \in {"found", "notFound"} : SearchEnds(a, res)

(* resetTrackLyrics of the admin: the state of the translation stays.      *)
ResetLyrics(t) ==
  /\ budget.events > 0
  /\ budget' = [budget EXCEPT !.events = @ - 1]
  /\ rows' = [rows EXCEPT ![t].status = "searching", ![t].data = 0,
                          ![t].translated = 0]
  /\ edition' = [edition EXCEPT ![t] = @ + 1]
  /\ UNCHANGED <<asks, running, waitQueue, translation, stranded>>

(* The server stops and starts; restoreQueue queues what was pending.      *)
Pending == {t \in Tracks : rows[t].trans = "pending"}

Restart ==
  /\ budget.events > 0
  /\ budget' = [budget EXCEPT !.events = @ - 1]
  /\ asks' = [a \in Asks |-> NoAsk]
  /\ running' = 0 /\ waitQueue' = <<>> /\ dailyCount' = 0
  /\ \E order \in [1..Cardinality(Pending) -> Pending] :
       /\ \A t \in Pending : \E i \in DOMAIN order : order[i] = t
       /\ Drain([i \in DOMAIN order |-> [track |-> order[i], rooms |-> {}]],
                [w \in Workers |-> NoJob], 0)
  /\ stranded' = stranded \cup Pending
  /\ UNCHANGED <<rows, edition, doubled>>

LyricsNext ==
  \/ \E a \in Asks : AskStep(a)
  \/ \E a \in Asks, t \in Tracks, r \in Rooms, h \in BOOLEAN : AskLyrics(a, t, r, h)
  \/ \E w \in Workers : JobStep(w)
  \/ \E t \in Tracks : ResetLyrics(t)
  \/ Restart

LyricsSpec == LyricsInit /\ [][LyricsNext]_vars

(* The database, the searches and Gemini answer or time out.               *)
LyricsFairness ==
  /\ \A a \in Asks : WF_vars(AskStep(a))
  /\ \A w \in Workers : WF_vars(JobStep(w))

FairLyricsSpec == LyricsSpec /\ LyricsFairness

-----------------------------------------------------------------------------
(* Properties.                                                             *)

(* The semaphore of the searches neither loses a slot nor gives one twice, *)
(* and nobody waits while there is one (acquireSlot, releaseSlot).         *)
SearchSlots ==
  /\ running = Cardinality({a \in Asks : asks[a].pc = "search"})
  /\ waitQueue # <<>> => running = MaxSearches
  /\ \A a \in Asks : asks[a].pc = "wait" <=> \E i \in DOMAIN waitQueue : waitQueue[i] = a

(* The counter of TranslationService is the number of its workers, no      *)
(* track waits while one is free, and none waits twice (enqueue, drain).   *)
WorkersAreUsed ==
  /\ active = Cardinality(Workers \ Idle(jobs))
  /\ queue # <<>> => active = Concurrency
  /\ \A i, j \in DOMAIN queue : queue[i].track = queue[j].track => i = j

(* A row that says pending is being translated by some worker, unless the  *)
(* server was restarted meanwhile: the worker whose update was the last to *)
(* say so has yet to end, whatever the others did to the row.              *)
PendingIsOwned ==
  \A t \in Pending :
    t \in stranded \/ \E w \in Workers : Translating(w) /\ jobs[w].track = t

(* The limit is read before the first call of a track only: each worker    *)
(* may exceed it by the calls of one track, and no more.                   *)
CallsOfATrack == IF Chunks = 1 THEN 1 ELSE Chunks + 1
CallsAreLimited == dailyCount < DailyLimit + Concurrency * CallsOfATrack

(* A translation that is done is undone only when two workers had taken    *)
(* up the same track: the second may fail, or begin, after the first.      *)
DoneIsKept ==
  [][\A t \in Tracks :
       rows[t].trans = "done" /\ rows'[t].trans # "done" => t \in doubled]_vars

(* A translation that began ends, done or failed, unless the server was    *)
(* restarted under it.                                                     *)
TranslationEnds ==
  \A t \in Tracks : t \in Pending ~> (t \notin Pending \/ t \in stranded)

(* What restoreQueue is for: a translation that a restart cut off ends.    *)
RestoredEnds == \A t \in Tracks : t \in Pending ~> t \notin Pending

=============================================================================
