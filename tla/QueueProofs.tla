------------------------------ MODULE QueueProofs ------------------------------
(***************************************************************************)
(* Proofs about the queue of a room, for every number of tracks, users,    *)
(* rows and requests, and every list a request may name.                   *)
(*                                                                         *)
(* What a request has read is still true when it writes, as long as nobody *)
(* else writes: the invariant says of each request what it may rely on.    *)
(***************************************************************************)
EXTENDS Queue, FiniteSetTheorems, WellFoundedInduction, TLAPS

People == QueueUser \cup {Host}
Row == [track : Track \cup {NoTrack}, by : People \cup {AutoDJ}, pos : Nat,
        played : BOOLEAN, recent : BOOLEAN, version : Nat]
Places == Nat \ {0}
TrackLists == UNION {[S -> Track] : S \in SUBSET Places}
Req == [pc : PcRequest, user : People, tracks : TrackLists, id : Id \cup {0}, pos : Nat,
        old : Row, prev : Id \cup {0}]

(* Types: a row that is there has a track. *)
RowsTyped ==
  /\ rows \in [Id -> Row]
  /\ \A i \in Present : rows[i].track \in Track /\ rows[i].version # 0

PlayTyped ==
  /\ playing \in Track \cup {NoTrack} /\ taken \subseteq Track
  /\ status \in {"none", "playing", "paused"}
  /\ ending \in Id \cup {0, Idle} /\ heard \subseteq Track
  /\ queueCalls \in Nat /\ overlap \subseteq OverlapKinds /\ given \subseteq Id

ReqsTyped == req \in [Slot -> Req]

(* The positions have an upper bound, so the last one exists. *)
Bounded == \E b \in Nat : \A i \in Id : rows[i].pos <= b

(* Where a request holds the one track it may play. *)
PcPlays == {"autoStatus", "playMark", "prevCurrent", "prevEarlier", "prevMark"}

(* What the list of a request is at each of its queries. *)
ListKnown(r) ==
  /\ r.pc \in PcAdd => IsFiniteSet(DOMAIN r.tracks)
  /\ r.pc \in {"addRoom", "addDup"} => r.tracks \in Seq(Track) /\ r.tracks # <<>>
  /\ r.pc \in PcAdd \ {"addDup", "addNow"} => DOMAIN r.tracks # {}
  /\ r.pc \in PcAdd \ {"addRoom"} /\ r.user # Host => DOMAIN r.tracks \subseteq 1 .. MaxSelect
  /\ r.pc \in PcPlays => r.tracks \in Seq(Track) /\ r.tracks # <<>>

(* The row a reorder has read keeps its track and its owner, and the one a previous goes
   back to its track. *)
RowKnown(r, table) ==
  /\ r.pc = "reorderWrite" =>
       /\ r.id \in Id /\ r.old.track \in Track /\ r.old.version # 0
       /\ table[r.id] # NoRow => table[r.id].track = r.old.track /\ table[r.id].by = r.old.by
  /\ r.pc \in {"prevCurrent", "prevEarlier"} =>
       r.prev \in Id /\ (table[r.prev] # NoRow => table[r.prev].track = Head(r.tracks))

ReqsKnown == \A k \in Slot : ListKnown(req[k]) /\ RowKnown(req[k], rows)

TypesInv == RowsTyped /\ PlayTyped /\ ReqsTyped /\ Bounded /\ ReqsKnown

(* Without overlapping writers there is at most one, and the positions it has read
   are those it finds. *)
WriterAlone == "write" \notin overlap =>
  \A k, j \in Slot : Writing(k) /\ Writing(j) => k = j

WriterKnows(k) ==
  /\ req[k].pc = "addSave" => \A i \in Present : rows[i].pos < req[k].pos
  /\ req[k].pc = "reorderWrite" =>
       /\ req[k].id \notin given /\ ~req[k].old.played
       /\ \A i \in Present : i # req[k].id /\ rows[i].pos = req[k].old.pos => i \in given

(* Of two rows at one position, one is played and known to have given it away. *)
GivenPlayed == \A i \in given : i \in Present /\ rows[i].played
SharedGiven == \A i, j \in Present :
  i # j /\ rows[i].pos = rows[j].pos => i \in given \/ j \in given

Orderly == {"write", "late", "back"} \cap overlap = {}

OrderInv == WriterAlone
            /\ (Orderly => GivenPlayed /\ SharedGiven /\ \A k \in Slot : WriterKnows(k))

(* While one request writes nothing is played, no previous is about, and the tracks the
   request has looked for are not there. *)
QuietWriter(k) ==
  /\ taken = {} /\ Backward = {}
  /\ req[k].pc \in PcAdd => IsInjective(req[k].tracks)
  /\ req[k].pc \in PcAdd \ {"addRoom", "addDup"} =>
       \A n \in DOMAIN req[k].tracks : req[k].tracks[n] \notin QueuedTracks
  /\ req[k].pc \in PcAdd \ {"addRoom", "addDup", "addNow"} =>
       \A n \in DOMAIN req[k].tracks : req[k].tracks[n] # playing
  /\ req[k].pc = "reorderWrite" => (rows[req[k].id] # NoRow => (rows[req[k].id].played => req[k].old.played))

(* A previous is alone, and the track of the row it puts back first does not wait. *)
QuietBack(k) ==
  /\ taken = {} /\ \A j \in Backward : j = k
  /\ req[k].pc \in {"prevFind", "prevCurrent"} /\ req[k].id \in Present =>
       rows[req[k].id].track \notin QueuedTracks

TracksApart ==
  /\ \A i, j \in Unplayed :
       i # j => rows[i].track # rows[j].track \/ rows[i].track \in Returning
  /\ playing \in QueuedTracks => Replacing
  /\ taken \cap QueuedTracks = {}

Quiet == overlap \cap {"write", "play", "previous", "twice", "unplayed"} = {}

TracksInv == Quiet =>
  /\ TracksApart
  /\ \A k \in Slot : (Writing(k) => QuietWriter(k)) /\ (k \in Backward => QuietBack(k))

(* The rows a user's requests have been allowed and have not saved. *)
Promised(u) == {p \in Slot \X (1 .. MaxSelect) :
  /\ req[p[1]].user = u /\ req[p[1]].pc \in {"addMax", "addSave"}
  /\ p[2] \in DOMAIN req[p[1]].tracks}

QuotaInv == \A u \in QueueUser \ {Host} :
  Cardinality(RecentBy(u)) + Cardinality(Promised(u))
    <= PerWindow + (MaxRequests - 1) * MaxSelect

--------------------------------------------------------------------------------
(* Constants, records and lists. *)
LEMMA Consts ==
  /\ NoTrack \notin Track /\ AutoDJ \notin People
  /\ MaxSelect \in Nat /\ PerWindow \in Nat /\ MaxIds \in Nat /\ MaxRequests \in Nat \ {0}
  /\ MaxQueueCalls \in Nat
  /\ Lists \subseteq Seq(Track) \ {<<>>}
BY QueueAssumption DEF People

LEMMA Sizes ==
  /\ IsFiniteSet(Id) /\ IsFiniteSet(Slot) /\ Cardinality(Slot) = MaxRequests
  /\ IsFiniteSet(1 .. MaxSelect) /\ Cardinality(1 .. MaxSelect) = MaxSelect
  /\ Id \subseteq Nat /\ 0 \notin Id
BY Consts, FS_Interval DEF Id, Slot

LEMMA NoRowFacts ==
  /\ NoRow \in Row /\ NoRow.track = NoTrack /\ NoRow.pos = 0 /\ NoRow.version = 0
  /\ NoRow.played = TRUE /\ NoRow.recent = FALSE /\ NoRow.by = AutoDJ
BY DEF NoRow, Row

LEMMA ListFacts ==
  ASSUME NEW f
  PROVE  f \in TrackLists <=> DOMAIN f \subseteq Places /\ f \in [DOMAIN f -> Track]
BY DEF TrackLists

LEMMA SeqsAreLists ==
  ASSUME NEW s \in Seq(Track)
  PROVE  /\ s \in TrackLists /\ IsFiniteSet(DOMAIN s)
         /\ s # <<>> => DOMAIN s # {} /\ 1 \in DOMAIN s /\ Head(s) = s[1]
         /\ DOMAIN s = 1 .. Len(s) /\ \A n \in DOMAIN s : s[n] \in Track
<1>1. DOMAIN s = 1 .. Len(s) /\ Len(s) \in Nat /\ s \in [1 .. Len(s) -> Track]
  OBVIOUS
<1>2. DOMAIN s \subseteq Places
  BY <1>1 DEF Places
<1>3. s \in TrackLists
  BY <1>1, <1>2, ListFacts
<1>4. IsFiniteSet(DOMAIN s)
  BY <1>1, FS_Interval
<1>5. s # <<>> => Len(s) # 0 /\ Head(s) = s[1]
  OBVIOUS
<1>6. s # <<>> => 1 \in DOMAIN s
  <2>1. Len(s) # 0 => 1 \in 1 .. Len(s)
    BY <1>1
  <2> QED BY <1>1, <1>5, <2>1
<1>7. \A n \in DOMAIN s : s[n] \in Track
  BY <1>1
<1> QED BY <1>1, <1>3, <1>4, <1>5, <1>6, <1>7

LEMMA WithoutFacts ==
  ASSUME NEW f \in TrackLists, NEW T
  PROVE  /\ Without(f, T) \in TrackLists
         /\ DOMAIN Without(f, T) = {n \in DOMAIN f : f[n] \notin T}
         /\ DOMAIN Without(f, T) \subseteq DOMAIN f
         /\ \A n \in DOMAIN Without(f, T) : Without(f, T)[n] = f[n] /\ f[n] \notin T
         /\ IsFiniteSet(DOMAIN f) => IsFiniteSet(DOMAIN Without(f, T))
         /\ IsInjective(f) => IsInjective(Without(f, T))
<1> DEFINE D == {n \in DOMAIN f : f[n] \notin T}
<1>1. Without(f, T) = [n \in D |-> f[n]]
  BY DEF Without, Restrict
<1>2. DOMAIN f \subseteq Places /\ \A n \in DOMAIN f : f[n] \in Track
  BY ListFacts
<1>3. Without(f, T) \in TrackLists
  BY <1>1, <1>2, ListFacts
<1>4. IsFiniteSet(DOMAIN f) => IsFiniteSet(D)
  BY FS_Subset
<1>5. IsInjective(f) => IsInjective(Without(f, T))
  BY <1>1 DEF IsInjective
<1> QED BY <1>1, <1>3, <1>4, <1>5

LEMMA FreeFacts ==
  FreeReq \in Req /\ FreeReq.pc = "free" /\ FreeReq.id = 0 /\ FreeReq.prev = 0
<1>1. <<>> \in Seq(Track)
  OBVIOUS
<1>2. <<>> \in TrackLists
  BY <1>1, SeqsAreLists
<1> QED BY <1>2, NoRowFacts DEF FreeReq, Req, PcRequest, People

LEMMA PcFacts ==
  ASSUME NEW a \in Req, NEW pc \in PcRequest
  PROVE  LET r == [a EXCEPT !.pc = pc]
         IN r \in Req /\ r.pc = pc /\ r.user = a.user /\ r.tracks = a.tracks /\ r.id = a.id
            /\ r.pos = a.pos /\ r.old = a.old /\ r.prev = a.prev
BY DEF Req

--------------------------------------------------------------------------------
(* Ranks, first places and last positions. *)
LEMMA Least ==
  ASSUME NEW S, S \subseteq Nat, S # {}
  PROVE  \E x \in S : \A y \in S : x <= y
<1> DEFINE R == {ss \in Nat \X Nat : ss[1] < ss[2]}
<1>1. IsWellFoundedOn(R, Nat)
  BY NatLessThanWellFounded DEF OpToRel
<1>2. PICK x \in S : \A y \in S : <<y, x>> \notin R
  <2> HIDE DEF R
  <2> QED BY WFMin, <1>1
<1>3. \A y \in S : ~(y < x)
  BY <1>2
<1> QED BY <1>3

LEMMA MinFacts ==
  ASSUME NEW S, S \subseteq Nat, S # {}
  PROVE  Min(S) \in S
BY Least DEF Min

LEMMA RankFacts ==
  ASSUME NEW S, S \subseteq Nat, IsFiniteSet(S)
  PROVE  /\ \A x \in S : Rank(x, S) \in Nat /\ Rank(x, S) <= Cardinality(S)
         /\ \A x, y \in S : Rank(x, S) = Rank(y, S) => x = y
<1> DEFINE Below(x) == {y \in S : y < x}
<1>1. ASSUME NEW x \in S
      PROVE  IsFiniteSet(Below(x)) /\ Cardinality(Below(x)) \in Nat
             /\ Cardinality(Below(x)) <= Cardinality(S)
  BY FS_Subset, FS_CardinalityType
<1>2. ASSUME NEW x \in S, NEW y \in S, x < y
      PROVE  Cardinality(Below(x)) # Cardinality(Below(y))
  <2>0. x \in Nat /\ y \in Nat /\ \A z \in S : z \in Nat
    OBVIOUS
  <2>1. Below(x) \subseteq Below(y) /\ x \in Below(y) /\ x \notin Below(x)
    <3>1. \A z \in S : z < x => z < y
      BY <1>2, <2>0
    <3>2. ~(x < x)
      BY <2>0
    <3> QED BY <1>2, <3>1, <3>2
  <2>2. IsFiniteSet(Below(y))
    BY <1>1
  <2> HIDE DEF Below
  <2>3. Below(x) # Below(y) /\ Below(x) \in SUBSET Below(y)
    BY <2>1
  <2> QED BY <2>2, <2>3, FS_Subset
<1>3. \A x \in S : Rank(x, S) = Cardinality(Below(x))
  BY DEF Rank
<1>4. ASSUME NEW x \in S, NEW y \in S, Rank(x, S) = Rank(y, S)
      PROVE  x = y
  <2>1. x < y \/ y < x \/ x = y
    OBVIOUS
  <2> QED BY <1>2, <1>3, <1>4, <2>1
<1> QED BY <1>1, <1>3, <1>4

LEMMA LastFacts ==
  ASSUME RowsTyped, Bounded
  PROVE  LastPosition \in Nat /\ \A i \in Present : rows[i].pos <= LastPosition
<1> DEFINE P == {rows[i].pos : i \in Present} \cup {0}
           B == {n \in Nat : \A x \in P : x <= n}
<1>1. P \subseteq Nat /\ 0 \in P
  BY DEF RowsTyped, Present, Row
<1>2. B # {}
  BY DEF Bounded, Present
<1> HIDE DEF P
<1>3. PICK m \in B : \A n \in B : m <= n
  BY <1>2, Least
<1>4. m \in Nat /\ \A x \in P : x <= m
  BY <1>3
<1>5. m \in P
  <2>1. SUFFICES ASSUME m \notin P PROVE FALSE
    OBVIOUS
  <2>2. m # 0 /\ m - 1 \in Nat
    BY <1>1, <1>4, <2>1
  <2>3. \A x \in P : x <= m - 1
    BY <1>1, <1>4, <2>1
  <2>4. m - 1 \in B
    BY <2>2, <2>3
  <2>5. m <= m - 1
    BY <1>3, <2>4
  <2> QED BY <1>4, <2>5
<1>6. \A y \in P : m >= y
  BY <1>1, <1>4
<1>7. LastPosition = Max(P)
  BY DEF LastPosition, P
<1>8. Max(P) \in P /\ \A y \in P : Max(P) >= y
  BY <1>5, <1>6 DEF Max
<1>9. \A y \in P : y \in Nat /\ y <= LastPosition
  BY <1>1, <1>7, <1>8
<1>10. LastPosition \in Nat
  BY <1>1, <1>7, <1>8
<1> QED BY <1>9, <1>10 DEF P

--------------------------------------------------------------------------------
(* What the writes do to the rows. *)
LEMMA NewRowFacts ==
  ASSUME NEW t \in Track, NEW u \in People, NEW p \in Nat
  PROVE  LET row == NewRow(t, u, p)
         IN /\ row \in Row /\ row # NoRow /\ row.track = t /\ row.by = u /\ row.pos = p
            /\ row.version = 1 /\ row.played = FALSE /\ row.recent = (u \in QueueUser \ {Host})
<1>1. NewRow(t, u, p) \in Row
  BY DEF NewRow, Row
<1>2. t # NoTrack
  BY Consts
<1> QED BY <1>1, <1>2, NoRowFacts DEF NewRow

(* An addition fills free rows, each with another place of the list and at another
   position. *)
LEMMA SaveFacts ==
  ASSUME RowsTyped, NEW f \in TrackLists, IsFiniteSet(DOMAIN f), NEW u \in People, NEW p \in Nat,
         SaveRows(f, u, p)
  PROVE  /\ rows' \in [Id -> Row]
         /\ \E N \in SUBSET FreshIds : \E g \in [N -> DOMAIN f], q \in [N -> Nat] :
              /\ \A i, j \in N : i # j => g[i] # g[j] /\ q[i] # q[j]
              /\ \A i \in N : /\ rows'[i] = NewRow(f[g[i]], u, q[i])
                              /\ p <= q[i] /\ q[i] <= p + Cardinality(DOMAIN f)
              /\ \A i \in Id \ N : rows'[i] = rows[i]
<1> DEFINE D == DOMAIN f
           F == FreshIds
           N == {i \in F : \E n \in D : Rank(n, D) = Rank(i, F)}
           place(i) == CHOOSE n \in D : Rank(n, D) = Rank(i, F)
<1>1. rows' = [i \in Id |-> IF i \in F /\ \E n \in D : Rank(n, D) = Rank(i, F)
                            THEN NewRow(f[place(i)], u, p + Rank(place(i), D)) ELSE rows[i]]
  BY DEF SaveRows
<1>2. D \subseteq Nat /\ IsFiniteSet(D) /\ \A n \in D : f[n] \in Track
  BY ListFacts DEF Places
<1>3. F \subseteq Id /\ F \subseteq Nat /\ IsFiniteSet(F)
  BY Sizes, FS_Subset DEF FreshIds
<1> HIDE DEF D, F
<1>4. \A i \in N : place(i) \in D /\ Rank(place(i), D) = Rank(i, F)
  OBVIOUS
<1>5. \A i \in Id \ N : rows'[i] = rows[i]
  BY <1>1
<1>6. \A i \in N : rows'[i] = NewRow(f[place(i)], u, p + Rank(place(i), D))
  BY <1>1, <1>3
<1>7. \A n \in D : Rank(n, D) \in Nat /\ Rank(n, D) <= Cardinality(D)
  BY <1>2, RankFacts
<1>8. \A i, j \in F : Rank(i, F) = Rank(j, F) => i = j
  BY <1>3, RankFacts
<1> HIDE DEF place
<1> DEFINE g == [i \in N |-> place(i)]
           q == [i \in N |-> p + Rank(place(i), D)]
<1>9. g \in [N -> D] /\ q \in [N -> Nat]
  BY <1>4, <1>7
<1>10. \A i, j \in N : i # j => g[i] # g[j] /\ q[i] # q[j]
  <2>1. ASSUME NEW i \in N, NEW j \in N, i # j
        PROVE  Rank(place(i), D) # Rank(place(j), D)
    BY <1>4, <1>8, <2>1
  <2>2. \A i \in N : Rank(place(i), D) \in Nat
    BY <1>4, <1>7
  <2>3. \A i \in N : g[i] = place(i) /\ q[i] = p + Rank(place(i), D)
    OBVIOUS
  <2> HIDE DEF g, q, N
  <2>4. ASSUME NEW i \in N, NEW j \in N, i # j
        PROVE  g[i] # g[j] /\ q[i] # q[j]
    <3>1. place(i) # place(j)
      BY <2>1, <2>4
    <3>2. p + Rank(place(i), D) # p + Rank(place(j), D)
      BY <2>1, <2>2, <2>4
    <3> QED BY <2>3, <3>1, <3>2
  <2> QED BY <2>4
<1>11. \A i \in N : p <= q[i] /\ q[i] <= p + Cardinality(D)
  <2>1. Cardinality(D) \in Nat
    BY <1>2, FS_CardinalityType
  <2> QED BY <1>4, <1>7, <2>1
<1>12. \A i \in N : rows'[i] = NewRow(f[g[i]], u, q[i])
  BY <1>6
<1>13. \A i \in N : rows'[i] \in Row
  <2>1. ASSUME NEW i \in N
        PROVE  f[g[i]] \in Track /\ q[i] \in Nat
    BY <1>2, <1>9
  <2> HIDE DEF N, g, q
  <2>2. ASSUME NEW i \in N
        PROVE  NewRow(f[g[i]], u, q[i]) \in Row
    BY <2>1, NewRowFacts
  <2> QED BY <1>12, <2>2
<1>14. N \in SUBSET F
  OBVIOUS
<1> HIDE DEF N, g, q
<1>15. rows' \in [Id -> Row]
  <2>1. \A i \in Id : rows'[i] \in Row
    BY <1>5, <1>13 DEF RowsTyped
  <2>2. rows' = [i \in Id |-> rows'[i]]
    BY <1>1
  <2> QED BY <2>1, <2>2
<1> QED BY <1>5, <1>9, <1>10, <1>11, <1>12, <1>14, <1>15 DEF D, F

--------------------------------------------------------------------------------
(* Types, and what a request knows of its list and of its row. *)
(* A row that is there keeps its track and its owner, and a row that comes has an id no
   request holds. *)
RowsStay == \A i \in Id : rows'[i] # NoRow =>
  \/ rows[i] # NoRow /\ rows'[i].track = rows[i].track /\ rows'[i].by = rows[i].by
  \/ \A j \in Slot : req[j].id # i /\ req[j].prev # i

LEMMA AddPcs ==
  /\ PcAdd = {"addRoom", "addDup", "addNow", "addCooldown", "addQuota", "addMax", "addSave"}
  /\ PcPrevious = {"prevFind", "prevCurrent", "prevEarlier", "prevMark"}
  /\ PcPlays = {"autoStatus", "playMark", "prevCurrent", "prevEarlier", "prevMark"}
  /\ PcAdd \subseteq PcRequest /\ PcPrevious \subseteq PcRequest /\ PcPlays \subseteq PcRequest
  /\ PcAdd \cap (PcPrevious \cup PcPlays) = {} /\ "reorderWrite" \notin PcAdd
  /\ "removeRoom" \notin PcAdd /\ "removeRow" \notin PcAdd /\ "free" \notin PcAdd
  /\ {"free", "removeRoom", "removeRow", "reorderWrite", "autoStatus", "playMark"}
       \subseteq PcRequest
BY DEF PcAdd, PcPrevious, PcPlays, PcRequest

LEMMA TypesParts ==
  TypesInv <=> RowsTyped /\ PlayTyped /\ ReqsTyped /\ Bounded /\ ReqsKnown
BY DEF TypesInv

LEMMA KnownAfter ==
  ASSUME TypesInv, NEW k \in Slot, NEW r \in Req, req' = [req EXCEPT ![k] = r],
         ListKnown(r), RowKnown(r, rows'), RowsStay
  PROVE  ReqsTyped' /\ ReqsKnown'
<1>1. /\ req \in [Slot -> Req] /\ req'[k] = r /\ \A j \in Slot : j # k => req'[j] = req[j]
      /\ req' \in [Slot -> Req]
  BY TypesParts DEF ReqsTyped
<1>2. ASSUME NEW j \in Slot
      PROVE  ListKnown(req'[j]) /\ RowKnown(req'[j], rows')
  <2>1. CASE j = k
    BY <1>1, <2>1
  <2>2. CASE j # k
    <3>1. ListKnown(req[j]) /\ RowKnown(req[j], rows)
      BY TypesParts DEF ReqsKnown
    <3>2. RowKnown(req[j], rows')
      BY <3>1 DEF RowKnown, RowsStay
    <3> QED BY <1>1, <2>2, <3>1, <3>2
  <2> QED BY <2>1, <2>2
<1>3. ReqsKnown'
  BY <1>2 DEF ReqsKnown
<1> QED BY <1>1, <1>3 DEF ReqsTyped

LEMMA KnownStays ==
  ASSUME TypesInv, UNCHANGED req, RowsStay
  PROVE  ReqsTyped' /\ ReqsKnown'
<1>1. ASSUME NEW j \in Slot
      PROVE  ListKnown(req[j]) /\ RowKnown(req[j], rows')
  <2>1. ListKnown(req[j]) /\ RowKnown(req[j], rows)
    BY TypesParts DEF ReqsKnown
  <2> QED BY <2>1 DEF RowKnown, RowsStay
<1>2. ReqsKnown'
  BY <1>1 DEF ReqsKnown
<1> QED BY <1>2, TypesParts DEF ReqsTyped

(* A step of a request that writes no row. *)
LEMMA MoveTypes ==
  ASSUME TypesInv, NEW k \in Slot, NEW r \in Req, req' = [req EXCEPT ![k] = r],
         ListKnown(r), RowKnown(r, rows), KeepPlayback, UNCHANGED <<rows, given>>,
         queueCalls' \in Nat, overlap' \subseteq OverlapKinds
  PROVE  TypesInv'
<1>1. RowsStay
  BY DEF RowsStay
<1>2. ReqsTyped' /\ ReqsKnown'
  BY <1>1, KnownAfter
<1>3. RowsTyped' /\ PlayTyped' /\ Bounded'
  BY TypesParts DEF RowsTyped, PlayTyped, Bounded, Present, OverlapKinds, KeepPlayback
<1> QED BY <1>2, <1>3 DEF TypesInv

LEMMA OverTypes ==
  ASSUME TypesInv, NEW k \in Slot, Over(k), KeepPlayback, UNCHANGED <<rows, given>>,
         queueCalls' \in Nat, overlap' \subseteq OverlapKinds
  PROVE  TypesInv'
<1>1. ListKnown(FreeReq) /\ RowKnown(FreeReq, rows)
  BY FreeFacts, AddPcs DEF ListKnown, RowKnown
<1> QED BY <1>1, FreeFacts, MoveTypes DEF Over

LEMMA ReqKnown ==
  ASSUME TypesInv, NEW k \in Slot
  PROVE  /\ req[k] \in Req /\ ListKnown(req[k]) /\ RowKnown(req[k], rows)
         /\ req[k].tracks \in TrackLists /\ req[k].user \in People /\ req[k].pos \in Nat
         /\ req[k].old \in Row /\ req[k].id \in Id \cup {0} /\ req[k].pc \in PcRequest
         /\ req[k].prev \in Id \cup {0}
         /\ queueCalls \in Nat /\ overlap \subseteq OverlapKinds
         /\ \A n \in DOMAIN req[k].tracks : n \in Nat /\ req[k].tracks[n] \in Track
<1>1. req[k] \in Req
  BY TypesParts DEF ReqsTyped
<1>2. ListKnown(req[k]) /\ RowKnown(req[k], rows)
  BY TypesParts DEF ReqsKnown
<1>3. queueCalls \in Nat /\ overlap \subseteq OverlapKinds
  BY TypesParts DEF PlayTyped, OverlapKinds
<1>4. /\ req[k].tracks \in TrackLists /\ req[k].user \in People /\ req[k].pos \in Nat
      /\ req[k].old \in Row /\ req[k].id \in Id \cup {0} /\ req[k].pc \in PcRequest
      /\ req[k].prev \in Id \cup {0}
  BY <1>1 DEF Req
<1>5. \A n \in DOMAIN req[k].tracks : n \in Nat /\ req[k].tracks[n] \in Track
  BY <1>4, ListFacts DEF Places
<1> QED BY <1>1, <1>2, <1>3, <1>4, <1>5

(* The requests that begin. *)
LEMMA AddBegins ==
  ASSUME NEW u \in People, NEW f \in TrackLists
  PROVE  LET r == [FreeReq EXCEPT !.pc = "addRoom", !.user = u, !.tracks = f]
         IN r \in Req /\ r.pc = "addRoom" /\ r.user = u /\ r.tracks = f /\ r.id = 0
BY FreeFacts DEF Req, PcRequest, PcAdd

LEMMA RemoveBegins ==
  ASSUME NEW u \in People, NEW i \in Id
  PROVE  LET r == [FreeReq EXCEPT !.pc = "removeRoom", !.user = u, !.id = i]
         IN r \in Req /\ r.pc = "removeRoom" /\ r.user = u /\ r.id = i
BY FreeFacts DEF Req, PcRequest

LEMMA AutoBegins ==
  ASSUME NEW f \in TrackLists
  PROVE  LET r == [FreeReq EXCEPT !.pc = "autoStatus", !.tracks = f]
         IN r \in Req /\ r.pc = "autoStatus" /\ r.tracks = f /\ r.id = 0
BY FreeFacts DEF Req, PcRequest

(* The ways from query to query of an addition. *)
LEMMA GotoTypes ==
  ASSUME TypesInv, NEW k \in Slot, NEW pc \in PcRequest, Goto(k, pc), KeepQueue,
         \/ pc \in {"addQuota", "addMax"} /\ req[k].pc \in PcAdd
              /\ req[k].pc \notin {"addRoom", "addDup", "addNow"}
         \/ pc = "removeRow"
  PROVE  TypesInv'
<1> DEFINE r == [req[k] EXCEPT !.pc = pc]
<1>1. r \in Req /\ r.pc = pc /\ r.user = req[k].user /\ r.tracks = req[k].tracks
  BY ReqKnown, PcFacts
<1>2. req' = [req EXCEPT ![k] = r]
  BY DEF Goto
<1> HIDE DEF r
<1>3. ListKnown(r) /\ RowKnown(r, rows)
  BY <1>1, ReqKnown, AddPcs DEF ListKnown, RowKnown
<1> QED BY <1>1, <1>2, <1>3, ReqKnown, MoveTypes DEF KeepQueue

LEMMA AddTypes ==
  ASSUME TypesInv, NEW k \in Slot,
         AddRoom(k) \/ AddDup(k) \/ AddNow(k) \/ AddCooldown(k) \/ AddQuota(k) \/ AddMax(k)
  PROVE  TypesInv'
<1>1. KeepQueue
  BY DEF AddRoom, AddDup, AddNow, AddCooldown, AddQuota, AddMax
<1>2. CASE Over(k)
  BY <1>1, <1>2, ReqKnown, OverTypes DEF KeepQueue
<1>3. PICK a \in Req : a = req[k]
  BY ReqKnown
<1>4. PICK t \in TrackLists : t = req[k].tracks
  BY ReqKnown
<1>5. /\ ListKnown(a) /\ a.tracks = t /\ \A n \in DOMAIN t : n \in Nat
      /\ queueCalls' \in Nat /\ overlap' \subseteq OverlapKinds
  BY <1>1, <1>3, <1>4, ReqKnown DEF KeepQueue
<1>6. ASSUME NEW r \in Req, req' = [req EXCEPT ![k] = r], ListKnown(r), r.pc # "reorderWrite",
             r.pc # "prevCurrent", r.pc # "prevEarlier"
      PROVE  TypesInv'
  <2>1. RowKnown(r, rows)
    BY <1>6 DEF RowKnown
  <2> QED BY <1>1, <1>5, <1>6, <2>1, MoveTypes DEF KeepQueue
<1>7. CASE AddRoom(k) /\ ~Over(k)
  <2>1. /\ a.pc = "addRoom" /\ (a.user = Host \/ ~(Len(t) > MaxSelect))
        /\ req' = [req EXCEPT ![k] = [a EXCEPT !.pc = "addDup"]]
    BY <1>3, <1>4, <1>7 DEF AddRoom, Goto
  <2>2. t \in Seq(Track) /\ t # <<>> /\ IsFiniteSet(DOMAIN t)
    BY <1>5, <2>1, AddPcs DEF ListKnown
  <2>3. a.user # Host => DOMAIN t \subseteq 1 .. MaxSelect
    <3>1. ASSUME a.user # Host, NEW n \in DOMAIN t
          PROVE  n \in 1 .. MaxSelect
      <4>1. DOMAIN t = 1 .. Len(t) /\ Len(t) \in Nat
        BY <2>2
      <4>2. MaxSelect \in Nat /\ Len(t) <= MaxSelect
        BY <2>1, <3>1, <4>1, Consts
      <4> QED BY <3>1, <4>1, <4>2
    <3> QED BY <3>1
  <2>4. "addDup" \in PcRequest
    BY AddPcs
  <2>5. PICK r \in Req : /\ r = [a EXCEPT !.pc = "addDup"] /\ r.pc = "addDup" /\ r.user = a.user
                          /\ r.tracks = t
    BY <1>5, <2>4, PcFacts
  <2>6. ListKnown(r)
    BY <2>2, <2>3, <2>5, AddPcs DEF ListKnown
  <2> QED BY <1>6, <2>1, <2>5, <2>6
<1>8. CASE AddDup(k)
  <2>2. PICK w : w = Without(t, QueuedTracks)
    OBVIOUS
  <2>3. PICK r : r = [a EXCEPT !.pc = "addNow", !.tracks = w]
    OBVIOUS
  <2>5. a.pc = "addDup" /\ req' = [req EXCEPT ![k] = r]
    BY <1>3, <1>4, <1>8, <2>2, <2>3 DEF AddDup
  <2>6. IsFiniteSet(DOMAIN t) /\ (a.user # Host => DOMAIN t \subseteq 1 .. MaxSelect)
    BY <1>5, <2>5, AddPcs DEF ListKnown
  <2>7. w \in TrackLists /\ IsFiniteSet(DOMAIN w) /\ DOMAIN w \subseteq DOMAIN t
    BY <2>2, <2>6, WithoutFacts
  <2>8. "addNow" \in PcRequest
    BY AddPcs
  <2>9. r \in Req /\ r.pc = "addNow" /\ r.user = a.user /\ r.tracks = w
    BY <2>3, <2>7, <2>8 DEF Req
  <2>10. ListKnown(r)
    BY <2>6, <2>7, <2>9, AddPcs DEF ListKnown
  <2> QED BY <1>6, <2>5, <2>9, <2>10
<1>9. CASE AddNow(k) /\ ~Over(k)
  <2>1. PICK pc : pc = IF a.user = Host THEN "addMax"
                       ELSE IF Cooldown THEN "addCooldown" ELSE "addQuota"
    OBVIOUS
  <2>2. PICK w : w = Without(t, {playing})
    OBVIOUS
  <2>3. PICK r : r = [a EXCEPT !.tracks = w, !.pc = pc]
    OBVIOUS
  <2>4. a.pc = "addNow" /\ DOMAIN w # {} /\ req' = [req EXCEPT ![k] = r]
    BY <1>3, <1>4, <1>9, <2>1, <2>2, <2>3 DEF AddNow
  <2>5. IsFiniteSet(DOMAIN t) /\ (a.user # Host => DOMAIN t \subseteq 1 .. MaxSelect)
    BY <1>5, <2>4, AddPcs DEF ListKnown
  <2>6. w \in TrackLists /\ IsFiniteSet(DOMAIN w) /\ DOMAIN w \subseteq DOMAIN t
    BY <2>2, <2>5, WithoutFacts
  <2>7. pc \in PcRequest /\ (pc = "addMax" \/ pc = "addCooldown" \/ pc = "addQuota")
    BY <2>1, AddPcs
  <2>8. r \in Req /\ r.pc = pc /\ r.user = a.user /\ r.tracks = w
    BY <2>3, <2>6, <2>7 DEF Req
  <2>9. ListKnown(r)
    BY <2>4, <2>5, <2>6, <2>7, <2>8, AddPcs DEF ListKnown
  <2>10. r.pc # "reorderWrite" /\ r.pc # "prevCurrent" /\ r.pc # "prevEarlier"
    BY <2>7, <2>8
  <2> QED BY <1>6, <2>4, <2>8, <2>9, <2>10
<1>10. CASE AddCooldown(k) /\ ~Over(k)
  BY <1>1, <1>10, AddPcs, GotoTypes DEF AddCooldown
<1>11. CASE AddQuota(k) /\ ~Over(k)
  BY <1>1, <1>11, AddPcs, GotoTypes DEF AddQuota
<1>12. CASE AddMax(k)
  <2>1. a.pc = "addMax" /\ req' = [req EXCEPT ![k] = [a EXCEPT !.pc = "addSave",
                                                              !.pos = LastPosition + 1]]
    BY <1>3, <1>12 DEF AddMax
  <2>2. LastPosition + 1 \in Nat
    BY TypesParts, LastFacts
  <2>3. "addSave" \in PcRequest
    BY AddPcs
  <2>4. PICK r : r = [a EXCEPT !.pc = "addSave", !.pos = LastPosition + 1]
    OBVIOUS
  <2>5. r \in Req /\ r.pc = "addSave" /\ r.user = a.user /\ r.tracks = t
    BY <1>5, <2>2, <2>3, <2>4 DEF Req
  <2>6. ListKnown(r)
    BY <1>5, <2>1, <2>5, AddPcs DEF ListKnown
  <2> QED BY <1>6, <2>1, <2>4, <2>5, <2>6
<1> QED BY <1>2, <1>7, <1>8, <1>9, <1>10, <1>11, <1>12

LEMMA BeginTypes ==
  ASSUME TypesInv, NEW k \in Slot,
         \/ \E u \in People, s \in Lists : AddTracks(k, u, s)
         \/ \E u \in People, i \in Id : RemoveTrack(k, u, i)
         \/ \E i \in Present, p \in Id : Reorder(k, i, p)
         \/ RemoveRoom(k)
  PROVE  TypesInv'
<1>1. queueCalls \in Nat /\ overlap \subseteq OverlapKinds
  BY ReqKnown
<1> DEFINE same == KeepPlayback /\ UNCHANGED <<rows, given>>
<1>6. ASSUME NEW r \in Req, req' = [req EXCEPT ![k] = r], ListKnown(r), RowKnown(r, rows),
             queueCalls' = queueCalls + 1, same, overlap' \subseteq OverlapKinds
      PROVE  TypesInv'
  <2>1. queueCalls' \in Nat
    BY <1>1, <1>6
  <2> QED BY <1>6, <2>1, MoveTypes
<1>2. CASE \E u \in People, s \in Lists : AddTracks(k, u, s)
  <2>1. PICK u \in People, s \in Lists : AddTracks(k, u, s)
    BY <1>2
  <2>2. s \in Seq(Track) /\ s # <<>>
    BY Consts
  <2>3. PICK r : r = [FreeReq EXCEPT !.pc = "addRoom", !.user = u, !.tracks = s]
    OBVIOUS
  <2>4. r \in Req /\ r.pc = "addRoom" /\ r.tracks = s
    <3>1. s \in TrackLists
      BY <2>2, SeqsAreLists
    <3> QED BY <2>3, <3>1, AddBegins
  <2>5. ListKnown(r) /\ RowKnown(r, rows)
    BY <2>2, <2>4, SeqsAreLists DEF ListKnown, RowKnown
  <2>6. /\ req' = [req EXCEPT ![k] = r] /\ queueCalls' = queueCalls + 1
        /\ same
    BY <2>1, <2>3 DEF AddTracks, Begin
  <2>7. overlap' \subseteq OverlapKinds
    BY <1>1, <2>1 DEF AddTracks, Overlaps, OverlapKinds
  <2> HIDE DEF same
  <2> QED BY <1>6, <2>4, <2>5, <2>6, <2>7
<1>3. CASE \E u \in People, i \in Id : RemoveTrack(k, u, i)
  <2>1. PICK u \in People, i \in Id : RemoveTrack(k, u, i)
    BY <1>3
  <2>2. PICK r : r = [FreeReq EXCEPT !.pc = "removeRoom", !.user = u, !.id = i]
    OBVIOUS
  <2>3. r \in Req /\ r.pc = "removeRoom"
    BY <2>2, RemoveBegins
  <2>4. ListKnown(r) /\ RowKnown(r, rows)
    BY <2>3, AddPcs DEF ListKnown, RowKnown
  <2>5. /\ req' = [req EXCEPT ![k] = r] /\ queueCalls' = queueCalls + 1
        /\ same /\ overlap' = overlap
    BY <2>1, <2>2 DEF RemoveTrack, Begin
  <2> HIDE DEF same
  <2> QED BY <1>1, <1>6, <2>3, <2>4, <2>5
<1>4. CASE \E i \in Present, p \in Id : Reorder(k, i, p)
  <2>1. PICK i \in Present, p \in Id : Reorder(k, i, p)
    BY <1>4
  <2>2. PICK r : r = [FreeReq EXCEPT !.pc = "reorderWrite", !.id = i, !.pos = p, !.old = rows[i]]
    OBVIOUS
  <2>3. i \in Id /\ p \in Nat /\ rows[i] \in Row /\ rows[i].track \in Track /\ rows[i].version # 0
    BY TypesParts, Sizes DEF RowsTyped, Present
  <2>4. r \in Req /\ r.pc = "reorderWrite" /\ r.id = i /\ r.old = rows[i]
    <3>1. PICK row \in Row : row = rows[i]
      BY <2>3
    <3>2. p \in Nat /\ i \in Id \cup {0} /\ "reorderWrite" \in PcRequest
      BY <2>3, AddPcs
    <3>3. r = [FreeReq EXCEPT !.pc = "reorderWrite", !.id = i, !.pos = p, !.old = row]
      BY <2>2, <3>1
    <3> QED BY <3>1, <3>2, <3>3, FreeFacts DEF Req
  <2>5. ListKnown(r) /\ RowKnown(r, rows)
    BY <2>3, <2>4, AddPcs DEF ListKnown, RowKnown
  <2>6. /\ req' = [req EXCEPT ![k] = r] /\ queueCalls' = queueCalls + 1
        /\ same
    BY <2>1, <2>2 DEF Reorder, Begin
  <2>7. overlap' \subseteq OverlapKinds
    BY <1>1, <2>1 DEF Reorder, Overlaps, OverlapKinds
  <2> HIDE DEF same
  <2> QED BY <1>6, <2>4, <2>5, <2>6, <2>7
<1>5. CASE RemoveRoom(k)
  <2>1. CASE Over(k)
    BY <1>1, <1>5, <2>1, OverTypes DEF RemoveRoom, KeepQueue
  <2>2. CASE Goto(k, "removeRow")
    BY <1>5, <2>2, AddPcs, GotoTypes DEF RemoveRoom
  <2> QED BY <1>5, <2>1, <2>2 DEF RemoveRoom
<1> QED BY <1>2, <1>3, <1>4, <1>5

(* The writes of the rows. *)
LEMMA RowIds ==
  /\ \A i \in Present : i \in Id
  /\ \A i \in FreshIds : i \in Id /\ rows[i] = NoRow
                          /\ \A j \in Slot : req[j].id # i /\ req[j].prev # i
<1>1. ASSUME NEW i \in FreshIds, NEW j \in Slot
      PROVE  req[j].id # i /\ req[j].prev # i
  <2>1. {req[j].id, req[j].prev} \in {{req[k].id, req[k].prev} : k \in Slot}
    OBVIOUS
  <2>2. req[j].id \in UNION {{req[k].id, req[k].prev} : k \in Slot}
        /\ req[j].prev \in UNION {{req[k].id, req[k].prev} : k \in Slot}
    BY <2>1
  <2> QED BY <2>2 DEF FreshIds
<1> QED BY <1>1 DEF Present, FreshIds

LEMMA SaveTypes ==
  ASSUME TypesInv, NEW k \in Slot, AddSave(k)
  PROVE  TypesInv'
<1>1. PICK f \in TrackLists : f = req[k].tracks
  BY ReqKnown
<1>2. PICK u \in People : u = req[k].user
  BY ReqKnown
<1>3. PICK p \in Nat : p = req[k].pos
  BY ReqKnown
<1>4. /\ IsFiniteSet(DOMAIN f) /\ DOMAIN f # {} /\ SaveRows(f, u, p)
      /\ DOMAIN f \subseteq Nat /\ \A n \in DOMAIN f : f[n] \in Track
  <2>1. req[k].pc = "addSave" /\ SaveRows(f, u, p)
    BY <1>1, <1>2, <1>3 DEF AddSave
  <2>2. IsFiniteSet(DOMAIN f) /\ DOMAIN f # {}
    BY <1>1, <2>1, AddPcs, ReqKnown DEF ListKnown
  <2> QED BY <2>1, <2>2, ListFacts DEF Places
<1>5. /\ rows' \in [Id -> Row]
      /\ \E N \in SUBSET FreshIds : \E g \in [N -> DOMAIN f], q \in [N -> Nat] :
           /\ \A i, j \in N : i # j => g[i] # g[j] /\ q[i] # q[j]
           /\ \A i \in N : /\ rows'[i] = NewRow(f[g[i]], u, q[i])
                           /\ p <= q[i] /\ q[i] <= p + Cardinality(DOMAIN f)
           /\ \A i \in Id \ N : rows'[i] = rows[i]
  BY <1>4, TypesParts, SaveFacts
<1>6. PICK N \in SUBSET FreshIds : \E g \in [N -> DOMAIN f], q \in [N -> Nat] :
           /\ \A i \in N : /\ rows'[i] = NewRow(f[g[i]], u, q[i])
                           /\ p <= q[i] /\ q[i] <= p + Cardinality(DOMAIN f)
           /\ \A i \in Id \ N : rows'[i] = rows[i]
  BY <1>5
<1>7. PICK g \in [N -> DOMAIN f], q \in [N -> Nat] :
           /\ \A i \in N : /\ rows'[i] = NewRow(f[g[i]], u, q[i])
                           /\ p <= q[i] /\ q[i] <= p + Cardinality(DOMAIN f)
           /\ \A i \in Id \ N : rows'[i] = rows[i]
  BY <1>6
<1>8. ASSUME NEW i \in N
      PROVE  /\ rows'[i].track \in Track /\ rows'[i].version # 0
             /\ rows'[i].pos <= p + Cardinality(DOMAIN f)
             /\ rows[i] = NoRow /\ \A j \in Slot : req[j].id # i /\ req[j].prev # i
  <2>1. PICK t \in Track, n \in Nat : t = f[g[i]] /\ n = q[i]
    BY <1>4, <1>7
  <2>2. rows'[i] = NewRow(t, u, n)
    BY <1>7, <2>1
  <2>3. rows'[i].track \in Track /\ rows'[i].version # 0 /\ rows'[i].pos = q[i]
    BY <2>1, <2>2 DEF NewRow
  <2> QED BY <1>7, <2>1, <2>3, RowIds
<1>9. RowsTyped'
  BY <1>5, <1>7, <1>8, TypesParts DEF RowsTyped, Present
<1>10. Bounded'
  <2>1. PICK b \in Nat : \A i \in Id : rows[i].pos <= b
    BY TypesParts DEF Bounded
  <2>2. PICK c \in Nat : c = p + Cardinality(DOMAIN f)
    BY <1>4, FS_CardinalityType
  <2>3. ASSUME NEW i \in Id
        PROVE  rows'[i].pos <= b + c
    <3>1. rows'[i].pos \in Nat
      BY <1>5 DEF Row
    <3>2. rows'[i].pos <= b \/ rows'[i].pos <= c
      BY <1>7, <1>8, <2>1, <2>2
    <3> QED BY <3>1, <3>2
  <2>4. b + c \in Nat
    OBVIOUS
  <2> QED BY <2>3, <2>4 DEF Bounded
<1>11. RowsStay
  BY <1>7, <1>8 DEF RowsStay
<1>12. PICK r : r = [FreeReq EXCEPT !.pc = "autoStatus",
                                    !.tracks = <<req[k].tracks[Min(DOMAIN req[k].tracks)]>>]
  OBVIOUS
<1>13. r \in Req /\ ListKnown(r) /\ RowKnown(r, rows')
  <2>1. PICK t \in Track : t = req[k].tracks[Min(DOMAIN req[k].tracks)]
    BY <1>1, <1>4, MinFacts
  <2>2. <<t>> \in Seq(Track) /\ <<t>> # <<>>
    OBVIOUS
  <2>3. r \in Req /\ r.pc = "autoStatus" /\ r.tracks = <<t>>
    BY <1>12, <2>1, <2>2, SeqsAreLists, AutoBegins
  <2> QED BY <2>2, <2>3, AddPcs DEF ListKnown, RowKnown
<1>14. req' = [req EXCEPT ![k] = r] /\ KeepPlayback /\ UNCHANGED <<queueCalls, overlap, given>>
  BY <1>12 DEF AddSave
<1>15. ReqsTyped' /\ ReqsKnown'
  BY <1>11, <1>13, <1>14, KnownAfter
<1>16. PlayTyped'
  BY <1>14, TypesParts DEF PlayTyped, KeepPlayback
<1> QED BY <1>9, <1>10, <1>15, <1>16 DEF TypesInv

(* A play marks the rows of its track. *)
LEMMA MarkedFacts ==
  ASSUME RowsTyped, NEW t \in Track, rows' = Marked(t)
  PROVE  /\ rows' \in [Id -> Row]
         /\ \A i \in Id : rows'[i] # NoRow <=> rows[i] # NoRow
         /\ \A i \in Id : /\ rows'[i].track = rows[i].track /\ rows'[i].by = rows[i].by
                          /\ rows'[i].pos = rows[i].pos /\ rows'[i].recent = rows[i].recent
                          /\ rows'[i].version = rows[i].version
                          /\ rows'[i].played = (rows[i].played \/ rows[i].track = t)
<1>1. rows \in [Id -> Row] /\ t # NoTrack
  BY Consts DEF RowsTyped
<1>2. ASSUME NEW i \in Id
      PROVE  /\ rows'[i] \in Row
             /\ rows'[i] # NoRow <=> rows[i] # NoRow
             /\ rows'[i].track = rows[i].track /\ rows'[i].by = rows[i].by
             /\ rows'[i].pos = rows[i].pos /\ rows'[i].recent = rows[i].recent
             /\ rows'[i].version = rows[i].version
             /\ rows'[i].played = (rows[i].played \/ rows[i].track = t)
  <2>1. PICK a \in Row : a = rows[i]
    BY <1>1
  <2>2. CASE a.track = t
    <3>1. rows'[i] = [a EXCEPT !.played = TRUE]
      BY <2>1, <2>2 DEF Marked
    <3>2. /\ rows'[i] \in Row /\ rows'[i].track = a.track /\ rows'[i].by = a.by
          /\ rows'[i].pos = a.pos /\ rows'[i].recent = a.recent /\ rows'[i].version = a.version
          /\ rows'[i].played = TRUE
      BY <3>1 DEF Row
    <3>3. rows'[i] # NoRow /\ a # NoRow
      BY <1>1, <2>2, <3>2, NoRowFacts
    <3> QED BY <2>1, <2>2, <3>2, <3>3
  <2>3. CASE a.track # t
    <3>1. rows'[i] = a
      BY <2>1, <2>3 DEF Marked
    <3>2. a.played \in BOOLEAN
      BY DEF Row
    <3> QED BY <2>1, <2>3, <3>1, <3>2
  <2> QED BY <2>2, <2>3
<1>3. rows' = [i \in Id |-> rows'[i]]
  BY DEF Marked
<1> QED BY <1>2, <1>3

(* A reorder writes one row back and shifts the others that wait. *)
MovedPos(p, a, b) == IF a < p /\ p <= b THEN p - 1 ELSE IF b <= p /\ p < a THEN p + 1 ELSE p

LEMMA ShiftedFacts ==
  ASSUME NEW row \in Row, NEW a \in Nat, NEW b \in Nat
  PROVE  LET new == Shifted(row, a, b)
         IN /\ new \in Row /\ new.track = row.track /\ new.by = row.by /\ new.played = row.played
            /\ new.recent = row.recent /\ new.version = row.version
            /\ new.pos = IF row.played THEN row.pos ELSE MovedPos(row.pos, a, b)
            /\ new.pos <= row.pos + 1
<1>1. row.pos \in Nat
  BY DEF Row
<1>2. a < row.pos => row.pos - 1 \in Nat
  BY <1>1
<1>3. row.pos + 1 \in Nat
  BY <1>1
<1> QED BY <1>1, <1>2, <1>3 DEF Shifted, MovedPos, Row

LEMMA ReorderFacts ==
  ASSUME TypesInv, NEW k \in Slot, ReorderWrite(k)
  PROVE  /\ rows' \in [Id -> Row]
         /\ req[k].pc = "reorderWrite" /\ req[k].id \in Id
         /\ \A i \in Id : rows'[i] # NoRow <=> rows[i] # NoRow
         /\ \A i \in Present : /\ rows'[i].track = rows[i].track /\ rows'[i].by = rows[i].by
                               /\ rows'[i].recent = rows[i].recent /\ rows'[i].version # 0
                               /\ rows'[i].pos <= rows[i].pos + 1 + req[k].pos
         /\ \A i \in Present : i # req[k].id =>
              /\ rows'[i].played = rows[i].played
              /\ rows'[i].pos = IF rows[i].played THEN rows[i].pos
                                ELSE MovedPos(rows[i].pos, req[k].old.pos, req[k].pos)
         /\ req[k].id \in Present => /\ rows'[req[k].id].played = req[k].old.played
                                     /\ rows'[req[k].id].pos = req[k].pos
<1>1. PICK h \in Id : h = req[k].id
  BY ReqKnown DEF ReorderWrite, RowKnown
<1>2. PICK old \in Row, p \in Nat : old = req[k].old /\ p = req[k].pos
  BY ReqKnown
<1>3. PICK moved : moved = [old EXCEPT !.pos = p, !.version = @ + 1, !.recent = rows[h].recent]
  OBVIOUS
<1>4. /\ rows' = [i \in Id |-> IF rows[i] = NoRow THEN NoRow
                               ELSE IF i = h THEN moved ELSE Shifted(rows[i], old.pos, p)]
      /\ req[k].pc = "reorderWrite"
  BY <1>1, <1>2, <1>3 DEF ReorderWrite
<1>5. /\ old.track \in Track /\ old.version # 0 /\ old.pos \in Nat /\ old.version \in Nat
      /\ rows[h] # NoRow => rows[h].track = old.track /\ rows[h].by = old.by
  BY <1>1, <1>2, <1>4, ReqKnown DEF RowKnown, Row
<1>6. rows \in [Id -> Row] /\ \A i \in Present : rows[i].track \in Track /\ rows[i].version # 0
  BY TypesParts DEF RowsTyped
<1>7. rows[h].recent \in BOOLEAN /\ rows[h].pos \in Nat
  BY <1>6 DEF Row
<1>8. old.version + 1 \in Nat /\ old.version + 1 # 0
  BY <1>5
<1>9. /\ moved \in Row /\ moved.track = old.track /\ moved.by = old.by /\ moved.pos = p
      /\ moved.played = old.played /\ moved.recent = rows[h].recent /\ moved.version # 0
  BY <1>3, <1>5, <1>7, <1>8 DEF Row
<1>10. ASSUME NEW i \in Id, rows[i] = NoRow
       PROVE  rows'[i] = NoRow /\ rows'[i] \in Row
  BY <1>4, <1>10, NoRowFacts
<1>11. ASSUME NEW i \in Present, i = h
       PROVE  /\ rows'[i] = moved /\ rows'[i] # NoRow /\ rows'[i].track = rows[i].track
              /\ rows'[i].by = rows[i].by /\ rows'[i].pos <= rows[i].pos + 1 + p
  <2>1. rows[h] # NoRow /\ rows'[i] = moved
    BY <1>4, <1>11 DEF Present
  <2>2. moved # NoRow
    BY <1>5, <1>9, NoRowFacts, Consts
  <2>3. p <= rows[h].pos + 1 + p
    BY <1>7
  <2> QED BY <1>5, <1>9, <1>11, <2>1, <2>2, <2>3
<1>12. ASSUME NEW i \in Present, i # h
       PROVE  /\ rows'[i] \in Row /\ rows'[i] # NoRow /\ rows'[i].track = rows[i].track
              /\ rows'[i].by = rows[i].by /\ rows'[i].recent = rows[i].recent
              /\ rows'[i].version # 0 /\ rows'[i].pos <= rows[i].pos + 1 + p
              /\ rows'[i].played = rows[i].played
              /\ rows'[i].pos = IF rows[i].played THEN rows[i].pos
                                ELSE MovedPos(rows[i].pos, old.pos, p)
  <2>1. PICK row \in Row : row = rows[i] /\ row # NoRow
    BY <1>6 DEF Present
  <2>2. PICK a \in Nat : a = old.pos
    BY <1>5
  <2>3. PICK new : new = Shifted(row, a, p)
    OBVIOUS
  <2>4. rows'[i] = new
    BY <1>4, <1>12, <2>1, <2>2, <2>3 DEF Present
  <2>5. /\ new \in Row /\ new.track = row.track /\ new.by = row.by /\ new.played = row.played
        /\ new.recent = row.recent /\ new.version = row.version
        /\ new.pos = IF row.played THEN row.pos ELSE MovedPos(row.pos, a, p)
        /\ new.pos <= row.pos + 1
    BY <2>3, ShiftedFacts
  <2>6. row.track \in Track /\ row.version # 0
    BY <1>6, <2>1
  <2>7. new # NoRow
    BY <2>5, <2>6, NoRowFacts, Consts
  <2>8. new.pos <= row.pos + 1 + p
    BY <2>5 DEF Row
  <2> QED BY <2>1, <2>2, <2>4, <2>5, <2>6, <2>7, <2>8
<1>13. \A i \in Id : rows'[i] \in Row /\ (rows'[i] # NoRow <=> rows[i] # NoRow)
  BY <1>9, <1>10, <1>11, <1>12 DEF Present
<1>14. rows' = [i \in Id |-> rows'[i]]
  BY <1>4
<1>15. rows' \in [Id -> Row]
  BY <1>13, <1>14
<1>16. ASSUME NEW i \in Present
       PROVE  /\ rows'[i].track = rows[i].track /\ rows'[i].by = rows[i].by
              /\ rows'[i].recent = rows[i].recent /\ rows'[i].version # 0
              /\ rows'[i].pos <= rows[i].pos + 1 + p
  <2>1. CASE i = h
    BY <1>9, <1>11, <2>1
  <2>2. CASE i # h
    BY <1>12, <2>2
  <2> QED BY <2>1, <2>2
<1>17. ASSUME NEW i \in Present, i # req[k].id
       PROVE  /\ rows'[i].played = rows[i].played
              /\ rows'[i].pos = IF rows[i].played THEN rows[i].pos
                                ELSE MovedPos(rows[i].pos, req[k].old.pos, req[k].pos)
  BY <1>1, <1>2, <1>12, <1>17
<1>18. h \in Present => rows'[h].played = old.played /\ rows'[h].pos = p
  BY <1>9, <1>11
<1> QED BY <1>1, <1>2, <1>4, <1>13, <1>15, <1>16, <1>17, <1>18

(* A step that keeps what the rows are, and that ends a request or leaves them alone. *)
LEMMA RowsTypes ==
  ASSUME TypesInv, rows' \in [Id -> Row],
         \A i \in Id : rows'[i] # NoRow =>
           /\ rows[i] # NoRow /\ rows'[i].track = rows[i].track /\ rows'[i].by = rows[i].by
           /\ rows'[i].version # 0,
         \E b \in Nat : \A i \in Id : rows'[i].pos <= rows[i].pos + b,
         \/ UNCHANGED req \/ \E k \in Slot : Over(k)
         \/ \E k \in Slot, r \in Req :
              req' = [req EXCEPT ![k] = r] /\ ListKnown(r) /\ RowKnown(r, rows'),
         PlayTyped'
  PROVE  TypesInv'
<1>1. RowsTyped'
  BY TypesParts DEF RowsTyped, Present
<1>2. RowsStay
  BY DEF RowsStay
<1>3. Bounded'
  <2>1. PICK b \in Nat : \A i \in Id : rows'[i].pos <= rows[i].pos + b
    OBVIOUS
  <2>2. PICK c \in Nat : \A i \in Id : rows[i].pos <= c
    BY TypesParts DEF Bounded
  <2>3. ASSUME NEW i \in Id
        PROVE  rows'[i].pos <= c + b
    <3>1. PICK x \in Nat, y \in Nat : x = rows[i].pos /\ y = rows'[i].pos
      BY TypesParts DEF RowsTyped, Row
    <3> QED BY <2>1, <2>2, <3>1
  <2>4. c + b \in Nat
    OBVIOUS
  <2> QED BY <2>3, <2>4 DEF Bounded
<1>4. ReqsTyped' /\ ReqsKnown'
  <2>1. CASE UNCHANGED req
    BY <1>2, <2>1, KnownStays
  <2>2. CASE \E k \in Slot : Over(k)
    <3>1. ListKnown(FreeReq) /\ RowKnown(FreeReq, rows')
      BY FreeFacts, AddPcs DEF ListKnown, RowKnown
    <3> QED BY <1>2, <2>2, <3>1, FreeFacts, KnownAfter DEF Over
  <2>3. CASE \E k \in Slot, r \in Req :
               req' = [req EXCEPT ![k] = r] /\ ListKnown(r) /\ RowKnown(r, rows')
    BY <1>2, <2>3, KnownAfter
  <2> QED BY <2>1, <2>2, <2>3
<1> QED BY <1>1, <1>3, <1>4 DEF TypesInv

LEMMA MarkTypes ==
  ASSUME TypesInv, NEW t \in Track, rows' = Marked(t), UNCHANGED req \/ \E k \in Slot : Over(k),
         PlayTyped'
  PROVE  TypesInv'
<1>1. RowsTyped
  BY TypesParts
<1>2. /\ rows' \in [Id -> Row]
      /\ \A i \in Id : rows'[i] # NoRow <=> rows[i] # NoRow
      /\ \A i \in Id : /\ rows'[i].track = rows[i].track /\ rows'[i].by = rows[i].by
                       /\ rows'[i].pos = rows[i].pos /\ rows'[i].version = rows[i].version
  BY <1>1, MarkedFacts
<1>3. \A i \in Id : rows'[i] # NoRow =>
        /\ rows[i] # NoRow /\ rows'[i].track = rows[i].track /\ rows'[i].by = rows[i].by
        /\ rows'[i].version # 0
  BY <1>1, <1>2 DEF RowsTyped, Present
<1>4. \A i \in Id : rows'[i].pos <= rows[i].pos + 0
  BY <1>1, <1>2 DEF RowsTyped, Row
<1> QED BY <1>2, <1>3, <1>4, RowsTypes

LEMMA SameRows ==
  ASSUME TypesInv, UNCHANGED rows
  PROVE  /\ rows' \in [Id -> Row]
         /\ \A i \in Id : rows'[i] # NoRow =>
              /\ rows[i] # NoRow /\ rows'[i].track = rows[i].track /\ rows'[i].by = rows[i].by
              /\ rows'[i].version # 0
         /\ \E b \in Nat : \A i \in Id : rows'[i].pos <= rows[i].pos + b
<1>1. \A i \in Id : rows'[i].pos <= rows[i].pos + 0
  BY TypesParts DEF RowsTyped, Row
<1> QED BY <1>1, TypesParts DEF RowsTyped, Present

LEMMA WriteTypes ==
  ASSUME TypesInv, NEW k \in Slot, RemoveRow(k) \/ ReorderWrite(k) \/ PlayMark(k)
  PROVE  TypesInv'
<1>1. Over(k)
  BY DEF RemoveRow, ReorderWrite, PlayMark
<1>2. CASE RemoveRow(k)
  <2>1. PICK h : h = req[k].id
    OBVIOUS
  <2>2. rows' = [rows EXCEPT ![h] = NoRow] /\ rows \in [Id -> Row]
    BY <1>2, <2>1, TypesParts DEF RemoveRow, RowsTyped
  <2>3. rows' \in [Id -> Row]
    BY <2>2, NoRowFacts
  <2>4. \A i \in Id : rows'[i] = NoRow \/ rows'[i] = rows[i]
    BY <2>2
  <2>5. \A i \in Id : rows'[i] # NoRow =>
          /\ rows[i] # NoRow /\ rows'[i].track = rows[i].track /\ rows'[i].by = rows[i].by
          /\ rows'[i].version # 0
    BY <2>4, TypesParts DEF RowsTyped, Present
  <2>6. ASSUME NEW i \in Id
        PROVE  rows'[i].pos <= rows[i].pos + 0
    <3>1. PICK x \in Nat : x = rows[i].pos
      BY <2>2 DEF Row
    <3>2. rows'[i].pos = 0 \/ rows'[i].pos = x
      BY <2>4, <3>1, NoRowFacts
    <3> QED BY <3>1, <3>2
  <2>7. PlayTyped'
    BY <1>2, TypesParts DEF RemoveRow, PlayTyped, KeepPlayback
  <2> QED BY <1>1, <2>3, <2>5, <2>6, <2>7, RowsTypes
<1>3. CASE ReorderWrite(k)
  <2>1. /\ rows' \in [Id -> Row]
        /\ \A i \in Id : rows'[i] # NoRow <=> rows[i] # NoRow
        /\ \A i \in Present : /\ rows'[i].track = rows[i].track /\ rows'[i].by = rows[i].by
                              /\ rows'[i].version # 0
                              /\ rows'[i].pos <= rows[i].pos + 1 + req[k].pos
    BY <1>3, ReorderFacts
  <2>2. \A i \in Id : rows'[i] # NoRow =>
          /\ rows[i] # NoRow /\ rows'[i].track = rows[i].track /\ rows'[i].by = rows[i].by
          /\ rows'[i].version # 0
    BY <2>1 DEF Present
  <2>3. PICK p \in Nat : p = req[k].pos
    BY ReqKnown
  <2>4. ASSUME NEW i \in Id
        PROVE  rows'[i].pos <= rows[i].pos + (1 + p)
    <3>1. PICK x \in Nat, y \in Nat : x = rows[i].pos /\ y = rows'[i].pos
      BY <2>1, TypesParts DEF RowsTyped, Row
    <3>2. CASE rows[i] = NoRow
      <4>1. y = 0
        BY <2>1, <3>1, <3>2, NoRowFacts
      <4> QED BY <3>1, <4>1
    <3>3. CASE rows[i] # NoRow
      <4>1. y <= x + 1 + p
        BY <2>1, <2>3, <3>1, <3>3 DEF Present
      <4> QED BY <3>1, <4>1
    <3> QED BY <3>2, <3>3
  <2>5. 1 + p \in Nat
    OBVIOUS
  <2>6. PlayTyped'
    <3>1. /\ KeepPlayback /\ UNCHANGED queueCalls /\ given' \subseteq given \cup Present
          /\ overlap' \subseteq overlap \cup {"unplayed"}
      BY <1>3 DEF ReorderWrite
    <3> QED BY <3>1, TypesParts DEF PlayTyped, KeepPlayback, OverlapKinds, Present
  <2>7. \E b \in Nat : \A i \in Id : rows'[i].pos <= rows[i].pos + b
    BY <2>4, <2>5
  <2> QED BY <1>1, <2>1, <2>2, <2>6, <2>7, RowsTypes
<1>4. CASE PlayMark(k)
  <2>1. PICK s \in Seq(Track) : s = req[k].tracks /\ s # <<>>
    BY <1>4, ReqKnown, AddPcs DEF PlayMark, ListKnown
  <2>2. PICK t \in Track : t = Head(s)
    BY <2>1
  <2>3. /\ rows' = Marked(t) /\ taken' = taken \cup {t} /\ PlayOverlap(Backward \ {k})
        /\ UNCHANGED <<playing, status, ending, heard, queueCalls, given>>
    BY <1>4, <2>1, <2>2 DEF PlayMark
  <2>4. PlayTyped'
    BY <2>3, TypesParts DEF PlayTyped, PlayOverlap, OverlapKinds
  <2> QED BY <1>1, <2>3, <2>4, MarkTypes
<1> QED BY <1>2, <1>3, <1>4

(* The steps of a play that is asked for and of a previous. *)
LEMMA PlayReqTypes ==
  ASSUME TypesInv, NEW k \in Slot,
         AutoStatus(k) \/ (\E t \in Track : PlayAsked(k, t)) \/ (\E i \in Id : PreviousAsked(k, i))
           \/ PreviousFind(k)
  PROVE  TypesInv'
<1>1. queueCalls \in Nat /\ overlap \subseteq OverlapKinds /\ req[k] \in Req /\ ListKnown(req[k])
  BY ReqKnown
<1>2. CASE AutoStatus(k)
  <2>1. CASE Over(k)
    BY <1>1, <1>2, <2>1, OverTypes DEF AutoStatus, KeepQueue
  <2>2. CASE Goto(k, "playMark")
    <3>1. PICK r : r = [req[k] EXCEPT !.pc = "playMark"]
      OBVIOUS
    <3>2. r \in Req /\ r.pc = "playMark" /\ r.tracks = req[k].tracks
      BY <1>1, <3>1, AddPcs, PcFacts
    <3>3. ListKnown(r) /\ RowKnown(r, rows)
      BY <1>1, <1>2, <3>2, AddPcs DEF ListKnown, RowKnown, AutoStatus
    <3> QED BY <1>1, <1>2, <2>2, <3>1, <3>2, <3>3, MoveTypes DEF Goto, AutoStatus, KeepQueue
  <2> QED BY <1>2, <2>1, <2>2 DEF AutoStatus
<1>3. CASE \E t \in Track : PlayAsked(k, t)
  <2>1. PICK t \in Track : PlayAsked(k, t)
    BY <1>3
  <2>2. PICK s \in Seq(Track) : s = <<t>> /\ s # <<>> /\ s \in TrackLists
    <3>1. <<t>> \in Seq(Track) /\ <<t>> # <<>>
      OBVIOUS
    <3> QED BY <3>1, SeqsAreLists
  <2>3. PICK r : r = [FreeReq EXCEPT !.pc = "playMark", !.tracks = s]
    OBVIOUS
  <2>4. r \in Req /\ r.pc = "playMark" /\ r.tracks = s
    BY <2>2, <2>3, AddPcs, FreeFacts DEF Req
  <2>5. ListKnown(r) /\ RowKnown(r, rows)
    BY <2>2, <2>4, AddPcs DEF ListKnown, RowKnown
  <2>6. /\ req' = [req EXCEPT ![k] = r] /\ queueCalls' = queueCalls + 1
        /\ KeepPlayback /\ UNCHANGED <<rows, overlap, given>>
    BY <2>1, <2>2, <2>3 DEF PlayAsked, Begin
  <2>7. queueCalls' \in Nat
    BY <1>1, <2>6
  <2> QED BY <1>1, <2>4, <2>5, <2>6, <2>7, MoveTypes
<1>4. CASE \E i \in Id : PreviousAsked(k, i)
  <2>1. PICK i \in Id : PreviousAsked(k, i)
    BY <1>4
  <2>2. PICK p \in Nat : p = rows[i].pos
    BY TypesParts DEF RowsTyped, Row
  <2>3. PICK r : r = [FreeReq EXCEPT !.pc = "prevFind", !.id = i, !.pos = p]
    OBVIOUS
  <2>4. r \in Req /\ r.pc = "prevFind"
    BY <2>2, <2>3, AddPcs, FreeFacts DEF Req
  <2>5. ListKnown(r) /\ RowKnown(r, rows)
    BY <2>4, AddPcs DEF ListKnown, RowKnown
  <2>6. /\ req' = [req EXCEPT ![k] = r] /\ queueCalls' = queueCalls + 1
        /\ KeepPlayback /\ UNCHANGED <<rows, given>>
        /\ overlap' \subseteq overlap \cup {"previous"}
    BY <2>1, <2>2, <2>3 DEF PreviousAsked, Begin
  <2>7. queueCalls' \in Nat /\ overlap' \subseteq OverlapKinds
    BY <1>1, <2>6 DEF OverlapKinds
  <2> QED BY <2>4, <2>5, <2>6, <2>7, MoveTypes
<1>5. CASE PreviousFind(k)
  <2>1. CASE Over(k)
    BY <1>1, <1>5, <2>1, OverTypes DEF PreviousFind, KeepQueue
  <2>2. CASE ~Over(k)
    <3>1. PICK j \in Present :
            req' = [req EXCEPT ![k] = [@ EXCEPT !.pc = "prevCurrent", !.prev = j,
                                                !.tracks = <<rows[j].track>>]]
      BY <1>5, <2>2 DEF PreviousFind
    <3>2. j \in Id /\ rows[j].track \in Track
      BY TypesParts DEF RowsTyped, Present
    <3>3. PICK s \in Seq(Track) : s = <<rows[j].track>> /\ s # <<>> /\ s \in TrackLists
                                   /\ Head(s) = rows[j].track
      <4>1. PICK t \in Track : t = rows[j].track
        BY <3>2
      <4>2. <<t>> \in Seq(Track) /\ <<t>> # <<>> /\ Head(<<t>>) = t
        OBVIOUS
      <4> QED BY <4>1, <4>2, SeqsAreLists
    <3>4. PICK r : r = [req[k] EXCEPT !.pc = "prevCurrent", !.prev = j, !.tracks = s]
      OBVIOUS
    <3>5. r \in Req /\ r.pc = "prevCurrent" /\ r.prev = j /\ r.tracks = s
      BY <1>1, <3>2, <3>3, <3>4, AddPcs DEF Req
    <3>6. ListKnown(r) /\ RowKnown(r, rows)
      BY <3>2, <3>3, <3>5, AddPcs DEF ListKnown, RowKnown
    <3>7. req' = [req EXCEPT ![k] = r]
      BY <3>1, <3>3, <3>4
    <3> QED BY <1>1, <1>5, <3>5, <3>6, <3>7, MoveTypes DEF PreviousFind, KeepQueue
  <2> QED BY <2>1, <2>2
<1> QED BY <1>2, <1>3, <1>4, <1>5

(* A row that is put back keeps all but that it was played. *)
LEMMA UnplayFacts ==
  ASSUME RowsTyped, NEW i, Unplay(i)
  PROVE  /\ rows' \in [Id -> Row]
         /\ \A j \in Id : rows'[j] # NoRow <=> rows[j] # NoRow
         /\ \A j \in Id : /\ rows'[j].track = rows[j].track /\ rows'[j].by = rows[j].by
                          /\ rows'[j].pos = rows[j].pos /\ rows'[j].recent = rows[j].recent
                          /\ rows'[j].version = rows[j].version
                          /\ j # i => rows'[j].played = rows[j].played
         /\ i \in Present => rows'[i].played = FALSE
<1>1. rows \in [Id -> Row]
  BY DEF RowsTyped
<1>2. CASE i \notin Present
  <2>1. rows' = rows
    BY <1>2 DEF Unplay
  <2> QED BY <1>1, <1>2, <2>1
<1>3. CASE i \in Present
  <2>1. i \in Id /\ rows[i].track \in Track /\ rows' = [rows EXCEPT ![i].played = FALSE]
    BY <1>3 DEF Unplay, RowsTyped, Present
  <2>2. PICK a \in Row : a = rows[i]
    BY <1>1, <2>1
  <2>3. PICK b : b = [a EXCEPT !.played = FALSE]
    OBVIOUS
  <2>4. /\ b \in Row /\ b.track = a.track /\ b.by = a.by /\ b.pos = a.pos /\ b.recent = a.recent
        /\ b.version = a.version /\ b.played = FALSE
    BY <2>3 DEF Row
  <2>5. rows' = [rows EXCEPT ![i] = b]
    BY <1>1, <2>1, <2>2, <2>3
  <2>6. a # NoRow /\ b # NoRow
    BY <2>1, <2>2, <2>4, NoRowFacts, Consts
  <2>7. rows' \in [Id -> Row] /\ rows'[i] = b /\ \A j \in Id : j # i => rows'[j] = rows[j]
    BY <1>1, <2>1, <2>4, <2>5
  <2> QED BY <2>2, <2>4, <2>6, <2>7
<1> QED BY <1>2, <1>3

LEMMA UnplayTypes ==
  ASSUME TypesInv, NEW k \in Slot, PreviousCurrent(k) \/ PreviousEarlier(k)
  PROVE  TypesInv'
<1>1. PICK i, pc : /\ Unplay(i) /\ Goto(k, pc)
                   /\ \/ pc = "prevEarlier" /\ req[k].pc = "prevCurrent"
                      \/ pc = "prevMark" /\ req[k].pc = "prevEarlier"
  BY DEF PreviousCurrent, PreviousEarlier
<1>2. RowsTyped /\ req[k] \in Req /\ ListKnown(req[k]) /\ RowKnown(req[k], rows)
  BY TypesParts, ReqKnown
<1>3. /\ rows' \in [Id -> Row]
      /\ \A j \in Id : rows'[j] # NoRow <=> rows[j] # NoRow
      /\ \A j \in Id : /\ rows'[j].track = rows[j].track /\ rows'[j].by = rows[j].by
                       /\ rows'[j].pos = rows[j].pos /\ rows'[j].version = rows[j].version
  BY <1>1, <1>2, UnplayFacts
<1>4. \A j \in Id : rows'[j] # NoRow =>
        /\ rows[j] # NoRow /\ rows'[j].track = rows[j].track /\ rows'[j].by = rows[j].by
        /\ rows'[j].version # 0
  BY <1>2, <1>3 DEF RowsTyped, Present
<1>5. \A j \in Id : rows'[j].pos <= rows[j].pos + 0
  BY <1>2, <1>3 DEF RowsTyped, Row
<1>6. PICK r : r = [req[k] EXCEPT !.pc = pc]
  OBVIOUS
<1>7. pc \in PcPlays /\ pc \in PcPrevious /\ req[k].pc \in PcPlays
  BY <1>1, AddPcs
<1>8. r \in Req /\ r.pc = pc /\ r.tracks = req[k].tracks /\ r.prev = req[k].prev
  BY <1>2, <1>6, <1>7, AddPcs, PcFacts
<1>9. ListKnown(r)
  BY <1>2, <1>7, <1>8, AddPcs DEF ListKnown
<1>10. RowKnown(r, rows')
  BY <1>1, <1>2, <1>3, <1>8 DEF RowKnown
<1>11. req' = [req EXCEPT ![k] = r]
  BY <1>1, <1>6 DEF Goto
<1>12. PlayTyped'
  BY <1>1, TypesParts DEF PlayTyped, Unplay, KeepPlayback, OverlapKinds
<1> QED BY <1>3, <1>4, <1>5, <1>8, <1>9, <1>10, <1>11, <1>12, RowsTypes

LEMMA PlaysTypes ==
  ASSUME TypesInv, Plays
  PROVE  TypesInv'
<1>1. CASE TrackEnds \/ EndIdle \/ PauseOrResume
  <2>1. UNCHANGED <<rows, taken, heard, req, queueCalls, overlap, given>>
    BY <1>1 DEF TrackEnds, EndIdle, PauseOrResume
  <2>2. NextRows \subseteq Id
    BY DEF NextRows, Unplayed, Present
  <2>3. /\ playing' \in {playing, NoTrack} /\ ending' \in NextRows \cup {ending, 0, Idle}
        /\ status' \in {status, "none", "paused", "playing"}
    BY <1>1 DEF TrackEnds, EndIdle, PauseOrResume
  <2>4. PlayTyped'
    BY <2>1, <2>2, <2>3, TypesParts DEF PlayTyped
  <2> QED BY <2>1, <2>4, SameRows, RowsTypes
<1>2. CASE \E t \in Track : TakeNext(t)
  <2>1. PICK t \in Track : TakeNext(t)
    BY <1>2
  <2>2. rows' = Marked(t) /\ UNCHANGED req
    BY <2>1 DEF TakeNext
  <2>3. PlayTyped'
    BY <2>1, TypesParts DEF PlayTyped, TakeNext, PlayOverlap, OverlapKinds
  <2> QED BY <2>2, <2>3, MarkTypes
<1>3. CASE \E t \in Track : PlaySave(t)
  <2>1. PICK t \in Track : PlaySave(t)
    BY <1>3
  <2>2. UNCHANGED <<rows, req>>
    BY <2>1 DEF PlaySave
  <2>3. PlayTyped'
    BY <2>1, TypesParts DEF PlayTyped, PlaySave, PlayOverlap, OverlapKinds
  <2> QED BY <2>2, <2>3, SameRows, RowsTypes
<1> QED BY <1>1, <1>2, <1>3 DEF Plays

LEMMA AgedFacts ==
  ASSUME RowsTyped, NEW i \in Id, Ages(i)
  PROVE  /\ rows' \in [Id -> Row] /\ rows[i] # NoRow
         /\ \A j \in Id : rows'[j] # NoRow <=> rows[j] # NoRow
         /\ \A j \in Id : /\ rows'[j].track = rows[j].track /\ rows'[j].by = rows[j].by
                          /\ rows'[j].pos = rows[j].pos /\ rows'[j].version = rows[j].version
                          /\ rows'[j].played = rows[j].played
                          /\ rows'[j].recent => rows[j].recent
<1>1. rows \in [Id -> Row] /\ rows[i] # NoRow /\ rows[i].recent
  BY NoRowFacts DEF RowsTyped, Ages
<1>2. PICK a \in Row : a = rows[i]
  BY <1>1
<1>3. PICK b : b = [a EXCEPT !.recent = FALSE]
  OBVIOUS
<1>4. /\ b \in Row /\ b.track = a.track /\ b.by = a.by /\ b.pos = a.pos
      /\ b.version = a.version /\ b.played = a.played /\ b.recent = FALSE
  BY <1>3 DEF Row
<1>5. rows' = [rows EXCEPT ![i] = b]
  BY <1>2, <1>3 DEF Ages
<1>6. b # NoRow
  BY <1>1, <1>2, <1>4, NoRowFacts, Consts DEF RowsTyped, Present
<1>7. rows' \in [Id -> Row] /\ rows'[i] = b /\ \A j \in Id : j # i => rows'[j] = rows[j]
  BY <1>1, <1>4, <1>5
<1> QED BY <1>1, <1>2, <1>4, <1>6, <1>7

LEMMA TimeTypes ==
  ASSUME TypesInv, Time \/ UNCHANGED queueVars
  PROVE  TypesInv'
<1>1. CASE \E i \in Id : Ages(i)
  <2>1. PICK i \in Id : Ages(i)
    BY <1>1
  <2>2. RowsTyped
    BY TypesParts
  <2>3. /\ rows' \in [Id -> Row]
        /\ \A j \in Id : rows'[j] # NoRow <=> rows[j] # NoRow
        /\ \A j \in Id : /\ rows'[j].track = rows[j].track /\ rows'[j].by = rows[j].by
                         /\ rows'[j].pos = rows[j].pos /\ rows'[j].version = rows[j].version
    BY <2>1, <2>2, AgedFacts
  <2>4. \A j \in Id : rows'[j] # NoRow =>
          /\ rows[j] # NoRow /\ rows'[j].track = rows[j].track /\ rows'[j].by = rows[j].by
          /\ rows'[j].version # 0
    BY <2>2, <2>3 DEF RowsTyped, Present
  <2>5. \A j \in Id : rows'[j].pos <= rows[j].pos + 0
    BY <2>2, <2>3 DEF RowsTyped, Row
  <2>6. PlayTyped' /\ UNCHANGED req
    BY <2>1, TypesParts DEF PlayTyped, Ages, KeepPlayback
  <2> QED BY <2>3, <2>4, <2>5, <2>6, RowsTypes
<1>2. CASE (\E t \in Track : Forgets(t)) \/ UNCHANGED queueVars
  <2>1. UNCHANGED <<rows, req>> /\ PlayTyped'
    BY <1>2, TypesParts DEF PlayTyped, Forgets, queueVars
  <2> QED BY <2>1, SameRows, RowsTypes
<1> QED BY <1>1, <1>2 DEF Time

LEMMA TypesNext ==
  ASSUME TypesInv, [QueueNext]_queueVars
  PROVE  TypesInv'
<1>1. ASSUME NEW k \in Slot, Requests(k)
      PROVE  TypesInv'
  BY <1>1, BeginTypes, PlayReqTypes DEF Requests, People
<1>2. ASSUME NEW k \in Slot, QueueStep(k)
      PROVE  TypesInv'
  BY <1>2, BeginTypes, AddTypes, SaveTypes, WriteTypes, PlayReqTypes, UnplayTypes DEF QueueStep
<1> QED BY <1>1, <1>2, PlaysTypes, TimeTypes DEF QueueNext

LEMMA TypesInit ==
  ASSUME QueueInit
  PROVE  TypesInv
<1>1. rows \in [Id -> Row] /\ \A i \in Id : rows[i] = NoRow
  BY NoRowFacts DEF QueueInit
<1>2. RowsTyped /\ Present = {}
  BY <1>1 DEF RowsTyped, Present
<1>3. Bounded
  <2>1. \A i \in Id : rows[i].pos <= 0
    BY <1>1, NoRowFacts
  <2> QED BY <2>1 DEF Bounded
<1>4. req \in [Slot -> Req] /\ \A k \in Slot : req[k] = FreeReq
  BY FreeFacts DEF QueueInit
<1>5. ReqsTyped /\ ReqsKnown
  BY <1>4, FreeFacts, AddPcs DEF ReqsTyped, ReqsKnown, ListKnown, RowKnown
<1>6. PlayTyped
  BY DEF QueueInit, PlayTyped
<1> QED BY <1>2, <1>3, <1>5, <1>6 DEF TypesInv

(* What is in the table, the playback and the requests is what their columns and
   fields may hold: a row has a track and a version, and a list names tracks. *)
THEOREM QueueTypeCorrect == QueueSpec => []QueueTypeOK
<1>1. QueueInit => TypesInv
  BY TypesInit
<1>2. TypesInv /\ [QueueNext]_queueVars => TypesInv'
  BY TypesNext
<1>3. TypesInv => QueueTypeOK
  <2>1. SUFFICES ASSUME TypesInv PROVE QueueTypeOK
    OBVIOUS
  <2>2. ASSUME NEW i \in Present
        PROVE  /\ rows[i].track \in Track
               /\ rows[i].by \in QueueUser \cup {Host, AutoDJ}
               /\ rows[i].pos \in Int /\ rows[i].version \in Nat \ {0}
               /\ rows[i].played \in BOOLEAN /\ rows[i].recent \in BOOLEAN
    <3>1. rows[i] \in Row /\ rows[i].track \in Track /\ rows[i].version # 0
      BY <2>1, TypesParts DEF RowsTyped, Present
    <3> QED BY <3>1 DEF Row, People
  <2>3. ASSUME NEW k \in Slot
        PROVE  req[k].pc \in PcRequest /\ Range(req[k].tracks) \subseteq Track
    BY <2>1, ReqKnown DEF Range
  <2>4. PlayTyped
    BY <2>1, TypesParts
  <2> QED BY <2>2, <2>3, <2>4 DEF QueueTypeOK, PlayTyped
<1> QED BY <1>1, <1>2, <1>3, PTL DEF QueueSpec

--------------------------------------------------------------------------------
(* The order of the rows that wait. *)
LEMMA InQueue ==
  /\ \A i : i \in Present <=> i \in Id /\ rows[i] # NoRow
  /\ \A i : i \in Unplayed <=> i \in Id /\ rows[i] # NoRow /\ ~rows[i].played
  /\ \A i : i \in Present' <=> i \in Id /\ rows'[i] # NoRow
  /\ \A i : i \in Unplayed' <=> i \in Id /\ rows'[i] # NoRow /\ ~rows'[i].played
BY DEF Present, Unplayed

LEMMA OrderParts ==
  OrderInv <=> /\ WriterAlone
               /\ Orderly => GivenPlayed
               /\ Orderly => SharedGiven
               /\ Orderly => \A k \in Slot : WriterKnows(k)
BY DEF OrderInv

LEMMA OrderShows ==
  ASSUME OrderInv
  PROVE  PositionsDiffer
<1>1. ASSUME Orderly, NEW i \in Unplayed, NEW j \in Unplayed, i # j
      PROVE  rows[i].pos # rows[j].pos
  <2>1. i \in Present /\ j \in Present /\ ~rows[i].played /\ ~rows[j].played
    BY <1>1, InQueue
  <2>2. i \notin given /\ j \notin given
    BY <1>1, <2>1, OrderParts DEF GivenPlayed
  <2> QED BY <1>1, <2>1, <2>2, OrderParts DEF SharedGiven
<1> QED BY <1>1 DEF PositionsDiffer, Orderly

LEMMA WritesAre ==
  ASSUME NEW j \in Slot
  PROVE  /\ Writing(j) <=> req[j].pc \in PcAdd \/ req[j].pc = "reorderWrite"
         /\ Writing(j)' <=> req'[j].pc \in PcAdd \/ req'[j].pc = "reorderWrite"
         /\ req[j].pc \in {"addSave", "reorderWrite"} => Writing(j)
         /\ req'[j].pc \in {"addSave", "reorderWrite"} => Writing(j)'
BY AddPcs DEF Writing

(* Rows that keep their positions, and no request that has just read them.  A played row
   that gave its position away is not put back. *)
GivenKept ==
  /\ given' \subseteq given
  /\ \A i \in given : rows'[i] # NoRow => i \in given' \/ "back" \in overlap'
  /\ \A i \in given' : rows[i] # NoRow =>
       rows'[i] # NoRow /\ (rows[i].played => rows'[i].played)

LEMMA OrderKeeps ==
  ASSUME OrderInv, GivenKept,
         \A i \in Id : rows'[i] # NoRow => rows[i] # NoRow /\ rows'[i].pos = rows[i].pos,
         overlap \subseteq overlap',
         \A j \in Slot : \/ req'[j] = req[j]
                         \/ req'[j].pc \notin {"addSave", "reorderWrite"}
                            /\ (req'[j].pc \in PcAdd => req[j].pc \in PcAdd)
  PROVE  OrderInv'
<1>1. WriterAlone'
  <2>1. ASSUME "write" \notin overlap', NEW k \in Slot, NEW j \in Slot, Writing(k)', Writing(j)'
        PROVE  k = j
    <3>1. Writing(k) /\ Writing(j)
      BY <2>1, WritesAre
    <3> QED BY <2>1, <3>1, OrderParts DEF WriterAlone
  <2> QED BY <2>1 DEF WriterAlone
<1>2. Orderly' => Orderly /\ "back" \notin overlap'
  BY DEF Orderly
<1>3. \A i \in Present' : i \in Present /\ rows'[i].pos = rows[i].pos
  BY InQueue
<1>4. \A i \in Present' : Orderly' /\ i \in given => i \in given'
  BY <1>2, InQueue DEF GivenKept
<1>5. Orderly' => GivenPlayed'
  <2>1. ASSUME Orderly', NEW i \in given'
        PROVE  i \in Present' /\ rows'[i].played
    <3>1. i \in given /\ i \in Present /\ rows[i].played
      BY <1>2, <2>1, OrderParts DEF GivenKept, GivenPlayed
    <3> QED BY <2>1, <3>1, InQueue DEF GivenKept
  <2> QED BY <2>1 DEF GivenPlayed
<1>6. Orderly' => SharedGiven'
  <2>1. ASSUME Orderly', NEW i \in Present', NEW j \in Present', i # j, rows'[i].pos = rows'[j].pos
        PROVE  i \in given' \/ j \in given'
    <3>1. i \in given \/ j \in given
      BY <1>2, <1>3, <2>1, OrderParts DEF SharedGiven
    <3> QED BY <1>4, <2>1, <3>1
  <2> QED BY <2>1 DEF SharedGiven
<1>7. Orderly' => \A k \in Slot : WriterKnows(k)'
  <2>1. ASSUME Orderly', NEW k \in Slot, req'[k].pc \in {"addSave", "reorderWrite"}
        PROVE  WriterKnows(k)'
    <3>1. WriterKnows(k) /\ req'[k] = req[k]
      BY <1>2, <2>1, OrderParts
    <3>2. ASSUME req[k].pc = "addSave", NEW i \in Present'
          PROVE  rows'[i].pos < req'[k].pos
      BY <1>3, <3>1, <3>2 DEF WriterKnows
    <3>3. ASSUME req[k].pc = "reorderWrite"
          PROVE  req[k].id \notin given' /\ ~req[k].old.played
      BY <3>1, <3>3 DEF WriterKnows, GivenKept
    <3>4. ASSUME req[k].pc = "reorderWrite", NEW i \in Present', i # req[k].id,
                 rows'[i].pos = req[k].old.pos
          PROVE  i \in given'
      BY <1>3, <1>4, <2>1, <3>1, <3>4 DEF WriterKnows
    <3> QED BY <3>1, <3>2, <3>3, <3>4 DEF WriterKnows
  <2> QED BY <2>1 DEF WriterKnows
<1> QED BY <1>1, <1>5, <1>6, <1>7 DEF OrderInv

LEMMA MovedApart ==
  ASSUME NEW x \in Nat, NEW y \in Nat, NEW a \in Nat, NEW b \in Nat, x # a, y # a, x # y
  PROVE  MovedPos(x, a, b) # MovedPos(y, a, b) /\ MovedPos(x, a, b) # b
BY DEF MovedPos

(* The calls that begin, and the last position read. *)
LEMMA BeginOrder ==
  ASSUME TypesInv, OrderInv, NEW k \in Slot,
         \/ \E u \in People, s \in Lists : AddTracks(k, u, s)
         \/ \E i \in Present, p \in Id : Reorder(k, i, p)
  PROVE  OrderInv'
<1>1. PICK r : /\ req' = [req EXCEPT ![k] = r] /\ UNCHANGED <<rows, given>>
               /\ overlap \cup Overlaps \subseteq overlap'
               /\ \/ r.pc = "addRoom"
                  \/ /\ r.pc = "reorderWrite" /\ r.id \in Present /\ r.old = rows[r.id]
                     /\ "late" \notin overlap' => ~r.old.played
  <2>1. CASE \E u \in People, s \in Lists : AddTracks(k, u, s)
    <3>1. PICK u \in People, s \in Lists : AddTracks(k, u, s)
      BY <2>1
    <3>2. PICK r : r = [FreeReq EXCEPT !.pc = "addRoom", !.user = u, !.tracks = s]
      OBVIOUS
    <3>3. r.pc = "addRoom"
      BY <3>2 DEF FreeReq
    <3> QED BY <3>1, <3>2, <3>3 DEF AddTracks, Begin
  <2>2. CASE \E i \in Present, p \in Id : Reorder(k, i, p)
    <3>1. PICK i \in Present, p \in Id : Reorder(k, i, p)
      BY <2>2
    <3>2. PICK r : r = [FreeReq EXCEPT !.pc = "reorderWrite", !.id = i, !.pos = p, !.old = rows[i]]
      OBVIOUS
    <3>3. r.pc = "reorderWrite" /\ r.id = i /\ r.old = rows[i]
      BY <3>2 DEF FreeReq
    <3>4. /\ req' = [req EXCEPT ![k] = r] /\ UNCHANGED <<rows, given>>
          /\ overlap' = overlap \cup Overlaps \cup {o \in {"late"} : rows[i].played}
      BY <3>1, <3>2 DEF Reorder, Begin
    <3>5. "late" \notin overlap' => ~r.old.played
      BY <3>3, <3>4
    <3> QED BY <3>3, <3>4, <3>5
  <2> QED BY <2>1, <2>2
<1>2. req'[k] = r /\ \A j \in Slot : j # k => req'[j] = req[j]
  BY <1>1, TypesParts DEF ReqsTyped
<1>3. "write" \notin overlap' => \A j \in Slot : ~Writing(j)
  BY <1>1 DEF Overlaps, Writers
<1>4. "write" \notin overlap' => \A j \in Slot : Writing(j)' => j = k
  BY <1>2, <1>3, WritesAre
<1>5. WriterAlone'
  BY <1>4 DEF WriterAlone
<1>6. Orderly' => Orderly /\ "write" \notin overlap' /\ "late" \notin overlap'
  BY <1>1 DEF Orderly
<1>7. Orderly' => GivenPlayed' /\ SharedGiven'
  BY <1>1, <1>6, OrderParts DEF GivenPlayed, SharedGiven, Present
<1>8. Orderly' => \A j \in Slot : WriterKnows(j)'
  <2>1. ASSUME Orderly', NEW j \in Slot, req'[j].pc \in {"addSave", "reorderWrite"}
        PROVE  WriterKnows(j)'
    <3>1. j = k /\ r.pc = "reorderWrite"
      BY <1>1, <1>2, <1>4, <1>6, <2>1, WritesAre
    <3>2. r.id \in Present /\ ~rows[r.id].played /\ r.old = rows[r.id]
      BY <1>1, <1>6, <2>1, <3>1
    <3>3. r.id \notin given'
      BY <1>1, <1>6, <2>1, <3>2, OrderParts DEF GivenPlayed
    <3>4. ASSUME NEW i \in Present', i # r.id, rows'[i].pos = r.old.pos
          PROVE  i \in given'
      <4>1. i \in Present /\ rows'[i] = rows[i]
        BY <1>1, InQueue
      <4> QED BY <1>1, <1>6, <2>1, <3>2, <3>3, <3>4, <4>1, OrderParts DEF SharedGiven
    <3> QED BY <1>2, <3>1, <3>2, <3>3, <3>4 DEF WriterKnows
  <2> QED BY <2>1 DEF WriterKnows
<1> QED BY <1>5, <1>7, <1>8 DEF OrderInv

LEMMA MaxOrder ==
  ASSUME TypesInv, OrderInv, NEW k \in Slot, AddMax(k)
  PROVE  OrderInv'
<1>1. /\ req' = [req EXCEPT ![k] = [req[k] EXCEPT !.pc = "addSave", !.pos = LastPosition + 1]]
      /\ req[k].pc = "addMax" /\ UNCHANGED <<rows, overlap, given>>
  BY DEF AddMax, KeepQueue
<1>2. /\ req'[k].pc = "addSave" /\ req'[k].pos = LastPosition + 1
      /\ \A j \in Slot : j # k => req'[j] = req[j]
  BY <1>1, TypesParts, ReqKnown DEF ReqsTyped, Req
<1>3. WriterAlone'
  <2>1. \A j \in Slot : Writing(j)' => Writing(j)
    BY <1>1, <1>2, AddPcs, WritesAre
  <2> QED BY <1>1, <2>1, OrderParts DEF WriterAlone
<1>4. (Orderly <=> Orderly') /\ Unplayed' = Unplayed /\ Present' = Present
  BY <1>1 DEF Orderly, Unplayed, Present
<1>5. Orderly => \A j \in Slot : WriterKnows(j)'
  <2>1. ASSUME Orderly, NEW j \in Slot
        PROVE  WriterKnows(j)'
    <3>1. CASE j = k
      <4>1. ASSUME NEW i \in Present
            PROVE  rows[i].pos < LastPosition + 1
        <5>1. PICK x \in Nat : x = rows[i].pos
          BY TypesParts DEF RowsTyped, Row, Present
        <5>2. LastPosition \in Nat /\ x <= LastPosition
          BY <5>1, TypesParts, LastFacts
        <5> QED BY <5>1, <5>2
      <4>2. req'[k].pc # "reorderWrite"
        BY <1>2
      <4> QED BY <1>1, <1>2, <1>4, <3>1, <4>1, <4>2 DEF WriterKnows
    <3>2. CASE j # k
      BY <1>1, <1>2, <1>4, <2>1, <3>2, OrderParts DEF WriterKnows
    <3> QED BY <3>1, <3>2
  <2> QED BY <2>1
<1>6. Orderly => GivenPlayed' /\ SharedGiven'
  BY <1>1, OrderParts DEF GivenPlayed, SharedGiven, Present
<1> QED BY <1>3, <1>4, <1>5, <1>6 DEF OrderInv

(* An addition that is saved: each new row has a place of the list of its own. *)
Saved(k, N, g, q) ==
  /\ \A i, j \in N : i # j => g[i] # g[j] /\ q[i] # q[j]
  /\ \A i \in N : /\ rows[i] = NoRow /\ rows'[i] # NoRow
                  /\ rows'[i].track = req[k].tracks[g[i]] /\ rows'[i].by = req[k].user
                  /\ rows'[i].pos = q[i] /\ req[k].pos <= q[i]
                  /\ rows'[i].recent = (req[k].user \in QueueUser \ {Host})
  /\ \A i \in Id \ N : rows'[i] = rows[i]

LEMMA SaveEffect ==
  ASSUME TypesInv, NEW k \in Slot, AddSave(k)
  PROVE  /\ req[k].pc = "addSave" /\ req'[k].pc = "autoStatus"
         /\ \A j \in Slot : j # k => req'[j] = req[j]
         /\ UNCHANGED <<playing, taken, ending, heard, queueCalls, overlap, given>>
         /\ \E N \in SUBSET Id : \E g \in [N -> DOMAIN req[k].tracks], q \in [N -> Nat] :
              Saved(k, N, g, q)
<1>1. PICK f \in TrackLists : f = req[k].tracks
  BY ReqKnown
<1>2. PICK u \in People, p \in Nat : u = req[k].user /\ p = req[k].pos
  BY ReqKnown
<1>3. PICK r : r = [FreeReq EXCEPT !.pc = "autoStatus",
                                   !.tracks = <<req[k].tracks[Min(DOMAIN req[k].tracks)]>>]
  OBVIOUS
<1>4. /\ req[k].pc = "addSave" /\ SaveRows(f, u, p) /\ req' = [req EXCEPT ![k] = r]
      /\ UNCHANGED <<playing, taken, ending, heard, queueCalls, overlap, given>>
  BY <1>1, <1>2, <1>3 DEF AddSave, KeepPlayback
<1>5. r.pc = "autoStatus"
  BY <1>3 DEF FreeReq
<1>6. req'[k].pc = "autoStatus" /\ \A j \in Slot : j # k => req'[j] = req[j]
  BY <1>4, <1>5, TypesParts DEF ReqsTyped
<1>7. IsFiniteSet(DOMAIN f) /\ \A n \in DOMAIN f : f[n] \in Track
  BY <1>1, <1>4, AddPcs, ReqKnown, ListFacts DEF ListKnown
<1>8. \E N \in SUBSET FreshIds : \E g \in [N -> DOMAIN f], q \in [N -> Nat] :
        /\ \A i, j \in N : i # j => g[i] # g[j] /\ q[i] # q[j]
        /\ \A i \in N : /\ rows'[i] = NewRow(f[g[i]], u, q[i])
                        /\ p <= q[i] /\ q[i] <= p + Cardinality(DOMAIN f)
        /\ \A i \in Id \ N : rows'[i] = rows[i]
  BY <1>4, <1>7, TypesParts, SaveFacts
<1>9. PICK N \in SUBSET FreshIds : \E g \in [N -> DOMAIN f], q \in [N -> Nat] :
        /\ \A i, j \in N : i # j => g[i] # g[j] /\ q[i] # q[j]
        /\ \A i \in N : /\ rows'[i] = NewRow(f[g[i]], u, q[i])
                        /\ p <= q[i] /\ q[i] <= p + Cardinality(DOMAIN f)
        /\ \A i \in Id \ N : rows'[i] = rows[i]
  BY <1>8
<1>10. PICK g \in [N -> DOMAIN f], q \in [N -> Nat] :
        /\ \A i, j \in N : i # j => g[i] # g[j] /\ q[i] # q[j]
        /\ \A i \in N : rows'[i] = NewRow(f[g[i]], u, q[i]) /\ p <= q[i]
        /\ \A i \in Id \ N : rows'[i] = rows[i]
  BY <1>9
<1>11. ASSUME NEW i \in N
       PROVE  /\ rows[i] = NoRow /\ rows'[i] # NoRow /\ rows'[i].track = f[g[i]]
              /\ rows'[i].by = u /\ rows'[i].pos = q[i]
              /\ rows'[i].recent = (u \in QueueUser \ {Host})
  <2>1. PICK t \in Track, n \in Nat : t = f[g[i]] /\ n = q[i]
    BY <1>7, <1>10
  <2>2. rows'[i] = NewRow(t, u, n)
    BY <1>10, <2>1
  <2>3. rows'[i].track = t /\ rows'[i].by = u /\ rows'[i].pos = n
        /\ rows'[i].recent = (u \in QueueUser \ {Host})
    BY <2>2 DEF NewRow
  <2>4. rows'[i] # NoRow
    BY <2>3, NoRowFacts, Consts
  <2> QED BY <2>1, <2>3, <2>4, RowIds
<1>12. N \in SUBSET Id
  BY RowIds
<1>13. Saved(k, N, g, q)
  BY <1>1, <1>2, <1>10, <1>11 DEF Saved
<1> QED BY <1>1, <1>4, <1>6, <1>12, <1>13

LEMMA SaveOrder ==
  ASSUME TypesInv, OrderInv, NEW k \in Slot, AddSave(k)
  PROVE  OrderInv'
<1>1. /\ req[k].pc = "addSave" /\ req'[k].pc = "autoStatus"
      /\ \A j \in Slot : j # k => req'[j] = req[j]
      /\ UNCHANGED <<overlap, given>>
  BY SaveEffect
<1>2. PICK N \in SUBSET Id :
        \E g \in [N -> DOMAIN req[k].tracks], q \in [N -> Nat] : Saved(k, N, g, q)
  BY SaveEffect
<1>3. PICK q \in [N -> Nat] :
        /\ \A i, j \in N : i # j => q[i] # q[j]
        /\ \A i \in N : rows'[i].pos = q[i] /\ req[k].pos <= q[i] /\ rows[i] = NoRow
        /\ \A i \in Id \ N : rows'[i] = rows[i]
  BY <1>2 DEF Saved
<1>4. WriterAlone' /\ (Orderly' => \A j \in Slot : ~Writing(j)')
  <2>1. ASSUME NEW j \in Slot, Writing(j)'
        PROVE  j # k /\ Writing(j)
    BY <1>1, <2>1, WritesAre, AddPcs
  <2>2. Writing(k)
    BY <1>1, WritesAre
  <2> QED BY <1>1, <2>1, <2>2, OrderParts DEF WriterAlone, Orderly
<1>5. Orderly' => \A j \in Slot : WriterKnows(j)'
  <2>1. ASSUME Orderly', NEW j \in Slot
        PROVE  req'[j].pc \notin {"addSave", "reorderWrite"}
    BY <1>4, <2>1, WritesAre
  <2> QED BY <2>1 DEF WriterKnows
<1>6. Orderly' => Orderly
  BY <1>1 DEF Orderly
<1>7. Orderly' => GivenPlayed'
  <2>1. ASSUME Orderly', NEW i \in given'
        PROVE  i \in Present' /\ rows'[i].played
    <3>1. i \in Present /\ rows[i].played
      BY <1>1, <1>6, <2>1, OrderParts DEF GivenPlayed
    <3>2. rows'[i] = rows[i]
      BY <1>3, <3>1, InQueue
    <3> QED BY <3>1, <3>2, InQueue
  <2> QED BY <2>1 DEF GivenPlayed
<1>8. Orderly' => SharedGiven'
  <2>1. PICK p \in Nat : p = req[k].pos
    BY ReqKnown
  <2>2. ASSUME Orderly', NEW i \in Present', i \notin N
        PROVE  i \in Present /\ rows'[i] = rows[i] /\ rows[i].pos \in Nat /\ rows[i].pos < p
    <3>1. i \in Present /\ rows'[i] = rows[i]
      BY <1>3, <2>2, InQueue
    <3>2. rows[i].pos < p
      BY <1>1, <1>6, <2>1, <2>2, <3>1, OrderParts DEF WriterKnows
    <3>3. rows[i].pos \in Nat
      BY <3>1, TypesParts, InQueue DEF RowsTyped, Row
    <3> QED BY <3>1, <3>2, <3>3
  <2>3. ASSUME Orderly', NEW i \in N
        PROVE  rows'[i].pos \in Nat /\ p <= rows'[i].pos
    BY <1>3, <2>1
  <2>4. ASSUME Orderly', NEW i \in Present', NEW j \in Present', i # j,
               rows'[i].pos = rows'[j].pos
        PROVE  i \in given' \/ j \in given'
    <3>1. CASE i \in N /\ j \in N
      BY <1>3, <2>4, <3>1
    <3>2. CASE i \in N /\ j \notin N
      BY <2>2, <2>3, <2>4, <3>2
    <3>3. CASE i \notin N /\ j \in N
      BY <2>2, <2>3, <2>4, <3>3
    <3>4. CASE i \notin N /\ j \notin N
      BY <1>1, <1>6, <2>2, <2>4, <3>4, OrderParts DEF SharedGiven
    <3> QED BY <3>1, <3>2, <3>3, <3>4
  <2> QED BY <2>4 DEF SharedGiven
<1> QED BY <1>4, <1>5, <1>7, <1>8 DEF OrderInv

LEMMA ReorderOrder ==
  ASSUME TypesInv, OrderInv, NEW k \in Slot, ReorderWrite(k)
  PROVE  OrderInv'
<1>1. PICK h \in Id : h = req[k].id
  BY ReorderFacts
<1>2. PICK a \in Nat, b \in Nat : a = req[k].old.pos /\ b = req[k].pos
  BY ReqKnown DEF Row
<1>3. /\ req[k].pc = "reorderWrite"
      /\ \A i \in Id : rows'[i] # NoRow <=> rows[i] # NoRow
      /\ \A i \in Present : i # h =>
           /\ rows'[i].played = rows[i].played
           /\ rows'[i].pos = IF rows[i].played THEN rows[i].pos ELSE MovedPos(rows[i].pos, a, b)
      /\ h \in Present => rows'[h].pos = b /\ rows'[h].played = req[k].old.played
  BY <1>1, <1>2, ReorderFacts
<1>4. /\ req'[k].pc = "free" /\ overlap \subseteq overlap'
      /\ \A j \in Slot : j # k => req'[j] = req[j]
  BY FreeFacts, TypesParts DEF ReorderWrite, Over, ReqsTyped
<1>5. Orderly' => Orderly
  BY <1>4 DEF Orderly
<1>6. WriterAlone' /\ (Orderly' => \A j \in Slot : ~Writing(j)')
  <2>1. ASSUME NEW j \in Slot, Writing(j)'
        PROVE  j # k /\ Writing(j)
    BY <1>4, <2>1, WritesAre, AddPcs
  <2>2. Writing(k)
    BY <1>3, WritesAre
  <2> QED BY <1>4, <1>5, <2>1, <2>2, OrderParts DEF WriterAlone, Orderly
<1>7. Orderly' => \A j \in Slot : WriterKnows(j)'
  <2>1. ASSUME Orderly', NEW j \in Slot
        PROVE  req'[j].pc \notin {"addSave", "reorderWrite"}
    BY <1>6, <2>1, WritesAre
  <2> QED BY <2>1 DEF WriterKnows
<1>8. given' = given \cup {i \in Present : rows'[i].played /\
        \E j \in Present : ~rows'[j].played /\ rows'[j].pos = rows'[i].pos}
  BY DEF ReorderWrite
<1>9. Orderly' => h \notin given
  BY <1>1, <1>3, <1>5, OrderParts DEF WriterKnows
<1>10. Orderly' => GivenPlayed'
  <2>1. ASSUME Orderly', NEW i \in given'
        PROVE  i \in Present' /\ rows'[i].played
    <3>1. CASE i \in given
      <4>1. i \in Present /\ rows[i].played /\ i # h
        BY <1>5, <1>9, <2>1, <3>1, OrderParts DEF GivenPlayed
      <4> QED BY <1>3, <4>1, InQueue
    <3>2. CASE i \notin given
      BY <1>3, <1>8, <2>1, <3>2, InQueue
    <3> QED BY <3>1, <3>2
  <2> QED BY <2>1 DEF GivenPlayed
<1>11. ASSUME Orderly', NEW i \in Present', i # h, ~rows'[i].played
       PROVE  \E x \in Nat : /\ i \in Present /\ ~rows[i].played /\ x = rows[i].pos /\ x # a
                             /\ i \notin given /\ rows'[i].pos = MovedPos(x, a, b)
  <2>1. /\ i \in Present /\ ~rows[i].played /\ rows[i].pos \in Nat
        /\ rows'[i].pos = MovedPos(rows[i].pos, a, b)
    <3>1. i \in Present
      BY <1>3, <1>11, InQueue
    <3>2. rows[i].pos \in Nat
      BY <3>1, TypesParts, InQueue DEF RowsTyped, Row
    <3> QED BY <1>3, <1>11, <3>1, <3>2
  <2>2. i \notin given
    BY <1>5, <1>11, <2>1, OrderParts DEF GivenPlayed
  <2>3. rows[i].pos # a
    BY <1>1, <1>2, <1>3, <1>5, <1>11, <2>1, <2>2, OrderParts DEF WriterKnows
  <2> QED BY <2>1, <2>2, <2>3
<1>12. ASSUME Orderly', NEW i \in Present', NEW j \in Present', i # j, i # h,
              ~rows'[i].played, ~rows'[j].played
       PROVE  rows'[i].pos # rows'[j].pos
  <2>1. PICK x \in Nat : /\ i \in Present /\ x = rows[i].pos /\ x # a /\ i \notin given
                         /\ rows'[i].pos = MovedPos(x, a, b)
    BY <1>11, <1>12
  <2>2. CASE j = h
    <3>1. rows'[j].pos = b
      BY <1>3, <1>12, <2>2, InQueue
    <3>2. MovedPos(x, a, b) # b
      BY <2>1 DEF MovedPos
    <3> QED BY <2>1, <3>1, <3>2
  <2>3. CASE j # h
    <3>1. PICK y \in Nat : /\ j \in Present /\ y = rows[j].pos /\ y # a /\ j \notin given
                           /\ rows'[j].pos = MovedPos(y, a, b)
      BY <1>11, <1>12, <2>3
    <3>2. x # y
      BY <1>5, <1>12, <2>1, <3>1, OrderParts DEF SharedGiven
    <3>3. MovedPos(x, a, b) # MovedPos(y, a, b)
      BY <2>1, <3>1, <3>2, MovedApart
    <3> QED BY <2>1, <3>1, <3>3
  <2> QED BY <2>2, <2>3
<1>13. ASSUME Orderly', NEW i \in Present', NEW j \in Present', i # j,
              rows'[i].pos = rows'[j].pos
       PROVE  i \in given' \/ j \in given'
  <2>1. i \in Present /\ j \in Present
    BY <1>3, InQueue
  <2>2. rows'[i].played \in BOOLEAN /\ rows'[j].played \in BOOLEAN
    BY <2>1, InQueue, ReorderFacts DEF Row
  <2>3. CASE ~rows'[i].played /\ ~rows'[j].played
    BY <1>12, <1>13, <2>3
  <2>4. CASE \/ rows'[i].played /\ ~rows'[j].played
             \/ ~rows'[i].played /\ rows'[j].played
    BY <1>8, <1>13, <2>1, <2>4
  <2>5. CASE rows'[i].played /\ rows'[j].played
    <3>1. i # h /\ j # h
      <4>1. ~req[k].old.played
        BY <1>3, <1>5, <1>13, OrderParts DEF WriterKnows
      <4>2. h \in Present => ~rows'[h].played
        BY <1>3, <4>1
      <4> QED BY <2>1, <2>5, <4>2
    <3>2. rows[i].played /\ rows[j].played
      BY <1>3, <2>1, <2>5, <3>1
    <3>3. rows'[i].pos = rows[i].pos /\ rows'[j].pos = rows[j].pos
      BY <1>3, <2>1, <3>1, <3>2
    <3>4. i \in given \/ j \in given
      BY <1>5, <1>13, <2>1, <3>3, OrderParts DEF SharedGiven
    <3>5. given \subseteq given'
      BY <1>8
    <3> QED BY <3>4, <3>5
  <2> QED BY <2>2, <2>3, <2>4, <2>5
<1>14. Orderly' => SharedGiven'
  BY <1>13 DEF SharedGiven
<1> QED BY <1>6, <1>7, <1>10, <1>14 DEF OrderInv

(* What the other steps of a request do to it. *)
PlayStep(k) ==
  \/ AutoStatus(k) \/ PlayMark(k) \/ \E t \in Track : PlayAsked(k, t)
  \/ \E i \in Id : PreviousAsked(k, i)
  \/ PreviousFind(k) \/ PreviousCurrent(k) \/ PreviousEarlier(k)

LEMMA PlayStepReq ==
  ASSUME TypesInv, NEW k \in Slot, PlayStep(k)
  PROVE  /\ \A j \in Slot : j # k => req'[j] = req[j]
         /\ req'[k].pc \in PcPlays \cup PcPrevious \cup {"free"}
         /\ overlap \subseteq overlap'
<1>1. req \in [Slot -> Req] /\ req[k] \in Req
  BY TypesParts DEF ReqsTyped
<1>2. ASSUME NEW r, req' = [req EXCEPT ![k] = r], r.pc \in PcPlays \cup PcPrevious \cup {"free"}
      PROVE  /\ \A j \in Slot : j # k => req'[j] = req[j]
             /\ req'[k].pc \in PcPlays \cup PcPrevious \cup {"free"}
  <2>1. req'[k] = r /\ \A j \in Slot : j # k => req'[j] = req[j]
    BY <1>1, <1>2
  <2> QED BY <1>2, <2>1
<1>3. CASE Over(k)
  <2>1. overlap \subseteq overlap'
    BY <1>3 DEF PlayStep, AutoStatus, PlayMark, PlayAsked, PreviousAsked, PreviousFind,
       PreviousCurrent, PreviousEarlier, Unplay, PlayOverlap, KeepQueue
  <2> QED BY <1>2, <1>3, <2>1, FreeFacts DEF Over
<1>4. CASE ~Over(k) /\ (AutoStatus(k) \/ PreviousCurrent(k) \/ PreviousEarlier(k))
  <2>1. PICK pc : /\ pc = "playMark" \/ pc = "prevEarlier" \/ pc = "prevMark"
                  /\ Goto(k, pc) /\ overlap \subseteq overlap'
    BY <1>4 DEF AutoStatus, PreviousCurrent, PreviousEarlier, Unplay, KeepQueue
  <2>2. PICK r : r = [req[k] EXCEPT !.pc = pc]
    OBVIOUS
  <2>3. r.pc = pc /\ req' = [req EXCEPT ![k] = r]
    BY <1>1, <2>1, <2>2 DEF Goto, Req
  <2> QED BY <1>2, <2>1, <2>3, AddPcs
<1>5. CASE PlayMark(k)
  BY <1>3, <1>5 DEF PlayMark
<1>6. CASE \E t \in Track : PlayAsked(k, t)
  <2>1. PICK t \in Track : PlayAsked(k, t)
    BY <1>6
  <2>2. PICK r : r = [FreeReq EXCEPT !.pc = "playMark", !.tracks = <<t>>]
    OBVIOUS
  <2>3. r.pc = "playMark" /\ req' = [req EXCEPT ![k] = r] /\ overlap' = overlap
    BY <2>1, <2>2 DEF FreeReq, PlayAsked, Begin
  <2> QED BY <1>2, <2>3, AddPcs
<1>7. CASE \E i \in Id : PreviousAsked(k, i)
  <2>1. PICK i \in Id : PreviousAsked(k, i)
    BY <1>7
  <2>2. PICK r : r = [FreeReq EXCEPT !.pc = "prevFind", !.id = i, !.pos = rows[i].pos]
    OBVIOUS
  <2>3. r.pc = "prevFind" /\ req' = [req EXCEPT ![k] = r] /\ overlap \subseteq overlap'
    BY <2>1, <2>2 DEF FreeReq, PreviousAsked, Begin
  <2> QED BY <1>2, <2>3, AddPcs
<1>8. CASE PreviousFind(k) /\ ~Over(k)
  <2>1. PICK j : req' = [req EXCEPT ![k] = [@ EXCEPT !.pc = "prevCurrent", !.prev = j,
                                                     !.tracks = <<rows[j].track>>]]
    BY <1>8 DEF PreviousFind
  <2>2. PICK r : r = [req[k] EXCEPT !.pc = "prevCurrent", !.prev = j, !.tracks = <<rows[j].track>>]
    OBVIOUS
  <2>3. r.pc = "prevCurrent" /\ req' = [req EXCEPT ![k] = r] /\ overlap' = overlap
    BY <1>1, <1>8, <2>1, <2>2 DEF Req, PreviousFind, KeepQueue
  <2> QED BY <1>2, <2>3, AddPcs
<1> QED BY <1>3, <1>4, <1>5, <1>6, <1>7, <1>8 DEF PlayStep

LEMMA StepReq ==
  ASSUME TypesInv, NEW k \in Slot,
         \/ AddRoom(k) \/ AddDup(k) \/ AddNow(k) \/ AddCooldown(k) \/ AddQuota(k)
         \/ RemoveRoom(k) \/ RemoveRow(k)
         \/ \E u \in People, i \in Id : RemoveTrack(k, u, i)
         \/ PlayStep(k)
  PROVE  /\ \A j \in Slot : j # k => req'[j] = req[j]
         /\ req'[k].pc \notin {"addSave", "reorderWrite"}
         /\ req'[k].pc \in PcAdd => req[k].pc \in PcAdd
         /\ overlap \subseteq overlap'
<1>1. req \in [Slot -> Req] /\ req[k] \in Req
  BY TypesParts DEF ReqsTyped
<1>2. CASE Over(k)
  BY <1>1, <1>2, FreeFacts, AddPcs, PlayStepReq DEF Over, AddRoom, AddDup, AddNow, AddCooldown,
     AddQuota, RemoveRoom, RemoveRow, RemoveTrack, KeepQueue
<1>3. CASE RemoveRow(k)
  BY <1>2, <1>3 DEF RemoveRow
<1>4. CASE ~Over(k) /\ (AddRoom(k) \/ AddCooldown(k) \/ AddQuota(k) \/ RemoveRoom(k))
  <2>1. /\ \E pc \in {"addDup", "addQuota", "addMax", "removeRow"} :
             Goto(k, pc) /\ (pc = "removeRow" \/ req[k].pc \in PcAdd)
        /\ UNCHANGED overlap
    BY <1>4, AddPcs DEF AddRoom, AddCooldown, AddQuota, RemoveRoom, KeepQueue
  <2>2. PICK pc : /\ pc = "addDup" \/ pc = "addQuota" \/ pc = "addMax" \/ pc = "removeRow"
                  /\ Goto(k, pc) /\ (pc = "removeRow" \/ req[k].pc \in PcAdd)
    BY <2>1
  <2>3. req'[k].pc = pc /\ \A j \in Slot : j # k => req'[j] = req[j]
    BY <1>1, <2>2 DEF Goto, Req
  <2> QED BY <2>1, <2>2, <2>3, AddPcs
<1>5. CASE AddDup(k)
  <2>1. PICK w : req' = [req EXCEPT ![k] = [req[k] EXCEPT !.pc = "addNow", !.tracks = w]]
    BY <1>5 DEF AddDup
  <2>2. req'[k].pc = "addNow" /\ \A j \in Slot : j # k => req'[j] = req[j]
    BY <1>1, <2>1 DEF Req
  <2>3. req[k].pc = "addDup" /\ UNCHANGED overlap
    BY <1>5 DEF AddDup, KeepQueue
  <2> QED BY <2>2, <2>3, AddPcs
<1>6. CASE AddNow(k) /\ ~Over(k)
  <2>1. PICK pc : pc = IF req[k].user = Host THEN "addMax"
                       ELSE IF Cooldown THEN "addCooldown" ELSE "addQuota"
    OBVIOUS
  <2>2. PICK w : req' = [req EXCEPT ![k] = [req[k] EXCEPT !.tracks = w, !.pc = pc]]
    BY <1>6, <2>1 DEF AddNow
  <2>3. req'[k].pc = pc /\ \A j \in Slot : j # k => req'[j] = req[j]
    BY <1>1, <2>2 DEF Req
  <2>4. req[k].pc = "addNow" /\ UNCHANGED overlap
    BY <1>6 DEF AddNow, KeepQueue
  <2> QED BY <2>1, <2>3, <2>4, AddPcs
<1>8. CASE PlayStep(k)
  BY <1>8, PlayStepReq, AddPcs
<1>7. CASE \E u \in People, i \in Id : RemoveTrack(k, u, i)
  <2>1. PICK u \in People, i \in Id : RemoveTrack(k, u, i)
    BY <1>7
  <2>2. PICK r : r = [FreeReq EXCEPT !.pc = "removeRoom", !.user = u, !.id = i]
    OBVIOUS
  <2>3. r.pc = "removeRoom"
    BY <2>2 DEF FreeReq
  <2>4. req' = [req EXCEPT ![k] = r] /\ UNCHANGED overlap
    BY <2>1, <2>2 DEF RemoveTrack, Begin
  <2> QED BY <1>1, <2>3, <2>4, AddPcs
<1> QED BY <1>2, <1>3, <1>4, <1>5, <1>6, <1>7, <1>8

(* What the steps that write no position do to the rows. *)
LEMMA StepRows ==
  ASSUME TypesInv,
         \/ \E k \in Slot : \/ AddRoom(k) \/ AddDup(k) \/ AddNow(k) \/ AddCooldown(k)
                            \/ AddQuota(k) \/ AddMax(k) \/ RemoveRoom(k) \/ RemoveRow(k)
                            \/ PlayStep(k) \/ Requests(k)
         \/ Plays \/ Time \/ UNCHANGED queueVars
  PROVE  /\ rows' \in [Id -> Row] /\ GivenKept
         /\ \A i \in Id : rows'[i] # NoRow =>
              /\ rows[i] # NoRow /\ rows'[i].pos = rows[i].pos /\ rows'[i].track = rows[i].track
              /\ rows'[i].by = rows[i].by /\ (rows'[i].recent => rows[i].recent)
<1> DEFINE Same(i) == /\ rows[i] # NoRow /\ rows'[i].pos = rows[i].pos
                      /\ rows'[i].track = rows[i].track /\ rows'[i].by = rows[i].by
                      /\ rows'[i].recent => rows[i].recent
           Result == /\ rows' \in [Id -> Row] /\ GivenKept
                     /\ \A i \in Id : rows'[i] # NoRow => Same(i)
<1>1. rows \in [Id -> Row] /\ RowsTyped /\ given \subseteq Id
  BY TypesParts DEF RowsTyped, PlayTyped
<1>2. ASSUME NEW t \in Track, rows' = Marked(t), UNCHANGED given
      PROVE  Result
  <2>1. /\ rows' \in [Id -> Row]
        /\ \A i \in Id : rows'[i] # NoRow <=> rows[i] # NoRow
        /\ \A i \in Id : /\ rows'[i].track = rows[i].track /\ rows'[i].by = rows[i].by
                         /\ rows'[i].pos = rows[i].pos /\ rows'[i].recent = rows[i].recent
                         /\ rows'[i].played = (rows[i].played \/ rows[i].track = t)
    BY <1>1, <1>2, MarkedFacts
  <2>2. GivenKept
    BY <1>1, <1>2, <2>1 DEF GivenKept
  <2> QED BY <2>1, <2>2
<1>3. ASSUME UNCHANGED <<rows, given>>
      PROVE  Result
  BY <1>1, <1>3 DEF GivenKept
<1>4. ASSUME NEW k \in Slot,
             \/ AddRoom(k) \/ AddDup(k) \/ AddNow(k) \/ AddCooldown(k)
             \/ AddQuota(k) \/ AddMax(k) \/ RemoveRoom(k) \/ Requests(k)
      PROVE  UNCHANGED <<rows, given>>
  BY <1>4 DEF AddRoom, AddDup, AddNow, AddCooldown, AddQuota, AddMax, RemoveRoom, KeepQueue,
              Requests, AddTracks, RemoveTrack, Reorder, PlayAsked, PreviousAsked
<1>5. ASSUME NEW k \in Slot, RemoveRow(k)
      PROVE  Result
  <2>1. PICK h : h = req[k].id
    OBVIOUS
  <2>2. rows' = [rows EXCEPT ![h] = NoRow] /\ given' = given \ {h}
    BY <1>5, <2>1 DEF RemoveRow
  <2>3. rows' \in [Id -> Row] /\ \A i \in Id : \/ i # h /\ rows'[i] = rows[i]
                                               \/ i = h /\ rows'[i] = NoRow
    BY <1>1, <2>2, NoRowFacts
  <2>4. GivenKept
    BY <1>1, <2>2, <2>3 DEF GivenKept
  <2> QED BY <2>3, <2>4
<1>6. ASSUME NEW i, Unplay(i)
      PROVE  Result
  <2>1. /\ rows' \in [Id -> Row]
        /\ \A j \in Id : rows'[j] # NoRow <=> rows[j] # NoRow
        /\ \A j \in Id : /\ rows'[j].track = rows[j].track /\ rows'[j].by = rows[j].by
                         /\ rows'[j].pos = rows[j].pos /\ rows'[j].recent = rows[j].recent
                         /\ rows'[j].version = rows[j].version
                         /\ j # i => rows'[j].played = rows[j].played
        /\ i \in Present => rows'[i].played = FALSE
    BY <1>1, <1>6, UnplayFacts
  <2>2. given' = given \ {i} /\ (i \in given => "back" \in overlap')
    BY <1>6 DEF Unplay
  <2>3. GivenKept
    BY <1>1, <2>1, <2>2 DEF GivenKept
  <2> QED BY <2>1, <2>3
<1>7. ASSUME NEW k \in Slot, PlayStep(k)
      PROVE  Result
  <2>1. CASE PlayMark(k)
    <3>1. Head(req[k].tracks) \in Track
      <4>1. PICK s \in Seq(Track) : s = req[k].tracks /\ s # <<>>
        BY <2>1, ReqKnown, AddPcs DEF PlayMark, ListKnown
      <4> QED BY <4>1
    <3> QED BY <1>2, <2>1, <3>1 DEF PlayMark
  <2>2. CASE PreviousCurrent(k) \/ PreviousEarlier(k)
    BY <1>6, <2>2 DEF PreviousCurrent, PreviousEarlier
  <2>3. CASE \/ AutoStatus(k) \/ \E t \in Track : PlayAsked(k, t)
             \/ PreviousFind(k) \/ \E i \in Id : PreviousAsked(k, i)
    BY <1>3, <2>3 DEF AutoStatus, PlayAsked, PreviousAsked, PreviousFind, KeepQueue
  <2> QED BY <1>7, <2>1, <2>2, <2>3 DEF PlayStep
<1>8. ASSUME Plays
      PROVE  UNCHANGED given /\ (UNCHANGED rows \/ \E t \in Track : rows' = Marked(t))
  BY <1>8 DEF Plays, TrackEnds, EndIdle, PauseOrResume, TakeNext, PlaySave
<1>9. ASSUME NEW i \in Id, Ages(i)
      PROVE  Result
  <2>1. /\ rows' \in [Id -> Row]
        /\ \A j \in Id : rows'[j] # NoRow <=> rows[j] # NoRow
        /\ \A j \in Id : /\ rows'[j].track = rows[j].track /\ rows'[j].by = rows[j].by
                         /\ rows'[j].pos = rows[j].pos /\ (rows'[j].recent => rows[j].recent)
                         /\ rows'[j].played = rows[j].played
    BY <1>1, <1>9, AgedFacts
  <2>2. UNCHANGED given
    BY <1>9 DEF Ages
  <2>3. GivenKept
    BY <1>1, <2>1, <2>2 DEF GivenKept
  <2> QED BY <2>1, <2>3
<1>10. CASE Time \/ UNCHANGED queueVars
  BY <1>3, <1>9, <1>10 DEF Time, Forgets, queueVars
<1>11. CASE Plays
  BY <1>2, <1>3, <1>8, <1>11
<1>12. CASE \E k \in Slot : \/ AddRoom(k) \/ AddDup(k) \/ AddNow(k) \/ AddCooldown(k)
                            \/ AddQuota(k) \/ AddMax(k) \/ RemoveRoom(k) \/ Requests(k)
  BY <1>3, <1>4, <1>12
<1> QED BY <1>5, <1>7, <1>10, <1>11, <1>12

LEMMA OrderNext ==
  ASSUME TypesInv, OrderInv, [QueueNext]_queueVars
  PROVE  OrderInv'
<1>1. ASSUME NEW k \in Slot,
             \/ AddRoom(k) \/ AddDup(k) \/ AddNow(k) \/ AddCooldown(k) \/ AddQuota(k)
             \/ RemoveRoom(k) \/ RemoveRow(k)
             \/ (\E u \in People, i \in Id : RemoveTrack(k, u, i)) /\ Requests(k)
             \/ PlayStep(k)
      PROVE  OrderInv'
  BY <1>1, StepRows, StepReq, OrderKeeps
<1>2. CASE Plays \/ Time \/ UNCHANGED queueVars
  <2>1. UNCHANGED req /\ overlap \subseteq overlap'
    BY <1>2 DEF Plays, Time, queueVars, TrackEnds, EndIdle, PauseOrResume, TakeNext, PlaySave,
                PlayOverlap, Ages, Forgets
  <2> QED BY <1>2, <2>1, StepRows, OrderKeeps
<1>3. ASSUME NEW k \in Slot, Requests(k)
      PROVE  OrderInv'
  <2>1. \/ \E u \in People, s \in Lists : AddTracks(k, u, s)
        \/ \E i \in Present, p \in Id : Reorder(k, i, p)
        \/ \E u \in People, i \in Id : RemoveTrack(k, u, i)
        \/ PlayStep(k)
    BY <1>3 DEF Requests, People, PlayStep
  <2> QED BY <1>1, <1>3, <2>1, BeginOrder
<1>4. ASSUME NEW k \in Slot, QueueStep(k)
      PROVE  OrderInv'
  BY <1>1, <1>4, MaxOrder, SaveOrder, ReorderOrder DEF QueueStep, PlayStep
<1> QED BY <1>2, <1>3, <1>4 DEF QueueNext

(* As long as no two calls write together, no reorder comes for a row already played,
   and previous puts no row back whose position a reorder has given away, the rows that
   wait have different positions. *)
THEOREM OrderIsClear == QueueSpec => []PositionsDiffer
<1>1. QueueInit => TypesInv /\ OrderInv
  <2>1. QueueInit => TypesInv
    BY TypesInit
  <2>2. ASSUME QueueInit PROVE OrderInv
    <3>1. Present = {} /\ given = {} /\ \A k \in Slot : req[k].pc = "free"
      BY <2>2, FreeFacts DEF QueueInit, Present
    <3> QED BY <3>1, AddPcs, WritesAre DEF OrderInv, WriterAlone, WriterKnows, GivenPlayed,
                                            SharedGiven
  <2> QED BY <2>1, <2>2
<1>2. TypesInv /\ OrderInv /\ [QueueNext]_queueVars => TypesInv' /\ OrderInv'
  BY TypesNext, OrderNext
<1>3. OrderInv => PositionsDiffer
  BY OrderShows
<1> QED BY <1>1, <1>2, <1>3, PTL DEF QueueSpec

--------------------------------------------------------------------------------
(* No track waits twice. *)
LEMMA InTracks ==
  /\ \A t : t \in QueuedTracks <=> \E i \in Unplayed : rows[i].track = t
  /\ \A t : t \in QueuedTracks' <=> \E i \in Unplayed' : rows'[i].track = t
BY DEF QueuedTracks

LEMMA QueuedTyped ==
  ASSUME RowsTyped
  PROVE  NoTrack \notin QueuedTracks
BY Consts, InTracks, InQueue DEF RowsTyped

LEMMA TracksParts ==
  TracksInv <=> (Quiet => /\ TracksApart
                          /\ \A k \in Slot : Writing(k) => QuietWriter(k)
                          /\ \A k \in Slot : k \in Backward => QuietBack(k))
BY DEF TracksInv

(* Where the calls of previous are. *)
LEMMA BackAre ==
  /\ \A j : j \in Backward <=> j \in Slot /\ req[j].pc \in PcPrevious
  /\ \A j : j \in Backward' <=> j \in Slot /\ req'[j].pc \in PcPrevious
  /\ \A t : t \in Returning <=> \E k \in Slot : req[k].pc = "prevMark" /\ t = Head(req[k].tracks)
  /\ \A t : t \in Returning' <=>
       \E k \in Slot : req'[k].pc = "prevMark" /\ t = Head(req'[k].tracks)
  /\ Replacing <=> taken # {} \/ \E k \in Slot : req[k].pc \in {"prevEarlier", "prevMark"}
  /\ Replacing' <=> taken' # {} \/ \E k \in Slot : req'[k].pc \in {"prevEarlier", "prevMark"}
  /\ \A j \in Slot : Writing(j) => req[j].pc \notin PcPrevious
  /\ \A j \in Slot : Writing(j)' => req'[j].pc \notin PcPrevious
BY AddPcs DEF Backward, Returning, Replacing, Writing

Distinct == \A i, j \in Unplayed : i # j => rows[i].track # rows[j].track

(* Without a previous about to play, and without a play, nothing waits that plays. *)
LEMMA ApartAlone ==
  /\ TracksApart /\ (\A j \in Slot : req[j].pc # "prevMark") => Distinct
  /\ TracksApart /\ taken = {} /\ (\A j \in Slot : req[j].pc \notin {"prevEarlier", "prevMark"})
       => playing \notin QueuedTracks
<1>1. (\A j \in Slot : req[j].pc # "prevMark") => Returning = {}
  BY BackAre
<1>2. taken = {} /\ (\A j \in Slot : req[j].pc \notin {"prevEarlier", "prevMark"}) => ~Replacing
  BY BackAre
<1> QED BY <1>1, <1>2 DEF TracksApart, Distinct

LEMMA ApartEmpty ==
  ASSUME TracksApart, taken = {}, Backward = {}
  PROVE  Distinct /\ playing \notin QueuedTracks
BY ApartAlone, BackAre, AddPcs

LEMMA ApartAfter ==
  ASSUME Distinct', playing' \notin QueuedTracks' \/ Replacing', taken' \cap QueuedTracks' = {}
  PROVE  TracksApart'
BY DEF TracksApart, Distinct

LEMMA QuietOverlap ==
  ASSUME overlap \subseteq overlap'
  PROVE  /\ Quiet' => Quiet
         /\ Quiet' => /\ "write" \notin overlap' /\ "play" \notin overlap'
                      /\ "previous" \notin overlap' /\ "twice" \notin overlap'
                      /\ "unplayed" \notin overlap'
BY DEF Quiet

(* Rows that keep their tracks, and none of them comes back. *)
RowsFewer == \A i \in Id : rows'[i] # NoRow =>
  /\ rows[i] # NoRow /\ rows'[i].track = rows[i].track
  /\ ~rows'[i].played => ~rows[i].played

LEMMA FewerTracks ==
  ASSUME RowsFewer
  PROVE  /\ \A i \in Unplayed' : i \in Unplayed /\ rows'[i].track = rows[i].track
         /\ \A t : t \in QueuedTracks' => t \in QueuedTracks
<1>1. \A i \in Unplayed' : i \in Unplayed /\ rows'[i].track = rows[i].track
  BY InQueue DEF RowsFewer
<1> QED BY <1>1, InTracks

LEMMA SameTracks ==
  ASSUME UNCHANGED rows
  PROVE  QueuedTracks' = QueuedTracks /\ Unplayed' = Unplayed /\ (Distinct => Distinct')
BY DEF QueuedTracks, Unplayed, Present, Distinct

(* A step that reads or removes: who writes or goes back goes on as it was. *)
LEMMA TracksKeep ==
  ASSUME TypesInv, TracksInv,
         \A i \in Id : rows'[i] # NoRow =>
           /\ rows[i] # NoRow /\ rows'[i].track = rows[i].track
           /\ rows'[i].played = rows[i].played,
         overlap \subseteq overlap', playing' \in {playing, NoTrack}, UNCHANGED taken,
         \A j \in Slot :
           \/ req'[j] = req[j]
           \/ ~Writing(j)' /\ req[j].pc \notin PcPrevious /\ req'[j].pc \notin PcPrevious
  PROVE  TracksInv'
<1>1. RowsFewer
  BY DEF RowsFewer
<1>2. SUFFICES ASSUME Quiet'
               PROVE  /\ TracksApart'
                      /\ \A k \in Slot : (Writing(k)' => QuietWriter(k)')
                                         /\ (k \in Backward' => QuietBack(k)')
  BY DEF TracksInv
<1>3. Quiet /\ TracksApart
  BY <1>2, QuietOverlap, TracksParts
<1>4. /\ \A i \in Unplayed' : i \in Unplayed /\ rows'[i].track = rows[i].track
      /\ \A t : t \in QueuedTracks' => t \in QueuedTracks
  BY <1>1, FewerTracks
<1>5. /\ \A j \in Slot : req[j].pc \in PcPrevious \/ req'[j].pc \in PcPrevious => req'[j] = req[j]
      /\ Backward' = Backward
  BY BackAre
<1>6. (\A t : t \in Returning => t \in Returning') /\ (Replacing => Replacing')
  <2>1. \A j \in Slot : req[j].pc \in {"prevEarlier", "prevMark"} => req'[j] = req[j]
    BY <1>5, AddPcs
  <2> QED BY <2>1, BackAre
<1>7. TracksApart'
  <2>1. \A i, j \in Unplayed' :
          i # j => rows'[i].track # rows'[j].track \/ rows'[i].track \in Returning'
    BY <1>3, <1>4, <1>6 DEF TracksApart
  <2>2. playing' \in QueuedTracks' => Replacing'
    BY <1>3, <1>4, <1>6, QueuedTyped, TypesParts DEF TracksApart
  <2>3. taken' \cap QueuedTracks' = {}
    BY <1>3, <1>4 DEF TracksApart
  <2> QED BY <2>1, <2>2, <2>3 DEF TracksApart
<1>8. ASSUME NEW k \in Slot, Writing(k)'
      PROVE  QuietWriter(k)'
  <2>1. req'[k] = req[k] /\ Writing(k)
    BY <1>8, WritesAre
  <2>2. QuietWriter(k)
    BY <1>3, <2>1, TracksParts
  <2>3. \A n \in DOMAIN req[k].tracks : req[k].tracks[n] \in Track
    BY ReqKnown
  <2>4. req[k].pc \in PcAdd \ {"addRoom", "addDup"} =>
          \A n \in DOMAIN req[k].tracks : req[k].tracks[n] \notin QueuedTracks'
    BY <1>4, <2>2 DEF QuietWriter
  <2>5. req[k].pc \in PcAdd \ {"addRoom", "addDup", "addNow"} =>
          \A n \in DOMAIN req[k].tracks : req[k].tracks[n] # playing'
    BY <2>2, <2>3, Consts DEF QuietWriter
  <2>6. req[k].pc = "reorderWrite" =>
          (rows'[req[k].id] # NoRow => (rows'[req[k].id].played => req[k].old.played))
    BY <2>2, ReqKnown DEF QuietWriter, RowKnown
  <2>7. taken' = {} /\ Backward' = {} /\ (req[k].pc \in PcAdd => IsInjective(req[k].tracks))
    BY <1>5, <2>2 DEF QuietWriter
  <2> QED BY <2>1, <2>4, <2>5, <2>6, <2>7 DEF QuietWriter
<1>9. ASSUME NEW k \in Slot, k \in Backward'
      PROVE  QuietBack(k)'
  <2>1. req'[k] = req[k] /\ QuietBack(k)
    BY <1>3, <1>5, <1>9, BackAre, TracksParts
  <2>2. req[k].id \in Present' => req[k].id \in Present
                                  /\ rows'[req[k].id].track = rows[req[k].id].track
    BY InQueue
  <2>3. taken' = {} /\ \A j \in Backward' : j = k
    BY <1>5, <2>1 DEF QuietBack
  <2>4. req[k].pc \in {"prevFind", "prevCurrent"} /\ req[k].id \in Present' =>
          rows'[req[k].id].track \notin QueuedTracks'
    BY <1>4, <2>1, <2>2 DEF QuietBack
  <2> QED BY <2>1, <2>3, <2>4 DEF QuietBack
<1> QED BY <1>7, <1>8, <1>9

(* A play marks the rows of its track, when nobody writes or goes back. *)
LEMMA MarkTracks ==
  ASSUME TypesInv, TracksInv, NEW t \in Track, rows' = Marked(t), UNCHANGED playing,
         taken' = taken \cup {t}, overlap \subseteq overlap',
         Quiet' => /\ \A j \in Slot : ~Writing(j)' /\ j \notin Backward'
                   /\ \A x \in Returning : x = t
  PROVE  TracksInv'
<1>1. SUFFICES ASSUME Quiet' PROVE TracksApart'
  BY DEF TracksInv
<1>2. Quiet /\ TracksApart
  BY <1>1, QuietOverlap, TracksParts
<1>3. /\ \A i \in Id : rows'[i] # NoRow <=> rows[i] # NoRow
      /\ \A i \in Id : /\ rows'[i].track = rows[i].track
                       /\ rows'[i].played = (rows[i].played \/ rows[i].track = t)
  BY TypesParts, MarkedFacts
<1>4. RowsFewer
  BY <1>3 DEF RowsFewer
<1>5. /\ \A i \in Unplayed' : i \in Unplayed /\ rows'[i].track = rows[i].track
      /\ \A x : x \in QueuedTracks' => x \in QueuedTracks
  BY <1>4, FewerTracks
<1>6. ASSUME NEW i \in Unplayed'
      PROVE  rows'[i].track # t
  <2>1. i \in Id /\ ~rows'[i].played
    BY InQueue
  <2>2. rows'[i].track = rows[i].track /\ rows'[i].played = (rows[i].played \/ rows[i].track = t)
    BY <1>3, <2>1
  <2> QED BY <2>1, <2>2
<1>7. Distinct'
  BY <1>1, <1>2, <1>5, <1>6 DEF TracksApart, Distinct
<1>8. taken' \cap QueuedTracks' = {}
  BY <1>2, <1>5, <1>6, InTracks DEF TracksApart
<1>9. Replacing'
  BY BackAre
<1> QED BY <1>7, <1>8, <1>9, ApartAfter

LEMMA PlayTracks ==
  ASSUME TypesInv, TracksInv,
         \/ \E k \in Slot : PlayMark(k)
         \/ \E t \in Track : TakeNext(t) \/ PlaySave(t)
  PROVE  TracksInv'
<1>1. CASE \E k \in Slot : PlayMark(k)
  <2>1. PICK k \in Slot : PlayMark(k)
    BY <1>1
  <2>2. PICK t \in Track : t = Head(req[k].tracks)
    <3>1. PICK s \in Seq(Track) : s = req[k].tracks /\ s # <<>>
      BY <2>1, ReqKnown, AddPcs DEF PlayMark, ListKnown
    <3> QED BY <3>1
  <2>3. /\ req[k].pc \in {"playMark", "prevMark"} /\ req'[k].pc = "free"
        /\ \A j \in Slot : j # k => req'[j] = req[j]
    BY <2>1, FreeFacts, TypesParts DEF PlayMark, Over, ReqsTyped
  <2>4. /\ rows' = Marked(t) /\ taken' = taken \cup {t} /\ UNCHANGED playing
        /\ overlap' = overlap \cup {o \in {"play"} : Writers # {}}
                        \cup {o \in {"previous"} : Backward \ {k} # {}}
    BY <2>1, <2>2 DEF PlayMark, PlayOverlap
  <2>5. Quiet' => Writers = {} /\ Backward \ {k} = {}
    BY <2>4, QuietOverlap
  <2>6. ASSUME Quiet', NEW j \in Slot
        PROVE  ~Writing(j)' /\ j \notin Backward'
    <3>1. CASE j = k
      BY <2>3, <3>1, WritesAre, BackAre, AddPcs
    <3>2. CASE j # k
      BY <2>3, <2>5, <2>6, <3>2, WritesAre, BackAre DEF Writers
    <3> QED BY <3>1, <3>2
  <2>7. ASSUME Quiet', NEW x \in Returning
        PROVE  x = t
    <3>1. PICK j \in Slot : req[j].pc = "prevMark" /\ x = Head(req[j].tracks)
      BY BackAre
    <3>2. j = k
      BY <2>5, <2>7, <3>1, BackAre, AddPcs
    <3> QED BY <2>2, <3>1, <3>2
  <2> QED BY <2>4, <2>6, <2>7, MarkTracks
<1>2. CASE \E t \in Track : TakeNext(t)
  <2>1. PICK t \in Track : TakeNext(t)
    BY <1>2
  <2>2. /\ rows' = Marked(t) /\ taken' = taken \cup {t} /\ UNCHANGED <<playing, req>>
        /\ overlap' = overlap \cup {o \in {"play"} : Writers # {}}
                        \cup {o \in {"previous"} : Backward # {}}
    BY <2>1 DEF TakeNext, PlayOverlap
  <2>3. Quiet' => Writers = {} /\ Backward = {}
    BY <2>2, QuietOverlap
  <2>4. Quiet' => /\ \A j \in Slot : ~Writing(j)' /\ j \notin Backward'
                  /\ \A x \in Returning : x = t
    BY <2>2, <2>3, WritesAre, BackAre, AddPcs DEF Writers
  <2> QED BY <2>2, <2>4, MarkTracks
<1>3. CASE \E t \in Track : PlaySave(t)
  <2>1. PICK t \in Track : PlaySave(t)
    BY <1>3
  <2>2. /\ UNCHANGED <<rows, req>> /\ taken' = taken \ {t} /\ playing' = t /\ t \in taken
        /\ overlap' = overlap \cup {o \in {"play"} : Writers # {}}
                        \cup {o \in {"previous"} : Backward # {}}
    BY <2>1 DEF PlaySave, PlayOverlap
  <2>3. SUFFICES ASSUME Quiet'
                 PROVE  /\ TracksApart'
                        /\ \A k \in Slot : ~Writing(k)' /\ k \notin Backward'
    BY DEF TracksInv
  <2>4. Writers = {} /\ Backward = {} /\ Quiet /\ TracksApart
    BY <2>2, <2>3, QuietOverlap, TracksParts
  <2>5. \A k \in Slot : ~Writing(k)' /\ k \notin Backward'
    BY <2>2, <2>4, WritesAre, BackAre DEF Writers
  <2>6. Distinct /\ taken \cap QueuedTracks = {}
    BY <2>4, ApartAlone, BackAre, AddPcs DEF TracksApart
  <2>7. TracksApart'
    BY <2>2, <2>6, SameTracks, ApartAfter
  <2> QED BY <2>5, <2>7
<1> QED BY <1>1, <1>2, <1>3

(* The steps of a previous. *)
LEMMA BackAlone ==
  ASSUME TracksInv, Quiet, NEW k \in Slot, k \in Backward
  PROVE  /\ TracksApart /\ QuietBack(k) /\ taken = {}
         /\ \A j \in Slot : ~Writing(j) /\ (j # k => req[j].pc \notin PcPrevious)
<1>1. TracksApart /\ QuietBack(k)
  BY TracksParts
<1>2. ASSUME NEW j \in Slot, Writing(j)
      PROVE  FALSE
  <2>1. QuietWriter(j)
    BY <1>2, TracksParts
  <2> QED BY <2>1 DEF QuietWriter
<1> QED BY <1>1, <1>2, BackAre DEF QuietBack

LEMMA BackTracks ==
  ASSUME TypesInv, TracksInv, NEW k \in Slot,
         \/ \E i \in Id : PreviousAsked(k, i)
         \/ PreviousFind(k) \/ PreviousCurrent(k) \/ PreviousEarlier(k)
  PROVE  TracksInv'
<1>1. /\ UNCHANGED <<playing, taken>> /\ overlap \subseteq overlap'
      /\ req \in [Slot -> Req] /\ req[k] \in Req /\ rows \in [Id -> Row] /\ RowsTyped
  BY TypesParts DEF PreviousAsked, PreviousFind, PreviousCurrent, PreviousEarlier, Unplay,
     KeepQueue, KeepPlayback, ReqsTyped, RowsTyped
<1>2. SUFFICES ASSUME Quiet'
               PROVE  /\ TracksApart'
                      /\ \A j \in Slot : (Writing(j)' => QuietWriter(j)')
                                         /\ (j \in Backward' => QuietBack(j)')
  BY DEF TracksInv
<1>3. Quiet
  BY <1>1, <1>2, QuietOverlap
<1>4. CASE \E i \in Id : PreviousAsked(k, i)
  <2>1. PICK i \in Id : PreviousAsked(k, i)
    BY <1>4
  <2>2. PICK r : r = [FreeReq EXCEPT !.pc = "prevFind", !.id = i, !.pos = rows[i].pos]
    OBVIOUS
  <2>3. r.pc = "prevFind" /\ r.id = i /\ req' = [req EXCEPT ![k] = r] /\ UNCHANGED rows
    BY <2>1, <2>2 DEF FreeReq, PreviousAsked, Begin
  <2>4. Writers = {} /\ Backward = {} /\ taken = {} /\ rows[i].track = playing
    <3>1. overlap' = overlap \cup {o \in {"previous"} :
                       Writers # {} \/ Backward # {} \/ taken # {}}
      BY <2>1 DEF PreviousAsked
    <3> QED BY <1>1, <1>2, <2>1, <3>1, QuietOverlap DEF PreviousAsked
  <2>5. Distinct /\ playing \notin QueuedTracks
    BY <1>3, <2>4, ApartEmpty, TracksParts
  <2>6. req'[k] = r /\ \A j \in Slot : j # k => req'[j] = req[j]
    BY <1>1, <2>3
  <2>7. \A j \in Slot : ~Writing(j)' /\ (j \in Backward' => j = k)
    BY <2>3, <2>4, <2>6, WritesAre, BackAre, AddPcs DEF Writers
  <2>8. TracksApart'
    BY <1>1, <2>3, <2>4, <2>5, SameTracks, ApartAfter
  <2>9. QuietBack(k)'
    <3>1. taken' = {} /\ \A j \in Backward' : j = k
      BY <1>1, <2>4, <2>7, BackAre
    <3>2. req'[k].id = i /\ rows'[i].track \notin QueuedTracks'
      BY <2>3, <2>4, <2>5, <2>6, SameTracks
    <3> QED BY <3>1, <3>2 DEF QuietBack
  <2> QED BY <2>7, <2>8, <2>9
<1>5. CASE PreviousFind(k)
  <2>1. req[k].pc = "prevFind" /\ UNCHANGED rows /\ k \in Backward
    BY <1>5, BackAre, AddPcs DEF PreviousFind, KeepQueue
  <2>2. /\ TracksApart /\ QuietBack(k) /\ taken = {}
        /\ \A j \in Slot : ~Writing(j) /\ (j # k => req[j].pc \notin PcPrevious)
    BY <1>3, <2>1, BackAlone
  <2>3. Distinct /\ playing \notin QueuedTracks
    BY <2>1, <2>2, ApartAlone, AddPcs
  <2>4. /\ \A j \in Slot : j # k => req'[j] = req[j]
        /\ req'[k].pc = "free" \/ (req'[k].pc = "prevCurrent" /\ req'[k].id = req[k].id)
    <3>1. CASE Over(k)
      BY <1>1, <3>1, FreeFacts DEF Over
    <3>2. CASE ~Over(k)
      <4>1. PICK j : req' = [req EXCEPT ![k] = [@ EXCEPT !.pc = "prevCurrent", !.prev = j,
                                                         !.tracks = <<rows[j].track>>]]
        BY <1>5, <3>2 DEF PreviousFind
      <4>2. PICK r : r = [req[k] EXCEPT !.pc = "prevCurrent", !.prev = j,
                                        !.tracks = <<rows[j].track>>]
        OBVIOUS
      <4>3. r.pc = "prevCurrent" /\ r.id = req[k].id /\ req' = [req EXCEPT ![k] = r]
        BY <1>1, <4>1, <4>2 DEF Req
      <4> QED BY <1>1, <4>3
    <3> QED BY <3>1, <3>2
  <2>5. \A j \in Slot : ~Writing(j)' /\ (j \in Backward' => j = k /\ req'[k].pc = "prevCurrent")
    BY <2>2, <2>4, WritesAre, BackAre, AddPcs
  <2>6. TracksApart'
    BY <1>1, <2>1, <2>2, <2>3, SameTracks, ApartAfter
  <2>7. ASSUME k \in Backward' PROVE QuietBack(k)'
    <3>1. req'[k].id = req[k].id
      BY <2>4, <2>5, <2>7
    <3>2. taken' = {} /\ \A j \in Backward' : j = k
      BY <1>1, <2>2, <2>5, BackAre
    <3>3. req[k].id \in Present' => rows'[req[k].id].track \notin QueuedTracks'
      BY <2>1, <2>2, InQueue, SameTracks DEF QuietBack
    <3> QED BY <3>1, <3>2, <3>3 DEF QuietBack
  <2> QED BY <2>5, <2>6, <2>7
<1>6. CASE PreviousCurrent(k) \/ PreviousEarlier(k)
  <2>1. PICK i, pc : /\ Unplay(i) /\ Goto(k, pc)
                     /\ \/ pc = "prevEarlier" /\ req[k].pc = "prevCurrent" /\ i = req[k].id
                        \/ pc = "prevMark" /\ req[k].pc = "prevEarlier" /\ i = req[k].prev
    BY <1>6 DEF PreviousCurrent, PreviousEarlier
  <2>2. /\ req'[k].pc = pc /\ req'[k].tracks = req[k].tracks
        /\ \A j \in Slot : j # k => req'[j] = req[j]
    BY <1>1, <2>1 DEF Goto, Req
  <2>3. k \in Backward
    BY <2>1, BackAre, AddPcs
  <2>4. /\ TracksApart /\ QuietBack(k) /\ taken = {}
        /\ \A j \in Slot : ~Writing(j) /\ (j # k => req[j].pc \notin PcPrevious)
    BY <1>3, <2>3, BackAlone
  <2>5. Distinct
    BY <2>1, <2>4, ApartAlone, AddPcs
  <2>6. \A j \in Slot : ~Writing(j)' /\ (j \in Backward' => j = k)
    BY <2>1, <2>2, <2>4, WritesAre, BackAre, AddPcs
  <2>7. /\ \A j \in Id : rows'[j] # NoRow <=> rows[j] # NoRow
        /\ \A j \in Id : /\ rows'[j].track = rows[j].track
                         /\ j # i => rows'[j].played = rows[j].played
    BY <1>1, <2>1, UnplayFacts
  <2>8. \A j \in Unplayed' : /\ rows'[j].track = rows[j].track
                             /\ j \in Unplayed \/ (j = i /\ i \in Present)
    BY <2>7, InQueue
  <2>9. \A j, n \in Unplayed' :
          j # n => rows'[j].track # rows'[n].track \/ rows'[j].track \in Returning'
    <3>1. CASE pc = "prevEarlier"
      <4>1. i \in Present => rows[i].track \notin QueuedTracks
        BY <2>1, <2>4, <3>1 DEF QuietBack
      <4> QED BY <2>5, <2>8, <4>1, InTracks DEF Distinct
    <3>2. CASE pc = "prevMark"
      <4>1. i \in Present => rows[i].track = Head(req[k].tracks)
        BY <2>1, <3>2, ReqKnown, InQueue DEF RowKnown
      <4>2. Head(req[k].tracks) \in Returning'
        BY <2>2, <3>2, BackAre
      <4> QED BY <2>5, <2>8, <4>1, <4>2 DEF Distinct
    <3> QED BY <2>1, <3>1, <3>2
  <2>10. Replacing' /\ taken' \cap QueuedTracks' = {}
    BY <1>1, <2>1, <2>2, <2>4, BackAre
  <2>11. TracksApart'
    BY <2>9, <2>10 DEF TracksApart
  <2>12. QuietBack(k)'
    <3>1. taken' = {} /\ \A j \in Backward' : j = k
      BY <1>1, <2>4, <2>6, BackAre
    <3>2. req'[k].pc \notin {"prevFind", "prevCurrent"}
      BY <2>1, <2>2
    <3> QED BY <3>1, <3>2 DEF QuietBack
  <2> QED BY <2>6, <2>11, <2>12
<1> QED BY <1>4, <1>5, <1>6

(* The calls that begin alone. *)
LEMMA BeginTracks ==
  ASSUME TypesInv, TracksInv, NEW k \in Slot,
         \/ \E u \in People, s \in Lists : AddTracks(k, u, s)
         \/ \E i \in Present, p \in Id : Reorder(k, i, p)
  PROVE  TracksInv'
<1>1. PICK r : /\ req' = [req EXCEPT ![k] = r] /\ UNCHANGED <<rows, playing, taken>>
               /\ overlap \cup Overlaps \subseteq overlap'
               /\ \/ r.pc = "addRoom" /\ ("twice" \notin overlap' => IsInjective(r.tracks))
                  \/ r.pc = "reorderWrite" /\ r.old = rows[r.id]
  <2>1. CASE \E u \in People, s \in Lists : AddTracks(k, u, s)
    <3>1. PICK u \in People, s \in Lists : AddTracks(k, u, s)
      BY <2>1
    <3>2. PICK r : r = [FreeReq EXCEPT !.pc = "addRoom", !.user = u, !.tracks = s]
      OBVIOUS
    <3>3. r.pc = "addRoom" /\ r.tracks = s
      BY <3>2 DEF FreeReq
    <3>4. overlap' = overlap \cup Overlaps \cup {o \in {"twice"} : ~IsInjective(s)}
      BY <3>1 DEF AddTracks
    <3>5. "twice" \notin overlap' => IsInjective(s)
      BY <3>4
    <3>6. req' = [req EXCEPT ![k] = r] /\ UNCHANGED <<rows, playing, taken>>
      BY <3>1, <3>2 DEF AddTracks, Begin, KeepPlayback
    <3> QED BY <3>3, <3>4, <3>5, <3>6
  <2>2. CASE \E i \in Present, p \in Id : Reorder(k, i, p)
    <3>1. PICK i \in Present, p \in Id : Reorder(k, i, p)
      BY <2>2
    <3>2. PICK r : r = [FreeReq EXCEPT !.pc = "reorderWrite", !.id = i, !.pos = p, !.old = rows[i]]
      OBVIOUS
    <3>3. r.pc = "reorderWrite" /\ r.id = i /\ r.old = rows[i]
      BY <3>2 DEF FreeReq
    <3>4. /\ req' = [req EXCEPT ![k] = r] /\ UNCHANGED <<rows, playing, taken>>
          /\ overlap' = overlap \cup Overlaps \cup {o \in {"late"} : rows[i].played}
      BY <3>1, <3>2 DEF Reorder, Begin, KeepPlayback
    <3> QED BY <3>3, <3>4
  <2> QED BY <2>1, <2>2
<1>2. req'[k] = r /\ \A j \in Slot : j # k => req'[j] = req[j]
  BY <1>1, TypesParts DEF ReqsTyped
<1>3. SUFFICES ASSUME Quiet'
               PROVE  /\ TracksApart'
                      /\ \A j \in Slot : (Writing(j)' => QuietWriter(j)')
                                         /\ (j \in Backward' => QuietBack(j)')
  BY DEF TracksInv
<1>4. Quiet /\ TracksApart /\ taken = {} /\ Writers = {} /\ Backward = {} /\ "twice" \notin overlap'
  BY <1>1, <1>3, QuietOverlap, TracksParts DEF Overlaps
<1>5. Distinct /\ playing \notin QueuedTracks
  BY <1>4, ApartEmpty
<1>6. TracksApart'
  BY <1>1, <1>4, <1>5, SameTracks, ApartAfter
<1>7. r.pc \notin PcPrevious /\ Backward' = {}
  BY <1>1, <1>2, <1>4, BackAre, AddPcs
<1>8. ASSUME NEW j \in Slot, Writing(j)'
      PROVE  QuietWriter(j)'
  <2>1. j = k
    BY <1>2, <1>4, <1>8, WritesAre DEF Writers
  <2>2. CASE r.pc = "addRoom"
    <3>1. IsInjective(r.tracks) /\ r.pc \notin PcAdd \ {"addRoom", "addDup"}
          /\ r.pc \notin PcAdd \ {"addRoom", "addDup", "addNow"} /\ r.pc # "reorderWrite"
      BY <1>1, <1>4, <2>2
    <3> QED BY <1>1, <1>2, <1>4, <1>7, <2>1, <3>1 DEF QuietWriter
  <2>3. CASE r.pc = "reorderWrite"
    <3>1. r.old = rows[r.id] /\ r.pc \notin PcAdd
      BY <1>1, <2>3, AddPcs
    <3> QED BY <1>1, <1>2, <1>4, <1>7, <2>1, <3>1 DEF QuietWriter
  <2> QED BY <1>1, <2>2, <2>3
<1> QED BY <1>6, <1>7, <1>8

(* A step of an addition: it looks for more, and the list is a part of what it was. *)
LEMMA AddKinds ==
  ASSUME TypesInv, NEW k \in Slot,
         AddRoom(k) \/ AddDup(k) \/ AddNow(k) \/ AddCooldown(k) \/ AddQuota(k)
  PROVE  req'[k].pc \notin PcPrevious
<1>1. req \in [Slot -> Req] /\ req[k] \in Req
  BY TypesParts DEF ReqsTyped
<1>2. CASE Over(k)
  BY <1>1, <1>2, FreeFacts, AddPcs DEF Over
<1>3. CASE ~Over(k) /\ (AddRoom(k) \/ AddCooldown(k) \/ AddQuota(k))
  <2>1. PICK pc : (pc = "addDup" \/ pc = "addQuota" \/ pc = "addMax") /\ Goto(k, pc)
    BY <1>3 DEF AddRoom, AddCooldown, AddQuota
  <2>2. req'[k].pc = pc
    BY <1>1, <2>1 DEF Goto, Req
  <2> QED BY <2>1, <2>2, AddPcs
<1>4. CASE AddDup(k)
  <2>1. PICK w : req' = [req EXCEPT ![k] = [req[k] EXCEPT !.pc = "addNow", !.tracks = w]]
    BY <1>4 DEF AddDup
  <2>2. req'[k].pc = "addNow"
    BY <1>1, <2>1 DEF Req
  <2> QED BY <2>2, AddPcs
<1>5. CASE AddNow(k) /\ ~Over(k)
  <2>1. PICK pc : pc = IF req[k].user = Host THEN "addMax"
                       ELSE IF Cooldown THEN "addCooldown" ELSE "addQuota"
    OBVIOUS
  <2>2. PICK w : req' = [req EXCEPT ![k] = [req[k] EXCEPT !.tracks = w, !.pc = pc]]
    BY <1>5, <2>1 DEF AddNow
  <2>3. req'[k].pc = pc
    BY <1>1, <2>2 DEF Req
  <2> QED BY <2>1, <2>3, AddPcs
<1> QED BY <1>2, <1>3, <1>4, <1>5

LEMMA AddTracksStep ==
  ASSUME TypesInv, TracksInv, NEW k \in Slot,
         AddRoom(k) \/ AddDup(k) \/ AddNow(k) \/ AddCooldown(k) \/ AddQuota(k) \/ AddMax(k)
  PROVE  TracksInv'
<1>1. UNCHANGED <<rows, playing, taken, overlap>>
  BY DEF AddRoom, AddDup, AddNow, AddCooldown, AddQuota, AddMax, KeepQueue, KeepPlayback
<1>2. req \in [Slot -> Req] /\ req[k] \in Req
  BY TypesParts DEF ReqsTyped
<1>3. PICK t \in TrackLists : t = req[k].tracks
  BY ReqKnown
<1>4. \A j \in Slot : j # k => req'[j] = req[j]
  BY <1>2, StepReq DEF AddMax
<1>0. req[k].pc \in PcAdd /\ Writing(k)
  BY AddPcs, WritesAre DEF AddRoom, AddDup, AddNow, AddCooldown, AddQuota, AddMax
<1>5. SUFFICES ASSUME Quiet, TracksApart, QuietWriter(k), Writing(k)', Backward = {}, Backward' = {}
               PROVE  QuietWriter(k)'
  <2>1. SUFFICES ASSUME Quiet'
                 PROVE  /\ TracksApart'
                        /\ \A j \in Slot : (Writing(j)' => QuietWriter(j)')
                                           /\ (j \in Backward' => QuietBack(j)')
    BY DEF TracksInv
  <2>2. Quiet /\ TracksApart /\ QuietWriter(k) /\ taken = {} /\ Backward = {}
    BY <1>0, <1>1, <2>1, QuietOverlap, TracksParts DEF QuietWriter
  <2>3. req'[k].pc \notin PcPrevious
    <3>1. CASE AddMax(k)
      <4>1. req' = [req EXCEPT ![k] = [req[k] EXCEPT !.pc = "addSave", !.pos = LastPosition + 1]]
        BY <3>1 DEF AddMax
      <4>2. req'[k].pc = "addSave"
        BY <1>2, <4>1 DEF Req
      <4> QED BY <4>2, AddPcs
    <3>2. CASE ~AddMax(k)
      BY <3>2, AddKinds
    <3> QED BY <3>1, <3>2
  <2>4. Backward' = {}
    BY <1>4, <2>2, <2>3, BackAre
  <2>5. Distinct /\ playing \notin QueuedTracks
    BY <2>2, ApartEmpty
  <2>6. TracksApart'
    BY <1>1, <2>2, <2>5, SameTracks, ApartAfter
  <2>7. ASSUME NEW j \in Slot, j # k, Writing(j)'
        PROVE  QuietWriter(j)'
    <3>1. QuietWriter(j)
      BY <1>4, <2>2, <2>7, TracksParts, WritesAre
    <3> QED BY <1>1, <1>4, <2>4, <2>7, <3>1, SameTracks DEF QuietWriter
  <2> QED BY <1>5, <2>2, <2>4, <2>6, <2>7
<1>6. /\ req[k].pc \in PcAdd /\ taken = {} /\ IsInjective(t)
      /\ req[k].pc \in PcAdd \ {"addRoom", "addDup"} =>
           \A n \in DOMAIN t : t[n] \notin QueuedTracks
      /\ req[k].pc \in PcAdd \ {"addRoom", "addDup", "addNow"} =>
           \A n \in DOMAIN t : t[n] # playing
  BY <1>0, <1>3, <1>5 DEF QuietWriter
<1>7. \E w \in TrackLists :
        /\ req'[k].tracks = w /\ IsInjective(w) /\ req'[k].pc # "reorderWrite"
        /\ req'[k].pc \in PcAdd \ {"addRoom", "addDup"} =>
             \A n \in DOMAIN w : w[n] \notin QueuedTracks
        /\ req'[k].pc \in PcAdd \ {"addRoom", "addDup", "addNow"} =>
             \A n \in DOMAIN w : w[n] # playing
  <2>1. ~Over(k)
    BY <1>2, <1>5, FreeFacts, AddPcs, WritesAre DEF Over
  <2>2. ASSUME NEW pc, Goto(k, pc), pc = "addDup" \/ pc = "addQuota" \/ pc = "addMax",
               pc = "addDup" \/ req[k].pc \in PcAdd \ {"addRoom", "addDup", "addNow"}
        PROVE  /\ req'[k].tracks = t /\ req'[k].pc # "reorderWrite"
               /\ req'[k].pc \in PcAdd \ {"addRoom", "addDup"} =>
                    \A n \in DOMAIN t : t[n] \notin QueuedTracks
               /\ req'[k].pc \in PcAdd \ {"addRoom", "addDup", "addNow"} =>
                    \A n \in DOMAIN t : t[n] # playing
    <3>1. req'[k].pc = pc /\ req'[k].tracks = t
      BY <1>2, <1>3, <2>2 DEF Goto, Req
    <3> QED BY <1>6, <2>2, <3>1
  <2>3. CASE AddRoom(k) \/ AddCooldown(k) \/ AddQuota(k)
    <3>1. \E pc : /\ Goto(k, pc) /\ (pc = "addDup" \/ pc = "addQuota" \/ pc = "addMax")
                  /\ pc = "addDup" \/ req[k].pc \in PcAdd \ {"addRoom", "addDup", "addNow"}
      BY <2>1, <2>3, AddPcs DEF AddRoom, AddCooldown, AddQuota
    <3> QED BY <1>6, <2>2, <3>1
  <2>4. CASE AddDup(k)
    <3>1. PICK w : w = Without(t, QueuedTracks)
      OBVIOUS
    <3>2. req' = [req EXCEPT ![k] = [req[k] EXCEPT !.pc = "addNow", !.tracks = w]]
      BY <1>3, <2>4, <3>1 DEF AddDup
    <3>3. req'[k].pc = "addNow" /\ req'[k].tracks = w
      BY <1>2, <3>2 DEF Req
    <3>4. w \in TrackLists /\ \A n \in DOMAIN w : w[n] \notin QueuedTracks
      BY <3>1, WithoutFacts
    <3>5. IsInjective(w)
      BY <1>6, <3>1, WithoutFacts
    <3> QED BY <3>3, <3>4, <3>5
  <2>5. CASE AddNow(k)
    <3>0. PICK Q : Q = {playing}
      OBVIOUS
    <3>1. PICK w : w = Without(t, Q)
      OBVIOUS
    <3>2. PICK pc : pc = IF req[k].user = Host THEN "addMax"
                         ELSE IF Cooldown THEN "addCooldown" ELSE "addQuota"
      OBVIOUS
    <3>3. req' = [req EXCEPT ![k] = [req[k] EXCEPT !.tracks = w, !.pc = pc]]
          /\ req[k].pc = "addNow"
      BY <1>3, <2>1, <2>5, <3>0, <3>1, <3>2 DEF AddNow
    <3>4. req'[k].pc = pc /\ req'[k].tracks = w /\ pc # "reorderWrite"
      BY <1>2, <3>2, <3>3 DEF Req
    <3>5. w \in TrackLists /\ \A n \in DOMAIN w : n \in DOMAIN t /\ w[n] = t[n] /\ w[n] # playing
      <4>1. w \in TrackLists /\ DOMAIN w \subseteq DOMAIN t
        BY <3>1, WithoutFacts
      <4>2. \A n \in DOMAIN w : w[n] = t[n] /\ t[n] \notin Q
        <5>1. \A n \in DOMAIN Without(t, Q) : Without(t, Q)[n] = t[n] /\ t[n] \notin Q
          BY WithoutFacts
        <5> QED BY <3>1, <5>1
      <4> QED BY <3>0, <4>1, <4>2
    <3>6. IsInjective(w)
      BY <1>6, <3>1, WithoutFacts
    <3>7. \A n \in DOMAIN w : w[n] \notin QueuedTracks /\ w[n] # playing
      BY <1>6, <3>3, <3>5, AddPcs
    <3> QED BY <3>4, <3>5, <3>6, <3>7
  <2>6. CASE AddMax(k)
    <3>1. req' = [req EXCEPT ![k] = [req[k] EXCEPT !.pc = "addSave", !.pos = LastPosition + 1]]
          /\ req[k].pc = "addMax"
      BY <2>6 DEF AddMax
    <3>2. req'[k].pc = "addSave" /\ req'[k].tracks = t
      BY <1>2, <1>3, <3>1 DEF Req
    <3> QED BY <1>6, <3>1, <3>2, AddPcs
  <2> QED BY <2>3, <2>4, <2>5, <2>6
<1> QED BY <1>1, <1>5, <1>6, <1>7, SameTracks DEF QuietWriter

LEMMA SaveTracks ==
  ASSUME TypesInv, OrderInv, TracksInv, NEW k \in Slot, AddSave(k)
  PROVE  TracksInv'
<1>1. /\ req[k].pc = "addSave" /\ req'[k].pc = "autoStatus"
      /\ \A j \in Slot : j # k => req'[j] = req[j]
      /\ UNCHANGED <<playing, taken, ending, heard, queueCalls, overlap>>
  BY SaveEffect
<1>2. SUFFICES ASSUME Quiet'
               PROVE  TracksApart' /\ \A j \in Slot : ~Writing(j)' /\ j \notin Backward'
  BY DEF TracksInv
<1>0. Quiet /\ "write" \notin overlap
  BY <1>1, <1>2, QuietOverlap
<1>3. PICK t \in TrackLists : t = req[k].tracks
  BY ReqKnown
<1>4. /\ Distinct /\ playing \notin QueuedTracks /\ taken = {} /\ IsInjective(t)
      /\ Backward = {}
      /\ \A n \in DOMAIN t : t[n] \notin QueuedTracks /\ t[n] # playing
  <2>1. req[k].pc \in PcAdd \ {"addRoom", "addDup"}
        /\ req[k].pc \in PcAdd \ {"addRoom", "addDup", "addNow"}
    BY <1>1, AddPcs
  <2>2. QuietWriter(k) /\ TracksApart
    BY <1>0, <1>1, TracksParts, WritesAre
  <2>3. taken = {} /\ Backward = {}
    BY <2>2 DEF QuietWriter
  <2> QED BY <1>3, <2>1, <2>2, <2>3, ApartEmpty DEF QuietWriter
<1>5. PICK N \in SUBSET Id : \E g \in [N -> DOMAIN t], q \in [N -> Nat] : Saved(k, N, g, q)
  BY <1>3, SaveEffect
<1>6. PICK g \in [N -> DOMAIN t] :
        /\ \A i, j \in N : i # j => g[i] # g[j]
        /\ \A i \in N : rows'[i].track = t[g[i]]
        /\ \A i \in Id \ N : rows'[i] = rows[i]
  BY <1>3, <1>5 DEF Saved
<1>7. \A j \in Slot : ~Writing(j)' /\ j \notin Backward'
  <2>1. ASSUME NEW j \in Slot, Writing(j)'
        PROVE  j # k /\ Writing(j)
    BY <1>1, <2>1, WritesAre, AddPcs
  <2>2. Writing(k)
    BY <1>1, WritesAre
  <2>3. \A j \in Slot : j \notin Backward'
    BY <1>1, <1>4, BackAre, AddPcs
  <2> QED BY <1>0, <2>1, <2>2, <2>3, OrderParts DEF WriterAlone
<1>8. ASSUME NEW i \in Unplayed'
      PROVE  \/ i \in N /\ \E n \in DOMAIN t : g[i] = n /\ rows'[i].track = t[n]
             \/ i \notin N /\ i \in Unplayed /\ rows'[i] = rows[i]
  BY <1>6, InQueue
<1>9. \A i, j \in Unplayed' : i # j => rows'[i].track # rows'[j].track
  <2>1. ASSUME NEW i \in Unplayed', NEW j \in Unplayed', i # j, i \in N, j \in N
        PROVE  rows'[i].track # rows'[j].track
    <3>1. g[i] # g[j] /\ g[i] \in DOMAIN t /\ g[j] \in DOMAIN t
      BY <1>6, <2>1
    <3>2. t[g[i]] # t[g[j]]
      BY <1>4, <3>1 DEF IsInjective
    <3> QED BY <1>6, <2>1, <3>2
  <2>2. ASSUME NEW i \in Unplayed', NEW j \in Unplayed', i \in N, j \notin N
        PROVE  rows'[i].track # rows'[j].track
    <3>1. j \in Unplayed /\ rows'[j].track = rows[j].track
      BY <1>8, <2>2
    <3>2. rows[j].track \in QueuedTracks
      BY <3>1, InTracks
    <3>3. rows'[i].track \notin QueuedTracks
      BY <1>4, <1>8, <2>2
    <3> QED BY <3>1, <3>2, <3>3
  <2>3. ASSUME NEW i \in Unplayed', NEW j \in Unplayed', i # j, i \notin N, j \notin N
        PROVE  rows'[i].track # rows'[j].track
    BY <1>4, <1>8, <2>3 DEF Distinct
  <2> QED BY <2>1, <2>2, <2>3
<1>10. playing \notin QueuedTracks'
  <2>1. ASSUME NEW i \in Unplayed'
        PROVE  rows'[i].track # playing
    <3>1. CASE i \in N
      BY <1>4, <1>8, <3>1
    <3>2. CASE i \notin N
      BY <1>4, <1>8, <3>2, InTracks
    <3> QED BY <3>1, <3>2
  <2> QED BY <2>1, InTracks
<1>11. TracksApart'
  BY <1>1, <1>4, <1>9, <1>10, ApartAfter DEF Distinct
<1> QED BY <1>7, <1>11

LEMMA ReorderTracks ==
  ASSUME TypesInv, OrderInv, TracksInv, NEW k \in Slot, ReorderWrite(k)
  PROVE  TracksInv'
<1>1. PICK h \in Id : h = req[k].id
  BY ReorderFacts
<1>2. /\ req[k].pc = "reorderWrite"
      /\ \A i \in Id : rows'[i] # NoRow <=> rows[i] # NoRow
      /\ \A i \in Present : rows'[i].track = rows[i].track
      /\ \A i \in Present : i # h => rows'[i].played = rows[i].played
      /\ h \in Present => rows'[h].played = req[k].old.played
  BY <1>1, ReorderFacts
<1>3. /\ req'[k].pc = "free" /\ \A j \in Slot : j # k => req'[j] = req[j]
      /\ UNCHANGED <<playing, taken>>
      /\ overlap' = overlap \cup {o \in {"unplayed"} :
           rows[h] # NoRow /\ rows[h].played /\ ~req[k].old.played}
  BY <1>1, FreeFacts, TypesParts DEF ReorderWrite, Over, ReqsTyped, KeepPlayback
<1>4. SUFFICES ASSUME Quiet'
               PROVE  TracksApart' /\ \A j \in Slot : ~Writing(j)' /\ j \notin Backward'
  BY DEF TracksInv
<1>5. /\ Quiet /\ "write" \notin overlap /\ Distinct /\ playing \notin QueuedTracks
      /\ taken = {} /\ Backward = {}
      /\ rows[h] # NoRow /\ rows[h].played => req[k].old.played
  <2>1. Quiet /\ "write" \notin overlap
        /\ (rows[h] # NoRow /\ rows[h].played => req[k].old.played)
    BY <1>3, <1>4, QuietOverlap
  <2>2. QuietWriter(k) /\ TracksApart
    BY <1>2, <2>1, TracksParts, WritesAre
  <2>3. taken = {} /\ Backward = {}
    BY <2>2 DEF QuietWriter
  <2> QED BY <2>1, <2>2, <2>3, ApartEmpty
<1>6. RowsFewer
  <2>1. ASSUME NEW i \in Id, rows'[i] # NoRow
        PROVE  i \in Present /\ (~rows'[i].played => ~rows[i].played)
    <3>1. i \in Present
      BY <1>2, <2>1, InQueue
    <3>2. CASE i = h
      BY <1>2, <1>5, <3>1, <3>2, InQueue
    <3>3. CASE i # h
      BY <1>2, <3>1, <3>3
    <3> QED BY <3>1, <3>2, <3>3
  <2> QED BY <1>2, <2>1, InQueue DEF RowsFewer
<1>7. TracksApart'
  <2>1. /\ \A i \in Unplayed' : i \in Unplayed /\ rows'[i].track = rows[i].track
        /\ \A x : x \in QueuedTracks' => x \in QueuedTracks
    BY <1>6, FewerTracks
  <2>2. Distinct'
    BY <1>5, <2>1 DEF Distinct
  <2> QED BY <1>3, <1>5, <2>1, <2>2, ApartAfter
<1>8. \A j \in Slot : ~Writing(j)' /\ j \notin Backward'
  <2>1. ASSUME NEW j \in Slot, Writing(j)'
        PROVE  j # k /\ Writing(j)
    BY <1>3, <2>1, WritesAre, AddPcs
  <2>2. Writing(k)
    BY <1>2, WritesAre
  <2>3. \A j \in Slot : j \notin Backward'
    BY <1>3, <1>5, BackAre, AddPcs
  <2> QED BY <1>5, <2>1, <2>2, <2>3, OrderParts DEF WriterAlone
<1> QED BY <1>7, <1>8

LEMMA TracksNext ==
  ASSUME TypesInv, OrderInv, TracksInv, [QueueNext]_queueVars
  PROVE  TracksInv'
<1>1. RowsTyped
  BY TypesParts
<1>2. ASSUME UNCHANGED <<rows, taken>>, playing' \in {playing, NoTrack}, overlap \subseteq overlap',
             \A j \in Slot :
               \/ req'[j] = req[j]
               \/ ~Writing(j)' /\ req[j].pc \notin PcPrevious /\ req'[j].pc \notin PcPrevious
      PROVE  TracksInv'
  BY <1>2, TracksKeep
<1>3. ASSUME NEW k \in Slot, \/ RemoveRoom(k) \/ RemoveRow(k) \/ AutoStatus(k)
                             \/ \E u \in People, i \in Id : RemoveTrack(k, u, i)
                             \/ \E t \in Track : PlayAsked(k, t)
      PROVE  /\ overlap \subseteq overlap'
             /\ \A j \in Slot :
                  \/ req'[j] = req[j]
                  \/ ~Writing(j)' /\ req[j].pc \notin PcPrevious /\ req'[j].pc \notin PcPrevious
  <2>1. req[k].pc \notin PcAdd /\ req[k].pc \notin PcPrevious
    BY <1>3, AddPcs DEF RemoveRoom, RemoveRow, AutoStatus, RemoveTrack, PlayAsked, Begin
  <2>2. \E pc \in {"free", "removeRoom", "removeRow", "playMark"} : req'[k].pc = pc
    <3>1. req \in [Slot -> Req] /\ req[k] \in Req
      BY TypesParts DEF ReqsTyped
    <3>2. CASE Over(k)
      BY <3>1, <3>2, FreeFacts DEF Over
    <3>3. CASE Goto(k, "removeRow") \/ Goto(k, "playMark")
      BY <3>1, <3>3 DEF Goto, Req
    <3>4. CASE \E u \in People, i \in Id : RemoveTrack(k, u, i)
      <4>1. PICK u \in People, i \in Id : RemoveTrack(k, u, i)
        BY <3>4
      <4>2. PICK r : r = [FreeReq EXCEPT !.pc = "removeRoom", !.user = u, !.id = i]
        OBVIOUS
      <4>3. r.pc = "removeRoom" /\ req' = [req EXCEPT ![k] = r]
        BY <4>1, <4>2 DEF FreeReq, RemoveTrack, Begin
      <4> QED BY <3>1, <4>3
    <3>5. CASE \E t \in Track : PlayAsked(k, t)
      <4>1. PICK t \in Track : PlayAsked(k, t)
        BY <3>5
      <4>2. PICK r : r = [FreeReq EXCEPT !.pc = "playMark", !.tracks = <<t>>]
        OBVIOUS
      <4>3. r.pc = "playMark" /\ req' = [req EXCEPT ![k] = r]
        BY <4>1, <4>2 DEF FreeReq, PlayAsked, Begin
      <4> QED BY <3>1, <4>3
    <3> QED BY <1>3, <3>2, <3>3, <3>4, <3>5 DEF RemoveRoom, RemoveRow, AutoStatus
  <2>3. ~Writing(k)' /\ req'[k].pc \notin PcPrevious
    BY <2>2, AddPcs, WritesAre
  <2>4. overlap \subseteq overlap' /\ \A j \in Slot : j # k => req'[j] = req[j]
    BY <1>3, StepReq DEF PlayStep
  <2> QED BY <2>1, <2>3, <2>4
<1>4. ASSUME NEW k \in Slot, Requests(k)
      PROVE  TracksInv'
  <2>1. CASE \E u \in People, i \in Id : RemoveTrack(k, u, i)
    BY <1>2, <1>3, <2>1 DEF RemoveTrack, KeepPlayback
  <2>2. CASE \E t \in Track : PlayAsked(k, t)
    BY <1>2, <1>3, <2>2 DEF PlayAsked, KeepPlayback
  <2> QED BY <1>4, <2>1, <2>2, BeginTracks, BackTracks DEF Requests, People
<1>5. ASSUME NEW k \in Slot, RemoveRoom(k)
      PROVE  TracksInv'
  BY <1>2, <1>3, <1>5 DEF RemoveRoom, KeepQueue, KeepPlayback
<1>6. ASSUME NEW k \in Slot, RemoveRow(k)
      PROVE  TracksInv'
  <2>1. PICK h : h = req[k].id
    OBVIOUS
  <2>2. rows' = [rows EXCEPT ![h] = NoRow] /\ UNCHANGED <<playing, taken>>
    BY <1>6, <2>1 DEF RemoveRow, KeepPlayback
  <2>3. \A i \in Id : rows'[i] = NoRow \/ rows'[i] = rows[i]
    BY <1>1, <2>2 DEF RowsTyped
  <2> QED BY <1>3, <1>6, <2>2, <2>3, TracksKeep
<1>7. ASSUME NEW k \in Slot, AutoStatus(k)
      PROVE  TracksInv'
  BY <1>2, <1>3, <1>7 DEF AutoStatus, KeepQueue, KeepPlayback
<1>8. ASSUME NEW k \in Slot, QueueStep(k)
      PROVE  TracksInv'
  BY <1>5, <1>6, <1>7, <1>8, AddTracksStep, SaveTracks, ReorderTracks, PlayTracks, BackTracks
  DEF QueueStep
<1>9. CASE Plays
  <2>1. CASE TrackEnds \/ EndIdle \/ PauseOrResume
    BY <1>2, <2>1 DEF TrackEnds, EndIdle, PauseOrResume
  <2>2. CASE \E t \in Track : TakeNext(t) \/ PlaySave(t)
    BY <2>2, PlayTracks
  <2> QED BY <1>9, <2>1, <2>2 DEF Plays
<1>10. CASE Time \/ UNCHANGED queueVars
  <2>1. CASE \E i \in Id : Ages(i)
    <3>1. PICK i \in Id : Ages(i)
      BY <2>1
    <3>2. \A j \in Id : /\ rows'[j] # NoRow <=> rows[j] # NoRow
                        /\ rows'[j].track = rows[j].track /\ rows'[j].played = rows[j].played
      BY <1>1, <3>1, AgedFacts
    <3>3. UNCHANGED <<playing, taken, req, overlap>>
      BY <3>1 DEF Ages, KeepPlayback
    <3> QED BY <3>2, <3>3, TracksKeep
  <2>2. CASE (\E t \in Track : Forgets(t)) \/ UNCHANGED queueVars
    BY <1>2, <2>2 DEF Forgets, queueVars
  <2> QED BY <1>10, <2>1, <2>2 DEF Time
<1> QED BY <1>4, <1>8, <1>9, <1>10 DEF QueueNext

(* As long as no writers, plays and calls of previous overlap, no list names a track
   twice and no reorder puts back a row played meanwhile, no track waits twice or waits
   while it plays or is about to, except the two that a previous has put back. *)
THEOREM TracksAreUnique == QueueSpec => []NoTrackTwice
<1>1. QueueInit => TypesInv /\ OrderInv /\ TracksInv
  <2>1. QueueInit => TypesInv
    BY TypesInit
  <2>2. ASSUME QueueInit PROVE OrderInv /\ TracksInv
    <3>1. /\ Present = {} /\ Unplayed = {} /\ QueuedTracks = {} /\ given = {}
          /\ \A k \in Slot : req[k].pc = "free"
      BY <2>2, FreeFacts DEF QueueInit, QueuedTracks, Unplayed, Present
    <3>2. \A k \in Slot : ~Writing(k) /\ k \notin Backward
      BY <3>1, AddPcs, WritesAre, BackAre
    <3>3. OrderInv
      BY <3>1, <3>2, AddPcs DEF OrderInv, WriterAlone, WriterKnows, GivenPlayed, SharedGiven
    <3>4. TracksInv
      BY <3>1, <3>2 DEF TracksInv, TracksApart
    <3> QED BY <3>3, <3>4
  <2> QED BY <2>1, <2>2
<1>2. TypesInv /\ OrderInv /\ TracksInv /\ [QueueNext]_queueVars
        => TypesInv' /\ OrderInv' /\ TracksInv'
  BY TypesNext, OrderNext, TracksNext
<1>3. TracksInv => NoTrackTwice
  BY DEF TracksInv, Quiet, TracksApart, NoTrackTwice
<1> QED BY <1>1, <1>2, <1>3, PTL DEF QueueSpec

--------------------------------------------------------------------------------
(* The limit of a user. *)
Others == (MaxRequests - 1) * MaxSelect

LEMMA InQuota ==
  ASSUME NEW u
  PROVE  /\ \A i : i \in RecentBy(u) <=> i \in Id /\ rows[i] # NoRow /\ rows[i].by = u /\ rows[i].recent
         /\ \A i : i \in RecentBy(u)' <=> i \in Id /\ rows'[i] # NoRow /\ rows'[i].by = u /\ rows'[i].recent
         /\ \A p : p \in Promised(u) <=> /\ p \in Slot \X (1 .. MaxSelect)
                                         /\ req[p[1]].user = u
                                         /\ req[p[1]].pc = "addMax" \/ req[p[1]].pc = "addSave"
                                         /\ p[2] \in DOMAIN req[p[1]].tracks
         /\ \A p : p \in Promised(u)' <=> /\ p \in Slot \X (1 .. MaxSelect)
                                          /\ req'[p[1]].user = u
                                          /\ req'[p[1]].pc = "addMax" \/ req'[p[1]].pc = "addSave"
                                          /\ p[2] \in DOMAIN req'[p[1]].tracks
BY DEF RecentBy, Present, Promised

LEMMA QuotaSizes ==
  /\ Others \in Nat /\ PerWindow \in Nat
  /\ \A k \in Slot : /\ IsFiniteSet((Slot \ {k}) \X (1 .. MaxSelect))
                     /\ Cardinality((Slot \ {k}) \X (1 .. MaxSelect)) = Others
<1>1. /\ IsFiniteSet(Slot) /\ Cardinality(Slot) = MaxRequests
      /\ IsFiniteSet(1 .. MaxSelect) /\ Cardinality(1 .. MaxSelect) = MaxSelect
      /\ MaxSelect \in Nat /\ MaxRequests \in Nat \ {0} /\ PerWindow \in Nat
  BY Sizes, Consts
<1>2. Others \in Nat
  <2>1. PICK m \in Nat : m = MaxRequests - 1
    BY <1>1
  <2>2. m * MaxSelect \in Nat
    BY <1>1, <2>1
  <2> QED BY <2>1, <2>2 DEF Others
<1>3. ASSUME NEW k \in Slot
      PROVE  /\ IsFiniteSet((Slot \ {k}) \X (1 .. MaxSelect))
             /\ Cardinality((Slot \ {k}) \X (1 .. MaxSelect)) = Others
  <2>1. PICK R : R = Slot \ {k}
    OBVIOUS
  <2>2. IsFiniteSet(R) /\ Cardinality(R) = MaxRequests - 1
    BY <1>1, <2>1, FS_RemoveElement
  <2>3. /\ IsFiniteSet(R \X (1 .. MaxSelect))
        /\ Cardinality(R \X (1 .. MaxSelect)) = Cardinality(R) * Cardinality(1 .. MaxSelect)
    BY <1>1, <2>2, FS_Product
  <2> QED BY <1>1, <2>1, <2>2, <2>3 DEF Others
<1> QED BY <1>1, <1>2, <1>3

LEMMA QuotaFinite ==
  ASSUME NEW u
  PROVE  /\ IsFiniteSet(RecentBy(u)) /\ IsFiniteSet(Promised(u))
         /\ IsFiniteSet(RecentBy(u)') /\ IsFiniteSet(Promised(u)')
         /\ Cardinality(RecentBy(u)) \in Nat /\ Cardinality(Promised(u)) \in Nat
         /\ Cardinality(RecentBy(u)') \in Nat /\ Cardinality(Promised(u)') \in Nat
<1>1. IsFiniteSet(Id) /\ IsFiniteSet(Slot \X (1 .. MaxSelect))
  BY Sizes, FS_Product
<1>2. RecentBy(u) \subseteq Id /\ RecentBy(u)' \subseteq Id
  BY InQuota
<1>3. /\ Promised(u) \subseteq Slot \X (1 .. MaxSelect)
      /\ Promised(u)' \subseteq Slot \X (1 .. MaxSelect)
  BY InQuota
<1>4. /\ IsFiniteSet(RecentBy(u)) /\ IsFiniteSet(Promised(u))
      /\ IsFiniteSet(RecentBy(u)') /\ IsFiniteSet(Promised(u)')
  BY <1>1, <1>2, <1>3, FS_Subset
<1> QED BY <1>4, FS_CardinalityType

Within(u) == Cardinality(RecentBy(u)) + Cardinality(Promised(u)) <= PerWindow + Others

LEMMA QuotaIs == QuotaInv <=> \A u \in QueueUser \ {Host} : Within(u)
BY DEF QuotaInv, Within, Others

(* Nothing is added to what a user has saved or been allowed. *)
LEMMA WithinLess ==
  ASSUME NEW u, Within(u), \A i \in RecentBy(u)' : i \in RecentBy(u),
         \A p \in Promised(u)' : p \in Promised(u)
  PROVE  Within(u)'
<1>1. PICK R, S, P, Q : R = RecentBy(u) /\ S = RecentBy(u)' /\ P = Promised(u) /\ Q = Promised(u)'
  OBVIOUS
<1>2. IsFiniteSet(R) /\ IsFiniteSet(P) /\ S \subseteq R /\ Q \subseteq P
  BY <1>1, QuotaFinite
<1>3. Cardinality(S) <= Cardinality(R) /\ Cardinality(Q) <= Cardinality(P)
  BY <1>2, FS_Subset
<1>4. /\ Cardinality(R) \in Nat /\ Cardinality(P) \in Nat
      /\ Cardinality(S) \in Nat /\ Cardinality(Q) \in Nat
  BY <1>1, QuotaFinite
<1>5. Cardinality(R) + Cardinality(P) <= PerWindow + Others
  BY <1>1 DEF Within
<1>6. Cardinality(S) + Cardinality(Q) <= PerWindow + Others
  BY <1>3, <1>4, <1>5, QuotaSizes
<1>7. (PerWindow + Others)' = PerWindow + Others
  BY DEF Others
<1> QED BY <1>1, <1>6, <1>7 DEF Within

(* A step of requests that are allowed no more. *)
LEMMA QuotaKeep ==
  ASSUME QuotaInv,
         \A i \in Id : rows'[i] # NoRow =>
           rows[i] # NoRow /\ rows'[i].by = rows[i].by /\ (rows'[i].recent => rows[i].recent),
         \A j \in Slot :
           \/ req'[j] = req[j]
           \/ req'[j].pc # "addMax" /\ req'[j].pc # "addSave"
           \/ req'[j].user = Host
           \/ /\ req'[j].user = req[j].user /\ req'[j].tracks = req[j].tracks
              /\ req[j].pc = "addMax"
  PROVE  QuotaInv'
<1>1. ASSUME NEW u \in QueueUser \ {Host}
      PROVE  Within(u)'
  <2>1. \A i \in RecentBy(u)' : i \in RecentBy(u)
    BY InQuota
  <2>2. ASSUME NEW p \in Promised(u)'
        PROVE  p \in Promised(u)
    <3>1. PICK j \in Slot : j = p[1]
      BY InQuota
    <3>2. /\ p \in Slot \X (1 .. MaxSelect) /\ req'[j].user = u /\ p[2] \in DOMAIN req'[j].tracks
          /\ req'[j].pc = "addMax" \/ req'[j].pc = "addSave"
      BY <3>1, InQuota
    <3>3. /\ req[j].user = u /\ p[2] \in DOMAIN req[j].tracks
          /\ req[j].pc = "addMax" \/ req[j].pc = "addSave"
      BY <3>2
    <3> QED BY <3>1, <3>2, <3>3, InQuota
  <2>3. Within(u)
    BY QuotaIs
  <2> QED BY <2>1, <2>2, <2>3, WithinLess
<1> QED BY <1>1 DEF QuotaInv, Within, Others

(* A request that is allowed: the places of its list are promised, and the other
   requests have been promised no more than they can select. *)
LEMMA QuotaTake ==
  ASSUME TypesInv, QuotaInv, NEW k \in Slot, AddQuota(k)
  PROVE  QuotaInv'
<1>1. UNCHANGED rows /\ req[k].pc = "addQuota" /\ req \in [Slot -> Req] /\ req[k] \in Req
  BY TypesParts DEF AddQuota, KeepQueue, ReqsTyped
<1>2. CASE Over(k)
  <2>1. \A j \in Slot : req'[j] = req[j] \/ req'[j].pc = "free"
    BY <1>1, <1>2, FreeFacts DEF Over
  <2> QED BY <1>1, <2>1, QuotaKeep
<1>3. CASE ~Over(k)
  <2>1. PICK t \in TrackLists, v \in People : t = req[k].tracks /\ v = req[k].user
    BY ReqKnown
  <2>2. PICK D : D = DOMAIN t
    OBVIOUS
  <2>3. WithinQuota(v, Cardinality(D)) /\ Goto(k, "addMax")
    BY <1>3, <2>1, <2>2 DEF AddQuota
  <2>4. /\ req'[k].pc = "addMax" /\ req'[k].user = v /\ req'[k].tracks = t
        /\ \A j \in Slot : j # k => req'[j] = req[j]
    BY <1>1, <2>1, <2>3 DEF Goto, Req
  <2>5. ASSUME NEW u \in QueueUser \ {Host}, u # v
        PROVE  Within(u)'
    <3>1. \A i \in RecentBy(u)' : i \in RecentBy(u)
      BY <1>1, InQuota
    <3>2. \A p \in Promised(u)' : p \in Promised(u)
      BY <2>4, <2>5, InQuota
    <3> QED BY <3>1, <3>2, QuotaIs, WithinLess
  <2>6. ASSUME v # Host
        PROVE  Within(v)'
    <3>1. D \subseteq 1 .. MaxSelect
      BY <1>1, <2>1, <2>2, <2>6, ReqKnown, AddPcs DEF ListKnown
    <3>2. IsFiniteSet(D) /\ Cardinality(D) \in Nat
      BY <3>1, Sizes, FS_Subset, FS_CardinalityType
    <3>3. PICK A, B : A = (Slot \ {k}) \X (1 .. MaxSelect) /\ B = {k} \X D
      OBVIOUS
    <3>4. IsFiniteSet(A) /\ Cardinality(A) = Others
      BY <3>3, QuotaSizes
    <3>5. IsFiniteSet(B) /\ Cardinality(B) = Cardinality(D)
      <4>1. IsFiniteSet({k}) /\ Cardinality({k}) = 1
        BY FS_Singleton
      <4>2. IsFiniteSet(B) /\ Cardinality(B) = Cardinality({k}) * Cardinality(D)
        BY <3>2, <3>3, <4>1, FS_Product
      <4> QED BY <3>2, <4>1, <4>2
    <3>6. IsFiniteSet(A \cup B) /\ Cardinality(A \cup B) <= Others + Cardinality(D)
      <4>1. /\ IsFiniteSet(A \cup B)
            /\ Cardinality(A \cup B) = Cardinality(A) + Cardinality(B) - Cardinality(A \cap B)
        BY <3>4, <3>5, FS_Union
      <4>2. Cardinality(A \cap B) \in Nat
        BY <3>4, FS_Subset, FS_CardinalityType
      <4> QED BY <3>2, <3>4, <3>5, <4>1, <4>2, QuotaSizes
    <3>7. PICK Q : Q = Promised(v)'
      OBVIOUS
    <3>8. Q \subseteq A \cup B
      <4>1. ASSUME NEW p \in Q
            PROVE  p \in A \cup B
        <5>1. PICK j \in Slot, n \in 1 .. MaxSelect : p = <<j, n>> /\ n \in DOMAIN req'[j].tracks
          BY <3>7, InQuota
        <5>2. CASE j = k
          BY <2>2, <2>4, <3>3, <5>1, <5>2
        <5>3. CASE j # k
          BY <3>3, <5>1, <5>3
        <5> QED BY <5>2, <5>3
      <4> QED BY <4>1
    <3>9. Cardinality(Q) <= Cardinality(A \cup B) /\ Cardinality(Q) \in Nat
      BY <3>6, <3>8, FS_Subset, FS_CardinalityType
    <3>10. PICK R : R = RecentBy(v) /\ R = RecentBy(v)'
      BY <1>1 DEF RecentBy, Present
    <3>11. Cardinality(R) \in Nat /\ Cardinality(R) + Cardinality(D) <= PerWindow
      BY <2>3, <3>10, QuotaFinite DEF WithinQuota
    <3>12. Cardinality(A \cup B) \in Nat
      BY <3>6, FS_CardinalityType
    <3>13. Cardinality(R) + Cardinality(Q) <= PerWindow + Others
      BY <3>2, <3>6, <3>9, <3>11, <3>12, QuotaSizes
    <3>14. (PerWindow + Others)' = PerWindow + Others
      BY DEF Others
    <3> QED BY <3>7, <3>10, <3>13, <3>14 DEF Within
  <2>7. \A u \in QueueUser \ {Host} : Within(u)'
    <3>1. ASSUME NEW u \in QueueUser \ {Host}
          PROVE  Within(u)'
      <4>1. CASE u = v
        BY <2>6, <4>1
      <4>2. CASE u # v
        BY <2>5, <4>2
      <4> QED BY <4>1, <4>2
    <3> QED BY <3>1
  <2> QED BY <2>7 DEF QuotaInv, Within, Others
<1> QED BY <1>2, <1>3

(* What is saved was promised. *)
LEMMA QuotaSave ==
  ASSUME TypesInv, QuotaInv, NEW k \in Slot, AddSave(k)
  PROVE  QuotaInv'
<1>1. /\ req[k].pc = "addSave" /\ req'[k].pc = "autoStatus"
      /\ \A j \in Slot : j # k => req'[j] = req[j]
  BY SaveEffect
<1>2. PICK t \in TrackLists, v \in People : t = req[k].tracks /\ v = req[k].user
  BY ReqKnown
<1>3. PICK D : D = DOMAIN t
  OBVIOUS
<1>4. PICK N \in SUBSET Id : \E g \in [N -> D], q \in [N -> Nat] : Saved(k, N, g, q)
  BY <1>2, <1>3, SaveEffect
<1>5. PICK g \in [N -> D] :
        /\ \A i, j \in N : i # j => g[i] # g[j]
        /\ \A i \in N : rows'[i].by = v /\ rows'[i].recent = (v \in QueueUser \ {Host})
        /\ \A i \in Id \ N : rows'[i] = rows[i]
  BY <1>2, <1>4 DEF Saved
<1>6. ASSUME NEW u
      PROVE  \A p \in Promised(u)' : p \in Promised(u) /\ p[1] # k
  BY <1>1, InQuota
<1>7. ASSUME NEW u \in QueueUser \ {Host}, u # v
      PROVE  Within(u)'
  <2>1. \A i \in RecentBy(u)' : i \in RecentBy(u)
    BY <1>5, <1>7, InQuota
  <2> QED BY <1>6, <2>1, QuotaIs, WithinLess
<1>8. ASSUME v \in QueueUser \ {Host}
      PROVE  Within(v)'
  <2>1. D \subseteq 1 .. MaxSelect
    BY <1>1, <1>2, <1>3, <1>8, ReqKnown, AddPcs DEF ListKnown
  <2>2. IsFiniteSet(D) /\ Cardinality(D) \in Nat
    BY <2>1, Sizes, FS_Subset, FS_CardinalityType
  <2>3. IsFiniteSet(N) /\ Cardinality(N) <= Cardinality(D) /\ Cardinality(N) \in Nat
    <3>1. g \in Injection(N, D)
      BY <1>5 DEF Injection, IsInjective
    <3>2. IsFiniteSet(N) /\ Cardinality(N) <= Cardinality(D)
      BY <2>2, <3>1, FS_Injection
    <3> QED BY <3>2, FS_CardinalityType
  <2>4. PICK R, S, P, Q : R = RecentBy(v) /\ S = RecentBy(v)' /\ P = Promised(v) /\ Q = Promised(v)'
    OBVIOUS
  <2>5. /\ IsFiniteSet(R) /\ IsFiniteSet(P) /\ IsFiniteSet(S) /\ IsFiniteSet(Q)
        /\ Cardinality(R) \in Nat /\ Cardinality(P) \in Nat
        /\ Cardinality(S) \in Nat /\ Cardinality(Q) \in Nat
    BY <2>4, QuotaFinite
  <2>6. Cardinality(S) <= Cardinality(R) + Cardinality(N)
    <3>1. S \subseteq R \cup N
      BY <1>5, <2>4, InQuota
    <3>2. /\ IsFiniteSet(R \cup N)
          /\ Cardinality(R \cup N) = Cardinality(R) + Cardinality(N) - Cardinality(R \cap N)
      BY <2>3, <2>5, FS_Union
    <3>3. Cardinality(S) <= Cardinality(R \cup N)
      BY <3>1, <3>2, FS_Subset
    <3>4. Cardinality(R \cap N) \in Nat
      BY <2>5, FS_Subset, FS_CardinalityType
    <3> QED BY <2>3, <2>5, <3>2, <3>3, <3>4
  <2>7. PICK B : B = {k} \X D
    OBVIOUS
  <2>8. IsFiniteSet(B) /\ Cardinality(B) = Cardinality(D)
    <3>1. IsFiniteSet({k}) /\ Cardinality({k}) = 1
      BY FS_Singleton
    <3>2. IsFiniteSet(B) /\ Cardinality(B) = Cardinality({k}) * Cardinality(D)
      BY <2>2, <2>7, <3>1, FS_Product
    <3> QED BY <2>2, <3>1, <3>2
  <2>9. Cardinality(Q) + Cardinality(D) <= Cardinality(P)
    <3>1. Q \cap B = {}
      BY <1>6, <2>4, <2>7
    <3>2. Q \cup B \subseteq P
      <4>1. ASSUME NEW n \in D
            PROVE  <<k, n>> \in P
        <5>1. <<k, n>> \in Slot \X (1 .. MaxSelect)
          BY <2>1
        <5> QED BY <1>1, <1>2, <1>3, <2>4, <5>1, InQuota
      <4>2. B \subseteq P
        BY <2>7, <4>1
      <4> QED BY <1>6, <2>4, <4>2
    <3>3. /\ Cardinality(Q \cup B) = Cardinality(Q) + Cardinality(B) - Cardinality(Q \cap B)
          /\ Cardinality(Q \cap B) = 0
      BY <2>5, <2>8, <3>1, FS_Union, FS_EmptySet
    <3>4. Cardinality(Q \cup B) <= Cardinality(P)
      BY <2>5, <3>2, FS_Subset
    <3> QED BY <2>2, <2>5, <2>8, <3>3, <3>4
  <2>10. Cardinality(R) + Cardinality(P) <= PerWindow + Others
    BY <1>8, <2>4, QuotaIs DEF Within
  <2>11. Cardinality(S) + Cardinality(Q) <= PerWindow + Others
    BY <2>2, <2>3, <2>5, <2>6, <2>9, <2>10, QuotaSizes
  <2>12. (PerWindow + Others)' = PerWindow + Others
    BY DEF Others
  <2> QED BY <2>4, <2>11, <2>12 DEF Within
<1>9. ASSUME NEW u \in QueueUser \ {Host}
      PROVE  Within(u)'
  <2>1. CASE u = v
    BY <1>8, <2>1
  <2>2. CASE u # v
    BY <1>7, <2>2
  <2> QED BY <2>1, <2>2
<1> QED BY <1>9 DEF QuotaInv, Within, Others

LEMMA QuotaNext ==
  ASSUME TypesInv, QuotaInv, [QueueNext]_queueVars
  PROVE  QuotaInv'
<1>1. req \in [Slot -> Req] /\ RowsTyped
  BY TypesParts DEF ReqsTyped
<1>2. ASSUME NEW k \in Slot, NEW r, req' = [req EXCEPT ![k] = r], r.pc # "addMax", r.pc # "addSave",
             UNCHANGED rows
      PROVE  QuotaInv'
  <2>1. ASSUME NEW j \in Slot
        PROVE  req'[j] = req[j] \/ (req'[j].pc # "addMax" /\ req'[j].pc # "addSave")
    <3>1. CASE j = k
      <4>1. req'[j] = r
        BY <1>1, <1>2, <3>1
      <4> QED BY <1>2, <4>1
    <3>2. CASE j # k
      BY <1>1, <1>2, <3>2
    <3> QED BY <3>1, <3>2
  <2> QED BY <1>2, <2>1, QuotaKeep
<1>3. ASSUME NEW k \in Slot, Over(k), UNCHANGED rows
      PROVE  QuotaInv'
  BY <1>2, <1>3, FreeFacts DEF Over
<1>4. ASSUME NEW k \in Slot, NEW pc, Goto(k, pc), UNCHANGED rows, pc # "addMax", pc # "addSave"
      PROVE  QuotaInv'
  <2>1. PICK r : r = [req[k] EXCEPT !.pc = pc]
    OBVIOUS
  <2>2. req' = [req EXCEPT ![k] = r] /\ r.pc = pc
    BY <1>1, <1>4, <2>1 DEF Goto, Req
  <2> QED BY <1>2, <1>4, <2>2
<1>5. ASSUME NEW k \in Slot, Requests(k)
      PROVE  QuotaInv'
  <2>1. CASE \E u \in People, s \in Lists : AddTracks(k, u, s)
    <3>1. PICK u \in People, s \in Lists : AddTracks(k, u, s)
      BY <2>1
    <3>2. PICK r : r = [FreeReq EXCEPT !.pc = "addRoom", !.user = u, !.tracks = s]
      OBVIOUS
    <3>3. r.pc = "addRoom"
      BY <3>2 DEF FreeReq
    <3> QED BY <1>2, <3>1, <3>2, <3>3 DEF AddTracks, Begin
  <2>2. CASE \E u \in People, i \in Id : RemoveTrack(k, u, i)
    <3>1. PICK u \in People, i \in Id : RemoveTrack(k, u, i)
      BY <2>2
    <3>2. PICK r : r = [FreeReq EXCEPT !.pc = "removeRoom", !.user = u, !.id = i]
      OBVIOUS
    <3>3. r.pc = "removeRoom"
      BY <3>2 DEF FreeReq
    <3> QED BY <1>2, <3>1, <3>2, <3>3 DEF RemoveTrack, Begin
  <2>3. CASE \E i \in Present, p \in Id : Reorder(k, i, p)
    <3>1. PICK i \in Present, p \in Id : Reorder(k, i, p)
      BY <2>3
    <3>2. PICK r : r = [FreeReq EXCEPT !.pc = "reorderWrite", !.id = i, !.pos = p, !.old = rows[i]]
      OBVIOUS
    <3>3. r.pc = "reorderWrite"
      BY <3>2 DEF FreeReq
    <3> QED BY <1>2, <3>1, <3>2, <3>3 DEF Reorder, Begin
  <2>4. CASE (\E t \in Track : PlayAsked(k, t)) \/ \E i \in Id : PreviousAsked(k, i)
    <3>1. PlayStep(k) /\ UNCHANGED rows
      BY <2>4 DEF PlayStep, PlayAsked, PreviousAsked
    <3>2. \A j \in Slot : req'[j] = req[j] \/ (req'[j].pc # "addMax" /\ req'[j].pc # "addSave")
      BY <3>1, PlayStepReq, AddPcs
    <3> QED BY <3>1, <3>2, QuotaKeep
  <2> QED BY <1>5, <2>1, <2>2, <2>3, <2>4 DEF Requests, People
<1>6. ASSUME NEW k \in Slot, AddRoom(k) \/ AddDup(k) \/ AddCooldown(k) \/ RemoveRoom(k)
      PROVE  QuotaInv'
  <2>1. CASE AddDup(k)
    <3>1. PICK w : w = Without(req[k].tracks, QueuedTracks)
      OBVIOUS
    <3>2. PICK r : r = [req[k] EXCEPT !.pc = "addNow", !.tracks = w]
      OBVIOUS
    <3>3. req' = [req EXCEPT ![k] = r] /\ r.pc = "addNow" /\ UNCHANGED rows
      BY <1>1, <2>1, <3>1, <3>2 DEF AddDup, KeepQueue, Req
    <3> QED BY <1>2, <3>3
  <2> QED BY <1>3, <1>4, <1>6, <2>1 DEF AddRoom, AddCooldown, RemoveRoom, KeepQueue
<1>7. ASSUME NEW k \in Slot, AddNow(k)
      PROVE  QuotaInv'
  <2>1. CASE ~Over(k)
    <3>1. PICK w : w = Without(req[k].tracks, {playing})
      OBVIOUS
    <3>2. PICK pc : pc = IF req[k].user = Host THEN "addMax"
                         ELSE IF Cooldown THEN "addCooldown" ELSE "addQuota"
      OBVIOUS
    <3>3. req' = [req EXCEPT ![k] = [req[k] EXCEPT !.tracks = w, !.pc = pc]] /\ UNCHANGED rows
      BY <1>7, <2>1, <3>1, <3>2 DEF AddNow, KeepQueue
    <3>4. /\ req'[k].pc = pc /\ req'[k].user = req[k].user
          /\ \A j \in Slot : j # k => req'[j] = req[j]
      BY <1>1, <3>3 DEF Req
    <3>5. req'[k].user = Host \/ (req'[k].pc # "addMax" /\ req'[k].pc # "addSave")
      BY <3>2, <3>4
    <3> QED BY <3>3, <3>4, <3>5, QuotaKeep
  <2> QED BY <1>3, <1>7, <2>1 DEF AddNow, KeepQueue
<1>8. ASSUME NEW k \in Slot, AddMax(k)
      PROVE  QuotaInv'
  <2>1. /\ req' = [req EXCEPT ![k] = [req[k] EXCEPT !.pc = "addSave", !.pos = LastPosition + 1]]
        /\ req[k].pc = "addMax" /\ UNCHANGED rows
    BY <1>8 DEF AddMax, KeepQueue
  <2>2. /\ req'[k].user = req[k].user /\ req'[k].tracks = req[k].tracks
        /\ \A j \in Slot : j # k => req'[j] = req[j]
    BY <1>1, <2>1 DEF Req
  <2> QED BY <2>1, <2>2, QuotaKeep
<1>9. ASSUME NEW k \in Slot, RemoveRow(k) \/ PlayStep(k)
      PROVE  QuotaInv'
  <2>1. \A j \in Slot : req'[j] = req[j] \/ (req'[j].pc # "addMax" /\ req'[j].pc # "addSave")
    <3>1. CASE RemoveRow(k)
      <4>1. req' = [req EXCEPT ![k] = FreeReq]
        BY <3>1 DEF RemoveRow, Over
      <4> QED BY <1>1, <4>1, FreeFacts
    <3>2. CASE PlayStep(k)
      BY <3>2, PlayStepReq, AddPcs
    <3> QED BY <1>9, <3>1, <3>2
  <2>2. \A i \in Id : rows'[i] # NoRow =>
          rows[i] # NoRow /\ rows'[i].by = rows[i].by /\ (rows'[i].recent => rows[i].recent)
    BY <1>9, StepRows
  <2> QED BY <2>1, <2>2, QuotaKeep
<1>10. ASSUME NEW k \in Slot, ReorderWrite(k)
       PROVE  QuotaInv'
  <2>1. \A j \in Slot : req'[j] = req[j] \/ (req'[j].pc # "addMax" /\ req'[j].pc # "addSave")
    <3>1. req' = [req EXCEPT ![k] = FreeReq]
      BY <1>10 DEF ReorderWrite, Over
    <3> QED BY <1>1, <3>1, FreeFacts
  <2>2. \A i \in Id : rows'[i] # NoRow =>
          rows[i] # NoRow /\ rows'[i].by = rows[i].by /\ (rows'[i].recent => rows[i].recent)
    BY <1>10, ReorderFacts, InQueue
  <2> QED BY <2>1, <2>2, QuotaKeep
<1>11. ASSUME NEW k \in Slot, QueueStep(k)
       PROVE  QuotaInv'
  BY <1>6, <1>7, <1>8, <1>9, <1>10, <1>11, QuotaTake, QuotaSave DEF QueueStep, PlayStep
<1>12. CASE Plays \/ Time \/ UNCHANGED queueVars
  <2>1. UNCHANGED req
    BY <1>12 DEF Plays, Time, queueVars, TrackEnds, EndIdle, PauseOrResume, TakeNext,
       PlaySave, Ages, Forgets
  <2>2. \A i \in Id : rows'[i] # NoRow =>
          rows[i] # NoRow /\ rows'[i].by = rows[i].by /\ (rows'[i].recent => rows[i].recent)
    BY <1>12, StepRows
  <2> QED BY <2>1, <2>2, QuotaKeep
<1> QED BY <1>5, <1>11, <1>12 DEF QueueNext

(* A user's recent rows exceed the limit by no more than the other requests in flight
   can select. *)
THEOREM QuotaIsNearlyKept == QueueSpec => []QuotaNearlyHolds
<1>1. QueueInit => TypesInv /\ QuotaInv
  <2>1. QueueInit => TypesInv
    BY TypesInit
  <2>2. ASSUME QueueInit, NEW u \in QueueUser \ {Host}
        PROVE  Within(u)
    <3>1. /\ \A i \in Id : rows[i] = NoRow
          /\ \A k \in Slot : req[k].pc = "free"
      BY <2>2, FreeFacts DEF QueueInit
    <3>2. RecentBy(u) = {} /\ Promised(u) = {}
      BY <3>1, InQuota
    <3> QED BY <3>2, FS_EmptySet, QuotaSizes DEF Within
  <2> QED BY <2>1, <2>2, QuotaIs
<1>2. TypesInv /\ QuotaInv /\ [QueueNext]_queueVars => TypesInv' /\ QuotaInv'
  BY TypesNext, QuotaNext
<1>3. QuotaInv => QuotaNearlyHolds
  <2>1. ASSUME QuotaInv, NEW u \in QueueUser \ {Host}
        PROVE  Cardinality(RecentBy(u)) <= PerWindow + Others
    <3>1. Cardinality(RecentBy(u)) + Cardinality(Promised(u)) <= PerWindow + Others
      BY <2>1, QuotaIs DEF Within
    <3> QED BY <3>1, QuotaFinite, QuotaSizes
  <2> QED BY <2>1 DEF QuotaNearlyHolds, Others
<1> QED BY <1>1, <1>2, <1>3, PTL DEF QueueSpec

================================================================================
