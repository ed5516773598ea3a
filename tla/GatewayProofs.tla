---------------------------- MODULE GatewayProofs ----------------------------
(***************************************************************************)
(* Proofs about the sessions and the membership of Gateway, for every set  *)
(* of users and rooms and every number of connections, requests and        *)
(* handlers in flight.                                                     *)
(*                                                                         *)
(* What a step does to a session it does to one connection, or to all the  *)
(* connections of one user; what a handler does to a member it does to its *)
(* own user in its own room.  The invariant says enough of the others to   *)
(* know that they stay accounted for.                                      *)
(***************************************************************************)
EXTENDS Gateway, TLAPS

(* The connections: who is in a room is registered there, and has its socket open,
   being closed, or closed before anybody listened. *)
ConnsTyped ==
  /\ opened \in 0 .. MaxConns
  /\ owner \in [Conn -> User \cup {NoUser}]
  /\ place \in [Conn -> Room \cup {NoRoom}]
  /\ phase \in [Conn -> {"none", "checking", "up", "refused"}]
  /\ socket \in [Conn -> {"none", "open", "closing", "closed"}]
  /\ kickCode \subseteq Conn
  /\ alive \subseteq Conn
  /\ unheard \subseteq Conn
  /\ roomClients \in [Room -> SUBSET Conn]
  /\ listeners \in [Room -> SUBSET Conn]
  /\ heartbeats \in [Room -> [User -> {"none", "fresh", "stale"}]]
  /\ pendingDisconnects \subseteq User \X Room

RowsTyped ==
  /\ exists \subseteq Room
  /\ host \in [Room -> User]
  /\ members \in [Room -> SUBSET User]
  /\ seen \in [Room -> SUBSET User]
  /\ perm \in [Room -> [User -> {"none", "member", "host"}]]
  /\ banned \in [Room -> SUBSET User]
  /\ task \in [Task -> TaskRecord]
  /\ calls \in 0 .. MaxCalls

(* A connection that was opened has its user, room and socket. *)
OpenedIsKnown == \A c \in Conn: phase[c] # "none" =>
  c <= opened /\ owner[c] \in User /\ place[c] \in Room /\ socket[c] # "none"

(* Only a registered session is kicked, or closed without being heard. *)
MarkedAreUp ==
  /\ \A c \in kickCode: phase[c] = "up"
  /\ \A c \in unheard: phase[c] = "up" /\ socket[c] = "closed"

(* A client of a room has registered for it; if it is closed nobody heard it. *)
ClientsInPlace == \A r \in Room: \A c \in roomClients[r]:
  phase[c] = "up" /\ place[c] = r /\ (socket[c] = "closed" => c \in unheard)

(* A session that was kicked belongs to a user not seen since. *)
KickedAreUnseen == \A r \in Room: \A c \in roomClients[r]:
  c \in kickCode => owner[c] \notin seen[r]

(* MemberAccounted, of sessions whose close event will be heeded: that of a kicked
   session starts no grace timer. *)
Closing(c, u, r) ==
  /\ owner[c] = u /\ place[c] = r /\ phase[c] = "up"
  /\ (socket[c] = "closing" /\ c \notin kickCode) \/ c \in unheard

MemberExpected == \A r \in Room: \A u \in members[r] \cap seen[r]:
  \/ Connected(u, r)
  \/ \E c \in Conn: Closing(c, u, r)
  \/ <<u, r>> \in pendingDisconnects
  \/ \E k \in Task: task[k] = Handler("finRemove", u, r)

(* A handler knows its user and its room. *)
HandlersKnow == \A k \in Task:
  task[k].pc # "free" => task[k].user \in User /\ task[k].room \in Room

SessionInv ==
  /\ ConnsTyped /\ OpenedIsKnown /\ MarkedAreUp /\ ClientsInPlace
  /\ OneSessionPerUser /\ GraceMeansGone

RoomInv == RowsTyped /\ HandlersKnow

GatewayInv ==
  /\ SessionInv /\ RoomInv
  /\ ListenersFollowClients /\ KickedAreUnseen /\ MemberExpected

-------------------------------------------------------------------------------
LEMMA Bounds ==
  /\ MaxConns \in Nat /\ MaxCalls \in Nat /\ Founder \in User
  /\ NoUser \notin User /\ NoRoom \notin Room
BY GatewayAssumption

LEMMA InvParts ==
  GatewayInv <=> /\ ConnsTyped /\ OpenedIsKnown /\ MarkedAreUp /\ ClientsInPlace
                 /\ OneSessionPerUser /\ GraceMeansGone /\ RowsTyped /\ HandlersKnow
                 /\ ListenersFollowClients /\ KickedAreUnseen /\ MemberExpected
BY DEF GatewayInv, SessionInv, RoomInv

LEMMA NextInvParts ==
  ASSUME ConnsTyped', OpenedIsKnown', MarkedAreUp', ClientsInPlace', OneSessionPerUser',
         GraceMeansGone', RowsTyped', HandlersKnow', ListenersFollowClients',
         KickedAreUnseen', MemberExpected'
  PROVE  GatewayInv'
BY DEF GatewayInv, SessionInv, RoomInv

LEMMA Handlers ==
  /\ Free \in TaskRecord /\ Free.pc = "free"
  /\ \A pc \in Pc, u \in User, r \in Room:
       /\ Handler(pc, u, r) \in TaskRecord
       /\ Handler(pc, u, r).pc = pc /\ Handler(pc, u, r).user = u /\ Handler(pc, u, r).room = r
  /\ \A pc \in Pc: pc # "free"
  /\ \A tk \in TaskRecord, pc \in Pc:
       /\ [tk EXCEPT !.pc = pc] \in TaskRecord /\ [tk EXCEPT !.pc = pc].pc = pc
       /\ [tk EXCEPT !.pc = pc].user = tk.user /\ [tk EXCEPT !.pc = pc].room = tk.room
  /\ \A tk \in TaskRecord, u \in User:
       /\ [tk EXCEPT !.hostThen = u] \in TaskRecord /\ [tk EXCEPT !.hostThen = u].pc = tk.pc
       /\ [tk EXCEPT !.hostThen = u].user = tk.user /\ [tk EXCEPT !.hostThen = u].room = tk.room
BY DEF Free, TaskRecord, Handler, Pc

-------------------------------------------------------------------------------
(* Steps on the rows leave every session alone.  They never make a user a member
   that was seen, and give up a removal only when it has been made. *)
LEMMA SessionsStay ==
  ASSUME GatewayInv, UNCHANGED <<connVars, wsVars>>
  PROVE  /\ ConnsTyped' /\ OpenedIsKnown' /\ MarkedAreUp' /\ ClientsInPlace'
         /\ OneSessionPerUser' /\ GraceMeansGone'
         /\ \A u \in User, r \in Room: Connected(u, r)' <=> Connected(u, r)
         /\ \A c \in Conn, u \in User, r \in Room: Closing(c, u, r)' <=> Closing(c, u, r)
<1>1. UNCHANGED <<opened, owner, place, phase, socket, kickCode, alive, unheard,
                  roomClients, listeners, heartbeats, pendingDisconnects>>
  BY DEF connVars, wsVars
<1> QED BY <1>1, InvParts DEF ConnsTyped, OpenedIsKnown, MarkedAreUp, ClientsInPlace,
           OneSessionPerUser, GraceMeansGone, Connected, Closing

LEMMA HandlerStep ==
  ASSUME GatewayInv, NEW k \in Task, NEW tk \in TaskRecord,
         task' = [task EXCEPT ![k] = tk],
         tk.pc # "free" => tk.user \in User /\ tk.room \in Room,
         UNCHANGED <<connVars, wsVars>>, RowsTyped',
         exists' \subseteq exists,
         task[k].pc = "close" => task[k].room \notin exists',
         \A r \in Room: seen'[r] \subseteq seen[r]
                        /\ members'[r] \cap seen'[r] \subseteq members[r],
         task[k].pc = "finRemove" => task[k].user \notin members'[task[k].room]
  PROVE  GatewayInv'
<1>1. /\ task \in [Task -> TaskRecord] /\ task'[k] = tk
      /\ \A j \in Task: j # k => task'[j] = task[j]
  BY InvParts DEF RowsTyped
<1>2. HandlersKnow'
  BY <1>1, InvParts DEF HandlersKnow
<1>3. UNCHANGED <<owner, kickCode, roomClients, listeners, pendingDisconnects>>
  BY DEF connVars, wsVars
<1>4. ListenersFollowClients'
  <2>1. ASSUME NEW r \in Room, r \in exists',
               \A j \in Task: task'[j].pc = "close" => task'[j].room # r
        PROVE  roomClients[r] \subseteq listeners[r]
    <3>1. r \in exists /\ \A j \in Task: task[j].pc = "close" => task[j].room # r
      BY <1>1, <2>1
    <3> QED BY <3>1, InvParts DEF ListenersFollowClients
  <2> QED BY <1>3, <2>1, InvParts DEF ListenersFollowClients
<1>5. KickedAreUnseen'
  BY <1>3, InvParts DEF KickedAreUnseen
<1>6. MemberExpected'
  <2>1. ASSUME NEW r \in Room, NEW u \in members'[r] \cap seen'[r]
        PROVE  \/ Connected(u, r)'
               \/ \E c \in Conn: Closing(c, u, r)'
               \/ <<u, r>> \in pendingDisconnects'
               \/ \E j \in Task: task'[j] = Handler("finRemove", u, r)
    <3>1. u \in members[r] \cap seen[r] /\ u \in User
      BY <2>1, InvParts DEF RowsTyped
    <3>2. \/ Connected(u, r) \/ \E c \in Conn: Closing(c, u, r)
          \/ <<u, r>> \in pendingDisconnects
          \/ \E j \in Task: task[j] = Handler("finRemove", u, r)
      BY <3>1, InvParts DEF MemberExpected
    <3>3. ASSUME NEW j \in Task, task[j] = Handler("finRemove", u, r)
          PROVE  j # k
      <4>1. task[j].pc = "finRemove" /\ task[j].user = u /\ task[j].room = r
        BY <3>1, <3>3 DEF Handler
      <4> QED BY <2>1, <4>1
    <3> QED BY <1>1, <1>3, <3>1, <3>2, <3>3, SessionsStay
  <2> QED BY <2>1 DEF MemberExpected
<1> QED BY <1>2, <1>4, <1>5, <1>6, SessionsStay, NextInvParts

(* A step that only moves a handler on, and changes no row. *)
LEMMA HandlerGoes ==
  ASSUME GatewayInv, NEW k \in Task, NEW tk \in TaskRecord, Become(k, tk),
         tk.pc # "free" => tk.user \in User /\ tk.room \in Room,
         UNCHANGED <<connVars, wsVars, rowVars>>, calls' \in 0 .. MaxCalls,
         task[k].pc \notin {"close", "finRemove"}
  PROVE  GatewayInv'
<1>1. UNCHANGED <<exists, host, members, seen, perm, banned>>
  BY DEF rowVars
<1>2. task' = [task EXCEPT ![k] = tk]
  BY DEF Become
<1>3. RowsTyped'
  BY <1>1, <1>2, InvParts DEF RowsTyped
<1> QED BY <1>1, <1>2, <1>3, HandlerStep

LEMMA TaskKnown ==
  ASSUME GatewayInv, NEW k \in Task, task[k].pc # "free"
  PROVE  task[k] \in TaskRecord /\ task[k].user \in User /\ task[k].room \in Room
BY InvParts DEF RowsTyped, HandlersKnow

(* Where a handler goes next, it keeps its user and its room. *)
LEMMA MovesOn ==
  ASSUME GatewayInv, NEW k \in Task, task[k].pc # "free",
         Done(k) \/ \E pc \in Pc: Goto(k, pc)
  PROVE  \E tk \in TaskRecord:
           /\ task' = [task EXCEPT ![k] = tk] /\ Become(k, tk)
           /\ tk.pc # "free" => tk.user = task[k].user /\ tk.room = task[k].room
<1>1. CASE Done(k)
  BY <1>1, Handlers DEF Done, Become
<1>2. ASSUME NEW pc \in Pc, Goto(k, pc)
      PROVE  \E tk \in TaskRecord:
               /\ task' = [task EXCEPT ![k] = tk] /\ Become(k, tk)
               /\ tk.pc # "free" => tk.user = task[k].user /\ tk.room = task[k].room
  <2> DEFINE tk == [task[k] EXCEPT !.pc = pc]
  <2>1. tk \in TaskRecord /\ tk.user = task[k].user /\ tk.room = task[k].room
    BY TaskKnown, Handlers
  <2>2. task' = [task EXCEPT ![k] = tk] /\ Become(k, tk)
    BY <1>2 DEF Goto, Become
  <2> HIDE DEF tk
  <2> QED BY <2>1, <2>2
<1> QED BY <1>1, <1>2

-------------------------------------------------------------------------------
(* The handlers, query by query. *)
LEMMA FinRemoveKeeps ==
  ASSUME GatewayInv, NEW k \in Task, FinRemove(k)
  PROVE  GatewayInv'
<1> DEFINE u == task[k].user
           r == task[k].room
           tk == [task[k] EXCEPT !.pc = "finCount"]
<1>1. /\ task[k].pc = "finRemove" /\ task' = [task EXCEPT ![k] = tk]
      /\ members' = [members EXCEPT ![r] = @ \ {u}]
      /\ UNCHANGED <<connVars, wsVars, calls, exists, host, seen, perm, banned>>
  BY DEF FinRemove, MemberDeleted, Goto, Become
<1>2. /\ task[k] \in TaskRecord /\ u \in User /\ r \in Room
  BY <1>1, TaskKnown
<1>0. "finCount" \in Pc
  BY DEF Pc
<1>3. tk \in TaskRecord /\ tk.user = u /\ tk.room = r
  BY <1>0, <1>2, Handlers
<1> HIDE DEF u, r, tk
<1>4. RowsTyped'
  BY <1>1, <1>2, <1>3, InvParts DEF RowsTyped
<1>5. members \in [Room -> SUBSET User]
  BY InvParts DEF RowsTyped
<1>6. /\ \A q \in Room: members'[q] \subseteq members[q]
      /\ u \notin members'[r]
  BY <1>1, <1>2, <1>5
<1> QED BY <1>1, <1>2, <1>3, <1>4, <1>6, HandlerStep DEF u, r

(* Leave and kick delete the member in the same way. *)
LEMMA DeleteKeeps ==
  ASSUME GatewayInv, NEW k \in Task, LeaveDelete(k) \/ KickDelete(k)
  PROVE  GatewayInv'
<1> DEFINE u == task[k].user
           r == task[k].room
<1>1. /\ task[k].pc \in {"leaveDelete", "kickDelete"}
      /\ members' = [members EXCEPT ![r] = @ \ {u}]
      /\ UNCHANGED <<connVars, wsVars, calls, exists, host, seen, perm, banned>>
      /\ \E pc \in {"leaveCount", "kickPerm"}: Goto(k, pc)
  BY DEF LeaveDelete, KickDelete, MemberDeleted
<1>2. /\ task[k] \in TaskRecord /\ u \in User /\ r \in Room
  BY <1>1, TaskKnown
<1>0. \E pc \in Pc: Goto(k, pc)
  BY <1>1 DEF Pc
<1>3. \E tk \in TaskRecord: /\ task' = [task EXCEPT ![k] = tk]
                            /\ tk.pc # "free" => tk.user = u /\ tk.room = r
  BY <1>0, <1>1, MovesOn
<1> HIDE DEF u, r
<1>4. RowsTyped'
  BY <1>1, <1>2, <1>3, InvParts DEF RowsTyped
<1>5. \A q \in Room: members'[q] \subseteq members[q]
  BY <1>1, <1>2, InvParts DEF RowsTyped
<1> QED BY <1>1, <1>2, <1>3, <1>4, <1>5, HandlerStep

(* No member is left: the audio room is destroyed and the room will be closed. *)
LEMMA FinCountKeeps ==
  ASSUME GatewayInv, NEW k \in Task, FinCount(k)
  PROVE  GatewayInv'
<1> DEFINE r == task[k].room
<1>1. task[k].pc = "finCount" /\ UNCHANGED <<connVars, rowVars, calls>>
  BY DEF FinCount
<1>2. task[k] \in TaskRecord /\ task[k].user \in User /\ r \in Room
  BY <1>1, TaskKnown
<1>3. calls' \in 0 .. MaxCalls
  BY <1>1, InvParts DEF RowsTyped
<1>4. CASE UNCHANGED wsVars /\ Goto(k, "finIsHost")
  <2>1. "finIsHost" \in Pc
    BY DEF Pc
  <2>2. PICK tk \in TaskRecord: /\ Become(k, tk)
                                /\ tk.pc # "free" => tk.user = task[k].user /\ tk.room = r
    BY <1>1, <1>4, <2>1, MovesOn
  <2> QED BY <1>1, <1>2, <1>3, <1>4, <2>2, HandlerGoes
<1>5. CASE /\ listeners' = [listeners EXCEPT ![r] = {}] /\ Goto(k, "close")
           /\ UNCHANGED <<roomClients, heartbeats, pendingDisconnects>>
  <2> DEFINE tk == [task[k] EXCEPT !.pc = "close"]
  <2>a. "close" \in Pc
    BY DEF Pc
  <2>b. tk \in TaskRecord /\ tk.pc = "close" /\ tk.user = task[k].user /\ tk.room = r
    BY <1>2, <2>a, Handlers
  <2>1. /\ tk \in TaskRecord /\ tk.pc = "close" /\ tk.user = task[k].user /\ tk.room = r
        /\ task' = [task EXCEPT ![k] = tk]
    BY <1>5, <2>b DEF Goto, Become
  <2> HIDE DEF tk, r
  <2>2. /\ task \in [Task -> TaskRecord] /\ task'[k] = tk
        /\ \A j \in Task: j # k => task'[j] = task[j]
        /\ \A j \in Task: task[j].pc = "close" => j # k
    BY <1>1, <2>1, InvParts DEF RowsTyped
  <2>3. /\ UNCHANGED <<opened, owner, place, phase, socket, kickCode, alive, unheard, roomClients,
                       heartbeats, pendingDisconnects, exists, host, members, seen, perm,
                       banned, calls>>
        /\ listeners \in [Room -> SUBSET Conn]
    BY <1>1, <1>5, InvParts DEF connVars, rowVars, ConnsTyped
  <2>4. /\ listeners' \in [Room -> SUBSET Conn] /\ listeners'[r] = {}
        /\ \A q \in Room: q # r => listeners'[q] = listeners[q]
    BY <1>2, <1>5, <2>3
  <2>5. /\ ConnsTyped' /\ OpenedIsKnown' /\ MarkedAreUp' /\ ClientsInPlace'
        /\ OneSessionPerUser' /\ GraceMeansGone'
    BY <2>3, <2>4, InvParts DEF ConnsTyped, OpenedIsKnown, MarkedAreUp, ClientsInPlace,
       OneSessionPerUser, GraceMeansGone, Connected
  <2>6. RowsTyped' /\ HandlersKnow'
    BY <1>2, <2>1, <2>2, <2>3, InvParts DEF RowsTyped, HandlersKnow
  <2>7. KickedAreUnseen'
    BY <2>3, InvParts DEF KickedAreUnseen
  <2>8. ListenersFollowClients'
    <3>1. ASSUME NEW q \in Room
          PROVE  /\ listeners'[q] \subseteq roomClients[q]
                 /\ q \in exists /\ (\A j \in Task: task'[j].pc = "close" => task'[j].room # q)
                    => roomClients[q] \subseteq listeners'[q]
      <4>1. CASE q = r
        BY <2>1, <2>2, <2>4, <4>1
      <4>2. CASE q # r
        <5>1. /\ listeners[q] \subseteq roomClients[q]
              /\ q \in exists /\ (\A j \in Task: task[j].pc = "close" => task[j].room # q)
                 => roomClients[q] \subseteq listeners[q]
          BY InvParts DEF ListenersFollowClients
        <5>2. (\A j \in Task: task'[j].pc = "close" => task'[j].room # q)
                => \A j \in Task: task[j].pc = "close" => task[j].room # q
          BY <2>2
        <5> QED BY <2>4, <4>2, <5>1, <5>2
      <4> QED BY <4>1, <4>2
    <3> QED BY <2>3, <3>1 DEF ListenersFollowClients
  <2>9. MemberExpected'
    <3>1. ASSUME NEW q \in Room, NEW u \in User, NEW j \in Task,
                 task[j] = Handler("finRemove", u, q)
          PROVE  task'[j] = Handler("finRemove", u, q)
      BY <1>1, <2>2, <3>1 DEF Handler
    <3> QED BY <2>3, <3>1, InvParts DEF MemberExpected, Connected, Closing, RowsTyped
  <2> QED BY <2>5, <2>6, <2>7, <2>8, <2>9, NextInvParts
<1> QED BY <1>1, <1>4, <1>5 DEF FinCount, wsVars

LEMMA CandidatesAreUsers ==
  ASSUME GatewayInv, NEW r \in Room
  PROVE  Candidates(r) \subseteq User
BY InvParts DEF Candidates, RowsTyped

(* The reads of a handler, and what it decides by them. *)
LEMMA ReadKeeps ==
  ASSUME GatewayInv, NEW k \in Task, FinIsHost(k) \/ PickHost(k) \/ LeaveCount(k)
  PROVE  GatewayInv'
<1>1. /\ task[k].pc \in {"finIsHost", "finPick", "leavePick", "leaveCount"}
      /\ UNCHANGED <<connVars, wsVars, rowVars, calls>>
  BY DEF FinIsHost, PickHost, LeaveCount
<1>2. task[k] \in TaskRecord /\ task[k].user \in User /\ task[k].room \in Room
  BY <1>1, TaskKnown
<1>3. calls' \in 0 .. MaxCalls
  BY <1>1, InvParts DEF RowsTyped
<1>4. CASE Done(k)
  BY <1>1, <1>3, <1>4, Handlers, HandlerGoes DEF Done
<1>5. ASSUME NEW pc \in {"finPick", "close", "leavePick"}, Goto(k, pc)
      PROVE  GatewayInv'
  <2>1. pc \in Pc
    BY DEF Pc
  <2>2. PICK tk \in TaskRecord:
          Become(k, tk) /\ (tk.pc # "free" => tk.user = task[k].user /\ tk.room = task[k].room)
    BY <1>1, <1>5, <2>1, MovesOn
  <2> QED BY <1>1, <1>2, <1>3, <2>2, HandlerGoes
<1>6. ASSUME NEW u \in Candidates(task[k].room), Become(k, Handler("setHost", u, task[k].room))
      PROVE  GatewayInv'
  <2> DEFINE tk == Handler("setHost", u, task[k].room)
  <2>0. u \in User /\ "setHost" \in Pc
    BY <1>2, CandidatesAreUsers DEF Pc
  <2>1. tk \in TaskRecord /\ tk.user = u /\ tk.room = task[k].room
    BY <1>2, <2>0, Handlers
  <2>2. Become(k, tk)
    BY <1>6
  <2> HIDE DEF tk
  <2> QED BY <1>1, <1>2, <1>3, <2>0, <2>1, <2>2, HandlerGoes
<1>7. CASE FinIsHost(k)
  BY <1>4, <1>5, <1>7 DEF FinIsHost
<1>8. CASE PickHost(k)
  BY <1>4, <1>5, <1>6, <1>8 DEF PickHost
<1>9. CASE LeaveCount(k)
  BY <1>4, <1>5, <1>9 DEF LeaveCount
<1> QED BY <1>7, <1>8, <1>9

LEMMA CloseRoomKeeps ==
  ASSUME GatewayInv, NEW k \in Task, CloseRoom(k)
  PROVE  GatewayInv'
<1> DEFINE r == task[k].room
           none == [u \in User |-> "none"]
<1>1. /\ task[k].pc = "close" /\ exists' = exists \ {r}
      /\ members' = [members EXCEPT ![r] = {}] /\ seen' = [seen EXCEPT ![r] = {}]
      /\ perm' = [perm EXCEPT ![r] = none]
      /\ banned' = [banned EXCEPT ![r] = {}]
      /\ task' = [task EXCEPT ![k] = Free] /\ UNCHANGED <<connVars, wsVars, host, calls>>
  BY DEF CloseRoom, Done, Become
<1>2. /\ r \in Room /\ Free \in TaskRecord /\ Free.pc = "free"
      /\ none \in [User -> {"none", "member", "host"}]
  BY <1>1, TaskKnown, Handlers
<1> HIDE DEF r, none
<1>3. RowsTyped'
  BY <1>1, <1>2, InvParts DEF RowsTyped
<1>4. \A q \in Room: seen'[q] \subseteq seen[q] /\ members'[q] \subseteq members[q]
  BY <1>1, <1>2, InvParts DEF RowsTyped
<1> QED BY <1>1, <1>2, <1>3, <1>4, HandlerStep DEF r

LEMMA JoinSaveKeeps ==
  ASSUME GatewayInv, NEW k \in Task, JoinSave(k)
  PROVE  GatewayInv'
<1> DEFINE u == task[k].user
           r == task[k].room
<1>1. /\ task[k].pc = "joinSave" /\ UNCHANGED <<connVars, wsVars, exists, host, perm, banned, calls>>
      /\ \/ Done(k) /\ UNCHANGED <<members, seen>>
         \/ /\ members' = [members EXCEPT ![r] = @ \cup {u}]
            /\ seen' = [seen EXCEPT ![r] = @ \ {u}] /\ Goto(k, "joinPerm")
  BY DEF JoinSave
<1>2. task[k] \in TaskRecord /\ u \in User /\ r \in Room
  BY <1>1, TaskKnown
<1>3. \E tk \in TaskRecord: /\ task' = [task EXCEPT ![k] = tk]
                            /\ tk.pc # "free" => tk.user = u /\ tk.room = r
  <2>1. "joinPerm" \in Pc
    BY DEF Pc
  <2> QED BY <1>1, <2>1, MovesOn
<1> HIDE DEF u, r
<1>4. RowsTyped'
  BY <1>1, <1>2, <1>3, InvParts DEF RowsTyped
<1>5. members \in [Room -> SUBSET User] /\ seen \in [Room -> SUBSET User]
  BY InvParts DEF RowsTyped
<1>6. \A q \in Room: seen'[q] \subseteq seen[q] /\ members'[q] \cap seen'[q] \subseteq members[q]
  BY <1>1, <1>2, <1>5
<1> QED BY <1>1, <1>2, <1>3, <1>4, <1>6, HandlerStep

(* The other saves change who is host and who may become it. *)
LEMMA SaveKeeps ==
  ASSUME GatewayInv, NEW k \in Task,
         SetHost(k) \/ JoinPerm(k) \/ KickPerm(k) \/ HandSave(k) \/ HandNew(k) \/ HandOld(k)
           \/ PermSave(k)
  PROVE  GatewayInv'
<1> DEFINE u == task[k].user
           r == task[k].room
<1>1. /\ task[k].pc \in {"setHost", "joinPerm", "kickPerm", "handSave", "handNew", "handOld",
                         "permGrant", "permRevoke"}
      /\ UNCHANGED <<connVars, wsVars, exists, members, seen, banned, calls>>
      /\ Done(k) \/ \E pc \in {"kickBan", "handNew", "handOld"}: Goto(k, pc)
  BY DEF SetHost, JoinPerm, KickPerm, HandSave, HandNew, HandOld, PermSave
<1>2. task[k] \in TaskRecord /\ u \in User /\ r \in Room
  BY <1>1, TaskKnown
<1>3. \E tk \in TaskRecord: /\ task' = [task EXCEPT ![k] = tk]
                            /\ tk.pc # "free" => tk.user = u /\ tk.room = r
  <2>1. Done(k) \/ \E pc \in Pc: Goto(k, pc)
    BY <1>1 DEF Pc
  <2> QED BY <1>1, <2>1, MovesOn
<1>4. host \in [Room -> User] /\ perm \in [Room -> [User -> {"none", "member", "host"}]]
  BY InvParts DEF RowsTyped
<1>5. host' \in [Room -> User]
  BY <1>2, <1>4 DEF SetHost, JoinPerm, KickPerm, HandSave, HandNew, HandOld, PermSave
<1>6. perm' \in [Room -> [User -> {"none", "member", "host"}]]
  <2>1. ASSUME NEW v, NEW x \in {"none", "member", "host"}, perm' = [perm EXCEPT ![r][v] = x]
        PROVE  perm' \in [Room -> [User -> {"none", "member", "host"}]]
    BY <1>2, <1>4, <2>1
  <2>2. CASE UNCHANGED perm
    BY <1>4, <2>2
  <2>3. perm[r] \in [User -> {"none", "member", "host"}]
    BY <1>2, <1>4
  <2>4. CASE SetHost(k) \/ HandSave(k)
    BY <1>4, <2>4 DEF SetHost, HandSave
  <2>5. CASE JoinPerm(k)
    BY <1>2, <1>4, <2>1, <2>2, <2>3, <2>5 DEF JoinPerm
  <2>6. CASE KickPerm(k)
    BY <2>1, <2>6 DEF KickPerm
  <2>7. CASE HandNew(k)
    BY <2>1, <2>7 DEF HandNew
  <2>8. CASE HandOld(k)
    <3>1. perm' = [perm EXCEPT ![r][task[k].hostThen] = IF @ = "host" THEN "member" ELSE @]
      BY <2>8 DEF HandOld
    <3> HIDE DEF r
    <3> QED BY <1>2, <1>4, <3>1
  <2>9. CASE PermSave(k)
    BY <2>1, <2>2, <2>9 DEF PermSave
  <2> QED BY <2>4, <2>5, <2>6, <2>7, <2>8, <2>9
<1> HIDE DEF u, r
<1>7. RowsTyped'
  BY <1>1, <1>3, <1>5, <1>6, InvParts DEF RowsTyped
<1> QED BY <1>1, <1>2, <1>3, <1>7, HandlerStep

-------------------------------------------------------------------------------
(* A request takes a free slot, for a user and a room that it names. *)
LEMMA RequestKeeps ==
  ASSUME GatewayInv, NEW k \in Task, NEW kind, NEW tk \in TaskRecord,
         tk.user \in User, tk.room \in Room, Request(k, kind, tk)
  PROVE  GatewayInv'
<1>1. /\ calls < MaxCalls /\ calls' = calls + 1 /\ task[k].pc = "free" /\ Become(k, tk)
      /\ UNCHANGED <<connVars, wsVars, rowVars>>
  BY DEF Request, FreeSlot
<1>2. calls \in 0 .. MaxCalls
  BY InvParts DEF RowsTyped
<1>3. calls' \in 0 .. MaxCalls
  BY <1>1, <1>2, Bounds
<1> QED BY <1>1, <1>3, HandlerGoes

LEMMA HttpKeeps ==
  ASSUME GatewayInv, NEW k \in Task, NEW u \in User, NEW r \in Room,
         \/ Join(k, u, r) \/ Leave(k, u, r) \/ Kick(k, u, r)
         \/ TransferHostTo(k, u, r) \/ UpdatePermissions(k, u, r) \/ Remove(k, r)
  PROVE  GatewayInv'
<1>1. host[r] \in User
  BY InvParts DEF RowsTyped
<1>2. ASSUME NEW pc \in Pc, NEW v \in User, NEW kind, Request(k, kind, Handler(pc, v, r))
      PROVE  GatewayInv'
  <2> DEFINE tk == Handler(pc, v, r)
  <2>1. tk \in TaskRecord /\ tk.user = v /\ tk.room = r
    BY Handlers
  <2>2. Request(k, kind, tk)
    BY <1>2
  <2> HIDE DEF tk
  <2> QED BY <2>1, <2>2, RequestKeeps
<1>3. ASSUME NEW pc \in Pc, NEW kind,
             Request(k, kind, [Handler(pc, u, r) EXCEPT !.hostThen = host[r]])
      PROVE  GatewayInv'
  <2> DEFINE h == Handler(pc, u, r)
             tk == [h EXCEPT !.hostThen = host[r]]
  <2>1. h \in TaskRecord /\ h.user = u /\ h.room = r
    BY Handlers
  <2>2. Request(k, kind, tk)
    BY <1>3
  <2> HIDE DEF h
  <2>3. tk \in TaskRecord /\ tk.user = u /\ tk.room = r
    BY <1>1, <2>1, Handlers
  <2> HIDE DEF tk
  <2> QED BY <2>2, <2>3, RequestKeeps
<1>4. /\ "joinSave" \in Pc /\ "leaveDelete" \in Pc /\ "kickDelete" \in Pc /\ "handSave" \in Pc
      /\ "permGrant" \in Pc /\ "permRevoke" \in Pc /\ "close" \in Pc
  BY DEF Pc
<1>5. CASE Join(k, u, r)
  BY <1>2, <1>4, <1>5 DEF Join
<1>6. CASE Leave(k, u, r)
  BY <1>3, <1>4, <1>6 DEF Leave
<1>7. CASE Kick(k, u, r)
  BY <1>2, <1>4, <1>7 DEF Kick
<1>8. CASE TransferHostTo(k, u, r)
  BY <1>3, <1>4, <1>8 DEF TransferHostTo
<1>9. CASE UpdatePermissions(k, u, r)
  BY <1>2, <1>4, <1>9 DEF UpdatePermissions
<1>10. CASE Remove(k, r)
  BY <1>1, <1>2, <1>4, <1>10 DEF Remove
<1> QED BY <1>5, <1>6, <1>7, <1>8, <1>9, <1>10

LEMMA UnbanKeeps ==
  ASSUME GatewayInv, NEW r \in Room, NEW U \in SUBSET banned[r], Unban(r, U)
  PROVE  GatewayInv'
<1>1. /\ calls < MaxCalls /\ calls' = calls + 1 /\ banned' = [banned EXCEPT ![r] = @ \ U]
      /\ UNCHANGED <<connVars, wsVars, exists, host, members, seen, perm, task>>
  BY DEF Unban
<1>2. calls \in 0 .. MaxCalls /\ banned \in [Room -> SUBSET User]
  BY InvParts DEF RowsTyped
<1>3. calls' \in 0 .. MaxCalls /\ banned' \in [Room -> SUBSET User]
  BY <1>1, <1>2, Bounds
<1>4. RowsTyped' /\ HandlersKnow'
  BY <1>1, <1>3, InvParts DEF RowsTyped, HandlersKnow
<1>5. UNCHANGED <<owner, kickCode, roomClients, listeners, pendingDisconnects>>
  BY <1>1 DEF connVars, wsVars
<1>6. ListenersFollowClients' /\ KickedAreUnseen'
  BY <1>1, <1>5, InvParts DEF ListenersFollowClients, KickedAreUnseen
<1>7. MemberExpected'
  BY <1>1, <1>5, SessionsStay, InvParts DEF MemberExpected, RowsTyped
<1> QED BY <1>1, <1>4, <1>6, <1>7, SessionsStay, NextInvParts

-------------------------------------------------------------------------------
(* Closing sockets: those that were open start to close, the others stay. *)
LEMMA Closed ==
  ASSUME GatewayInv, NEW S, socket' = Close(S)
  PROVE  /\ socket' \in [Conn -> {"none", "open", "closing", "closed"}]
         /\ \A d \in Conn: socket'[d] = IF d \in S /\ socket[d] = "open" THEN "closing"
                                        ELSE socket[d]
BY InvParts DEF ConnsTyped, Close

(* Sockets that start to close, clients that fall silent and connections that are
   refused change nobody's session. *)
LEMMA CalmStep ==
  ASSUME GatewayInv,
         UNCHANGED <<opened, owner, place, kickCode, unheard, roomClients, listeners,
                     pendingDisconnects, rowVars, taskVars>>,
         phase' \in [Conn -> {"none", "checking", "up", "refused"}],
         socket' \in [Conn -> {"none", "open", "closing", "closed"}],
         alive' \subseteq Conn,
         heartbeats' \in [Room -> [User -> {"none", "fresh", "stale"}]],
         \A c \in Conn: phase'[c] # phase[c] => phase[c] = "checking" /\ phase'[c] = "refused",
         \A c \in Conn: socket'[c] # socket[c] => socket[c] = "open" /\ socket'[c] = "closing"
  PROVE  GatewayInv'
<1>1. UNCHANGED <<exists, host, members, seen, perm, banned, task, calls>>
  BY DEF rowVars, taskVars
<1>2. /\ kickCode \subseteq Conn /\ unheard \subseteq Conn
      /\ roomClients \in [Room -> SUBSET Conn]
  BY InvParts DEF ConnsTyped
<1>3. ConnsTyped'
  BY InvParts DEF ConnsTyped
<1>4. OpenedIsKnown' /\ MarkedAreUp'
  BY <1>2, InvParts DEF OpenedIsKnown, MarkedAreUp
<1>5. ClientsInPlace'
  BY <1>2, InvParts DEF ClientsInPlace
<1>6. OneSessionPerUser' /\ GraceMeansGone'
  BY InvParts DEF OneSessionPerUser, GraceMeansGone, Connected
<1>7. RowsTyped' /\ HandlersKnow'
  BY <1>1, InvParts DEF RowsTyped, HandlersKnow
<1>8. ListenersFollowClients' /\ KickedAreUnseen'
  BY <1>1, InvParts DEF ListenersFollowClients, KickedAreUnseen
<1>9. \A c \in Conn, u \in User, r \in Room: Closing(c, u, r) => Closing(c, u, r)'
  BY DEF Closing
<1>10. MemberExpected'
  BY <1>1, <1>9, InvParts DEF MemberExpected, Connected, RowsTyped
<1> QED BY <1>3, <1>4, <1>5, <1>6, <1>7, <1>8, <1>10, NextInvParts

LEMMA CalmKeeps ==
  ASSUME GatewayInv,
         \/ \E c \in Conn: Refuse(c) \/ Vanish(c) \/ Heartbeat(c)
         \/ \E u \in User, r \in Room: HeartbeatAges(u, r)
         \/ \E u \in User: DisconnectUser(u)
  PROVE  GatewayInv'
<1>1. ConnsTyped /\ OpenedIsKnown
  BY InvParts
<1>2. ASSUME NEW c \in Conn, Refuse(c)
      PROVE  GatewayInv'
  <2>1. /\ phase[c] = "checking" /\ phase' = [phase EXCEPT ![c] = "refused"]
        /\ socket' = Close({c})
        /\ UNCHANGED <<opened, owner, place, kickCode, alive, unheard, roomClients, listeners,
                       heartbeats, pendingDisconnects, rowVars, taskVars>>
    BY <1>2 DEF Refuse, wsVars
  <2>2. /\ phase' \in [Conn -> {"none", "checking", "up", "refused"}]
        /\ \A d \in Conn: phase'[d] # phase[d] => phase[d] = "checking" /\ phase'[d] = "refused"
    BY <1>1, <2>1 DEF ConnsTyped
  <2> QED BY <1>1, <2>1, <2>2, Closed, CalmStep DEF ConnsTyped
<1>3. ASSUME NEW c \in Conn, Vanish(c)
      PROVE  GatewayInv'
  BY <1>1, <1>3, CalmStep DEF Vanish, wsVars, ConnsTyped
<1>4. ASSUME NEW u \in User, NEW r \in Room, NEW x \in {"none", "fresh", "stale"},
             heartbeats' = [heartbeats EXCEPT ![r][u] = x],
             UNCHANGED <<connVars, roomClients, listeners, pendingDisconnects, rowVars, taskVars>>
      PROVE  GatewayInv'
  <2>1. heartbeats' \in [Room -> [User -> {"none", "fresh", "stale"}]]
    BY <1>1, <1>4 DEF ConnsTyped
  <2> QED BY <1>1, <1>4, <2>1, CalmStep DEF connVars, ConnsTyped
<1>5. ASSUME NEW c \in Conn, Heartbeat(c)
      PROVE  GatewayInv'
  BY <1>1, <1>4, <1>5 DEF Heartbeat, OpenedIsKnown
<1>6. ASSUME NEW u \in User, NEW r \in Room, HeartbeatAges(u, r)
      PROVE  GatewayInv'
  BY <1>4, <1>6 DEF HeartbeatAges
<1>7. ASSUME NEW u \in User, DisconnectUser(u)
      PROVE  GatewayInv'
  <2>1. PICK S: /\ socket' = Close(S)
                /\ UNCHANGED <<opened, owner, place, phase, kickCode, alive, unheard, roomClients,
                               listeners, heartbeats, pendingDisconnects, rowVars, taskVars>>
    BY <1>7 DEF DisconnectUser, wsVars
  <2> QED BY <1>1, <2>1, Closed, CalmStep DEF ConnsTyped
<1> QED BY <1>2, <1>3, <1>5, <1>6, <1>7

(* A kick closes the sessions of a user who is not seen from then on. *)
LEMMA KickBanKeeps ==
  ASSUME GatewayInv, NEW k \in Task, KickBan(k)
  PROVE  GatewayInv'
<1> DEFINE u == task[k].user
           r == task[k].room
           S == {c \in roomClients[r]: owner[c] = u /\ socket[c] = "open"}
<1>1. /\ task[k].pc = "kickBan" /\ Done(k) /\ task' = [task EXCEPT ![k] = Free]
      /\ UNCHANGED <<opened, owner, place, phase, alive, unheard, roomClients, listeners,
                     heartbeats, pendingDisconnects, exists, host, members, perm, calls>>
  BY DEF KickBan, Done, Become, wsVars
<1>2. u \in User /\ r \in Room /\ Free \in TaskRecord /\ Free.pc = "free"
  BY <1>1, TaskKnown, Handlers
<1>3. CASE r \notin exists
  <2>1. UNCHANGED <<banned, seen, socket, kickCode>>
    BY <1>3 DEF KickBan
  <2> QED BY <1>1, <1>2, <2>1, HandlerGoes, InvParts DEF Done, connVars, wsVars, rowVars, RowsTyped
<1>4. CASE r \in exists
  <2>1. /\ banned' = [banned EXCEPT ![r] = @ \cup {u}] /\ seen' = [seen EXCEPT ![r] = @ \ {u}]
        /\ socket' = Close(S) /\ kickCode' = kickCode \cup S
    BY <1>4 DEF KickBan
  <2>2. S \subseteq roomClients[r] /\ \A c \in S: owner[c] = u /\ socket[c] = "open"
    OBVIOUS
  <2> HIDE DEF u, r, S
  <2>3. /\ roomClients \in [Room -> SUBSET Conn] /\ kickCode \subseteq Conn
        /\ unheard \subseteq Conn /\ seen \in [Room -> SUBSET User]
        /\ members \in [Room -> SUBSET User]
    BY InvParts DEF ConnsTyped, RowsTyped
  <2>4. \A c \in S: c \in Conn /\ place[c] = r /\ phase[c] = "up"
    BY <1>2, <2>2, <2>3, InvParts DEF ClientsInPlace
  <2>5. /\ socket' \in [Conn -> {"none", "open", "closing", "closed"}]
        /\ \A d \in Conn: socket'[d] = IF d \in S /\ socket[d] = "open" THEN "closing"
                                       ELSE socket[d]
    BY <2>1, Closed
  <2>6. /\ \A q \in Room: seen'[q] \subseteq seen[q]
        /\ u \notin seen'[r]
    BY <1>2, <2>1, <2>3
  <2>7. ConnsTyped'
    BY <1>1, <2>1, <2>3, <2>4, <2>5, InvParts DEF ConnsTyped
  <2>8. OpenedIsKnown' /\ MarkedAreUp'
    BY <1>1, <2>1, <2>3, <2>4, <2>5, InvParts DEF OpenedIsKnown, MarkedAreUp
  <2>9. ClientsInPlace'
    BY <1>1, <2>3, <2>5, InvParts DEF ClientsInPlace
  <2>10. OneSessionPerUser' /\ GraceMeansGone'
    BY <1>1, InvParts DEF OneSessionPerUser, GraceMeansGone, Connected
  <2>11. /\ task \in [Task -> TaskRecord] /\ task'[k] = Free
         /\ \A j \in Task: j # k => task'[j] = task[j]
    BY <1>1, InvParts DEF RowsTyped
  <2>12. RowsTyped'
    BY <1>1, <1>2, <2>1, InvParts DEF RowsTyped
  <2>13. HandlersKnow'
    BY <1>2, <2>11, InvParts DEF HandlersKnow
  <2>14. ListenersFollowClients'
    <3>1. ASSUME NEW q \in Room, \A j \in Task: task'[j].pc = "close" => task'[j].room # q
          PROVE  \A j \in Task: task[j].pc = "close" => task[j].room # q
      BY <1>1, <2>11, <3>1
    <3> QED BY <1>1, <3>1, InvParts DEF ListenersFollowClients
  <2>15. KickedAreUnseen'
    <3>1. ASSUME NEW q \in Room, NEW c \in roomClients[q], c \in kickCode'
          PROVE  owner[c] \notin seen'[q]
      <4>1. CASE c \in kickCode
        BY <2>6, <3>1, <4>1, InvParts DEF KickedAreUnseen
      <4>2. CASE c \in S
        <5>1. q = r /\ owner[c] = u
          BY <2>2, <2>4, <3>1, <4>2, InvParts DEF ClientsInPlace
        <5> QED BY <2>6, <5>1
      <4> QED BY <2>1, <3>1, <4>1, <4>2
    <3> QED BY <1>1, <3>1 DEF KickedAreUnseen
  <2>16. MemberExpected'
    <3>1. ASSUME NEW q \in Room, NEW v \in members[q] \cap seen'[q]
          PROVE  \/ Connected(v, q) \/ \E c \in Conn: Closing(c, v, q)'
                 \/ <<v, q>> \in pendingDisconnects
                 \/ \E j \in Task: task'[j] = Handler("finRemove", v, q)
      <4>1. v \in User /\ v \in members[q] \cap seen[q] /\ ~(v = u /\ q = r)
        BY <2>3, <2>6, <3>1
      <4>2. \/ Connected(v, q) \/ \E c \in Conn: Closing(c, v, q)
            \/ <<v, q>> \in pendingDisconnects
            \/ \E j \in Task: task[j] = Handler("finRemove", v, q)
        BY <4>1, InvParts DEF MemberExpected
      <4>3. ASSUME NEW c \in Conn, Closing(c, v, q)
            PROVE  Closing(c, v, q)'
        <5>1. c \notin S
          BY <2>2, <2>4, <4>1, <4>3 DEF Closing
        <5> QED BY <1>1, <2>1, <2>5, <4>3, <5>1 DEF Closing
      <4>4. ASSUME NEW j \in Task, task[j] = Handler("finRemove", v, q)
            PROVE  task'[j] = Handler("finRemove", v, q)
        BY <1>1, <2>11, <4>4 DEF Handler
      <4> QED BY <4>2, <4>3, <4>4
    <3> QED BY <1>1, <3>1 DEF MemberExpected, Connected
  <2> QED BY <2>7, <2>8, <2>9, <2>10, <2>12, <2>13, <2>14, <2>15, <2>16, NextInvParts
<1> QED BY <1>3, <1>4

-------------------------------------------------------------------------------
(* A connection before its registration is in no room. *)
LEMMA StrangersAreOut ==
  ASSUME GatewayInv, NEW c \in Conn, phase[c] # "up"
  PROVE  /\ \A q \in Room: c \notin roomClients[q] /\ c \notin listeners[q]
         /\ c \notin kickCode /\ c \notin unheard
         /\ \A u \in User, r \in Room: ~Closing(c, u, r)
BY InvParts DEF ClientsInPlace, ListenersFollowClients, MarkedAreUp, Closing

LEMMA ConnectKeeps ==
  ASSUME GatewayInv, NEW c \in Conn, NEW u \in User, NEW r \in Room, Connect(c, u, r)
  PROVE  GatewayInv'
<1>1. /\ opened < MaxConns /\ c = opened + 1 /\ opened' = c
      /\ owner' = [owner EXCEPT ![c] = u] /\ place' = [place EXCEPT ![c] = r]
      /\ phase' = [phase EXCEPT ![c] = "checking"] /\ socket' = [socket EXCEPT ![c] = "open"]
      /\ alive' = alive \cup {c}
      /\ UNCHANGED <<kickCode, unheard, roomClients, listeners, heartbeats, pendingDisconnects,
                     exists, host, members, seen, perm, banned, task, calls>>
  BY DEF Connect, wsVars, rowVars, taskVars
<1>2. ConnsTyped
  BY InvParts
<1>3. /\ \A d \in Conn \ {c}: /\ owner'[d] = owner[d] /\ place'[d] = place[d]
                              /\ phase'[d] = phase[d] /\ socket'[d] = socket[d]
      /\ owner'[c] = u /\ place'[c] = r /\ phase'[c] = "checking" /\ socket'[c] = "open"
  BY <1>1, <1>2 DEF ConnsTyped
<1>4. opened \in Nat /\ \A d \in Conn: d \in Nat
  BY <1>2, Bounds DEF ConnsTyped, Conn
<1>5. phase[c] # "up"
  BY <1>1, <1>4, InvParts DEF OpenedIsKnown
<1>6. /\ \A q \in Room: roomClients[q] \subseteq Conn \ {c}
      /\ kickCode \subseteq Conn \ {c} /\ unheard \subseteq Conn \ {c}
  BY <1>2, <1>5, StrangersAreOut DEF ConnsTyped
<1>7. ConnsTyped'
  BY <1>1, <1>2, Bounds DEF ConnsTyped, Conn
<1>8. OpenedIsKnown'
  <2>1. ASSUME NEW d \in Conn, phase'[d] # "none"
        PROVE  d <= opened' /\ owner'[d] \in User /\ place'[d] \in Room /\ socket'[d] # "none"
    <3>1. CASE d = c
      BY <1>1, <1>3, <1>4, <3>1
    <3>2. CASE d # c
      BY <1>1, <1>3, <1>4, <2>1, <3>2, InvParts DEF OpenedIsKnown
    <3> QED BY <3>1, <3>2
  <2> QED BY <2>1 DEF OpenedIsKnown
<1>9. MarkedAreUp' /\ ClientsInPlace'
  BY <1>1, <1>3, <1>6, InvParts DEF MarkedAreUp, ClientsInPlace
<1>10. \A v \in User, q \in Room: Connected(v, q)' <=> Connected(v, q)
  BY <1>1, <1>3, <1>6 DEF Connected
<1>11. GraceMeansGone'
  BY <1>1, <1>2, <1>10, InvParts DEF GraceMeansGone, ConnsTyped
<1>12. OneSessionPerUser' /\ KickedAreUnseen'
  BY <1>1, <1>3, <1>6, InvParts DEF OneSessionPerUser, KickedAreUnseen
<1>13. RowsTyped' /\ HandlersKnow' /\ ListenersFollowClients'
  BY <1>1, InvParts DEF RowsTyped, HandlersKnow, ListenersFollowClients
<1>14. \A d \in Conn, v \in User, q \in Room: Closing(d, v, q) => Closing(d, v, q)'
  BY <1>1, <1>3, <1>5, StrangersAreOut DEF Closing
<1>15. MemberExpected'
  BY <1>1, <1>10, <1>14, InvParts DEF MemberExpected, RowsTyped
<1> QED BY <1>7, <1>8, <1>9, <1>11, <1>12, <1>13, <1>15, NextInvParts

(* Registering ends the user's other sessions.  None of them was kicked and is still
   accounted for, so each one that was expected closes and is heard. *)
LEMMA RegisterKeeps ==
  ASSUME GatewayInv, NEW c \in Conn, Register(c)
  PROVE  GatewayInv'
<1> DEFINE u == owner[c]
           r == place[c]
           old == OtherSessions(c)
<1>1. /\ phase[c] = "checking" /\ r \in exists
      /\ phase' = [phase EXCEPT ![c] = "up"]
      /\ pendingDisconnects' = pendingDisconnects \ {<<u, r>>}
      /\ socket' = Close(old)
      /\ roomClients' = [q \in Room |-> IF q = r THEN (roomClients[q] \ old) \cup {c}
                                        ELSE roomClients[q] \ old]
      /\ listeners' = [q \in Room |-> IF q = r THEN (listeners[q] \ old) \cup {c}
                                      ELSE listeners[q] \ old]
      /\ heartbeats' = [heartbeats EXCEPT ![r][u] = "fresh"]
      /\ seen' = [seen EXCEPT ![r] = @ \cup {u}]
      /\ unheard' = IF socket[c] = "closed" THEN unheard \cup {c} ELSE unheard
      /\ UNCHANGED <<opened, owner, place, kickCode, alive, exists, host, members,
                     perm, banned, task, calls>>
  BY DEF Register, taskVars
<1>2. u \in User /\ r \in Room /\ socket[c] # "none"
  BY <1>1, InvParts DEF OpenedIsKnown
<1>3. /\ roomClients \in [Room -> SUBSET Conn] /\ listeners \in [Room -> SUBSET Conn]
      /\ \A q \in Room: c \notin roomClients[q] /\ c \notin listeners[q]
      /\ c \notin kickCode /\ c \notin unheard
      /\ kickCode \subseteq Conn /\ unheard \subseteq Conn
  BY <1>1, StrangersAreOut, InvParts DEF ConnsTyped
<1>4. /\ \A d \in old: d # c /\ owner[d] = u
      /\ \A q \in Room: \A d \in roomClients[q]: owner[d] = u => d \in old
  BY <1>2, <1>3 DEF OtherSessions
<1> HIDE DEF u, r, old
<1>5. \A q \in Room: /\ roomClients'[q] = (roomClients[q] \ old) \cup (IF q = r THEN {c} ELSE {})
                     /\ listeners'[q] = (listeners[q] \ old) \cup (IF q = r THEN {c} ELSE {})
  BY <1>1
<1>6. /\ roomClients' \in [Room -> SUBSET Conn] /\ listeners' \in [Room -> SUBSET Conn]
  BY <1>1, <1>3
<1>7. /\ socket' \in [Conn -> {"none", "open", "closing", "closed"}]
      /\ \A d \in Conn: socket'[d] = IF d \in old /\ socket[d] = "open" THEN "closing"
                                     ELSE socket[d]
  BY <1>1, Closed
<1>8. phase' \in [Conn -> {"none", "checking", "up", "refused"}]
      /\ phase'[c] = "up" /\ \A d \in Conn \ {c}: phase'[d] = phase[d]
  BY <1>1, InvParts DEF ConnsTyped
<1>9. heartbeats' \in [Room -> [User -> {"none", "fresh", "stale"}]]
  BY <1>1, <1>2, InvParts DEF ConnsTyped
<1>10. ConnsTyped'
  BY <1>1, <1>3, <1>6, <1>7, <1>8, <1>9, InvParts DEF ConnsTyped
<1>11. OpenedIsKnown'
  BY <1>1, <1>7, <1>8, InvParts DEF OpenedIsKnown
<1>12. MarkedAreUp'
  <2>1. ASSUME NEW d \in kickCode
        PROVE  phase'[d] = "up"
    BY <1>3, <1>8, <2>1, InvParts DEF MarkedAreUp
  <2>2. ASSUME NEW d \in unheard'
        PROVE  phase'[d] = "up" /\ socket'[d] = "closed"
    <3>1. CASE d \in unheard
      BY <1>3, <1>7, <1>8, <3>1, InvParts DEF MarkedAreUp
    <3>2. CASE d = c /\ socket[c] = "closed"
      BY <1>7, <1>8, <3>2
    <3> QED BY <1>1, <2>2, <3>1, <3>2
  <2> QED BY <1>1, <2>1, <2>2 DEF MarkedAreUp
<1>13. ClientsInPlace'
  <2>1. ASSUME NEW q \in Room, NEW d \in roomClients'[q]
        PROVE  phase'[d] = "up" /\ place[d] = q /\ (socket'[d] = "closed" => d \in unheard')
    <3>1. CASE d = c
      <4>1. q = r
        BY <1>3, <1>5, <2>1, <3>1
      <4> QED BY <1>1, <1>7, <1>8, <3>1, <4>1 DEF r
    <3>2. CASE d # c
      <4>1. d \in roomClients[q] /\ d \in Conn
        BY <1>3, <1>5, <2>1, <3>2
      <4> QED BY <1>1, <1>7, <1>8, <3>2, <4>1, InvParts DEF ClientsInPlace
    <3> QED BY <3>1, <3>2
  <2> QED BY <1>1, <2>1 DEF ClientsInPlace
<1>14. OneSessionPerUser'
  <2>1. ASSUME NEW p \in Room, NEW q \in Room, NEW d \in roomClients'[p], NEW e \in roomClients'[q],
               owner[d] = owner[e]
        PROVE  d = e
    <3>1. d = c \/ (d \in roomClients[p] /\ d \notin old)
      BY <1>5, <2>1
    <3>2. e = c \/ (e \in roomClients[q] /\ e \notin old)
      BY <1>5, <2>1
    <3>3. owner[c] = u
      BY DEF u
    <3> QED BY <1>4, <2>1, <3>1, <3>2, <3>3, InvParts DEF OneSessionPerUser
  <2> QED BY <1>1, <2>1 DEF OneSessionPerUser
<1>15. GraceMeansGone'
  <2>1. ASSUME NEW p \in pendingDisconnects', Connected(p[1], p[2])'
        PROVE  FALSE
    <3>1. p \in pendingDisconnects /\ p # <<u, r>> /\ p = <<p[1], p[2]>> /\ p[2] \in Room
      BY <1>1, <2>1, InvParts DEF ConnsTyped
    <3>2. PICK d \in roomClients'[p[2]]: owner[d] = p[1]
      BY <1>1, <2>1 DEF Connected
    <3>3. d # c
      BY <1>3, <1>5, <3>1, <3>2 DEF u
    <3>4. d \in roomClients[p[2]]
      BY <1>5, <3>1, <3>2, <3>3
    <3> QED BY <3>1, <3>2, <3>4, InvParts DEF GraceMeansGone, Connected
  <2> QED BY <2>1 DEF GraceMeansGone
<1>16. RowsTyped' /\ HandlersKnow'
  <2>1. seen' \in [Room -> SUBSET User]
    BY <1>1, <1>2, InvParts DEF RowsTyped
  <2> QED BY <1>1, <2>1, InvParts DEF RowsTyped, HandlersKnow
<1>17. ListenersFollowClients'
  <2>1. ASSUME NEW q \in Room
        PROVE  /\ listeners'[q] \subseteq roomClients'[q]
               /\ roomClients[q] \subseteq listeners[q] => roomClients'[q] \subseteq listeners'[q]
    BY <1>5, InvParts DEF ListenersFollowClients
  <2> QED BY <1>1, <2>1, InvParts DEF ListenersFollowClients
<1>18. /\ \A q \in Room: seen'[q] = seen[q] \cup (IF q = r THEN {u} ELSE {})
  BY <1>1, <1>2, InvParts DEF RowsTyped
<1>19. KickedAreUnseen'
  <2>1. ASSUME NEW q \in Room, NEW d \in roomClients'[q], d \in kickCode
        PROVE  owner[d] \notin seen'[q]
    <3>1. d \in roomClients[q] /\ d \notin old
      BY <1>3, <1>5, <2>1
    <3>2. owner[d] # u
      BY <1>4, <3>1
    <3> QED BY <1>18, <2>1, <3>1, <3>2, InvParts DEF KickedAreUnseen
  <2> QED BY <1>1, <2>1 DEF KickedAreUnseen
<1>20. MemberExpected'
  <2>1. ASSUME NEW q \in Room, NEW v \in members[q] \cap seen'[q]
        PROVE  \/ Connected(v, q)' \/ \E d \in Conn: Closing(d, v, q)'
               \/ <<v, q>> \in pendingDisconnects'
               \/ \E j \in Task: task[j] = Handler("finRemove", v, q)
    <3>1. CASE q = r /\ v = u
      BY <1>1, <1>2, <1>5, <3>1 DEF Connected, u
    <3>2. CASE ~(q = r /\ v = u)
      <4>1. v \in members[q] \cap seen[q] /\ v \in User
        BY <1>18, <2>1, <3>2, InvParts DEF RowsTyped
      <4>2. \/ Connected(v, q) \/ \E d \in Conn: Closing(d, v, q)
            \/ <<v, q>> \in pendingDisconnects
            \/ \E j \in Task: task[j] = Handler("finRemove", v, q)
        BY <4>1, InvParts DEF MemberExpected
      <4>3. ASSUME NEW d \in Conn, Closing(d, v, q)
            PROVE  Closing(d, v, q)'
        <5>1. d # c /\ unheard \subseteq unheard'
          BY <1>1, <4>3 DEF Closing
        <5> QED BY <1>1, <1>7, <1>8, <4>3, <5>1 DEF Closing
      <4>4. ASSUME NEW d \in roomClients[q], owner[d] = v
            PROVE  Connected(v, q)' \/ Closing(d, v, q)'
        <5>1. CASE d \notin old
          BY <1>1, <1>5, <4>4, <5>1 DEF Connected
        <5>2. CASE d \in old
          <6>1. /\ d \in Conn /\ d # c /\ d \notin kickCode
            BY <1>3, <1>4, <4>1, <4>4, <5>2, InvParts DEF KickedAreUnseen
          <6>2. /\ phase[d] = "up" /\ place[d] = q /\ (socket[d] = "closed" => d \in unheard)
            BY <4>4, InvParts DEF ClientsInPlace
          <6>3. socket[d] \in {"open", "closing", "closed"}
            BY <6>1, <6>2, InvParts DEF ConnsTyped, OpenedIsKnown
          <6>4. socket'[d] = "closing" \/ d \in unheard'
            BY <1>1, <1>7, <5>2, <6>1, <6>2, <6>3
          <6> QED BY <1>1, <1>8, <4>4, <6>1, <6>2, <6>4 DEF Closing
        <5> QED BY <5>1, <5>2
      <4>5. ASSUME <<v, q>> \in pendingDisconnects
            PROVE  <<v, q>> \in pendingDisconnects'
        BY <1>1, <3>2, <4>5
      <4>6. Connected(v, q) => Connected(v, q)' \/ \E d \in Conn: Closing(d, v, q)'
        BY <1>3, <4>4 DEF Connected
      <4> QED BY <4>2, <4>3, <4>5, <4>6
    <3> QED BY <3>1, <3>2
  <2> QED BY <1>1, <2>1 DEF MemberExpected
<1> QED BY <1>10, <1>11, <1>12, <1>13, <1>14, <1>15, <1>16, <1>17, <1>19, <1>20, NextInvParts

-------------------------------------------------------------------------------
(* When a registered session goes, its room loses that client and its callback,
   and no other room had them. *)
LEMMA SessionGoes ==
  ASSUME GatewayInv, NEW c \in Conn, phase[c] = "up",
         roomClients' = [roomClients EXCEPT ![place[c]] = @ \ {c}],
         listeners' = [listeners EXCEPT ![place[c]] = @ \ {c}]
  PROVE  /\ owner[c] \in User /\ place[c] \in Room
         /\ roomClients' \in [Room -> SUBSET Conn] /\ listeners' \in [Room -> SUBSET Conn]
         /\ \A q \in Room: /\ roomClients'[q] = roomClients[q] \ {c}
                           /\ listeners'[q] = listeners[q] \ {c}
<1>1. owner[c] \in User /\ place[c] \in Room
  BY InvParts DEF OpenedIsKnown
<1>2. roomClients \in [Room -> SUBSET Conn] /\ listeners \in [Room -> SUBSET Conn]
  BY InvParts DEF ConnsTyped
<1>3. \A q \in Room: q # place[c] => c \notin roomClients[q] /\ c \notin listeners[q]
  BY <1>1, InvParts DEF ClientsInPlace, ListenersFollowClients
<1> QED BY <1>1, <1>2, <1>3

(* A session ends: the user gets a grace timer, unless there is another session or
   the user was kicked. *)
LEMMA CloseEventKeeps ==
  ASSUME GatewayInv, NEW c \in Conn, CloseEvent(c)
  PROVE  GatewayInv'
<1> DEFINE u == owner[c]
           r == place[c]
<1>1. /\ socket[c] \in {"open", "closing"} /\ socket' = [socket EXCEPT ![c] = "closed"]
      /\ alive' = alive \ {c}
      /\ UNCHANGED <<opened, owner, place, phase, kickCode, unheard, exists, host, members, seen,
                     perm, banned, task, calls>>
  BY DEF CloseEvent, rowVars, taskVars
<1>2. /\ socket' \in [Conn -> {"none", "open", "closing", "closed"}]
      /\ socket'[c] = "closed" /\ \A d \in Conn \ {c}: socket'[d] = socket[d]
      /\ alive' \subseteq Conn
  BY <1>1, InvParts DEF ConnsTyped
<1>3. OpenedIsKnown'
  BY <1>1, <1>2, InvParts DEF OpenedIsKnown
<1>4. MarkedAreUp'
  BY <1>1, <1>2, InvParts DEF MarkedAreUp, ConnsTyped
<1>5. c \notin unheard
  BY <1>1, InvParts DEF MarkedAreUp
<1>6. RowsTyped' /\ HandlersKnow'
  BY <1>1, InvParts DEF RowsTyped, HandlersKnow
<1>7. CASE phase[c] # "up"
  <2>1. UNCHANGED <<roomClients, listeners, heartbeats, pendingDisconnects>>
    BY <1>7 DEF CloseEvent, wsVars
  <2>2. \A q \in Room: roomClients[q] \subseteq Conn \ {c}
    BY <1>7, StrangersAreOut, InvParts DEF ConnsTyped
  <2>3. ConnsTyped'
    BY <1>1, <1>2, <2>1, InvParts DEF ConnsTyped
  <2>4. ClientsInPlace'
    BY <1>1, <1>2, <2>1, <2>2, InvParts DEF ClientsInPlace
  <2>5. OneSessionPerUser' /\ GraceMeansGone' /\ ListenersFollowClients' /\ KickedAreUnseen'
    BY <1>1, <2>1, InvParts DEF OneSessionPerUser, GraceMeansGone, Connected,
       ListenersFollowClients, KickedAreUnseen
  <2>6. \A d \in Conn, v \in User, q \in Room: Closing(d, v, q) => Closing(d, v, q)'
    BY <1>1, <1>2, <1>7 DEF Closing
  <2>7. MemberExpected'
    BY <1>1, <2>1, <2>6, InvParts DEF MemberExpected, Connected, RowsTyped
  <2> QED BY <1>3, <1>4, <1>6, <2>3, <2>4, <2>5, <2>7, NextInvParts
<1>8. CASE phase[c] = "up"
  <2>1. PICK kicked \in BOOLEAN: (kicked => c \in kickCode) /\ HandleDisconnect(c, kicked)
    BY <1>8 DEF CloseEvent
  <2>2. /\ roomClients' = [roomClients EXCEPT ![r] = @ \ {c}]
        /\ listeners' = [listeners EXCEPT ![r] = @ \ {c}]
        /\ heartbeats' = [heartbeats EXCEPT ![r][u] = "none"]
        /\ pendingDisconnects' = IF GetsGrace(c, kicked) THEN pendingDisconnects \cup {<<u, r>>}
                                 ELSE pendingDisconnects
    BY <2>1 DEF HandleDisconnect, ListenerRemoved, HeartbeatDeleted
  <2>3. /\ u \in User /\ r \in Room
        /\ roomClients' \in [Room -> SUBSET Conn] /\ listeners' \in [Room -> SUBSET Conn]
        /\ \A q \in Room: /\ roomClients'[q] = roomClients[q] \ {c}
                          /\ listeners'[q] = listeners[q] \ {c}
    BY <1>8, <2>2, SessionGoes
  <2>4. GetsGrace(c, kicked) <=> ~kicked /\ ~\E d \in roomClients'[r]: owner[d] = u
    BY <2>3 DEF GetsGrace
  <2> HIDE DEF u, r
  <2>5. ConnsTyped'
    <3>1. heartbeats' \in [Room -> [User -> {"none", "fresh", "stale"}]]
      BY <2>2, <2>3, InvParts DEF ConnsTyped
    <3>2. pendingDisconnects' \subseteq User \X Room
      BY <2>2, <2>3, InvParts DEF ConnsTyped
    <3> QED BY <1>1, <1>2, <2>3, <3>1, <3>2, InvParts DEF ConnsTyped
  <2>6. ClientsInPlace'
    BY <1>1, <1>2, <2>3, InvParts DEF ClientsInPlace, ConnsTyped
  <2>7. OneSessionPerUser'
    BY <1>1, <2>3, InvParts DEF OneSessionPerUser
  <2>8. GraceMeansGone'
    <3>1. ASSUME NEW p \in pendingDisconnects', Connected(p[1], p[2])'
          PROVE  FALSE
      <4>1. p \in User \X Room /\ p[2] \in Room
        BY <2>5, <3>1 DEF ConnsTyped
      <4>2. PICK d \in roomClients'[p[2]]: owner[d] = p[1]
        BY <1>1, <3>1 DEF Connected
      <4>3. CASE p \in pendingDisconnects
        BY <2>3, <4>1, <4>2, <4>3, InvParts DEF GraceMeansGone, Connected
      <4>4. CASE p = <<u, r>> /\ GetsGrace(c, kicked)
        BY <2>4, <4>2, <4>4
      <4> QED BY <2>2, <3>1, <4>3, <4>4
    <3> QED BY <3>1 DEF GraceMeansGone
  <2>9. ListenersFollowClients'
    <3>1. ASSUME NEW q \in Room
          PROVE  /\ listeners'[q] \subseteq roomClients'[q]
                 /\ roomClients[q] \subseteq listeners[q] => roomClients'[q] \subseteq listeners'[q]
      BY <2>3, InvParts DEF ListenersFollowClients
    <3> QED BY <1>1, <3>1, InvParts DEF ListenersFollowClients
  <2>10. KickedAreUnseen'
    BY <1>1, <2>3, InvParts DEF KickedAreUnseen
  <2>11. MemberExpected'
    <3>1. ASSUME NEW q \in Room, NEW v \in members[q] \cap seen[q]
          PROVE  \/ Connected(v, q)' \/ \E d \in Conn: Closing(d, v, q)'
                 \/ <<v, q>> \in pendingDisconnects'
                 \/ \E j \in Task: task[j] = Handler("finRemove", v, q)
      <4>1. v \in User
        BY <3>1, InvParts DEF RowsTyped
      <4>2. \/ Connected(v, q) \/ \E d \in Conn: Closing(d, v, q)
            \/ <<v, q>> \in pendingDisconnects
            \/ \E j \in Task: task[j] = Handler("finRemove", v, q)
        BY <3>1, InvParts DEF MemberExpected
      <4>3. ASSUME NEW d \in Conn, d # c, Closing(d, v, q)
            PROVE  Closing(d, v, q)'
        BY <1>1, <1>2, <4>3 DEF Closing
      <4>4. ASSUME v = u, q = r, c \notin kickCode
            PROVE  Connected(v, q)' \/ <<v, q>> \in pendingDisconnects'
        BY <1>1, <2>1, <2>2, <2>4, <4>4 DEF Connected
      <4>5. ASSUME NEW d \in roomClients[q], owner[d] = v
            PROVE  Connected(v, q)' \/ <<v, q>> \in pendingDisconnects'
        <5>1. CASE d # c
          BY <1>1, <2>3, <4>5, <5>1 DEF Connected
        <5>2. CASE d = c
          <6>1. v = u /\ q = r /\ c \notin kickCode
            BY <3>1, <4>5, <5>2, InvParts DEF u, r, ClientsInPlace, KickedAreUnseen
          <6> QED BY <4>4, <6>1
        <5> QED BY <5>1, <5>2
      <4>6. ASSUME Closing(c, v, q)
            PROVE  Connected(v, q)' \/ <<v, q>> \in pendingDisconnects'
        <5>1. v = u /\ q = r /\ c \notin kickCode
          BY <1>5, <4>6 DEF Closing, u, r
        <5> QED BY <4>4, <5>1
      <4>7. pendingDisconnects \subseteq pendingDisconnects'
        BY <2>2
      <4> QED BY <4>2, <4>3, <4>5, <4>6, <4>7 DEF Connected
    <3> QED BY <1>1, <3>1 DEF MemberExpected
  <2> QED BY <1>3, <1>4, <1>6, <2>5, <2>6, <2>7, <2>8, <2>9, <2>10, <2>11, NextInvParts
<1> QED BY <1>7, <1>8

-------------------------------------------------------------------------------
(* finalizeDisconnect up to its first await: a user without a session in the room is
   being removed from it, and no other handler has moved. *)
LEMMA Finalizes ==
  ASSUME GatewayInv, NEW k \in Task, NEW u \in User, NEW r \in Room,
         task[k].pc = "free", owner' = owner, Finalize(k, u, r),
         UNCHANGED <<exists, host, members, seen, perm, banned, calls>>
  PROVE  /\ RowsTyped' /\ HandlersKnow'
         /\ \A j \in Task: task[j].pc # "free" => task'[j] = task[j]
         /\ \A q \in Room: (\A j \in Task: task'[j].pc = "close" => task'[j].room # q)
              => \A j \in Task: task[j].pc = "close" => task[j].room # q
         /\ Connected(u, r)' \/ task'[k] = Handler("finRemove", u, r)
<1>1. "finRemove" \in Pc
  BY DEF Pc
<1>2. PICK tk \in TaskRecord:
        /\ task' = [task EXCEPT ![k] = tk]
        /\ tk.pc # "free" => tk.user = u /\ tk.room = r
        /\ (\E c \in roomClients'[r]: owner[c] = u) \/ tk = Handler("finRemove", u, r)
  <2>1. CASE \E c \in roomClients'[r]: owner[c] = u
    BY <2>1, Handlers DEF Finalize, Become
  <2>2. CASE ~\E c \in roomClients'[r]: owner[c] = u
    <3> DEFINE tk == Handler("finRemove", u, r)
    <3>1. tk \in TaskRecord /\ tk.user = u /\ tk.room = r
      BY <1>1, Handlers
    <3>2. task' = [task EXCEPT ![k] = tk]
      BY <2>2 DEF Finalize, Become
    <3> HIDE DEF tk
    <3> QED BY <3>1, <3>2 DEF tk
  <2> QED BY <2>1, <2>2
<1>3. /\ task \in [Task -> TaskRecord] /\ task' \in [Task -> TaskRecord] /\ task'[k] = tk
      /\ \A j \in Task: j # k => task'[j] = task[j]
  BY <1>2, InvParts DEF RowsTyped
<1>4. RowsTyped'
  BY <1>3, InvParts DEF RowsTyped
<1>5. HandlersKnow'
  BY <1>2, <1>3, InvParts DEF HandlersKnow
<1>6. \A j \in Task: task[j].pc # "free" => task'[j] = task[j]
  BY <1>3
<1>7. \A j \in Task: task[j].pc = "close" => task'[j] = task[j]
  BY <1>6
<1> QED BY <1>2, <1>3, <1>4, <1>5, <1>6, <1>7 DEF Connected

(* A grace timer that fires removes the user, whose session has not come back. *)
LEMMA GraceOverKeeps ==
  ASSUME GatewayInv, NEW k \in Task, NEW u \in User, NEW r \in Room, GraceOver(k, u, r)
  PROVE  GatewayInv'
<1>1. /\ task[k].pc = "free" /\ pendingDisconnects' = pendingDisconnects \ {<<u, r>>}
      /\ Finalize(k, u, r)
      /\ UNCHANGED <<opened, owner, place, phase, socket, kickCode, alive, unheard, roomClients,
                     listeners, heartbeats, exists, host, members, seen, perm, banned, calls>>
  BY DEF GraceOver, FreeSlot, connVars, rowVars
<1>2. /\ RowsTyped' /\ HandlersKnow'
      /\ \A j \in Task: task[j].pc # "free" => task'[j] = task[j]
      /\ \A q \in Room: (\A j \in Task: task'[j].pc = "close" => task'[j].room # q)
           => \A j \in Task: task[j].pc = "close" => task[j].room # q
      /\ Connected(u, r)' \/ task'[k] = Handler("finRemove", u, r)
  BY <1>1, Finalizes
<1>3. ConnsTyped'
  BY <1>1, InvParts DEF ConnsTyped
<1>4. OpenedIsKnown' /\ MarkedAreUp' /\ ClientsInPlace' /\ OneSessionPerUser'
  BY <1>1, InvParts DEF OpenedIsKnown, MarkedAreUp, ClientsInPlace, OneSessionPerUser
<1>5. GraceMeansGone' /\ KickedAreUnseen'
  BY <1>1, InvParts DEF GraceMeansGone, KickedAreUnseen, Connected
<1>6. ListenersFollowClients'
  BY <1>1, <1>2, InvParts DEF ListenersFollowClients
<1>7. MemberExpected'
  <2>1. ASSUME NEW q \in Room, NEW v \in members[q] \cap seen[q]
        PROVE  \/ Connected(v, q)' \/ \E d \in Conn: Closing(d, v, q)
               \/ <<v, q>> \in pendingDisconnects'
               \/ \E j \in Task: task'[j] = Handler("finRemove", v, q)
    <3>1. v \in User
      BY <2>1, InvParts DEF RowsTyped
    <3>2. \/ Connected(v, q) \/ \E d \in Conn: Closing(d, v, q)
          \/ <<v, q>> \in pendingDisconnects
          \/ \E j \in Task: task[j] = Handler("finRemove", v, q)
      BY <2>1, InvParts DEF MemberExpected
    <3>3. \A j \in Task: task[j] = Handler("finRemove", v, q) => task'[j] = task[j]
      BY <1>2 DEF Handler
    <3>4. CASE v = u /\ q = r
      BY <1>2, <3>4
    <3>5. CASE ~(v = u /\ q = r)
      BY <1>1, <3>2, <3>3, <3>5 DEF Connected
    <3> QED BY <3>4, <3>5
  <2> QED BY <1>1, <2>1 DEF MemberExpected, Closing
<1> QED BY <1>2, <1>3, <1>4, <1>5, <1>6, <1>7, NextInvParts

(* The sweep takes the session out itself, and does not wait for a grace timer. *)
LEMMA SweepKeeps ==
  ASSUME GatewayInv, NEW k \in Task, NEW c \in Conn, Sweep(k, c)
  PROVE  GatewayInv'
<1>0. phase[c] = "up" /\ owner[c] \in User /\ place[c] \in Room
  BY InvParts DEF Sweep, ClientsInPlace, OpenedIsKnown
<1>2. PICK u \in User, r \in Room: u = owner[c] /\ r = place[c]
  BY <1>0
<1>1. /\ task[k].pc = "free" /\ \E q \in Room: c \in roomClients[q]
      /\ heartbeats' = [heartbeats EXCEPT ![r][u] = "none"]
      /\ listeners' = [listeners EXCEPT ![r] = @ \ {c}]
      /\ roomClients' = [roomClients EXCEPT ![r] = @ \ {c}]
      /\ socket' = Close({c})
      /\ pendingDisconnects' = pendingDisconnects \ {<<u, r>>}
      /\ Finalize(k, u, r)
      /\ UNCHANGED <<opened, owner, place, phase, kickCode, alive, unheard, exists, host, members,
                     seen, perm, banned, calls>>
  BY <1>2 DEF Sweep, FreeSlot, ListenerRemoved, rowVars
<1>3. /\ roomClients' \in [Room -> SUBSET Conn] /\ listeners' \in [Room -> SUBSET Conn]
      /\ \A q \in Room: /\ roomClients'[q] = roomClients[q] \ {c}
                        /\ listeners'[q] = listeners[q] \ {c}
  BY <1>0, <1>1, <1>2, SessionGoes
<1>4. /\ RowsTyped' /\ HandlersKnow'
      /\ \A j \in Task: task[j].pc # "free" => task'[j] = task[j]
      /\ \A q \in Room: (\A j \in Task: task'[j].pc = "close" => task'[j].room # q)
           => \A j \in Task: task[j].pc = "close" => task[j].room # q
      /\ Connected(u, r)' \/ task'[k] = Handler("finRemove", u, r)
  BY <1>1, Finalizes
<1>5. /\ socket' \in [Conn -> {"none", "open", "closing", "closed"}]
      /\ \A d \in Conn: socket'[d] = IF d \in {c} /\ socket[d] = "open" THEN "closing"
                                     ELSE socket[d]
  BY <1>1, Closed
<1>7. ConnsTyped'
  <2>1. heartbeats' \in [Room -> [User -> {"none", "fresh", "stale"}]]
    BY <1>1, <1>3, InvParts DEF ConnsTyped
  <2> QED BY <1>1, <1>3, <1>5, <2>1, InvParts DEF ConnsTyped
<1>8. OpenedIsKnown'
  BY <1>1, <1>5, InvParts DEF OpenedIsKnown
<1>9. MarkedAreUp'
  BY <1>1, <1>5, InvParts DEF MarkedAreUp, ConnsTyped
<1>10. ClientsInPlace'
  <2>1. ASSUME NEW q \in Room, NEW d \in roomClients'[q]
        PROVE  phase[d] = "up" /\ place[d] = q /\ (socket'[d] = "closed" => d \in unheard)
    <3>1. d \in roomClients[q] /\ d \in Conn
      BY <1>3, <2>1
    <3> QED BY <1>5, <3>1, InvParts DEF ClientsInPlace
  <2> QED BY <1>1, <2>1 DEF ClientsInPlace
<1>11. OneSessionPerUser' /\ KickedAreUnseen'
  BY <1>1, <1>3, InvParts DEF OneSessionPerUser, KickedAreUnseen
<1>12. GraceMeansGone'
  <2>1. ASSUME NEW p \in pendingDisconnects', Connected(p[1], p[2])'
        PROVE  FALSE
    <3>1. p \in pendingDisconnects /\ p[2] \in Room
      BY <1>1, <2>1, InvParts DEF ConnsTyped
    <3>2. PICK d \in roomClients'[p[2]]: owner[d] = p[1]
      BY <1>1, <2>1 DEF Connected
    <3> QED BY <1>3, <3>1, <3>2, InvParts DEF GraceMeansGone, Connected
  <2> QED BY <2>1 DEF GraceMeansGone
<1>13. ListenersFollowClients'
  <2>1. ASSUME NEW q \in Room
        PROVE  /\ listeners'[q] \subseteq roomClients'[q]
               /\ roomClients[q] \subseteq listeners[q] => roomClients'[q] \subseteq listeners'[q]
    BY <1>3, InvParts DEF ListenersFollowClients
  <2> QED BY <1>1, <1>4, <2>1, InvParts DEF ListenersFollowClients
<1>14. MemberExpected'
  <2>1. ASSUME NEW q \in Room, NEW v \in members[q] \cap seen[q]
        PROVE  \/ Connected(v, q)' \/ \E d \in Conn: Closing(d, v, q)'
               \/ <<v, q>> \in pendingDisconnects'
               \/ \E j \in Task: task'[j] = Handler("finRemove", v, q)
    <3>1. v \in User
      BY <2>1, InvParts DEF RowsTyped
    <3>2. \/ Connected(v, q) \/ \E d \in Conn: Closing(d, v, q)
          \/ <<v, q>> \in pendingDisconnects
          \/ \E j \in Task: task[j] = Handler("finRemove", v, q)
      BY <2>1, InvParts DEF MemberExpected
    <3>3. \A j \in Task: task[j] = Handler("finRemove", v, q) => task'[j] = task[j]
      BY <1>4 DEF Handler
    <3>4. \A d \in Conn: Closing(d, v, q) => Closing(d, v, q)'
      BY <1>1, <1>5 DEF Closing
    <3>5. CASE v = u /\ q = r
      BY <1>4, <3>5
    <3>6. CASE ~(v = u /\ q = r)
      <4>1. Connected(v, q) => Connected(v, q)'
        <5>1. ASSUME NEW d \in roomClients[q], owner[d] = v
              PROVE  d # c
          BY <3>6, <5>1, <1>2, InvParts DEF ClientsInPlace
        <5> QED BY <1>1, <1>3, <5>1 DEF Connected
      <4> QED BY <1>1, <3>2, <3>3, <3>4, <3>6, <4>1
    <3> QED BY <3>5, <3>6
  <2> QED BY <1>1, <2>1 DEF MemberExpected
<1> QED BY <1>4, <1>7, <1>8, <1>9, <1>10, <1>11, <1>12, <1>13, <1>14, NextInvParts

-------------------------------------------------------------------------------
LEMMA InitHolds ==
  ASSUME GatewayInit
  PROVE  GatewayInv
<1>1. ConnsTyped
  BY Bounds DEF GatewayInit, ConnsTyped
<1>2. Free \in TaskRecord /\ \A k \in Task: task[k].pc = "free"
  BY Handlers DEF GatewayInit
<1>3. RowsTyped
  BY <1>2, Bounds DEF GatewayInit, RowsTyped
<1>4. /\ OpenedIsKnown /\ MarkedAreUp /\ ClientsInPlace /\ OneSessionPerUser /\ GraceMeansGone
  BY DEF GatewayInit, OpenedIsKnown, MarkedAreUp, ClientsInPlace, OneSessionPerUser,
     GraceMeansGone
<1>5. HandlersKnow /\ ListenersFollowClients /\ KickedAreUnseen
  BY <1>2 DEF GatewayInit, HandlersKnow, ListenersFollowClients, KickedAreUnseen
<1>6. MemberExpected
  BY DEF GatewayInit, MemberExpected
<1> QED BY <1>1, <1>3, <1>4, <1>5, <1>6, InvParts

LEMMA StutterKeeps ==
  ASSUME GatewayInv, UNCHANGED vars
  PROVE  GatewayInv'
<1>1. UNCHANGED <<connVars, wsVars, exists, host, members, seen, perm, banned, task, calls>>
  BY DEF vars, rowVars, taskVars
<1>2. UNCHANGED <<owner, kickCode, roomClients, listeners, pendingDisconnects>>
  BY <1>1 DEF connVars, wsVars
<1>3. RowsTyped' /\ HandlersKnow' /\ ListenersFollowClients' /\ KickedAreUnseen'
  BY <1>1, <1>2, InvParts DEF RowsTyped, HandlersKnow, ListenersFollowClients, KickedAreUnseen
<1>4. MemberExpected'
  BY <1>1, <1>2, SessionsStay, InvParts DEF MemberExpected, RowsTyped
<1> QED BY <1>1, <1>3, <1>4, SessionsStay, NextInvParts

LEMMA StepKeeps ==
  ASSUME GatewayInv, [GatewayNext]_vars
  PROVE  GatewayInv'
<1>1. ASSUME NEW c \in Conn, ConnStep(c)
      PROVE  GatewayInv'
  BY <1>1, ConnectKeeps, RegisterKeeps, CalmKeeps, CloseEventKeeps DEF ConnStep
<1>2. ASSUME NEW k \in Task, Timer(k)
      PROVE  GatewayInv'
  BY <1>2, SweepKeeps, GraceOverKeeps DEF Timer
<1>3. ASSUME NEW k \in Task, TaskStep(k)
      PROVE  GatewayInv'
  BY <1>3, FinRemoveKeeps, DeleteKeeps, FinCountKeeps, ReadKeeps, CloseRoomKeeps, JoinSaveKeeps,
     SaveKeeps, KickBanKeeps DEF TaskStep
<1>4. ASSUME NEW k \in Task, HttpRequest(k) \/ \E r \in Room: Remove(k, r)
      PROVE  GatewayInv'
  BY <1>4, HttpKeeps, Bounds DEF HttpRequest
<1> QED BY <1>1, <1>2, <1>3, <1>4, CalmKeeps, UnbanKeeps, StutterKeeps DEF GatewayNext

-------------------------------------------------------------------------------
(* Everything below follows from this: the sessions, the rows and the handlers about
   them fit each other in every reachable state. *)
THEOREM GatewayInvariant == GatewaySpec => []GatewayInv
<1>1. GatewayInit => GatewayInv
  BY InitHolds
<1>2. GatewayInv /\ [GatewayNext]_vars => GatewayInv'
  BY StepKeeps
<1> QED BY <1>1, <1>2, PTL DEF GatewaySpec

(* Type correctness of the gateway and of the member rows. *)
THEOREM GatewayTypeCorrect == GatewaySpec => []GatewayTypeOK
<1>1. GatewayInv => GatewayTypeOK
  BY InvParts DEF ConnsTyped, RowsTyped, GatewayTypeOK
<1> QED BY <1>1, GatewayInvariant, PTL

(* handleConnection: a user who connects anywhere has ended every other session, so
   the broadcaster never has two clients of one user. *)
THEOREM OneSession == GatewaySpec => []OneSessionPerUser
<1>1. GatewayInv => OneSessionPerUser
  BY InvParts
<1> QED BY <1>1, GatewayInvariant, PTL

(* The audio service sends to the broadcaster's clients, and to all of them until the
   room is being closed: no path leaves a callback behind a client that has gone. *)
THEOREM ListenersFollow == GatewaySpec => []ListenersFollowClients
<1>1. GatewayInv => ListenersFollowClients
  BY InvParts
<1> QED BY <1>1, GatewayInvariant, PTL

(* No grace timer runs for a user who is back in the room. *)
THEOREM GraceIsForTheGone == GatewaySpec => []GraceMeansGone
<1>1. GatewayInv => GraceMeansGone
  BY InvParts
<1> QED BY <1>1, GatewayInvariant, PTL

(* Whatever the interleaving of closes, kicks, sweeps, grace timers and requests, a
   member who had a session is connected, closing, on a grace timer or being removed. *)
THEOREM MembersAreAccounted == GatewaySpec => []MemberAccounted
<1>1. ASSUME GatewayInv PROVE MemberAccounted
  <2>1. \A c \in Conn, u \in User, r \in Room: Closing(c, u, r) =>
          /\ owner[c] = u /\ place[c] = r /\ phase[c] = "up"
          /\ socket[c] = "closing" \/ c \in unheard
    BY DEF Closing
  <2> QED BY <1>1, <2>1, InvParts DEF MemberExpected, MemberAccounted, RowsTyped
<1> QED BY <1>1, GatewayInvariant, PTL

===============================================================================
