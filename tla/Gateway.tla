------------------------------- MODULE Gateway -------------------------------
(***************************************************************************)
(* Sessions and membership: the WebSocket gateway (rooms.gateway.ts,       *)
(* ws-broadcaster.service.ts, the heartbeat map of ws-message-router) and  *)
(* the member rows that the room services (rooms.service.ts,               *)
(* member.service.ts) keep for it, for a set of rooms.                     *)
(*                                                                         *)
(* A handler that awaits the database is a task; the step that leaves a pc *)
(* is the awaited query and the code behind it, up to the next await.      *)
(***************************************************************************)
EXTENDS Naturals, FiniteSets

CONSTANTS User,
          Room,
          Founder,     \* the user who created the rooms
          MaxConns,    \* bound: connections clients open in a behaviour
          MaxMembers,  \* room.maxMembers
          MaxTasks,    \* bound: handlers in flight at a time
          MaxCalls,    \* bound: HTTP requests in a behaviour
          Requests,    \* the kinds of HTTP request in the instance
          NoUser, NoRoom

ASSUME GatewayAssumption ==
  /\ Founder \in User
  /\ NoUser \notin User /\ NoRoom \notin Room
  /\ MaxConns \in Nat /\ MaxMembers \in Nat /\ MaxTasks \in Nat /\ MaxCalls \in Nat

Conn == 1 .. MaxConns
Task == 1 .. MaxTasks

VARIABLES
  opened,     \* connections opened so far
  owner,      \* owner[c]: the user of connection c
  place,      \* place[c]: the room it is for
  phase,      \* phase[c]: how far handleConnection has come with c
  socket,     \* socket[c]: "closing" once the server has called close(code)
  kickCode,   \* connections the server closed with WS_CLOSE_KICKED
  alive,      \* connections whose client still answers and sends heartbeats
  unheard,    \* connections that closed before "close" had a handler (history)
  roomClients,        \* roomClients[r]: the broadcaster's clients of r
  listeners,          \* listeners[r]: the audio callbacks registered for r
  heartbeats,         \* heartbeats[r][u]: the entry of `${u}:${r}` and its age
  pendingDisconnects, \* <<u, r>> whose grace timer runs
  exists,     \* rooms whose row is there (and active)
  host,       \* host[r]: hostId
  members,    \* members[r]: users with a member row
  seen,       \* seen[r]: members with a session since their row was saved
              \* and since they were last kicked (history)
  perm,       \* perm[r][u]: the permission row, with or without "host"
  banned,     \* banned[r]
  task,       \* task[k]: the handler in slot k
  calls       \* HTTP requests so far

connVars == <<opened, owner, place, phase, socket, kickCode, alive, unheard>>
wsVars   == <<roomClients, listeners, heartbeats, pendingDisconnects>>
rowVars  == <<exists, host, members, seen, perm, banned>>
taskVars == <<task, calls>>
vars == <<connVars, wsVars, rowVars, taskVars>>

(* The queries that handlers wait for. *)
Pc == {"finRemove", "finCount", "finIsHost", "finPick",    \* finalizeDisconnect
       "leaveDelete", "leaveCount", "leavePick",           \* POST leave
       "setHost", "close",                                 \* shared tails
       "joinSave", "joinPerm",                             \* POST join
       "kickDelete", "kickPerm", "kickBan",                \* POST kick
       "handSave", "handNew", "handOld",                   \* POST transfer-host
       "permGrant", "permRevoke"}                          \* PUT permissions

TaskRecord == [pc: {"free"} \cup Pc, user: User \cup {NoUser}, room: Room \cup {NoRoom},
               hostThen: User \cup {NoUser}]

Free == [pc |-> "free", user |-> NoUser, room |-> NoRoom, hostThen |-> NoUser]

(* A handler about user u in room r; hostThen is the host it has read. *)
Handler(pc, u, r) == [pc |-> pc, user |-> u, room |-> r, hostThen |-> NoUser]

(***************************************************************************)
(* One type invariant: the shape of the state.                             *)
(***************************************************************************)
GatewayTypeOK ==
  /\ opened \in 0 .. MaxConns
  /\ owner \in [Conn -> User \cup {NoUser}]
  /\ place \in [Conn -> Room \cup {NoRoom}]
  /\ phase \in [Conn -> {"none", "checking", "up", "refused"}]
  /\ socket \in [Conn -> {"none", "open", "closing", "closed"}]
  /\ kickCode \subseteq Conn
  /\ alive \subseteq Conn
  /\ unheard \subseteq Conn
  /\ roomClients \in [Room -> SUBSET Conn]
  /\ listeners \in [Room -> SUBSET Conn]
  /\ heartbeats \in [Room -> [User -> {"none", "fresh", "stale"}]]
  /\ pendingDisconnects \subseteq User \X Room
  /\ exists \subseteq Room
  /\ host \in [Room -> User]
  /\ members \in [Room -> SUBSET User]
  /\ seen \in [Room -> SUBSET User]
  /\ perm \in [Room -> [User -> {"none", "member", "host"}]]
  /\ banned \in [Room -> SUBSET User]
  /\ task \in [Task -> TaskRecord]
  /\ calls \in 0 .. MaxCalls

(* RoomsService.create has run for every room: the founder is its host, its
   first member and has every permission. *)
GatewayInit ==
  /\ opened = 0
  /\ owner = [c \in Conn |-> NoUser]
  /\ place = [c \in Conn |-> NoRoom]
  /\ phase = [c \in Conn |-> "none"]
  /\ socket = [c \in Conn |-> "none"]
  /\ kickCode = {}
  /\ alive = {}
  /\ unheard = {}
  /\ roomClients = [r \in Room |-> {}]
  /\ listeners = [r \in Room |-> {}]
  /\ heartbeats = [r \in Room |-> [u \in User |-> "none"]]
  /\ pendingDisconnects = {}
  /\ exists = Room
  /\ host = [r \in Room |-> Founder]
  /\ members = [r \in Room |-> {Founder}]
  /\ seen = [r \in Room |-> {}]
  /\ perm = [r \in Room |-> [u \in User |-> IF u = Founder THEN "host" ELSE "none"]]
  /\ banned = [r \in Room |-> {}]
  /\ task = [k \in Task |-> Free]
  /\ calls = 0

-------------------------------------------------------------------------------
(* isUserConnected *)
Connected(u, r) == \E c \in roomClients[r]: owner[c] = u

FreeSlot(k) ==
  /\ task[k].pc = "free"
  /\ \A j \in Task: j < k => task[j].pc # "free"

Become(k, tk) == task' = [task EXCEPT ![k] = tk]
Goto(k, pc) == Become(k, [task[k] EXCEPT !.pc = pc])
Done(k) == Become(k, Free)

(* finalizeDisconnect up to its first await, on the client sets a caller
   leaves: nothing happens when the user has a session in the room. *)
Finalize(k, u, r) ==
  Become(k, IF \E c \in roomClients'[r]: owner[c] = u THEN Free ELSE Handler("finRemove", u, r))

-------------------------------------------------------------------------------
(* A client opens a socket for a room; its token names the user. *)
Connect(c, u, r) ==
  /\ opened < MaxConns
  /\ c = opened + 1
  /\ opened' = c
  /\ owner' = [owner EXCEPT ![c] = u]
  /\ place' = [place EXCEPT ![c] = r]
  /\ phase' = [phase EXCEPT ![c] = "checking"]
  /\ socket' = [socket EXCEPT ![c] = "open"]
  /\ alive' = alive \cup {c}
  /\ UNCHANGED <<kickCode, unheard, wsVars, rowVars, taskVars>>

DuplicatesOnly(c) == {d \in roomClients[place[c]]: owner[d] = owner[c] /\ d # c}

(* The user's other sessions, which handleConnection closes and drops: those
   in other rooms (one room per user) and the duplicates in this room. *)
OtherSessions(c) == {d \in UNION {roomClients[r]: r \in Room}: owner[d] = owner[c] /\ d # c}

Close(S) == [d \in Conn |-> IF d \in S /\ socket[d] = "open" THEN "closing" ELSE socket[d]]

(* handleConnection once isRoomActive has answered.  The close handler is
   registered here: a socket that has closed during the checks is not noticed. *)
Register(c) ==
  LET u == owner[c]
      r == place[c]
      old == OtherSessions(c)
  IN /\ phase[c] = "checking"
     /\ r \in exists
     /\ phase' = [phase EXCEPT ![c] = "up"]
     /\ pendingDisconnects' = pendingDisconnects \ {<<u, r>>}
     /\ socket' = Close(old)
     /\ roomClients' = [q \in Room |-> IF q = r THEN (roomClients[q] \ old) \cup {c}
                                       ELSE roomClients[q] \ old]
     /\ listeners' = [q \in Room |-> IF q = r THEN (listeners[q] \ old) \cup {c}
                                     ELSE listeners[q] \ old]
     /\ heartbeats' = [heartbeats EXCEPT ![r][u] = "fresh"]
     /\ seen' = [seen EXCEPT ![r] = @ \cup {u}]
     /\ unheard' = IF socket[c] = "closed" THEN unheard \cup {c} ELSE unheard
     /\ UNCHANGED <<opened, owner, place, kickCode, alive, exists, host, members,
                    perm, banned, taskVars>>

(* The room is gone, or one of the checks threw: close. *)
Refuse(c) ==
  /\ phase[c] = "checking"
  /\ phase' = [phase EXCEPT ![c] = "refused"]
  /\ socket' = Close({c})
  /\ UNCHANGED <<opened, owner, place, kickCode, alive, unheard, wsVars, rowVars, taskVars>>

(* A client that vanishes without closing its socket: its host loses power or
   its network. *)
Vanish(c) ==
  /\ c \in alive
  /\ socket[c] # "closed"
  /\ alive' = alive \ {c}
  /\ UNCHANGED <<opened, owner, place, phase, socket, kickCode, unheard, wsVars, rowVars, taskVars>>

KeepListeners(c) == listeners

(* removeListener(audioCallback) *)
ListenerRemoved(c) == [listeners EXCEPT ![place[c]] = @ \ {c}]

(* heartbeats.delete(`${d.userId}:${d.roomId}`), whichever session set the entry *)
HeartbeatDeleted(c) == [heartbeats EXCEPT ![place[c]][owner[c]] = "none"]

GraceUnlessKicked(c, kicked) == ~kicked
NeverGrace(c, kicked) == FALSE

(* A user who was kicked, or who has another session, gets no grace timer. *)
GetsGrace(c, kicked) == ~kicked /\ ~\E d \in roomClients[place[c]] \ {c}: owner[d] = owner[c]

(* handleDisconnect *)
HandleDisconnect(c, kicked) ==
  LET u == owner[c]  r == place[c] IN
  /\ roomClients' = [roomClients EXCEPT ![r] = @ \ {c}]
  /\ listeners' = ListenerRemoved(c)
  /\ heartbeats' = HeartbeatDeleted(c)
  /\ pendingDisconnects' = IF GetsGrace(c, kicked) THEN pendingDisconnects \cup {<<u, r>>}
                           ELSE pendingDisconnects

(* The close event of c, later than the code behind the close() that asked for
   it.  The code is not WS_CLOSE_KICKED when a client has vanished or closes
   the socket itself at that time. *)
CloseEvent(c) ==
  /\ socket[c] \in {"open", "closing"}
  /\ socket' = [socket EXCEPT ![c] = "closed"]
  /\ alive' = alive \ {c}
  /\ IF phase[c] = "up"
     THEN \E kicked \in BOOLEAN: (kicked => c \in kickCode) /\ HandleDisconnect(c, kicked)
     ELSE UNCHANGED wsVars
  /\ UNCHANGED <<opened, owner, place, phase, kickCode, unheard, rowVars, taskVars>>

(* disconnectUser: an admin bans the user, or the user deletes the account. *)
DisconnectUser(u) ==
  LET S == {c \in UNION {roomClients[r]: r \in Room}: owner[c] = u /\ socket[c] = "open"} IN
  /\ S # {}
  /\ socket' = Close(S)
  /\ UNCHANGED <<opened, owner, place, phase, kickCode, alive, unheard, wsVars, rowVars, taskVars>>

(* WsOpCode.Heartbeat *)
Heartbeat(c) ==
  /\ phase[c] = "up"
  /\ c \in alive
  /\ heartbeats[place[c]][owner[c]] # "fresh"
  /\ heartbeats' = [heartbeats EXCEPT ![place[c]][owner[c]] = "fresh"]
  /\ UNCHANGED <<connVars, roomClients, listeners, pendingDisconnects, rowVars, taskVars>>

(* 60 seconds without a heartbeat: no client that answers every 30 seconds has
   a session there. *)
HeartbeatAges(u, r) ==
  /\ heartbeats[r][u] = "fresh"
  /\ ~\E c \in alive: phase[c] = "up" /\ owner[c] = u /\ place[c] = r
  /\ heartbeats' = [heartbeats EXCEPT ![r][u] = "stale"]
  /\ UNCHANGED <<connVars, roomClients, listeners, pendingDisconnects, rowVars, taskVars>>

FreshOrMissing(c) == heartbeats[place[c]][owner[c]] # "stale"

(* now - last < 60_000, where an entry that is missing counts as time 0 *)
BeatsInTime(c) == heartbeats[place[c]][owner[c]] = "fresh"

(* checkHeartbeats reaches c. *)
Sweep(k, c) ==
  LET u == owner[c]  r == place[c] IN
  /\ FreeSlot(k)
  /\ \E q \in Room: c \in roomClients[q]
  /\ ~BeatsInTime(c)
  /\ heartbeats' = [heartbeats EXCEPT ![r][u] = "none"]
  /\ listeners' = ListenerRemoved(c)
  /\ roomClients' = [roomClients EXCEPT ![r] = @ \ {c}]
  /\ socket' = Close({c})
  /\ pendingDisconnects' = pendingDisconnects \ {<<u, r>>}
  /\ Finalize(k, u, r)
  /\ UNCHANGED <<opened, owner, place, phase, kickCode, alive, unheard, rowVars, calls>>

(* WS_GRACE_MS have passed. *)
GraceOver(k, u, r) ==
  /\ FreeSlot(k)
  /\ <<u, r>> \in pendingDisconnects
  /\ pendingDisconnects' = pendingDisconnects \ {<<u, r>>}
  /\ UNCHANGED roomClients
  /\ Finalize(k, u, r)
  /\ UNCHANGED <<connVars, listeners, heartbeats, rowVars, calls>>

-------------------------------------------------------------------------------
(* Rows.  A query on a room that is gone finds nothing and changes nothing; a
   row saved for it fails on its foreign key. *)

(* removeMember and the member delete of leave *)
MemberDeleted(u, r) ==
  /\ members' = [members EXCEPT ![r] = @ \ {u}]
  /\ UNCHANGED <<exists, host, seen, perm, banned>>

FinRemove(k) ==
  /\ task[k].pc = "finRemove"
  /\ MemberDeleted(task[k].user, task[k].room)
  /\ Goto(k, "finCount")
  /\ UNCHANGED <<connVars, wsVars, calls>>

(* No member is left: destroyRoom, then deactivateRoom. *)
FinCount(k) ==
  LET r == task[k].room IN
  /\ task[k].pc = "finCount"
  /\ IF members[r] = {}
     THEN listeners' = [listeners EXCEPT ![r] = {}] /\ Goto(k, "close")
     ELSE UNCHANGED listeners /\ Goto(k, "finIsHost")
  /\ UNCHANGED <<connVars, roomClients, heartbeats, pendingDisconnects, rowVars, calls>>

FinIsHost(k) ==
  /\ task[k].pc = "finIsHost"
  /\ IF task[k].room \in exists /\ host[task[k].room] = task[k].user
     THEN Goto(k, "finPick") ELSE Done(k)
  /\ UNCHANGED <<connVars, wsVars, rowVars, calls>>

NullableCandidates(r) == IF \E u \in members[r]: perm[r][u] = "host"
                         THEN {u \in members[r]: perm[r][u] = "host"} ELSE {NoUser}

(* transferHost looks for a member with the host permission.  The first to
   have joined is chosen; the model leaves the choice open. *)
Candidates(r) == {u \in members[r]: perm[r][u] = "host"}

(* finalizeDisconnect ends when there is no candidate; leave closes the room. *)
PickHost(k) ==
  LET r == task[k].room IN
  /\ task[k].pc \in {"finPick", "leavePick"}
  /\ \/ \E u \in Candidates(r): Become(k, Handler("setHost", u, r))
     \/ /\ Candidates(r) = {}
        /\ IF task[k].pc = "finPick" THEN Done(k) ELSE Goto(k, "close")
  /\ UNCHANGED <<connVars, wsVars, rowVars, calls>>

SetHost(k) ==
  LET r == task[k].room IN
  /\ task[k].pc = "setHost"
  /\ host' = IF r \in exists THEN [host EXCEPT ![r] = task[k].user] ELSE host
  /\ Done(k)
  /\ UNCHANGED <<connVars, wsVars, exists, members, seen, perm, banned, calls>>

(* deactivateRoom and RoomsService.remove: the rows of the room go with it. *)
CloseRoom(k) ==
  LET r == task[k].room IN
  /\ task[k].pc = "close"
  /\ exists' = exists \ {r}
  /\ members' = [members EXCEPT ![r] = {}]
  /\ seen' = [seen EXCEPT ![r] = {}]
  /\ perm' = [perm EXCEPT ![r] = [u \in User |-> "none"]]
  /\ banned' = [banned EXCEPT ![r] = {}]
  /\ Done(k)
  /\ UNCHANGED <<connVars, wsVars, host, calls>>

-------------------------------------------------------------------------------
(* HTTP requests: a task starts with the reads of the handler, merged into one
   step; a request its checks refuse changes nothing and is left out. *)
Request(k, kind, tk) ==
  /\ kind \in Requests
  /\ calls < MaxCalls
  /\ calls' = calls + 1
  /\ FreeSlot(k)
  /\ Become(k, tk)
  /\ UNCHANGED <<connVars, wsVars, rowVars>>

Join(k, u, r) ==
  /\ r \in exists
  /\ Cardinality(members[r]) < MaxMembers
  /\ u \notin banned[r] \cup members[r]
  /\ Request(k, "join", Handler("joinSave", u, r))

JoinSave(k) ==
  LET u == task[k].user  r == task[k].room IN
  /\ task[k].pc = "joinSave"
  /\ \/ /\ r \notin exists
        /\ Done(k)
        /\ UNCHANGED <<members, seen>>
     \/ /\ r \in exists
        /\ members' = [members EXCEPT ![r] = @ \cup {u}]
        /\ seen' = [seen EXCEPT ![r] = @ \ {u}]
        /\ Goto(k, "joinPerm")
  /\ UNCHANGED <<connVars, wsVars, exists, host, perm, banned, calls>>

(* A permission row, unless an old one is there: saving keeps what it grants. *)
JoinPerm(k) ==
  LET u == task[k].user  r == task[k].room IN
  /\ task[k].pc = "joinPerm"
  /\ perm' = IF r \in exists
             THEN [perm EXCEPT ![r][u] = IF @ = "none" THEN "member" ELSE @] ELSE perm
  /\ Done(k)
  /\ UNCHANGED <<connVars, wsVars, exists, host, members, seen, banned, calls>>

(* leave: isHost has answered. *)
Leave(k, u, r) ==
  /\ r \in exists
  /\ Request(k, "leave", [Handler("leaveDelete", u, r) EXCEPT !.hostThen = host[r]])

LeaveDelete(k) ==
  /\ task[k].pc = "leaveDelete"
  /\ MemberDeleted(task[k].user, task[k].room)
  /\ Goto(k, "leaveCount")
  /\ UNCHANGED <<connVars, wsVars, calls>>

LeaveCount(k) ==
  /\ task[k].pc = "leaveCount"
  /\ CASE members[task[k].room] = {} -> Goto(k, "close")
       [] members[task[k].room] # {} /\ task[k].hostThen = task[k].user -> Goto(k, "leavePick")
       [] OTHER -> Done(k)
  /\ UNCHANGED <<connVars, wsVars, rowVars, calls>>

(* remove: by the host. *)
Remove(k, r) ==
  /\ r \in exists
  /\ Request(k, "remove", Handler("close", host[r], r))

(* kick of u: by the host, who cannot be the target. *)
Kick(k, u, r) ==
  /\ r \in exists
  /\ u # host[r]
  /\ Request(k, "kick", Handler("kickDelete", u, r))

KickDelete(k) ==
  /\ task[k].pc = "kickDelete"
  /\ MemberDeleted(task[k].user, task[k].room)
  /\ Goto(k, "kickPerm")
  /\ UNCHANGED <<connVars, wsVars, calls>>

KickPerm(k) ==
  /\ task[k].pc = "kickPerm"
  /\ perm' = [perm EXCEPT ![task[k].room][task[k].user] = "none"]
  /\ Goto(k, "kickBan")
  /\ UNCHANGED <<connVars, wsVars, exists, host, members, seen, banned, calls>>

(* The ban is saved, and kickUser closes the user's sessions in the room. *)
KickBan(k) ==
  LET u == task[k].user
      r == task[k].room
      S == {c \in roomClients[r]: owner[c] = u /\ socket[c] = "open"}
  IN /\ task[k].pc = "kickBan"
     /\ IF r \in exists
        THEN /\ banned' = [banned EXCEPT ![r] = @ \cup {u}]
             /\ seen' = [seen EXCEPT ![r] = @ \ {u}]
             /\ socket' = Close(S)
             /\ kickCode' = kickCode \cup S
        ELSE UNCHANGED <<banned, seen, socket, kickCode>>
     /\ Done(k)
     /\ UNCHANGED <<opened, owner, place, phase, alive, unheard, wsVars, exists, host, members, perm, calls>>

(* unban and resetBans: the deletion is the handler's only write. *)
Unban(r, U) ==
  /\ "unban" \in Requests
  /\ calls < MaxCalls
  /\ calls' = calls + 1
  /\ U # {} /\ U \subseteq banned[r]
  /\ banned' = [banned EXCEPT ![r] = @ \ U]
  /\ UNCHANGED <<connVars, wsVars, exists, host, members, seen, perm, task>>

(* transferHostTo: the host names a member with the host permission. *)
TransferHostTo(k, u, r) ==
  /\ r \in exists
  /\ u \in Candidates(r)
  /\ Request(k, "transfer", [Handler("handSave", u, r) EXCEPT !.hostThen = host[r]])

HandSave(k) ==
  LET r == task[k].room IN
  /\ task[k].pc = "handSave"
  /\ host' = IF r \in exists THEN [host EXCEPT ![r] = task[k].user] ELSE host
  /\ Goto(k, "handNew")
  /\ UNCHANGED <<connVars, wsVars, exists, members, seen, perm, banned, calls>>

(* The new host's row, if there is one, gets every permission... *)
HandNew(k) ==
  LET r == task[k].room IN
  /\ task[k].pc = "handNew"
  /\ perm' = [perm EXCEPT ![r][task[k].user] = IF @ = "none" THEN "none" ELSE "host"]
  /\ Goto(k, "handOld")
  /\ UNCHANGED <<connVars, wsVars, exists, host, members, seen, banned, calls>>

(* ... and the old host's loses "host". *)
HandOld(k) ==
  LET r == task[k].room IN
  /\ task[k].pc = "handOld"
  /\ perm' = [perm EXCEPT ![r][task[k].hostThen] = IF @ = "host" THEN "member" ELSE @]
  /\ Done(k)
  /\ UNCHANGED <<connVars, wsVars, exists, host, members, seen, banned, calls>>

(* updatePermissions: the host sets another user's row, with or without "host". *)
UpdatePermissions(k, u, r) ==
  /\ r \in exists
  /\ \E pc \in {"permGrant", "permRevoke"}: Request(k, "permissions", Handler(pc, u, r))

PermSave(k) ==
  LET r == task[k].room IN
  /\ task[k].pc \in {"permGrant", "permRevoke"}
  /\ perm' = IF r \in exists
             THEN [perm EXCEPT ![r][task[k].user] =
                                IF task[k].pc = "permGrant" THEN "host" ELSE "member"]
             ELSE perm
  /\ Done(k)
  /\ UNCHANGED <<connVars, wsVars, exists, host, members, seen, banned, calls>>

-------------------------------------------------------------------------------
ConnStep(c) ==
  \/ \E u \in User, r \in Room: Connect(c, u, r)
  \/ Register(c) \/ Refuse(c) \/ Vanish(c) \/ CloseEvent(c) \/ Heartbeat(c)

Timer(k) ==
  \/ \E c \in Conn: Sweep(k, c)
  \/ \E u \in User, r \in Room: GraceOver(k, u, r)

TaskStep(k) ==
  \/ FinRemove(k) \/ FinCount(k) \/ FinIsHost(k)
  \/ PickHost(k) \/ SetHost(k) \/ CloseRoom(k)
  \/ JoinSave(k) \/ JoinPerm(k) \/ LeaveDelete(k) \/ LeaveCount(k)
  \/ KickDelete(k) \/ KickPerm(k) \/ KickBan(k)
  \/ HandSave(k) \/ HandNew(k) \/ HandOld(k) \/ PermSave(k)

HttpRequest(k) == \E u \in User, r \in Room:
  \/ Join(k, u, r) \/ Leave(k, u, r) \/ Kick(k, u, r)
  \/ TransferHostTo(k, u, r) \/ UpdatePermissions(k, u, r)

GatewayNext ==
  \/ \E c \in Conn: ConnStep(c)
  \/ \E u \in User, r \in Room: HeartbeatAges(u, r)
  \/ \E u \in User: DisconnectUser(u)
  \/ \E k \in Task: Timer(k) \/ TaskStep(k) \/ HttpRequest(k)
  \/ \E k \in Task, r \in Room: Remove(k, r)
  \/ \E r \in Room: \E U \in SUBSET banned[r]: Unban(r, U)

GatewaySpec == GatewayInit /\ [][GatewayNext]_vars

(* Node runs the timers that are due, the answers of the database arrive, a
   socket the server closes gets its close event (ws gives up after 30 seconds),
   and a heartbeat that is not renewed grows old. *)
GatewayFairness ==
  /\ \A k \in Task: WF_vars(TaskStep(k))
  /\ WF_vars(\E k \in Task: Timer(k))
  /\ \A c \in Conn: WF_vars(socket[c] = "closing" /\ CloseEvent(c))
  /\ \A u \in User, r \in Room: WF_vars(HeartbeatAges(u, r))

FairGatewaySpec == GatewaySpec /\ GatewayFairness

-------------------------------------------------------------------------------
(* A user has one session: connecting to a room ends the user's sessions in
   other rooms and the duplicates in this one. *)
OneSessionPerUser ==
  \A r, q \in Room: \A c \in roomClients[r], d \in roomClients[q]: owner[c] = owner[d] => c = d

(* The broadcaster and the audio service agree on who listens: a callback
   belongs to a client of the room, and every client of a room that is not being
   closed has its callback. *)
ListenersFollowClients == \A r \in Room:
  /\ listeners[r] \subseteq roomClients[r]
  /\ r \in exists /\ (\A k \in Task: task[k].pc = "close" => task[k].room # r)
     => roomClients[r] \subseteq listeners[r]

(* A grace timer runs only for a user who has no session in the room. *)
GraceMeansGone == \A p \in pendingDisconnects: ~Connected(p[1], p[2])

(* Nobody stays in the member list behind a lost connection: a member who had a
   session has one, or has one that is closing, or runs on a grace timer, or is
   being removed.  Two leaks are left out: a join that crosses a kick (see seen)
   and a connection whose close event came before its handler (unheard). *)
MemberAccounted == \A r \in Room: \A u \in members[r] \cap seen[r]:
  \/ Connected(u, r)
  \/ \E c \in Conn: /\ owner[c] = u /\ place[c] = r /\ phase[c] = "up"
                    /\ socket[c] = "closing" \/ c \in unheard
  \/ <<u, r>> \in pendingDisconnects
  \/ \E k \in Task: task[k] = Handler("finRemove", u, r)

(* A session whose client has vanished is removed from the room. *)
DeadSessionsAreSwept == \A c \in Conn, r \in Room:
  (c \in roomClients[r] /\ c \notin alive) ~> c \notin roomClients[r]

(* A member whose connection is lost comes back or leaves the member list: the
   grace timer fires once, and what it starts ends.  (The leaks MemberAccounted
   leaves out are left out here.) *)
GoneMembersLeave == \A u \in User, r \in Room:
  (u \in members[r] \cap seen[r] /\ ~Connected(u, r))
    ~> (u \notin members[r] \/ Connected(u, r) \/ \E c \in unheard: owner[c] = u /\ place[c] = r)

===============================================================================
