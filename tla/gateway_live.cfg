SPECIFICATION FairGatewaySpec
CONSTANTS
  u1 = u1
  u2 = u2
  r1 = r1
  r2 = r2
  NoUser = NoUser
  NoRoom = NoRoom
  User = {u1, u2}
  Room = {r1, r2}
  Founder = u1
  MaxConns = 2
  MaxMembers = 2
  MaxTasks = 2
  MaxCalls = 0
  Requests = {}
INVARIANT OneSessionPerUser
PROPERTIES
  DeadSessionsAreSwept
  GoneMembersLeave
CHECK_DEADLOCK FALSE
