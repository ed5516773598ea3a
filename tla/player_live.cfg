SPECIFICATION FairPlayerSpec
CONSTANTS
  t1 = t1
  t2 = t2
  u1 = u1
  u2 = u2
  l1 = l1
  NoRoom = NoRoom
  NoTrack = NoTrack
  Listener = {}
  MaxSpawns = 3
  MaxRetries = 3
  MaxTasks = 2
  Track = {t1, t2}
  MaxRows = 2
  MaxCalls = 1
  Requests = {"skip", "vote", "add", "remove", "enqueue"}
  MaxDeletions = 1
  Voter = {u1}
  Eligible = 2
PROPERTY
  TransitionEnds
CHECK_DEADLOCK FALSE
