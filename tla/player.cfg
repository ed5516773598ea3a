SPECIFICATION PlayerSpec
CONSTANTS
  Listener = {l1}
  MaxSpawns = 2
  MaxRetries = 3
  NoRoom = NoRoom
  MaxTasks = 2
  Track = {t1, t2}
  NoTrack = NoTrack
  MaxRows = 2
  MaxCalls = 2
  Requests = {"play", "skip", "vote", "previous", "pause", "resume", "add", "remove", "enqueue"}
  MaxDeletions = 0
  Voter = {u1, u2}
  Eligible = 3
SYMMETRY PlayerSymmetry
VIEW PlayerView
INVARIANTS
  PlayerTypeOK
  TransitionHasDriver
  SerializedPlaysAgree
CHECK_DEADLOCK FALSE
