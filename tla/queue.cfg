SPECIFICATION QueueSpec
CONSTANTS
  t1 = t1 t2 = t2
  NoTrack = NoTrack Host = Host AutoDJ = AutoDJ u1 = u1
  Track = {t1, t2}
  QueueUser = {u1}
  MaxQueue = 3
  MaxSelect = 1
  PerWindow = 1
  Cooldown = TRUE
  Kinds = {"add", "remove", "reorder", "pause", "play", "previous"}
  Windows = TRUE
  Lists <- MCLists
  MaxIds = 3
  MaxRequests = 2
  MaxQueueCalls = 3
SYMMETRY TrackSymmetry
VIEW MCView
INVARIANTS QueueTypeOK PositionsDiffer NoTrackTwice QuotaNearlyHolds
CHECK_DEADLOCK FALSE
