SPECIFICATION FairAutoDjSpec
CONSTANTS
  t1 = t1 t2 = t2
  NoTrack = NoTrack
  Track = {t1, t2}
  Repeated = {t1}
  Thresholds = {1}
  FailLimit = 2
  MaxFills = 2
  MaxRest = 1
  MaxCopies = 4
  MaxHostCalls = 1
INVARIANTS AutoDjTypeOK FillsAreMeasured OffStopsTheFill FlagHasOwner
PROPERTY EmptyQueueIsFilled
CHECK_DEADLOCK FALSE
