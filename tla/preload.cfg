SPECIFICATION FairPreloadSpec
CONSTANTS
  Track = {t1, t2}
  NoEntry = NoEntry
  MaxDownloads = 5
  MaxConcurrent = 2
  MaxMemory = 1
  RetryCount = 1
INVARIANTS
  PreloadTypeOK
  SlotsAreCounted
  NobodyWaitsInVain
  EntriesTellTheTruth
PROPERTY WaitersAreServed
CHECK_DEADLOCK FALSE
