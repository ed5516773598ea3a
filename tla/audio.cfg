SPECIFICATION AudioSpec
CONSTANTS
  Listener = {l1}
  MaxSpawns = 3
  MaxRetries = 3
  NoRoom = NoRoom
INVARIANTS
  AudioTypeOK
  SyncedHasCurrentInit
  ChainEndsOnce
  EndAfterStart
  OrphansOnlyFromRetry
PROPERTIES
  ImplementsStreamSync
