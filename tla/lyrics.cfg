SPECIFICATION FairLyricsSpec
CONSTANTS
  t1 = t1 t2 = t2 r1 = r1 a1 = a1 a2 = a2
  Tracks = {t1, t2}
  Rooms = {r1}
  Asks = {a1, a2}
  MaxSearches = 1
  Concurrency = 2
  Chunks = 2
  DailyLimit = 1
  Korean = {}
  InTarget = {t2}
  MaxAsks = 3
  MaxEvents = 1
INVARIANTS LyricsTypeOK SearchSlots WorkersAreUsed PendingIsOwned CallsAreLimited
PROPERTIES DoneIsKept TranslationEnds
CHECK_DEADLOCK FALSE
