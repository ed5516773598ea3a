SPECIFICATION FairLyricsSpec
CONSTANTS
  t1 = t1 r1 = r1 a1 = a1 a2 = a2
  Tracks = {t1}
  Rooms = {r1}
  Asks = {a1, a2}
  MaxSearches = 1
  Concurrency = 2
  Chunks = 2
  DailyLimit = 1
  Korean = {}
  InTarget = {}
  MaxAsks = 1
  MaxEvents = 1
PROPERTY RestoredEnds
CHECK_DEADLOCK FALSE
