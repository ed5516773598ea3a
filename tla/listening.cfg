SPECIFICATION ListeningSpec
CONSTANTS
  c1 = c1 t1 = t1 t2 = t2
  Client = c1
  Listener = {c1}
  None = None
  NoTrack = NoTrack
  Track = {t1, t2}
  MaxResyncs = 1
  MaxStreams = 2
  MaxWire = 2
  MaxSay = 1
  MaxEvents = 2
SYMMETRY TrackSymmetry
INVARIANTS ListeningTypeOK RestMeansHearing
CHECK_DEADLOCK FALSE
