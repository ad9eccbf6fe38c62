SPECIFICATION Spec
CONSTANTS
  Searched = {}
  Gists = {g1, g2}
  MaxVersion = 1
  NoCursor = NoCursor
  NoFinding = NoFinding
  Runs = {w1, w2}
  Matching = {g1}
  Lookback = 1
  MaxPages = 1
  MaxTime = 1
SYMMETRY Interchangeable
INVARIANTS
  MonitorTypeOK
  NewOnce
  AnnouncedIsRecorded
  RecordedIsAnnounced
PROPERTIES
  MovesForward
