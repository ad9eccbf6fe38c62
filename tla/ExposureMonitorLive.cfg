SPECIFICATION FairSpec
CONSTANTS
  Searched = {h1}
  Gists = {g1}
  MaxVersion = 1
  NoCursor = NoCursor
  NoFinding = NoFinding
  Runs = {w1}
  Matching = {g1}
  Lookback = 0
  MaxPages = 1
  MaxTime = 1
PROPERTIES
  EventuallyAnnounced
