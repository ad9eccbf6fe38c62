SPECIFICATION Spec
CONSTANTS
  Searched = {}
  Gists = {g1, g2}
  MaxVersion = 1
  NoCursor = NoCursor
  NoFinding = NoFinding
  Runs = {w1}
  Matching = {g1}
  Lookback = 1
  MaxPages = 2
  MaxTime = 1
INVARIANTS
  EmittedOnLaterRun
