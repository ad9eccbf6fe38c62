SPECIFICATION Spec
CONSTANTS
  Searched = {}
  Gists = {g1, g2, g3}
  MaxVersion = 1
  NoCursor = NoCursor
  NoFinding = NoFinding
  Runs = {w1}
  Matching = {g1}
  Lookback = 1
  MaxPages = 3
  MaxTime = 1
INVARIANTS
  FollowedFromCursor
SYMMETRY OthersInterchangeable
