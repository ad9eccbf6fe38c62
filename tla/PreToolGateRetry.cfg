SPECIFICATION GateSpec
CONSTANTS
  a1 = a1
  a2 = a2
  r1 = r1
  r2 = r2
  k1 = k1
  Procs = {p1, p2}
  NoProc = NoProc
  Approvals = {a1, a2}
  Requests = {r1}
  NoUse = NoUse
  Decisions = {"allow", "deny", "error"}
  MaxChunks = 4
  Envelopes <- TwoForOne
  NoEnvelope = NoEnvelope
  Keys = {k1}
  MaxTTL = 1
  MaxTime = 0
CHECK_DEADLOCK FALSE
INVARIANTS
  ReplacementUsable
