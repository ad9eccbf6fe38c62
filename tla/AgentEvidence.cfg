SPECIFICATION Spec
CONSTANTS
  MaxDispatches = 2
  Providers = {p1}
  MaxSnapshotAge = 1
  MaxLag = 1
  MaxFleetTime = 2
  MaxExports = 2
  MaxSnapshots = 3
  MaxAccepted = 2
  Authorities = {k1, k2}
  Requests = {r1}
  MaxTriggerAge = 1
  MaxCommandTtl = 1
  MaxLatency = 1
  MaxAuthTtl = 1
  MaxIncidentTime = 2
  MaxFaults = 1
  MaxCommands = 1
  MaxDnsAge = 1
  MaxEgressTime = 2
  Adapters = {a1, a2}
  MaxInstalledAge = 1
  MaxEventAge = 1
  MaxRuntimeTime = 2
  MaxInstalls = 1
  MaxEvents = 4
  Sessions = {s1}
  Budget = 2
  WarningPercent = 80
  MaxEvidenceAge = 1
  MaxAlertLatency = 1
  MaxMeterTime = 2
  MaxDelegationAge = 1
  MaxDelegationTtl = 1
  MaxDelegationTime = 2
  MaxDelegations = 2
  MaxResponses = 2
  MaxLapses = 1
  Products = {b1, b2}
  MaxOddities = 1
  People = {ann, bob}
  AgentSessions = {q1, q2}
  MaxApprovalTtl = 1
  MaxApprovalTime = 1
  MaxSigned = 2
  MaxGranted = 2
INVARIANTS
  PassIsAtMostOnce
  AcceptedIsOneHistory
  AcceptedIsComplete
  AcceptedContainment
  
  PassedEgressIsBound
  DriftIsNoticed
  OverspenderIsStopped
  AcceptedOnceAndBelow
  PassedGatewayHolds
  GrantedAsReviewed
CHECK_DEADLOCK FALSE
