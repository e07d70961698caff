SPECIFICATION RolloutSpec
CONSTANTS
  d1 = d1
  d2 = d2
  d3 = d3
  v1 = v1
  Device <- MCDevice
  Version <- MCVersion
  WavePlans <- MCWavePlans
  PoliciesInUse <- MCPolicies
  MaxRecorded = 2
  MaxEvents = 6
SYMMETRY MCSymmetry
INVARIANTS
  RolloutTypeOK
  CanaryContains
  ResultsFollowPlan
  HaltExplained
  EventsTellTheRollout
PROPERTY ClosedIsClosed
CHECK_DEADLOCK FALSE
