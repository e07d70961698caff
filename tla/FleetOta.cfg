SPECIFICATION Spec
CONSTANTS
  d1 = d1
  d2 = d2
  d3 = d3
  v1 = v1
  v2 = v2
  r1 = r1
  r2 = r2
  t1 = t1
  t2 = t2
  Device <- MCTwoDevices
  Version <- MCVersion
  RolloutId <- MCRolloutId
  Namesakes <- MCNamesakes
  WaveLists <- MCWaveLists
  Policies <- MCPolicies
  Statuses <- MCStatuses
  Thread <- MCThreads
  MaxResults = 1
  Settings <- MCSettings
SYMMETRY MCSymmetry
INVARIANTS
  TypeOK
  AllSound
  CanaryContainsJobs
  OutcomesAreReal
  VersionWasInstalled
CHECK_DEADLOCK FALSE
