SPECIFICATION Spec
CONSTANTS
  d1 = d1
  d2 = d2
  v1 = v1
  v2 = v2
  b1 = b1
  j1 = j1
  normal = normal
  faulty = faulty
  Device <- MCDevice
  Version <- MCVersion
  Build <- MCBuild
  Job <- MCJob
  Bundles <- MCBundles
  Specs <- MCSpecs
  Computes <- MCComputes
  Policies <- MCPolicies
  MaxTime = 2
  MaxCalls = 6
INVARIANTS
  NoOtherWayIn
  NothingForgotten
  FinishIsFinal
CHECK_DEADLOCK FALSE
