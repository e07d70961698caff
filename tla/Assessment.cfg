SPECIFICATION Spec
CONSTANTS
  Threads = {t1, t2}
  Datasets <- MCDatasets
  Contents <- MCContents
  Rules <- MCRules
  Remedied <- MCRemedied
  GatePolicies <- MCGatePolicies
SYMMETRY Requests
INVARIANT RepairsAreProved
INVARIANT GateHolds
CHECK_DEADLOCK FALSE
