SPECIFICATION OptimizationSpec
CONSTANTS
  Threads = {t1, t2}
  RunIds = {"o1"}
  Baselines <- MCBaselines
  Targets <- MCTargets
  Measures <- MCMeasures
  Checks <- MCChecks
  SelectionPolicies <- MCPolicies
  MaxRuns = 1
  MaxWeights = 2
SYMMETRY Interchangeable
INVARIANT CertificateHolds
CHECK_DEADLOCK FALSE
