SPECIFICATION Spec
CONSTANTS
  Threads = {t1, t2}
  RunIds = {"r1", "r2"}
  Requests <- MCRequests
  Folders <- MCFolders
  Outcomes <- MCOutcomes
  Matrices <- MCMatrices
  FieldNames = {"field"}
  Policies <- MCPolicies
  MaxRuns = 2
SYMMETRY Interchangeable
INVARIANT MeasuredOnItsNamesake
INVARIANT OneTrainer
INVARIANT CertificateHolds
PROPERTY TrainedStays
CHECK_DEADLOCK FALSE
