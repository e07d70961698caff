\* Two request threads against a deployment that may be deployed twice.
SPECIFICATION Spec
CONSTANTS
  d1 = d1
  d2 = d2
  w1 = w1
  blank = blank
  Ids <- TwoIds
  Requests = {t1, t2}
  Offered <- MCOffered
  Batches <- MCBatches
  Windows <- MCWindows
  Drifts <- MCDrifts
  Policies <- MCPolicies
  Timeout <- NoTimeout
  WatchIdsOf <- MCWatchIdsOf
  Blank = blank
  MaxDeployments = 2
  MaxVersions = 4
  MaxRecords = 1
  MaxReports = 2
  MaxIncidents = 1
INVARIANTS TimelineInOrder IncidentsOnTheTimeline RollbackRestores WatchedUnderItsOwnId
PROPERTY QuarantineHolds
SYMMETRY Threads
CHECK_DEADLOCK FALSE
