SPECIFICATION Spec
CONSTANTS
  Threads = {t1, t2}
  Modality <- MCModality
  Profiles <- MCProfiles
  Schemas <- MCSchemas
  Spaces <- MCSpaces
  Plans <- MCPlans
  Designs <- MCDesigns
  Signals <- MCSignals
  TimeAxes <- MCTimeAxes
  LabelCounts <- MCLabelCounts
  Shifts <- MCShifts
  Partitions <- MCPartitions
  Policies <- MCPolicies
  ReadinessPolicies <- MCReadinessPolicies
SYMMETRY Requests
INVARIANT ReadyIsComplete
INVARIANT CertificateIsCurrent
PROPERTY JudgedStays
CHECK_DEADLOCK FALSE
