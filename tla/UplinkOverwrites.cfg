\* Room for everything, two boots: only the key can lose a record.
SPECIFICATION Spec
CONSTANTS
  BatchSize = 2
  Capacity = 8
  Slot = {"s1", "s2"}
  Settings <- MCRestarted
INVARIANT StoredStays
CHECK_DEADLOCK FALSE
