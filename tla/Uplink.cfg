\* Two requests at once; both installations, without symmetry, for a liveness
\* property is among those checked.
SPECIFICATION FairSpec
CONSTANTS
  BatchSize = 2
  Capacity = 4
  Slot = {"s1", "s2"}
  Settings <- MCBoth
INVARIANTS TypeOK NoneSlipsThrough BudgetOvershoot
PROPERTIES BufferSpec SpoolDrains
CHECK_DEADLOCK FALSE
