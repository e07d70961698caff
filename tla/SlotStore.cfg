SPECIFICATION SlotSpec
CONSTANTS
  v1 = v1
  v2 = v2
  v3 = v3
  Version <- MCVersion
  MaxMoves = 4
SYMMETRY MCSymmetry
INVARIANTS
  SlotTypeOK
  StartsForEver
PROPERTY SwitchLeavesWayBack
