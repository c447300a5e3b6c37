SPECIFICATION Spec
CONSTANTS
  Calls = {a1, a2}
  Controllers = {k1, k2}
  NoOne = NoOne
  MaxTick = 1
  MaxBoots = 1
  MaxFaults = 1
INVARIANTS
  TypeOK
  SuccessIsEarned
PROPERTIES
  SuccessMeansGone
  NoStaleClose
  MarkerIsKept
SYMMETRY Symmetry
CHECK_DEADLOCK FALSE
