SPECIFICATION Spec
CONSTANTS
  Keys = {k1, k2}
  Copies = {c1, c2, c3}
  NoCopy = NoCopy
  Reasons = {manual, invalid}
  NoReason = NoReason
  MaxFaults = 2
INVARIANTS
  TypeOK
  QuarantineHolds
  NoCopyIsLost
PROPERTIES
  RestoredIsAvailable
SYMMETRY Symmetry
