SPECIFICATION Spec
CONSTANTS
  Keys = {k1, k2}
  Copies = {c1, c2, c3}
  NoCopy = NoCopy
  Reasons = {manual, invalid}
  NoReason = NoReason
  MaxFaults = 1
INVARIANT ReleaseIsEffective
