SPECIFICATION Spec
CONSTANTS
  Conns = {c1, c2}
  Limits = {1, 3}
  MaxSeq = 4
  MaxTaken = 3
INVARIANTS
  TypeOK
PROPERTIES
  SeqIsMonotonic
  DropsAreExplained
CHECK_DEADLOCK FALSE
