SPECIFICATION Spec
CONSTANTS
  Sessions = {s1, s2}
  Conns = {c1, c2}
  MaxSessions = 1
  Grace = 1
  MaxTTL = 1
  NoSession = NoSession
  NoConn = NoConn
INVARIANTS
  ExecutionsWithinCapacity
