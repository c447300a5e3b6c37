SPECIFICATION FairSpec
CONSTANTS
  Sessions = {s1, s2}
  Conns = {c1, c2}
  MaxSessions = 1
  Grace = 1
  MaxTTL = 2
  NoSession = NoSession
  NoConn = NoConn
INVARIANTS
  TypeOK
  RegistryWithinCapacity
  AttachedHasLiveOwner
PROPERTIES
  DetachedByItsOwner
  RemovalIsJustified
  ImplementsLease
  DetachedIsReclaimed
  ExpiredIsReclaimed
