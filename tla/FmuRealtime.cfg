SPECIFICATION RealtimeSpec
CONSTANTS
  Sessions = {s1}
  Conns = {c1, c2}
  MaxSessions = 1
  Grace = 1
  MaxTTL = 1
  NoSession = NoSession
  NoConn = NoConn
  StopTime = 2
  MaxTime = 3
INVARIANTS
  RealtimeTypeOK
  ReadyMeansUsable
  StoppedIsAtStop
  RunnersHaveAConnection
PROPERTIES
  ImplementsRegistry
  PauseIsKept
SYMMETRY Symmetry
