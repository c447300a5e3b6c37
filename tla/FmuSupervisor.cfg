SPECIFICATION Spec
CONSTANTS
  Pids = {p1, p2, p3}
  NoPid = NoPid
  Service = Service
  Others = {o1}
  MaxFailures = 3
  MaxFaults = 2
INVARIANTS
  TypeOK
  KillsAreDue
  OrphansHaveACause
PROPERTIES
  PortIsServed
