SPECIFICATION Spec
CONSTANTS
  NULL = NULL
  p1 = p1
  p2 = p2
  p3 = p3
  d1 = d1
  d2 = d2
  r1 = r1
  r2 = r2
  Pids <- Numbers
  Drivers <- TwoDrivers
  Requests <- TwoRequests
  MaxTicks = 2
  MaxForks = 1
  MaxServers = 2
  MaxDisturbances = 2
INVARIANTS
  SignalsStayInSession
  ServersAreKnown
  StoppedMeansGone
CHECK_DEADLOCK FALSE
SYMMETRY Symmetry
