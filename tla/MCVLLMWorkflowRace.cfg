CONSTANTS
  d1 = d1
  d2 = d2
  Drivers <- TwoDrivers
  Budget = 2
  MaxExperiments = 1
  ServerMayDie = TRUE
  CoordinatesMayDrift = TRUE
  MaxClock = 2
  MaxSessions = 2
  MaxAttempts = 2
  MaxReruns = 1
  MaxCrashes = 0
SPECIFICATION Spec
SYMMETRY DriverSymmetry
INVARIANTS
  OneTransportPerApproval
PROPERTIES
  BudgetClosureIsFinal
CHECK_DEADLOCK FALSE
