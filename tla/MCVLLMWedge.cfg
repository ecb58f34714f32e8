CONSTANTS
  d1 = d1
  d2 = d2
  Drivers <- OneDriver
  Budget = 2
  MaxExperiments = 2
  ServerMayDie = TRUE
  CoordinatesMayDrift = FALSE
  MaxClock = 2
  MaxSessions = 3
  MaxAttempts = 2
  MaxReruns = 1
  MaxCrashes = 1
SPECIFICATION Spec
INVARIANTS
  NextActionCanBeTaken
CHECK_DEADLOCK FALSE
