CONSTANTS
  d1 = d1
  d2 = d2
  Drivers <- OneDriver
  Budget = 2
  MaxExperiments = 2
  ServerMayDie = FALSE
  CoordinatesMayDrift = FALSE
  MaxClock = 3
  MaxSessions = 4
  MaxAttempts = 2
  MaxReruns = 1
  MaxCrashes = 1
SPECIFICATION FairSpec
INVARIANTS
  RecordIsSound
  GpuIsExclusive
  EvidenceFromOneServer
  NextActionIsHonest
PROPERTIES
  BudgetEndsTask
CHECK_DEADLOCK FALSE
