SPECIFICATION FairSpec
CONSTANTS
  d1 = d1
  d2 = d2
  Drivers <- TwoDrivers
  Targets <- TwoExperiments
  Tasks <- AllTasks
  MaxExperiments = 2
  MaxCompletions = 30
  MaxDeeper = 1
  MaxProfileFailures = 1
  MaxSamples = 3
  MaxDisturbances = 1
INVARIANTS
  VerdictIsEarned
  ProfilesAreAsApproved
  WorkflowIsSound
PROPERTIES
  WorkflowFollowsEngine
  ExperimentIsJudged
CHECK_DEADLOCK FALSE
