CONSTANTS
  Speeds <- MCSpeeds
  MaxInputs = 2
  MaxCalls = 3
  NoFile = NoFile
  NULL = NULL
  p1 = p1
  p2 = p2
  p3 = p3
  caller = caller
  Pids <- MCPids
  Drivers <- MCDrivers
  Caller = caller
  MaxTicks = 2
  MaxForks = 2
  MaxServers = 2
  MaxDisturbances = 1
  MaxOutput = 1
  MaxInvocations = 2
  NoDocument = NoDocument
  WarmupRuns = 1
  SampleCount = 2
  MaxCallsOfPorts = 3
  MaxSwaps = 1
  Absent = Absent
  Names = {1, 2}
  Blobs = {blob}
  MaxChanges = 2
  MaxCaptures = 2
  Nothing = Nothing
INIT ToolsInit
NEXT ToolsNext
INVARIANTS
  CommandsEndClean
  DocumentIsOfThisEvaluation
  MeasurementsAreHonest
PROPERTIES
  CampaignResultsAreEarned
CHECK_DEADLOCK FALSE
SYMMETRY Symmetry
