CONSTANTS
  NoValue = NoValue
  Metrics <- OneMetric
  RequiredSamples = 3
  MaxVariation = 2
  Tasks <- MCTasks
  Baselines <- MCBaselines
  Candidates <- MCCandidates
  MaxReruns = 1
  Subjects <- MCSubjects
  Quotas <- MCQuotas
  Refused = Refused
  Unknown = Unknown
  EngineArity <- MCEngineArity
INIT VerdictsInit
NEXT VerdictsNext
INVARIANTS
  AcceptedIsSound
  RejectionIsJust
  CandidateRerunCanDecide
  QualityEvidenceIsUnderstood
  TechniquesAreJudgedRight
  EvidenceIsOfTheApproved
  CoordinatesAreLocked
CHECK_DEADLOCK FALSE
