SPECIFICATION Spec
CONSTANTS
  NoValue = NoValue
  Metrics <- OneMetric
  RequiredSamples = 3
  MaxVariation = 2
  Tasks <- MCTasks
  Baselines <- NoisyBaselines
  Candidates <- MCCandidates
  MaxReruns = 1
INVARIANT
  RerunIsRetryable
CHECK_DEADLOCK FALSE
