CONSTANTS
  c1 = c1
  c2 = c2
  q1 = q1
  Callers <- TwoCallers
  Requests <- OneRequest
  MaxAttempts = 3
  MaxDisturbances = 2
  Free = Free
  NoRequest = NoRequest
SPECIFICATION FairSpec
INVARIANTS
  AttemptsAreSound
  EvaluationsAreExclusive
PROPERTIES
  ImplementsLedger
  EveryAttemptEnds
CHECK_DEADLOCK FALSE
