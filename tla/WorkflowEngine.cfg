SPECIFICATION Spec
CONSTANTS
  MaxCompletions = 30
  MaxReruns = 2
INVARIANTS
  AcceptedRestsOnFreshChain
  VerdictsAreHonest
PROPERTY
  HistoryIsFinal
CHECK_DEADLOCK FALSE
