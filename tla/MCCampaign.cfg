CONSTANTS
  k1 = k1
  k2 = k2
  Nobody = Nobody
  Controllers <- TwoControllers
  StrategyOrder <- ShapesThenMixed
  Plan <- ThreeCandidates
  Findings <- SomeFindings
  MaxCrashes = 1
SPECIFICATION FairSpec
INVARIANTS
  CampaignIsSound
  BreakdownFollowsRecord
PROPERTIES
  ImplementsTournament
  CampaignCompletes
CHECK_DEADLOCK FALSE
