SPECIFICATION Spec
CONSTANTS
  a1 = a1
  a2 = a2
  public = public
  hidden = hidden
  NoPatch = NoPatch
  Artifacts <- MCArtifacts
  Tasks <- MCTasks
  Hidden <- MCHidden
  DigestOrder <- MCDigestOrder
  PlanOrder <- MCPlanOrder
  Scores <- MCScores
  MaxRounds = 2
INVARIANTS
  TypeOK
  StandingsMatchVerdicts
  PublishedPatchIsBest
  RecordsAddUp
PROPERTIES
  VoidIsNobodysPenalty
CHECK_DEADLOCK FALSE
