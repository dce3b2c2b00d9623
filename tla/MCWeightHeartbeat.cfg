SPECIFICATION FairSpec
CONSTANTS
  Outcomes <- AllOutcomes
  NoVector = NoVector
  MaxRounds = 2
  MaxKills = 1
INVARIANTS
  OnlyAcceptedIsReasserted
  NoLaneIsDropped
PROPERTIES
  KillForgetsOnlyUnsaved
  StaysInConsensus
  RememberedVectorReturns
CHECK_DEADLOCK FALSE
