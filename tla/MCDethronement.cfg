SPECIFICATION Spec
CONSTANTS
  a1 = a1
  a2 = a2
  a3 = a3
  parsing = parsing
  hashing = hashing
  Artifacts <- MCArtifacts
  Cells <- MCCells
  Standings <- MCStandings
  NoChampion = NoChampion
  InfiniteError = InfiniteError
  Margin = 4
  CellTolerance = 2
  GapFloor = 1
  GapCeiling = 25
  Warmup = 3
  StagnationRounds = 1
  DecayPerRound = 40
  DecayMinShare = 35
  DigestOrder <- MCDigestOrder
  CommittedAt <- MCCommittedAt
  MaxRounds = 5
INVARIANTS
  TypeOK
  UnbrokenDominanceWins
PROPERTIES
  ReignLastsWarmup
  CrownIsEarned
  StrongestThenEarliest
  PayoutRecoversByImproving
CHECK_DEADLOCK FALSE
