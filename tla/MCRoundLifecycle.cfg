SPECIFICATION LSpec
CONSTANTS
  a1 = a1
  a2 = a2
  parsing = parsing
  Artifacts <- MCArtifacts
  Cells <- MCCells
  Standings <- MCStandings
  NoChampion = NoChampion
  InfiniteError = InfiniteError
  Absent = Absent
  Torn = Torn
  m0 = m0
  m1 = m1
  Mechanisms <- MCMechanisms
  Margin = 4
  CellTolerance = 2
  GapFloor = 1
  GapCeiling = 25
  Warmup = 2
  StagnationRounds = 1
  DecayPerRound = 40
  DecayMinShare = 35
  DigestOrder <- MCDigestOrder
  CommittedAt <- MCCommittedAt
  MaxRounds = 3
  MaxAttempts = 3
  MaxMishaps = 2
INVARIANTS
  StateFileReadable
  CrashForgetsOneRound
  AuditMissesOnlyMishaps
  IndexLeadsToBundles
  BundleShowsAcceptedWeights
VIEW MCView
SYMMETRY MCSymmetry
PROPERTIES
  DurableReignLastsWarmup
CHECK_DEADLOCK FALSE
