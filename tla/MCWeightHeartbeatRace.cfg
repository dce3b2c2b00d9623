SPECIFICATION Spec
CONSTANTS
  Outcomes <- ConfirmedOutcomes
  NoVector = NoVector
  MaxRounds = 2
  MaxKills = 0
PROPERTY HeartbeatReassertsLastCommit
CHECK_DEADLOCK FALSE
