SPECIFICATION RSpec
CONSTANTS
  c1 = c1
  c2 = c2
  a1 = a1
  a2 = a2
  t1 = t1
  t2 = t2
  Idle = Idle
  Callers <- MCCallers
  Estimates <- MCEstimates
  MaxEstimate = 1
  Budget = 2
  MaxUsage = 3
  Slack = 1
  Assignments <- MCAssignments
  Oversized = {}
  Metered = 1
  MaxSecond = 1
  Nothing = Nothing
INVARIANTS
  OverspendBounded
  CreditedWithOwnPatch
PROPERTIES
  ProductionEnds
CHECK_DEADLOCK FALSE
