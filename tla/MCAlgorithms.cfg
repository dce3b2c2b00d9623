SPECIFICATION Spec
CONSTANTS
  d1 = d1
  d2 = d2
  d3 = d3
  k1 = k1
  k2 = k2
  k3 = k3
  t1 = t1
  t2 = t2
  f1 = f1
  f2 = f2
  None = None
  Absent = Absent
  Garbled = Garbled
  Unset = Unset
  Pending = Pending
  Digests <- MCDigests
  Hotkeys <- MCHotkeys
  Owner <- MCOwner
  Order <- MCOrder
  PublicTasks <- MCPublicTasks
  HiddenTasks <- MCHiddenTasks
  Cells <- MCCells
  TopK = 2
  PublicCount = 2
  HiddenCount = 1
  Points = 100
  Events = 2
  Magnitude = 8
  Infinite = 6
  Plans <- MCPlans
  Rounds <- MCRounds
  Readings <- MCReadings
  Measurements <- MCMeasurements
  Comparisons <- MCComparisons
INVARIANTS
  SelectionIsFair
  PlanIgnoresLoadOrder
  NothingIsWithheld
  StagnationIsNotRewarded
  SurvivorsEarnByHeldOut
  ReadingIsTheWork
  UncertaintyCostsTheMiner
  AcceptanceIsBacked
CHECK_DEADLOCK FALSE
