SPECIFICATION FairSpec
CONSTANTS
  p1 = p1
  p2 = p2
  NoArtifact = NoArtifact
  NoPair = NoPair
  Candidates <- MCCandidates
  CandidatePatches <- MCPatches
  Tasks <- MCTasks
  sign_agreement_reruns = 1
  MaxNoise = 1
INVARIANTS
  ContradictionIsNotScored
PROPERTIES
  Attributed
  EveryPairSettles
CHECK_DEADLOCK FALSE
