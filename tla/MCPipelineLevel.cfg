SPECIFICATION Spec
CONSTANTS
  p1 = p1
  p2 = p2
  NoArtifact = NoArtifact
  NoPair = NoPair
  Candidates <- MCCandidates
  CandidatePatches <- MCPatches
  Tasks <- SoundTasks
  sign_agreement_reruns = 1
  MaxNoise = 1
INVARIANTS
  LevelDependentPatchFails
CHECK_DEADLOCK FALSE
