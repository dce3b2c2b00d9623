SPECIFICATION FreezeSpec
CONSTANTS
  h1 = h1
  d1 = d1
  d2 = d2
  Hotkeys <- MCHotkeys
  Digests <- MCDigests
  Foreign = Foreign
  None = None
  Nobody = Nobody
  Reveals <- MCReveals
  MaxBlock = 1
  MaxMeddles = 2
  Lead = 1
  ReadBlocks = 1
  MaxRounds = 0
PROPERTIES
  CommitmentIsKeptAlive
