SPECIFICATION FreezeSpec
CONSTANTS
  h1 = h1
  d1 = d1
  d2 = d2
  Hotkeys <- MCHotkeys
  Digests <- MCDigests
  Foreign = Foreign
  None = None
  Nobody = Nobody
  Reveals <- MCReveals
  MaxBlock = 4
  MaxMeddles = 0
  Lead = 1
  ReadBlocks = 1
  MaxRounds = 1
INVARIANTS
  HiddenInputsAreNew
