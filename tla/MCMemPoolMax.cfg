CONSTANTS
  Slot = {s1, s2, s3, s4}
  Null = Null
  CountMod = 16
  ChunkBytes = 3
  FlagBytes = 1
  InitChunks = 4
  MaxChunks = 15
  Sizes = {2, 11}
  MaxBlocks = 6
SPECIFICATION Spec
INVARIANT TotalWithinMax
CHECK_DEADLOCK FALSE
