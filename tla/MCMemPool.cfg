CONSTANTS
  Slot = {s1, s2, s3}
  Null = Null
  CountMod = 16
  ChunkBytes = 3
  FlagBytes = 1
  InitChunks = 4
  MaxChunks = 15
  Sizes = {2, 3, 8, 14}
  MaxBlocks = 2
SPECIFICATION Spec
SYMMETRY Symmetry
INVARIANTS TypeOK Tiled Coalesced BumpIsFree EachItsOwnRun UseCountsAddUp ShrinkingSucceeds
PROPERTY ImplementsAllocator
CHECK_DEADLOCK FALSE
