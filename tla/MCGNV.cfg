CONSTANTS
  Handle = {h1, h2}
  Addr = {a1, a2}
  NoAddr = NoAddr
  MaxUses = 2
  MaxRefs = 1
  GcNumValues = 0
SPECIFICATION FairSpec
INVARIANTS TypeOK HandleSound NeverAnotherObject NoUseAfterClose RemovedOnce
PROPERTIES DestroyIsCarriedOut
CHECK_DEADLOCK FALSE
