CONSTANTS
  Handle = {h1, h2}
  Addr = {a1}
  NoAddr = NoAddr
  MaxUses = 1
  MaxRefs = 1
  GcNumValues = 0
SPECIFICATION Spec
PROPERTIES DestroyReleases
CHECK_DEADLOCK FALSE
