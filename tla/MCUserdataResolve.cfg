CONSTANTS
  Obj = {o1, o2}
  Block = {b1, b2}
  NoObj = NoObj
  CacheType = "REMOVE_CACHE"
  MayWithhold = FALSE
  MaxJavaRef = 1
  MaxRefCount = 2
SPECIFICATION Spec
INVARIANTS EveryBlockResolves
CHECK_DEADLOCK FALSE
