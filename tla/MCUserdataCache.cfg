CONSTANTS
  Obj = {o1, o2}
  Block = {b1, b2}
  NoObj = NoObj
  CacheType = "REMOVE_CACHE"
  MayWithhold = TRUE
  MaxJavaRef = 1
  MaxRefCount = 2
SPECIFICATION Spec
SYMMETRY Symmetry
INVARIANTS TypeOK RefCountCoversBlocks ResolvesToOwner LuaCreatedResolves HeldResolves
PROPERTIES DropsOnlyUnreferenced
CHECK_DEADLOCK FALSE
