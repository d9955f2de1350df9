SPECIFICATION FairSpec
CONSTANTS
  t1 = t1
  t2 = t2
  Tasks = {t1, t2}
  MaxReloads = 2
INVARIANTS TypeOK NoVMLeaks GoneForGood ShownIsAlive
PROPERTY LocalReloadEnds
CHECK_DEADLOCK FALSE
