SPECIFICATION Spec
CONSTANTS
  t1 = t1
  t2 = t2
  Tasks = {t1, t2}
  MaxReloads = 1
INVARIANT SuccessSwitches
CHECK_DEADLOCK FALSE
