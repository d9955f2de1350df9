SPECIFICATION Spec
CONSTANTS
  page1 = page1
  page2 = page2
  isolate = isolate
  Pages = {page1, page2}
  Isolates = {isolate}
  Address = {a1, a2}
  Nowhere = Nowhere
  DEBUG = TRUE
  MaxDepth = 2
  MaxRefused = 1
SYMMETRY Symmetry
INVARIANTS TypeOK ClosedAtRest RestCanBeDestroyed NeverAnotherVM
CHECK_DEADLOCK FALSE
