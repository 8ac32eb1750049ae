SPECIFICATION Spec
CONSTANTS
  Threads = {t1, t2}
  Items = {i1}
  NONE = NONE
  Spurious = FALSE
PROPERTY
  ItemsReachWaiters
CHECK_DEADLOCK FALSE
