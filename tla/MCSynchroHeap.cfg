SPECIFICATION Spec
CONSTANTS
  Threads = {t1, t2, t3}
  Items = {i1, i2}
  NONE = NONE
  Spurious = TRUE
INVARIANTS
  TypeOK LocksMatch
PROPERTIES
  LocksAreGot TimedComesBack
CHECK_DEADLOCK FALSE
