SPECIFICATION Spec
CONSTANTS
  Threads = {t1, t2, t3}
  Values = {v1, v2}
  Nodes = {n1, n2}
  NULL = NULL
  Spurious = TRUE
  Unblocks = TRUE
INVARIANTS
  TypeOK ListSound NoLeak NoLostWakeup
PROPERTIES
  IsFifo ItemsReachSleepers
