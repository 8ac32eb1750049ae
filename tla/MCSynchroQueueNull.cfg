SPECIFICATION Spec
CONSTANTS
  Threads = {t1, t2}
  Values = {v1}
  Nodes = {n1, n2}
  NULL = NULL
  Spurious = FALSE
  Unblocks = FALSE
PROPERTY
  BlockingNeverNull
