SPECIFICATION Spec
CONSTANTS
  BlockSize = 32
  PreAllocs = {0, 1}
  GivenIds = {1}
  ReuseIds = TRUE
  Sizes = {0, 33}
  Chunks = {32}
  MaxBlocks = 5
  MaxStreams = 4
  MaxId = 2
INVARIANTS
  IdsAscend
