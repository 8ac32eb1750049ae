SPECIFICATION Spec
CONSTANTS
  BlockSize = 32
  PreAllocs = {0, 1}
  GivenIds = {1}
  ReuseIds = FALSE
  Sizes = {0, 32, 33}
  Chunks = {32}
  MaxBlocks = 5
  MaxStreams = 3
  MaxId = 2
INVARIANTS
  TypeOK NoSharedBlocks DiskHeaderSound NoLostBlocks IdsAscend StreamsFit
  HeaderFits CleanHeaderOnDisk UsedCountDrift HeaderIsStreamZero
