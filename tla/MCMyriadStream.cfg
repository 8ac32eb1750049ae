SPECIFICATION Spec
CONSTANTS
  Streams = {s1, s2}
  Handles = {h1, h2}
  BlockSize = 2
  MaxBlocks = 2
  MaxSize = 3
  Bytes = {x, y}
  Old = Old
  ANY = ANY
  NONE = NONE
  StaleCuts = FALSE
  Gaps = FALSE
SYMMETRY AllPermutations
INVARIANTS
  TypeOK ReadsBack ActiveBlocksMatch SyncReachesStore
