SPECIFICATION Spec
CONSTANTS
  Streams = {s1}
  Handles = {h1}
  BlockSize = 2
  MaxBlocks = 3
  MaxSize = 4
  Bytes = {x}
  Old = Old
  ANY = ANY
  NONE = NONE
  StaleCuts = FALSE
  Gaps = TRUE
SYMMETRY AllPermutations
INVARIANT
  ReadsBack
