--------------------------- MODULE MCMyriadStream ---------------------------
(* Small instances of MyriadStream for TLC. *)
EXTENDS MyriadStream, TLC

(* The bytes are interchangeable, and so are the streams and the handles. *)
AllPermutations ==
  Permutations(Streams) \cup Permutations(Handles) \cup Permutations(Bytes)
=============================================================================
