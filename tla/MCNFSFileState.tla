--------------------------- MODULE MCNFSFileState ---------------------------
(* Named ids, and their symmetry, for TLC's run of NFSFileState. *)
EXTENDS NFSFileState, TLC
CONSTANTS o1, o2, k1, k2

Alike == Permutations({o1, o2}) \cup Permutations({k1, k2})
=============================================================================
