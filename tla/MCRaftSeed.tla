------------------------------ MODULE MCRaftSeed ------------------------------
(* Named servers and values for TLC's runs of RaftSeed. *)
EXTENDS RaftSeed, TLC
CONSTANTS s1, s2, s3, d1, d2

\* The servers that join the seed are alike.
Joiners == Permutations({s2, s3})
=============================================================================
