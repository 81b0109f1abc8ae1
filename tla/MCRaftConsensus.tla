--------------------------- MODULE MCRaftConsensus ---------------------------
(* Named servers and values for TLC's runs of RaftConsensus. *)
EXTENDS RaftConsensus
CONSTANTS s1, s2, d1, d2
=============================================================================
