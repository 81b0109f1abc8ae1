------------------------- MODULE MCClusterMembership -------------------------
(* Two servers, whose links lose beacons in one direction, for TLC's runs. *)
EXTENDS ClusterMembership
CONSTANTS s1, s2
OneWayLossy == {<<s1, s2>>}
FirstRestarts == [s \in Server |-> IF s = s1 THEN 2 ELSE 1]
=============================================================================
