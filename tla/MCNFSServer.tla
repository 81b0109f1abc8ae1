----------------------------- MODULE MCNFSServer -----------------------------
(* Two clients, one with two lock owners, for TLC's runs of NFSServer. *)
EXTENDS NFSServer
CONSTANTS c1, c2, l1, l2, l3, Sent1, Sent2

ReadWriteShare == {<<{"READ", "WRITE"}, {}>>}
ClientOfOwner == [l \in LockOwner |-> IF l = l1 THEN c1 ELSE c2]
MaxSentBy == [c \in Client |-> IF c = c1 THEN Sent1 ELSE Sent2]
=============================================================================
