---------------------------- MODULE ReplicatedLog ----------------------------
(***************************************************************************)
(* What stolaxy's consensus code promises a cluster with one seed: a       *)
(* primary server grows a log, every other server holds a prefix of it,    *)
(* and no server counts an entry as committed before a quorum, as the      *)
(* primary's log defines quorums, holds it.                                *)
(***************************************************************************)
EXTENDS Integers, Sequences

CONSTANTS Server, Primary,
          IsQuorum(_, _)   \* IsQuorum(Q, log): Q is a quorum under log

VARIABLES log,     \* the log of each server
          commit   \* how much of it each server knows to be committed
logVars == <<log, commit>>

IsPrefixOf(short, long) ==
  /\ Len(short) <= Len(long)
  /\ \A i \in DOMAIN short : short[i] = long[i]

Holds(p, n) == IsPrefixOf(SubSeq(log[Primary], 1, n), log[p])

Init ==
  /\ log = [s \in Server |-> <<>>]
  /\ commit = [s \in Server |-> 0]

\* The primary appends, or commits what a quorum holds, or both.
Lead ==
  /\ IsPrefixOf(log[Primary], log'[Primary])
  /\ commit'[Primary] >= commit[Primary]
  /\ commit'[Primary] > commit[Primary] =>
       IsQuorum({p \in Server : Holds(p, commit'[Primary])}, log[Primary])
  /\ \A p \in Server \ {Primary} :
       log'[p] = log[p] /\ commit'[p] = commit[p]

\* Another server copies more of the primary's log, learns of commits, or both.
Follow(p) ==
  /\ IsPrefixOf(log[p], log'[p]) /\ IsPrefixOf(log'[p], log[Primary])
  /\ commit'[p] \in commit[p] .. commit[Primary]
  /\ commit'[p] <= Len(log'[p])
  /\ \A q \in Server \ {p} : log'[q] = log[q] /\ commit'[q] = commit[q]

Next == Lead \/ \E p \in Server \ {Primary} : Follow(p)

Spec == Init /\ [][Next]_logVars
=============================================================================
