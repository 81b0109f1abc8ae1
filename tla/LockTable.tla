------------------------------ MODULE LockTable ------------------------------
(***************************************************************************)
(* What the locking state of one file promises to its users: every byte is *)
(* either free, read by some owners or written by one, and an opener's     *)
(* access never meets what another opener denies.                          *)
(***************************************************************************)
EXTENDS Integers
CONSTANTS Opener, Owner, Byte, Bit
VARIABLES held,   \* held[o][b]: how lock owner o holds byte b
          opened  \* opened[p]: the access p has, and what it denies to others

vars == <<held, opened>>

Hold == {"none", "read", "write"}
Closed == [access |-> {}, deny |-> {}]
Conflict(h1, h2) == h1 # "none" /\ h2 # "none" /\ "write" \in {h1, h2}

Init == /\ held = [o \in Owner |-> [b \in Byte |-> "none"]]
        /\ opened = [p \in Opener |-> Closed]

\* An owner changes how it holds a range of bytes, if no other holds one of them
\* in a conflicting way.
Take(o, h, bytes) ==
  /\ \A b \in bytes, p \in Owner \ {o} : ~Conflict(h, held[p][b])
  /\ held' = [held EXCEPT ![o] = [b \in Byte |-> IF b \in bytes THEN h
                                                ELSE @[b]]]

\* An opener gains access unless somebody denies it, and denies unless somebody
\* has that access.
Open(p, access, deny) ==
  /\ \A q \in Opener : /\ access \cap opened[q].deny = {}
                       /\ deny \cap opened[q].access = {}
  /\ opened' = [opened EXCEPT ![p] = [access |-> @.access \cup access,
                                      deny |-> @.deny \cup deny]]

\* An opener gives up some of what it has.
Reduce(p, access, deny) ==
  /\ access \subseteq opened[p].access /\ deny \subseteq opened[p].deny
  /\ opened' = [opened EXCEPT ![p] = [access |-> access, deny |-> deny]]

Next == \/ /\ UNCHANGED opened
           /\ \E o \in Owner, h \in Hold, first, last \in Byte :
                Take(o, h, first..last)
        \/ /\ UNCHANGED held
           /\ \E p \in Opener, access, deny \in SUBSET Bit :
                Open(p, access, deny) \/ Reduce(p, access, deny)

Spec == Init /\ [][Next]_vars
=============================================================================
