----------------------------- MODULE MCWebConsole -----------------------------
(* A page or two, and small databases to start from, for TLC's run of WebConsole. *)
EXTENDS WebConsole
CONSTANTS a1, a2, Clicks1, Clicks2

LowerCase == [n \in Name |-> "a"]
MaxClicksOf == [c \in Console |-> IF c = a1 THEN Clicks1 ELSE Clicks2]
\* One group, and a user who is in it or in none.
OneGroup == {[name |-> [g \in Group |-> IF g = 1 THEN "a" ELSE NoName],
              of |-> [u \in User |-> IF u = 1 THEN g1 ELSE Absent]] : g1 \in {None, 1}}
=============================================================================
