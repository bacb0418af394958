------------------------------ MODULE MCBTree -------------------------------
(* Keys 1..MaxKey.  Before a run starts the even keys up to 2n, for some n *)
(* of Lengths, have been inserted: in ascending order, which splits the    *)
(* last leaf again and again; in descending order, which splits the first; *)
(* or every other one and then those between, which fills the leaves in    *)
(* the middle.                                                             *)
EXTENDS BTree

CONSTANTS MaxKey, Lengths

MCKey == 1..MaxKey

Ascending(n)  == [i \in 1..n |-> 2 * i]
Descending(n) == Reverse(Ascending(n))
Filled(n)     == [i \in 1..n |-> IF i <= n \div 2 THEN 4 * i ELSE 4 * (i - n \div 2) - 2]

MCLoads == UNION {{Ascending(n), Descending(n), Filled(n)} : n \in Lengths}
=============================================================================
