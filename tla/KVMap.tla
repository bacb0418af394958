------------------------------- MODULE KVMap --------------------------------
(***************************************************************************)
(* What the B-tree promises its callers: a map from keys to values, read   *)
(* by key or in key order.                                                 *)
(***************************************************************************)
EXTENDS Integers, Sequences, FiniteSets

CONSTANTS Key, Val

VARIABLES
    map,    \* the rows
    done,   \* the operation found its key, or had none to find
    rows    \* the rows it returned, as <<key, value>>

vars == <<map, done, rows>>

(* The rows of a map m, in key order.                                      *)
RowsOf(m) ==
    [i \in 1..Cardinality(DOMAIN m) |->
        LET k == CHOOSE x \in DOMAIN m : Cardinality({y \in DOMAIN m : y < x}) = i - 1
        IN  <<k, m[k]>>]

Init == map = << >> /\ done = TRUE /\ rows = << >>

Insert(k, v) ==
    /\ map' = [x \in DOMAIN map \union {k} |-> IF x = k THEN v ELSE map[x]]
    /\ done' = TRUE
    /\ rows' = << >>

Delete(k) ==
    /\ map' = [x \in DOMAIN map \ {k} |-> map[x]]
    /\ done' = (k \in DOMAIN map)
    /\ rows' = << >>

Get(k) ==
    /\ done' = (k \in DOMAIN map)
    /\ rows' = IF k \in DOMAIN map THEN <<<<k, map[k]>>>> ELSE << >>
    /\ UNCHANGED map

Scan ==
    /\ rows' = RowsOf(map)
    /\ done' = TRUE
    /\ UNCHANGED map

Next ==
    \/ \E k \in Key, v \in Val : Insert(k, v)
    \/ \E k \in Key : Delete(k) \/ Get(k)
    \/ Scan

Spec == Init /\ [][Next]_vars
=============================================================================
