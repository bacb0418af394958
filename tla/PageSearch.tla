----------------------------- MODULE PageSearch -----------------------------
(***************************************************************************)
(* The binary search over the cell pointers of one page                    *)
(* (sqlgo_page_binary_search in ops.c), which every descent, insertion and *)
(* deletion of the B-tree starts with.                                     *)
(*                                                                         *)
(* Keys are integers in the order of sqlgo_key_cmp.  The module has the    *)
(* loop as a state machine and compares it with KeySearch, the function    *)
(* that the B-tree modules search a page with.                             *)
(***************************************************************************)
EXTENDS KeySearch

CONSTANTS
    Key,       \* the keys, in keyCmp order
    KeyLists   \* the key lists pages hold, sorted or not

ASSUME KeysAssumption == Key \subseteq Int /\ KeyLists \subseteq Seq(Key)

VARIABLES
    keys,   \* the keys of the page, by cell pointer
    key,    \* the key looked for
    lo, hi, \* the loop's bounds, 0-based
    result  \* "none" while the loop runs, then "found" or "absent"

vars == <<keys, key, lo, hi, result>>

-----------------------------------------------------------------------------
Mid == (lo + hi) \div 2

Init ==
    /\ keys \in KeyLists
    /\ key \in Key
    /\ lo = 0
    /\ hi = Len(keys) - 1
    /\ result = "none"

Probing == result = "none" /\ lo <= hi

HitBelow ==  \* mutation: returns the index before the cell
    /\ Probing
    /\ key = keys[Mid + 1]
    /\ result' = "found"
    /\ lo' = Mid - 1
    /\ UNCHANGED <<keys, key, hi>>

HitAbove ==  \* mutation: returns the index after the cell
    /\ Probing
    /\ key = keys[Mid + 1]
    /\ result' = "found"
    /\ lo' = Mid + 1
    /\ UNCHANGED <<keys, key, hi>>

Hit ==
    /\ Probing
    /\ key = keys[Mid + 1]
    /\ result' = "found"
    /\ lo' = Mid
    /\ UNCHANGED <<keys, key, hi>>

GoFarLeft ==  \* mutation: skips a cell
    /\ Probing
    /\ key < keys[Mid + 1]
    /\ hi' = Mid - 2
    /\ UNCHANGED <<keys, key, lo, result>>

GoLeft ==
    /\ Probing
    /\ key < keys[Mid + 1]
    /\ hi' = Mid - 1
    /\ UNCHANGED <<keys, key, lo, result>>

StayRight ==  \* mutation: keeps the cell it has just compared
    /\ Probing
    /\ key > keys[Mid + 1]
    /\ lo' = Mid
    /\ UNCHANGED <<keys, key, hi, result>>

GoRight ==
    /\ Probing
    /\ key > keys[Mid + 1]
    /\ lo' = Mid + 1
    /\ UNCHANGED <<keys, key, hi, result>>

Miss ==
    /\ result = "none" /\ lo > hi
    /\ result' = "absent"
    /\ UNCHANGED <<keys, key, lo, hi>>

Next == Hit \/ GoLeft \/ GoRight \/ Miss

Spec == Init /\ [][Next]_vars

(* The loop is sequential code: it does not stop halfway.                  *)
FairSpec == Spec /\ WF_vars(Next)

-----------------------------------------------------------------------------
Sorted(ks) == \A i, j \in DOMAIN ks : i < j => ks[i] < ks[j]

TypeOK ==
    /\ keys \in Seq(Key) /\ key \in Key
    /\ lo \in Nat /\ hi \in Int
    /\ result \in {"none", "found", "absent"}

(* On a sorted page the search is exact: it finds the key if and only if   *)
(* the page has it, at its own cell, and otherwise stops at the position   *)
(* where the key has to be inserted (insertLeaf) or where the child that   *)
(* covers it hangs (search, insertInto).                                   *)
SearchExact ==
    Sorted(keys) =>
        /\ result = "found" => keys[lo + 1] = key
        /\ result = "absent" =>
             /\ \A i \in DOMAIN keys : i <= lo => keys[i] < key
             /\ \A i \in DOMAIN keys : i > lo => key < keys[i]

(* Sorted or not, the search reads only cells of the page and returns an   *)
(* index that CellPointer and InsertCellPointer accept.                    *)
SearchInBounds ==
    /\ Probing => Mid \in 0..(Len(keys) - 1)
    /\ lo \in 0..Len(keys)
    /\ result = "found" => lo < Len(keys) /\ keys[lo + 1] = key

(* The function used by BTree returns what the loop returns.               *)
SearchIsLoop ==
    result # "none" => Search(keys, key) = [idx |-> lo, found |-> result = "found"]

(* The loop ends, on an unsorted page too.                                 *)
SearchEnds == <>(result # "none")
=============================================================================
