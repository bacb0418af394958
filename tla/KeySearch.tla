----------------------------- MODULE KeySearch ------------------------------
(***************************************************************************)
(* What the binary search over the cells of a page returns                 *)
(* (sqlgo_page_binary_search in ops.c), for modules that search a page in  *)
(* one step.  PageSearch checks that it is what the loop computes.         *)
(***************************************************************************)
EXTENDS Integers, Sequences

(* The bounds of the loop, 0-based: what is left of the page to search.    *)
Bounds(ks) == (0..Len(ks)) \X (-1..(Len(ks) - 1))

(* Mutation: the loop ends one cell early.                                 *)
SearchShort(ks, k) ==
    LET loop[b \in Bounds(ks)] ==
            LET mid == (b[1] + b[2]) \div 2
            IN  IF b[1] >= b[2] THEN [idx |-> b[1], found |-> FALSE]
                ELSE IF k = ks[mid + 1] THEN [idx |-> mid, found |-> TRUE]
                ELSE IF k < ks[mid + 1] THEN loop[<<b[1], mid - 1>>]
                ELSE loop[<<mid + 1, b[2]>>]
    IN  loop[<<0, Len(ks) - 1>>]

(* What the search returns: the index and whether the key is there.        *)
Search(ks, k) ==
    LET loop[b \in Bounds(ks)] ==
            LET mid == (b[1] + b[2]) \div 2
            IN  IF b[1] > b[2] THEN [idx |-> b[1], found |-> FALSE]
                ELSE IF k = ks[mid + 1] THEN [idx |-> mid, found |-> TRUE]
                ELSE IF k < ks[mid + 1] THEN loop[<<b[1], mid - 1>>]
                ELSE loop[<<mid + 1, b[2]>>]
    IN  loop[<<0, Len(ks) - 1>>]
=============================================================================
