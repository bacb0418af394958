--------------------------- MODULE MCSlottedPage ----------------------------
(* A page of a few cells of three lengths; a and b have the same length.   *)
EXTENDS SlottedPage

CONSTANTS a, b, d

MCCell == {a, b, d}
MCSize == (a :> 2) @@ (b :> 3) @@ (d :> 3)
=============================================================================
