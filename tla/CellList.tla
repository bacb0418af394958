------------------------------ MODULE CellList ------------------------------
(***************************************************************************)
(* What a page of the store promises the B-tree that uses it: an ordered   *)
(* list of cells.  A cell is put at a position, overwritten where it       *)
(* stands, taken out of a position, or the whole list is emptied; no       *)
(* operation touches a cell it was not asked to touch.                     *)
(* SlottedPage.tla is the byte layout that implements this list.           *)
(***************************************************************************)
EXTENDS Integers, Sequences, SequencesExt

CONSTANT Cell

VARIABLE cells

Init == cells = << >>

(* A cell enters at the 0-based position idx.                              *)
Insert(c, idx) ==
    /\ idx \in 0..Len(cells)
    /\ cells' = InsertAt(cells, idx + 1, c)

(* The cell at idx is replaced, the others keep their place and value.     *)
Overwrite(c, idx) ==
    /\ idx \in 0..(Len(cells) - 1)
    /\ cells' = [cells EXCEPT ![idx + 1] = c]

Delete(idx) ==
    /\ idx \in 0..(Len(cells) - 1)
    /\ cells' = RemoveAt(cells, idx + 1)

Empty == cells' = << >>

Next ==
    \/ \E c \in Cell, idx \in 0..Len(cells) : Insert(c, idx) \/ Overwrite(c, idx)
    \/ \E idx \in 0..Len(cells) : Delete(idx)
    \/ Empty

Spec == Init /\ [][Next]_cells
=============================================================================
