---------------------------- MODULE SlottedPage -----------------------------
(***************************************************************************)
(* One slotted page of the store (internal/storage/pager.go, btree.go and  *)
(* the C helpers of ops.c), at the level of byte offsets.                  *)
(*                                                                         *)
(*   0        HeaderSize        FreeSpaceStart      content       PageSize *)
(*   | header | cell pointers ->|     free space    |<- cell bytes |       *)
(*                                                                         *)
(* The pointer array grows upwards, cell bytes are laid down downwards     *)
(* from the end of the page.  A cell that is removed loses its pointer but *)
(* its bytes are never reclaimed; a cell that is rewritten is laid over    *)
(* its old bytes, whatever its new length.                                 *)
(*                                                                         *)
(* A byte of the content area is either Blank or <<c, k>>: byte number k   *)
(* of the encoding of cell c.  Reading a cell back succeeds when all its   *)
(* bytes are there, in order; otherwise the program decodes something      *)
(* nobody stored, or fails: Garbage.                                       *)
(***************************************************************************)
EXTENDS Integers, Sequences, SequencesExt

CONSTANTS
    Cell,        \* the cells callers store
    Size,        \* Size[c]: length of the encoding, 8 + key + value bytes
    PageSize,    \* 4096 in the code
    HeaderSize,  \* 9: type, cell count, content offset, rightmost pointer
    PtrSize      \* 2: a cell pointer

ASSUME SizesAssumption ==
    /\ PageSize \in Nat /\ HeaderSize \in Nat \ {0} /\ PtrSize \in Nat \ {0}
    /\ HeaderSize <= PageSize
    /\ Size \in [Cell -> Nat \ {0}]

VARIABLES
    ptrs,      \* the cell pointer array: ptrs[i] is the offset of cell i
    content,   \* CellContentOffset
    mem        \* the bytes

vars == <<ptrs, content, mem>>

Offset  == 0..(PageSize - 1)
Blank   == <<"blank", 0>>
Garbage == "garbage"
Byte    == (Cell \X Nat) \union {Blank}

TypeOK ==
    /\ ptrs \in Seq(Offset)
    /\ content \in 0..PageSize
    /\ mem \in [Offset -> Byte]

-----------------------------------------------------------------------------
CellCount == Len(ptrs)

FreeSpaceStart == HeaderSize + PtrSize * CellCount

FreeSpace == IF content <= FreeSpaceStart THEN 0 ELSE content - FreeSpaceStart

AlwaysFits(c) == TRUE  \* mutation: no check for room

RoomForBytes(c) == FreeSpace >= Size[c]  \* mutation: no room for the pointer

(* Room for the bytes of c and for one more pointer; otherwise the code    *)
(* returns ErrPageFull and changes nothing.                                *)
Fits(c) == FreeSpace >= Size[c] + PtrSize

(* The bytes m after the encoding of c has been copied to offset o.        *)
Laid(m, o, c) ==
    [x \in Offset |-> IF x \in o..(o + Size[c] - 1) THEN <<c, x - o>> ELSE m[x]]

Holds(m, o, c) ==
    /\ o + Size[c] <= PageSize
    /\ \A k \in 0..(Size[c] - 1) : m[o + k] = <<c, k>>

DecodeCell(m, o) ==
    IF \E c \in Cell : Holds(m, o, c)
    THEN CHOOSE c \in Cell : Holds(m, o, c) ELSE Garbage

-----------------------------------------------------------------------------
Init ==
    /\ ptrs = << >>
    /\ content = PageSize
    /\ mem = [x \in Offset |-> Blank]

(* insertCellIntoPage: the new pointer goes after the others.              *)
InsertCell(c) ==
    /\ Fits(c)
    /\ LET newOffset == content - Size[c]
       IN  /\ mem' = Laid(mem, newOffset, c)
           /\ content' = newOffset
           /\ ptrs' = Append(ptrs, newOffset)

(* insertCellIntoPageAt: the pointers from idx on are shifted up by one.   *)
InsertCellAt(c, idx) ==
    /\ Fits(c)
    /\ LET newOffset == content - Size[c]
       IN  /\ mem' = Laid(mem, newOffset, c)
           /\ content' = newOffset
           /\ ptrs' = InsertAt(ptrs, idx + 1, newOffset)

(* rewriteCell: the only check is that the cell does not leave the page.   *)
RewriteCell(c, idx) ==
    /\ ptrs[idx + 1] + Size[c] <= PageSize
    /\ mem' = Laid(mem, ptrs[idx + 1], c)
    /\ UNCHANGED <<ptrs, content>>

(* Mutation: the shift loop ends one pointer early.                        *)
RemoveShortShift(idx) ==
    /\ ptrs' = [i \in 1..(CellCount - 1) |->
                  IF i <= idx \/ i = CellCount - 1 THEN ptrs[i] ELSE ptrs[i + 1]]
    /\ UNCHANGED <<content, mem>>

(* removeCellAt: the pointers after idx are shifted down by one.           *)
RemoveCellAt(idx) ==
    /\ ptrs' = RemoveAt(ptrs, idx + 1)
    /\ UNCHANGED <<content, mem>>

ClearBytes ==  \* mutation: the bytes are cleared, the cell count is not reset
    /\ content' = PageSize
    /\ mem' = [x \in Offset |-> Blank]
    /\ UNCHANGED ptrs

ClearPage ==
    /\ ptrs' = << >>
    /\ content' = PageSize
    /\ mem' = [x \in Offset |-> Blank]

Live == 0..(CellCount - 1)

(* The new cell is no longer than the one it replaces: a child pointer of  *)
(* an internal cell, a row of fixed-width columns.                         *)
InPlace(c, idx) ==
    \E old \in Cell : Holds(mem, ptrs[idx + 1], old) /\ Size[c] <= Size[old]

Update(c, idx) == InPlace(c, idx) /\ RewriteCell(c, idx)

InPlaceNext ==
    \/ \E c \in Cell : InsertCell(c)
    \/ \E c \in Cell, idx \in 0..CellCount : InsertCellAt(c, idx)
    \/ \E c \in Cell, idx \in Live : Update(c, idx)
    \/ \E idx \in Live : RemoveCellAt(idx)
    \/ ClearPage

Next ==
    \/ \E c \in Cell : InsertCell(c)
    \/ \E c \in Cell, idx \in 0..CellCount : InsertCellAt(c, idx)
    \/ \E c \in Cell, idx \in Live : RewriteCell(c, idx)
    \/ \E idx \in Live : RemoveCellAt(idx)
    \/ ClearPage

(* What the B-tree may do to a page: rewrites of any length.               *)
Spec == Init /\ [][Next]_vars

(* The same page when no rewrite is longer than the cell it replaces.      *)
InPlaceSpec == Init /\ [][InPlaceNext]_vars

-----------------------------------------------------------------------------
(* The two arrays never collide, and no pointer leads above the last byte  *)
(* or below the content offset, into free space, the pointer array or the  *)
(* header (FreeSpace, insertCellIntoPage, removeCellAt): true whatever the *)
(* callers insert, rewrite and remove, although removed bytes stay.        *)
PointersBelowCells ==
    /\ FreeSpaceStart <= content
    /\ content <= PageSize
    /\ \A i \in DOMAIN ptrs : ptrs[i] \in content..(PageSize - 1)

(* No two cells share an offset, and each pointer leads to the complete    *)
(* bytes of some cell.  Since a byte belongs to one cell, no two cells     *)
(* overlap.  It needs rewrites to be in place: rewriteCell checks the end  *)
(* of the page and not the start of the next cell.                         *)
CellsIntact ==
    /\ \A i, j \in DOMAIN ptrs : ptrs[i] = ptrs[j] => i = j
    /\ \A i \in DOMAIN ptrs : \E c \in Cell : Holds(mem, ptrs[i], c)

(* The list of cells a reader of the page sees (collectCells).             *)
Cells == [i \in DOMAIN ptrs |-> DecodeCell(mem, ptrs[i])]

(* Under in-place rewrites the page is a list of cells: removing,          *)
(* inserting or rewriting one cell leaves every other cell as it was.      *)
List == INSTANCE CellList WITH cells <- Cells

IsCellList == List!Spec
=============================================================================
