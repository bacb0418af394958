-------------------------- MODULE SlottedPageProofs --------------------------
(***************************************************************************)
(* The layout of a page is safe for every page size, every cell length and *)
(* every sequence of operations; the cells themselves are safe as long as  *)
(* rewrites are in place.                                                  *)
(***************************************************************************)
EXTENDS SlottedPage, ListLemmas

Layout == TypeOK /\ PointersBelowCells

LEMMA SizeFacts ==
    /\ PageSize \in Nat /\ HeaderSize \in Nat /\ PtrSize \in Nat
    /\ HeaderSize >= 1 /\ HeaderSize <= PageSize
    /\ \A c \in Cell : Size[c] \in Nat /\ Size[c] >= 1
  BY SizesAssumption

(* One more pointer takes PtrSize more bytes, one less frees as many.      *)
LEMMA PointerArea ==
    ASSUME NEW n \in Nat
    PROVE  /\ PtrSize * n \in Nat
           /\ PtrSize * (n + 1) = PtrSize * n + PtrSize
           /\ n >= 1 => PtrSize * (n - 1) = PtrSize * n - PtrSize
<1>1. PtrSize \in Nat
  BY SizeFacts
<1>2. ASSUME NEW p \in Nat
      PROVE  /\ p * n \in Nat
             /\ p * (n + 1) = p * n + p
             /\ p * (n - 1) = p * n - p
  BY SMT
<1> QED BY <1>1, <1>2

(* Copying an encoding changes the bytes it covers and no other byte.      *)
LEMMA LaidProperties ==
    ASSUME NEW m \in [Offset -> Byte], NEW c \in Cell, NEW o \in Nat,
           o + Size[c] <= PageSize
    PROVE  /\ Laid(m, o, c) \in [Offset -> Byte]
           /\ \A k \in 0..(Size[c] - 1) : Laid(m, o, c)[o + k] = <<c, k>>
           /\ \A x \in Offset : x < o \/ x >= o + Size[c] => Laid(m, o, c)[x] = m[x]
<1>1. Laid(m, o, c) \in [Offset -> Byte]
  <2>1. ASSUME NEW x \in Offset
        PROVE  (IF x \in o..(o + Size[c] - 1) THEN <<c, x - o>> ELSE m[x]) \in Byte
    <3>1. CASE x \in o..(o + Size[c] - 1)
      <4>1. x - o \in Nat
        BY <3>1, SizeFacts DEF Offset
      <4> QED BY <3>1, <4>1 DEF Byte
    <3>2. CASE x \notin o..(o + Size[c] - 1)
      BY <3>2
    <3> QED BY <3>1, <3>2
  <2> QED BY <2>1 DEF Laid
<1>2. ASSUME NEW k \in 0..(Size[c] - 1)
      PROVE  Laid(m, o, c)[o + k] = <<c, k>>
  <2>1. /\ o + k \in Offset /\ o + k \in o..(o + Size[c] - 1)
        /\ (o + k) - o = k
    BY SizeFacts DEF Offset
  <2> QED BY <2>1 DEF Laid
<1>3. ASSUME NEW x \in Offset, x < o \/ x >= o + Size[c]
      PROVE  Laid(m, o, c)[x] = m[x]
  <2>1. x \notin o..(o + Size[c] - 1)
    BY <1>3, SizeFacts DEF Offset
  <2> QED BY <2>1 DEF Laid
<1> QED BY <1>1, <1>2, <1>3

(* What a cell that fits does to the offsets: it lies between the pointer  *)
(* array with one more entry and the cells that were there before.         *)
LEMMA FitsProperties ==
    ASSUME Layout, NEW c \in Cell, Fits(c)
    PROVE  /\ CellCount \in Nat
           /\ content - Size[c] \in Offset
           /\ content - Size[c] + Size[c] = content
           /\ content - Size[c] >= HeaderSize + PtrSize * (CellCount + 1)
           /\ content - Size[c] < content
<1>1. CellCount \in Nat
  BY LenProperties DEF Layout, TypeOK, CellCount
<1>2. /\ PtrSize * CellCount \in Nat
      /\ PtrSize * (CellCount + 1) = PtrSize * CellCount + PtrSize
  BY <1>1, PointerArea
<1>3. content \in Nat /\ content <= PageSize /\ FreeSpaceStart <= content
  BY SizeFacts DEF Layout, TypeOK, PointersBelowCells
<1>4. content - FreeSpaceStart >= Size[c] + PtrSize
  BY <1>2, <1>3, SizeFacts DEF Fits, FreeSpace, FreeSpaceStart
<1> HIDE DEF CellCount
<1> QED BY <1>1, <1>2, <1>3, <1>4, SizeFacts DEF FreeSpaceStart, Offset

-----------------------------------------------------------------------------
LEMMA LayoutInit == Init => Layout
<1> SUFFICES ASSUME Init PROVE Layout
  OBVIOUS
<1>1. ptrs \in Seq(Offset) /\ Len(ptrs) = 0
  BY EmptySeq DEF Init
<1>2. FreeSpaceStart = HeaderSize
  BY <1>1, PointerArea, SizeFacts DEF FreeSpaceStart, CellCount
<1>3. mem \in [Offset -> Byte]
  BY DEF Init, Byte
<1>4. content \in 0..PageSize
  BY SizeFacts DEF Init
<1> QED BY <1>1, <1>2, <1>3, <1>4, SizeFacts
        DEF Layout, TypeOK, PointersBelowCells, Init

(* Both insertions, by the position the new pointer gets.                  *)
InsertedAt(c, i) ==
    /\ Fits(c)
    /\ i \in 1..(CellCount + 1)
    /\ ptrs' = InsertAt(ptrs, i, content - Size[c])
    /\ content' = content - Size[c]
    /\ mem' = Laid(mem, content - Size[c], c)

LEMMA LayoutInsert ==
    ASSUME Layout, NEW c \in Cell, NEW i, InsertedAt(c, i)
    PROVE  Layout'
<1> DEFINE new == content - Size[c]
<1>1. /\ CellCount \in Nat /\ new \in Offset /\ new + Size[c] = content
      /\ new >= HeaderSize + PtrSize * (CellCount + 1)
      /\ new < content
  BY FitsProperties DEF InsertedAt
<1>2. ptrs \in Seq(Offset) /\ content \in 0..PageSize /\ mem \in [Offset -> Byte]
  BY DEF Layout, TypeOK
<1>3. /\ ptrs' \in Seq(Offset) /\ Len(ptrs') = Len(ptrs) + 1
      /\ \A j \in 1..(Len(ptrs) + 1) :
           ptrs'[j] = IF j < i THEN ptrs[j] ELSE IF j = i THEN new ELSE ptrs[j - 1]
  <2>1. i \in 1..(Len(ptrs) + 1) /\ ptrs' = InsertAt(ptrs, i, new)
    BY DEF InsertedAt, CellCount
  <2> HIDE DEF new
  <2>2. ptrs' \in Seq(Offset) /\ ShiftedIn(ptrs', ptrs, i, new)
    BY <1>1, <1>2, <2>1, InsertAtProperties
  <2> QED BY <2>2 DEF ShiftedIn
<1>4. mem' \in [Offset -> Byte]
  BY <1>1, <1>2, LaidProperties, SizeFacts DEF Offset, InsertedAt
<1>5. content' = new /\ content' \in 0..PageSize
  BY <1>1, <1>2, SizeFacts DEF InsertedAt
<1>6. FreeSpaceStart' = HeaderSize + PtrSize * (CellCount + 1)
  BY <1>3, SizeFacts DEF FreeSpaceStart, CellCount
<1>7. ASSUME NEW j \in DOMAIN ptrs'
      PROVE  ptrs'[j] \in content'..(PageSize - 1)
  <2>1. j \in 1..(Len(ptrs) + 1)
    BY <1>3, LenProperties
  <2>2. \A k \in 1..Len(ptrs) : ptrs[k] \in content..(PageSize - 1)
    BY <1>2, LenProperties DEF Layout, PointersBelowCells
  <2>3. Len(ptrs) \in Nat /\ i \in 1..(Len(ptrs) + 1)
    BY <1>1 DEF InsertedAt, CellCount
  <2>4. CASE j < i
    <3>1. j \in 1..Len(ptrs) /\ ptrs'[j] = ptrs[j]
      BY <1>3, <2>1, <2>3, <2>4 DEF CellCount
    <3> QED BY <3>1, <2>2, <1>1, <1>2, <1>5, SizeFacts DEF Offset
  <2>5. CASE j = i
    <3>1. ptrs'[j] = new
      BY <1>3, <2>1, <2>3, <2>5
    <3> QED BY <3>1, <1>1, <1>2, <1>5, SizeFacts DEF Offset
  <2>6. CASE j > i
    <3>1. j - 1 \in 1..Len(ptrs) /\ ptrs'[j] = ptrs[j - 1]
      BY <1>3, <2>1, <2>3, <2>6 DEF CellCount
    <3> QED BY <3>1, <2>2, <1>1, <1>2, <1>5, SizeFacts DEF Offset
  <2> QED BY <2>1, <2>3, <2>4, <2>5, <2>6
<1> QED BY <1>1, <1>3, <1>4, <1>5, <1>6, <1>7, SizeFacts
        DEF Layout, TypeOK, PointersBelowCells

(* insertCellIntoPage is the insertion after the last pointer.             *)
LEMMA AppendIsInsertAt ==
    ASSUME NEW S, NEW s \in Seq(S), NEW e \in S
    PROVE  Append(s, e) = InsertAt(s, Len(s) + 1, e)
<1> DEFINE t == InsertAt(s, Len(s) + 1, e)
<1>1. Len(s) \in Nat /\ Len(s) + 1 \in 1..(Len(s) + 1)
  BY LenProperties
<1>2. /\ t \in Seq(S) /\ Len(t) = Len(s) + 1
      /\ \A j \in 1..(Len(s) + 1) :
           t[j] = IF j < Len(s) + 1 THEN s[j] ELSE IF j = Len(s) + 1 THEN e ELSE s[j - 1]
  <2>1. t \in Seq(S) /\ ShiftedIn(t, s, Len(s) + 1, e)
    BY <1>1, InsertAtProperties
  <2> HIDE DEF t
  <2> QED BY <2>1 DEF ShiftedIn
<1> DEFINE u == Append(s, e)
<1>3. /\ u \in Seq(S) /\ Len(u) = Len(s) + 1
      /\ \A j \in 1..Len(s) : u[j] = s[j]
      /\ u[Len(s) + 1] = e
  BY <1>1
<1> HIDE DEF t, u
<1>4. \A j \in 1..Len(t) : t[j] = u[j]
  BY <1>1, <1>2, <1>3
<1>5. t = u
  BY <1>2, <1>3, <1>4, SeqEqual
<1> QED BY <1>5 DEF t, u

LEMMA LayoutInsertCell ==
    ASSUME Layout, NEW c \in Cell, InsertCell(c) PROVE Layout'
<1>1. Fits(c) /\ CellCount \in Nat /\ content - Size[c] \in Offset
  BY FitsProperties DEF InsertCell
<1>2. ptrs' = InsertAt(ptrs, CellCount + 1, content - Size[c])
  BY <1>1, AppendIsInsertAt DEF InsertCell, Layout, TypeOK, CellCount
<1>3. InsertedAt(c, CellCount + 1)
  BY <1>1, <1>2 DEF InsertedAt, InsertCell
<1> QED BY <1>3, LayoutInsert

LEMMA LayoutInsertCellAt ==
    ASSUME Layout, NEW c \in Cell, NEW idx \in 0..CellCount, InsertCellAt(c, idx)
    PROVE  Layout'
<1>1. Fits(c) /\ CellCount \in Nat
  BY FitsProperties DEF InsertCellAt
<1>2. idx + 1 \in 1..(CellCount + 1)
  BY <1>1
<1>3. InsertedAt(c, idx + 1)
  BY <1>1, <1>2 DEF InsertedAt, InsertCellAt
<1> QED BY <1>3, LayoutInsert

LEMMA LayoutRewriteCell ==
    ASSUME Layout, NEW c \in Cell, NEW idx \in Live, RewriteCell(c, idx)
    PROVE  Layout'
<1>1. ptrs \in Seq(Offset) /\ mem \in [Offset -> Byte] /\ CellCount \in Nat
  BY LenProperties DEF Layout, TypeOK, CellCount
<1>2. idx + 1 \in 1..Len(ptrs)
  BY <1>1 DEF Live, CellCount
<1>3. ptrs[idx + 1] \in Nat
  BY <1>1, <1>2, ElementOfSeq, SizeFacts DEF Offset
<1>4. mem' \in [Offset -> Byte]
  BY <1>1, <1>3, LaidProperties DEF RewriteCell
<1> QED BY <1>4 DEF Layout, TypeOK, PointersBelowCells, RewriteCell,
                    FreeSpaceStart, CellCount

LEMMA LayoutRemoveCellAt ==
    ASSUME Layout, NEW idx \in Live, RemoveCellAt(idx) PROVE Layout'
<1>1. ptrs \in Seq(Offset) /\ CellCount \in Nat
  BY LenProperties DEF Layout, TypeOK, CellCount
<1>2. idx + 1 \in 1..Len(ptrs)
  BY <1>1 DEF Live, CellCount
<1>3. /\ ptrs' \in Seq(Offset) /\ Len(ptrs') = Len(ptrs) - 1
      /\ \A j \in 1..(Len(ptrs) - 1) :
           ptrs'[j] = IF j < idx + 1 THEN ptrs[j] ELSE ptrs[j + 1]
  <2>1. ptrs' \in Seq(Offset) /\ ShiftedOut(ptrs', ptrs, idx + 1)
    BY <1>1, <1>2, RemoveAtProperties DEF RemoveCellAt
  <2> QED BY <2>1 DEF ShiftedOut
<1>4. UNCHANGED <<content, mem>>
  BY DEF RemoveCellAt
<1>5. FreeSpaceStart' <= content'
  <2>1. /\ PtrSize * (CellCount - 1) = PtrSize * CellCount - PtrSize
        /\ PtrSize * CellCount \in Nat
    BY <1>1, <1>2, PointerArea DEF CellCount
  <2>2. FreeSpaceStart' = HeaderSize + PtrSize * (CellCount - 1)
    BY <1>3, SizeFacts DEF FreeSpaceStart, CellCount
  <2>3. FreeSpaceStart <= content /\ content \in Nat
    BY SizeFacts DEF Layout, TypeOK, PointersBelowCells
  <2> QED BY <1>4, <2>1, <2>2, <2>3, SizeFacts DEF FreeSpaceStart
<1>6. ASSUME NEW j \in DOMAIN ptrs'
      PROVE  ptrs'[j] \in content'..(PageSize - 1)
  <2>1. j \in 1..(Len(ptrs) - 1)
    BY <1>3, LenProperties
  <2>2. \A k \in 1..Len(ptrs) : ptrs[k] \in content..(PageSize - 1)
    BY <1>1, LenProperties DEF Layout, PointersBelowCells
  <2>3. j \in 1..Len(ptrs) /\ j + 1 \in 1..Len(ptrs)
    BY <2>1, <1>1 DEF CellCount
  <2> QED BY <1>3, <1>4, <2>1, <2>2, <2>3
<1> QED BY <1>3, <1>4, <1>5, <1>6 DEF Layout, TypeOK, PointersBelowCells

LEMMA LayoutClearPage == ASSUME Layout, ClearPage PROVE Layout'
<1>1. ptrs' \in Seq(Offset) /\ Len(ptrs') = 0
  BY EmptySeq DEF ClearPage
<1>2. FreeSpaceStart' = HeaderSize
  BY <1>1, PointerArea, SizeFacts DEF FreeSpaceStart, CellCount
<1>3. mem' \in [Offset -> Byte]
  BY DEF ClearPage, Byte
<1>4. content' \in 0..PageSize
  BY SizeFacts DEF ClearPage
<1>5. DOMAIN ptrs' = {}
  BY <1>1, LenProperties
<1> QED BY <1>1, <1>2, <1>3, <1>4, <1>5, SizeFacts
        DEF Layout, TypeOK, PointersBelowCells, ClearPage

LEMMA LayoutStep == Layout /\ [Next]_vars => Layout'
<1> SUFFICES ASSUME Layout, [Next]_vars PROVE Layout'
  OBVIOUS
<1>1. ASSUME NEW c \in Cell, InsertCell(c) PROVE Layout'
  BY <1>1, LayoutInsertCell
<1>2. ASSUME NEW c \in Cell, NEW idx \in 0..CellCount, InsertCellAt(c, idx) PROVE Layout'
  BY <1>2, LayoutInsertCellAt
<1>3. ASSUME NEW c \in Cell, NEW idx \in Live, RewriteCell(c, idx) PROVE Layout'
  BY <1>3, LayoutRewriteCell
<1>4. ASSUME NEW idx \in Live, RemoveCellAt(idx) PROVE Layout'
  BY <1>4, LayoutRemoveCellAt
<1>5. CASE ClearPage
  BY <1>5, LayoutClearPage
<1>6. CASE UNCHANGED vars
  BY <1>6 DEF vars, Layout, TypeOK, PointersBelowCells, FreeSpaceStart, CellCount
<1> QED BY <1>1, <1>2, <1>3, <1>4, <1>5, <1>6 DEF Next

(* Every page is well formed: pointers, offsets and bytes have their types, *)
(* whatever the B-tree does to it.                                          *)
THEOREM PageTypeCorrect == Spec => []TypeOK
<1>1. Layout => TypeOK
  BY DEF Layout
<1> QED BY <1>1, LayoutInit, LayoutStep, PTL DEF Spec

(* The pointer array and the cell bytes of a page never collide, whatever   *)
(* the sizes and the operations (insertCellIntoPage, insertCellIntoPageAt,  *)
(* rewriteCell, removeCellAt, clearPage).                                   *)
THEOREM PageLayoutSafe == Spec => []PointersBelowCells
<1>1. Layout => PointersBelowCells
  BY DEF Layout
<1> QED BY <1>1, LayoutInit, LayoutStep, PTL DEF Spec

-----------------------------------------------------------------------------
(* The bytes of a cell name it: an offset holds at most one cell, and that *)
(* is the cell DecodeCell returns.                                         *)
LEMMA HeldCellUnique ==
    ASSUME NEW m, NEW o, NEW c \in Cell, NEW d \in Cell,
           Holds(m, o, c), Holds(m, o, d)
    PROVE  c = d
<1>1. 0 \in 0..(Size[c] - 1) /\ 0 \in 0..(Size[d] - 1)
  BY SizeFacts
<1>2. m[o + 0] = <<c, 0>> /\ m[o + 0] = <<d, 0>>
  BY <1>1 DEF Holds
<1> QED BY <1>2

LEMMA DecodeHeld ==
    ASSUME NEW m, NEW o, NEW c \in Cell, Holds(m, o, c)
    PROVE  DecodeCell(m, o) = c
<1>1. \E d \in Cell : Holds(m, o, d)
  OBVIOUS
<1>2. DecodeCell(m, o) = CHOOSE d \in Cell : Holds(m, o, d)
  BY <1>1, Zenon DEF DecodeCell
<1>3. DecodeCell(m, o) \in Cell /\ Holds(m, o, DecodeCell(m, o))
  BY <1>1, <1>2, Zenon
<1> QED BY <1>3, HeldCellUnique

(* Two cells at different offsets share no byte.                           *)
LEMMA HeldCellsDisjoint ==
    ASSUME NEW m, NEW o \in Nat, NEW p \in Nat, o < p,
           NEW c \in Cell, NEW d \in Cell, Holds(m, o, c), Holds(m, p, d)
    PROVE  o + Size[c] <= p
<1> SUFFICES ASSUME o + Size[c] > p PROVE FALSE
  BY SizeFacts
<1>1. /\ p - o \in 0..(Size[c] - 1) /\ 0 \in 0..(Size[d] - 1)
      /\ o + (p - o) = p /\ p + 0 = p /\ p - o # 0
  BY SizeFacts
<1>2. m[o + (p - o)] = <<c, p - o>> /\ m[p + 0] = <<d, 0>>
  BY <1>1 DEF Holds
<1> QED BY <1>1, <1>2

(* A cell stays readable when the bytes n agree with m on all its bytes.   *)
LEMMA HeldCellStable ==
    ASSUME NEW m, NEW n, NEW o \in Nat, NEW c \in Cell, Holds(m, o, c),
           \A x \in Offset : o <= x /\ x < o + Size[c] => n[x] = m[x]
    PROVE  Holds(n, o, c)
<1>1. o + Size[c] <= PageSize /\ \A k \in 0..(Size[c] - 1) : m[o + k] = <<c, k>>
  BY DEF Holds
<1>2. ASSUME NEW k \in 0..(Size[c] - 1) PROVE n[o + k] = <<c, k>>
  <2>1. o + k \in Offset /\ o <= o + k /\ o + k < o + Size[c]
    BY <1>1, SizeFacts DEF Offset
  <2> QED BY <1>1, <2>1
<1> QED BY <1>1, <1>2 DEF Holds

LEMMA LaidCellHeld ==
    ASSUME NEW m \in [Offset -> Byte], NEW o \in Nat, NEW c \in Cell,
           o + Size[c] <= PageSize
    PROVE  Holds(Laid(m, o, c), o, c)
<1>1. \A k \in 0..(Size[c] - 1) : Laid(m, o, c)[o + k] = <<c, k>>
  BY LaidProperties
<1> QED BY <1>1 DEF Holds

-----------------------------------------------------------------------------
IntactPage == Layout /\ CellsIntact

LEMMA PointerFacts ==
    ASSUME Layout
    PROVE  /\ CellCount \in Nat /\ DOMAIN ptrs = 1..CellCount
           /\ \A i \in 1..CellCount :
                ptrs[i] \in Nat /\ ptrs[i] \in Offset /\ content <= ptrs[i]
           /\ content \in Nat
<1>1. ptrs \in Seq(Offset)
  BY DEF Layout, TypeOK
<1>2. CellCount \in Nat /\ DOMAIN ptrs = 1..CellCount
  BY <1>1, LenProperties DEF CellCount
<1>3. content \in Nat /\ \A i \in 1..CellCount : ptrs[i] \in content..(PageSize - 1)
  BY <1>2, SizeFacts DEF Layout, TypeOK, PointersBelowCells
<1> QED BY <1>2, <1>3, SizeFacts DEF Offset

(* The position a cell had before a cell was inserted at position i.       *)
Before(j, i) == IF j < i THEN j ELSE j - 1

(* What an insertion leaves: the new cell where it was asked for, and all  *)
(* the others as they were, one place further from there on.               *)
LEMMA InsertedCells ==
    ASSUME IntactPage, NEW c \in Cell, NEW i, InsertedAt(c, i)
    PROVE  /\ CellCount' = CellCount + 1 /\ DOMAIN ptrs' = 1..(CellCount + 1)
           /\ i \in 1..(CellCount + 1)
           /\ Holds(mem', ptrs'[i], c)
           /\ ptrs'[i] < content
           /\ \A j \in 1..(CellCount + 1) :
                j # i => Before(j, i) \in 1..CellCount /\ ptrs'[j] = ptrs[Before(j, i)]
           /\ \A k \in 1..CellCount, d \in Cell :
                Holds(mem, ptrs[k], d) => Holds(mem', ptrs[k], d)
<1> DEFINE new == content - Size[c]
<1>1. /\ CellCount \in Nat /\ new \in Offset /\ new + Size[c] = content /\ new < content
  BY FitsProperties DEF InsertedAt, IntactPage
<1>2. ptrs \in Seq(Offset) /\ content \in 0..PageSize /\ mem \in [Offset -> Byte]
  BY DEF IntactPage, Layout, TypeOK
<1>3. i \in 1..(CellCount + 1)
  BY DEF InsertedAt
<1>4. /\ ptrs' \in Seq(Offset) /\ Len(ptrs') = Len(ptrs) + 1
      /\ \A j \in 1..(Len(ptrs) + 1) :
           ptrs'[j] = IF j < i THEN ptrs[j] ELSE IF j = i THEN new ELSE ptrs[j - 1]
  <2>1. i \in 1..(Len(ptrs) + 1) /\ ptrs' = InsertAt(ptrs, i, new)
    BY DEF InsertedAt, CellCount
  <2> HIDE DEF new
  <2>2. ptrs' \in Seq(Offset) /\ ShiftedIn(ptrs', ptrs, i, new)
    BY <1>1, <1>2, <2>1, InsertAtProperties
  <2> QED BY <2>2 DEF ShiftedIn
<1>5. DOMAIN ptrs' = 1..(CellCount + 1) /\ CellCount' = CellCount + 1
  BY <1>4, LenProperties DEF CellCount
<1>6. mem' = Laid(mem, new, c) /\ new \in Nat /\ new + Size[c] <= PageSize
  BY <1>1, <1>2, SizeFacts DEF InsertedAt, Offset
<1> HIDE DEF new
<1>7. Holds(mem', new, c)
  BY <1>2, <1>6, LaidCellHeld
<1>8. ptrs'[i] = new
  BY <1>1, <1>3, <1>4 DEF CellCount
<1>9. ASSUME NEW k \in 1..CellCount, NEW d \in Cell, Holds(mem, ptrs[k], d)
      PROVE  Holds(mem', ptrs[k], d)
  <2>1. ptrs[k] \in Nat /\ content <= ptrs[k]
    BY PointerFacts DEF IntactPage
  <2>2. \A x \in Offset : x >= new + Size[c] => mem'[x] = mem[x]
    BY <1>2, <1>6, LaidProperties
  <2>3. \A x \in Offset : ptrs[k] <= x /\ x < ptrs[k] + Size[d] => mem'[x] = mem[x]
    BY <1>1, <1>2, <2>1, <2>2, SizeFacts DEF Offset
  <2> QED BY <1>9, <2>1, <2>3, HeldCellStable
<1>10. ASSUME NEW j \in 1..(CellCount + 1), j # i
       PROVE  Before(j, i) \in 1..CellCount /\ ptrs'[j] = ptrs[Before(j, i)]
  BY <1>1, <1>3, <1>4, <1>10 DEF Before, CellCount
<1> QED BY <1>1, <1>3, <1>5, <1>7, <1>8, <1>9, <1>10

(* What a removal leaves: the others as they were, one place nearer from   *)
(* the position on.                                                        *)
LEMMA RemovedCells ==
    ASSUME IntactPage, NEW idx \in Live, RemoveCellAt(idx)
    PROVE  /\ CellCount' = CellCount - 1 /\ DOMAIN ptrs' = 1..(CellCount - 1)
           /\ idx + 1 \in 1..CellCount
           /\ mem' = mem
           /\ \A j \in 1..(CellCount - 1) :
                ptrs'[j] = IF j < idx + 1 THEN ptrs[j] ELSE ptrs[j + 1]
<1>1. ptrs \in Seq(Offset) /\ CellCount \in Nat
  BY LenProperties DEF IntactPage, Layout, TypeOK, CellCount
<1>2. idx + 1 \in 1..Len(ptrs)
  BY <1>1 DEF Live, CellCount
<1>3. /\ ptrs' \in Seq(Offset) /\ Len(ptrs') = Len(ptrs) - 1
      /\ \A j \in 1..(Len(ptrs) - 1) :
           ptrs'[j] = IF j < idx + 1 THEN ptrs[j] ELSE ptrs[j + 1]
  <2>1. ptrs' \in Seq(Offset) /\ ShiftedOut(ptrs', ptrs, idx + 1)
    BY <1>1, <1>2, RemoveAtProperties DEF RemoveCellAt
  <2> QED BY <2>1 DEF ShiftedOut
<1>4. DOMAIN ptrs' = 1..(CellCount - 1)
  BY <1>3, LenProperties DEF CellCount
<1>5. mem' = mem
  BY DEF RemoveCellAt
<1> QED BY <1>1, <1>2, <1>3, <1>4, <1>5 DEF CellCount

(* What an in-place rewrite leaves: the new cell at its offset, every other *)
(* cell as it was, since the bytes written all belonged to the old cell.    *)
LEMMA UpdatedCells ==
    ASSUME IntactPage, NEW c \in Cell, NEW idx \in Live, Update(c, idx)
    PROVE  /\ ptrs' = ptrs /\ CellCount' = CellCount
           /\ idx + 1 \in 1..CellCount
           /\ Holds(mem', ptrs[idx + 1], c)
           /\ \A k \in 1..CellCount, d \in Cell :
                k # idx + 1 /\ Holds(mem, ptrs[k], d) => Holds(mem', ptrs[k], d)
<1>1. /\ CellCount \in Nat
      /\ \A k \in 1..CellCount : ptrs[k] \in Nat /\ ptrs[k] \in Offset
  BY PointerFacts DEF IntactPage
<1> DEFINE o == ptrs[idx + 1]
<1>2. idx + 1 \in 1..CellCount /\ o \in Nat
  BY <1>1 DEF Live
<1>3. mem' = Laid(mem, o, c) /\ o + Size[c] <= PageSize /\ ptrs' = ptrs
  BY DEF Update, RewriteCell
<1>4. PICK old \in Cell : Holds(mem, o, old) /\ Size[c] <= Size[old]
  BY DEF Update, InPlace
<1>5. mem \in [Offset -> Byte]
  BY DEF IntactPage, Layout, TypeOK
<1> HIDE DEF o
<1>6. Holds(mem', o, c)
  BY <1>2, <1>3, <1>5, LaidCellHeld
<1>7. ASSUME NEW k \in 1..CellCount, NEW d \in Cell,
             k # idx + 1, Holds(mem, ptrs[k], d)
      PROVE  Holds(mem', ptrs[k], d)
  <2>1. ptrs[k] \in Nat
    BY <1>1
  <2>2. ptrs[k] # o
    BY <1>2, <1>7, PointerFacts DEF IntactPage, CellsIntact, o
  <2>3. \A x \in Offset : x < o \/ x >= o + Size[c] => mem'[x] = mem[x]
    BY <1>2, <1>3, <1>5, LaidProperties
  <2>4. CASE o < ptrs[k]
    <3>1. o + Size[old] <= ptrs[k]
      BY <1>2, <1>4, <1>7, <2>1, <2>4, HeldCellsDisjoint
    <3>2. \A x \in Offset : ptrs[k] <= x /\ x < ptrs[k] + Size[d] => mem'[x] = mem[x]
      BY <1>2, <1>4, <2>1, <2>3, <3>1, SizeFacts DEF Offset
    <3> QED BY <1>7, <2>1, <3>2, HeldCellStable
  <2>5. CASE ptrs[k] < o
    <3>1. ptrs[k] + Size[d] <= o
      BY <1>2, <1>4, <1>7, <2>1, <2>5, HeldCellsDisjoint
    <3>2. \A x \in Offset : ptrs[k] <= x /\ x < ptrs[k] + Size[d] => mem'[x] = mem[x]
      BY <1>2, <2>1, <2>3, <3>1, SizeFacts DEF Offset
    <3> QED BY <1>7, <2>1, <3>2, HeldCellStable
  <2> QED BY <1>2, <2>1, <2>2, <2>4, <2>5
<1> QED BY <1>2, <1>3, <1>6, <1>7 DEF CellCount, o

-----------------------------------------------------------------------------
LEMMA IntactInit == Init => IntactPage
<1>1. Init => DOMAIN ptrs = {}
  BY DEF Init
<1> QED BY <1>1, LayoutInit DEF IntactPage, CellsIntact

LEMMA IntactInsert ==
    ASSUME IntactPage, NEW c \in Cell, NEW i, InsertedAt(c, i)
    PROVE  CellsIntact'
<1>1. /\ DOMAIN ptrs' = 1..(CellCount + 1)
      /\ i \in 1..(CellCount + 1)
      /\ Holds(mem', ptrs'[i], c)
      /\ ptrs'[i] < content
      /\ \A j \in 1..(CellCount + 1) :
           j # i => Before(j, i) \in 1..CellCount /\ ptrs'[j] = ptrs[Before(j, i)]
      /\ \A k \in 1..CellCount, d \in Cell :
           Holds(mem, ptrs[k], d) => Holds(mem', ptrs[k], d)
  BY InsertedCells
<1>2. /\ CellCount \in Nat /\ DOMAIN ptrs = 1..CellCount /\ content \in Nat
      /\ \A k \in 1..CellCount : ptrs[k] \in Nat /\ content <= ptrs[k]
  BY PointerFacts DEF IntactPage
<1>3. /\ \A k, l \in 1..CellCount : ptrs[k] = ptrs[l] => k = l
      /\ \A k \in 1..CellCount : \E d \in Cell : Holds(mem, ptrs[k], d)
  BY <1>2 DEF IntactPage, CellsIntact
<1>4. ASSUME NEW j \in 1..(CellCount + 1)
      PROVE  \E d \in Cell : Holds(mem', ptrs'[j], d)
  <2>1. CASE j = i
    BY <1>1, <2>1
  <2>2. CASE j # i
    BY <1>1, <1>3, <2>2
  <2> QED BY <2>1, <2>2
<1>5. ASSUME NEW j \in 1..(CellCount + 1), j # i
      PROVE  ptrs'[j] # ptrs'[i]
  <2>1. ptrs'[j] = ptrs[Before(j, i)] /\ content <= ptrs[Before(j, i)]
        /\ ptrs[Before(j, i)] \in Nat
    BY <1>1, <1>2, <1>5
  <2>2. ptrs'[i] < content
    BY <1>1
  <2>3. SUFFICES ASSUME ptrs'[j] = ptrs'[i] PROVE FALSE
    OBVIOUS
  <2> QED BY <1>2, <2>1, <2>2, <2>3
<1>6. ASSUME NEW j \in 1..(CellCount + 1), NEW k \in 1..(CellCount + 1),
             ptrs'[j] = ptrs'[k]
      PROVE  j = k
  <2>1. CASE j = i \/ k = i
    BY <1>5, <1>6, <2>1
  <2>2. CASE j # i /\ k # i
    <3>1. Before(j, i) = Before(k, i)
      BY <1>1, <1>3, <1>6, <2>2
    <3> QED BY <1>1, <1>2, <2>2, <3>1 DEF Before
  <2> QED BY <2>1, <2>2
<1> QED BY <1>1, <1>4, <1>6 DEF CellsIntact

LEMMA InsertionsAreInsertedAt ==
    ASSUME Layout, NEW c \in Cell
    PROVE  /\ InsertCell(c) => InsertedAt(c, CellCount + 1)
           /\ \A idx \in 0..CellCount : InsertCellAt(c, idx) => InsertedAt(c, idx + 1)
<1>1. ASSUME InsertCell(c) PROVE InsertedAt(c, CellCount + 1)
  <2>1. Fits(c) /\ CellCount \in Nat /\ content - Size[c] \in Offset
    BY <1>1, FitsProperties DEF InsertCell
  <2>2. ptrs' = InsertAt(ptrs, CellCount + 1, content - Size[c])
    BY <1>1, <2>1, AppendIsInsertAt DEF InsertCell, Layout, TypeOK, CellCount
  <2> QED BY <1>1, <2>1, <2>2 DEF InsertedAt, InsertCell
<1>2. ASSUME NEW idx \in 0..CellCount, InsertCellAt(c, idx)
      PROVE  InsertedAt(c, idx + 1)
  <2>1. Fits(c) /\ CellCount \in Nat
    BY <1>2, FitsProperties DEF InsertCellAt
  <2>2. idx + 1 \in 1..(CellCount + 1)
    BY <2>1
  <2> QED BY <1>2, <2>1, <2>2 DEF InsertedAt, InsertCellAt
<1> QED BY <1>1, <1>2

LEMMA IntactUpdate ==
    ASSUME IntactPage, NEW c \in Cell, NEW idx \in Live, Update(c, idx)
    PROVE  CellsIntact'
<1>1. /\ ptrs' = ptrs /\ DOMAIN ptrs = 1..CellCount
      /\ idx + 1 \in 1..CellCount
      /\ Holds(mem', ptrs[idx + 1], c)
      /\ \A k \in 1..CellCount, d \in Cell :
           k # idx + 1 /\ Holds(mem, ptrs[k], d) => Holds(mem', ptrs[k], d)
  BY UpdatedCells, PointerFacts DEF IntactPage
<1>2. /\ \A k, l \in 1..CellCount : ptrs[k] = ptrs[l] => k = l
      /\ \A k \in 1..CellCount : \E d \in Cell : Holds(mem, ptrs[k], d)
  BY <1>1 DEF IntactPage, CellsIntact
<1>3. \A k \in 1..CellCount : \E d \in Cell : Holds(mem', ptrs[k], d)
  BY <1>1, <1>2
<1> QED BY <1>1, <1>2, <1>3 DEF CellsIntact

LEMMA IntactRemove ==
    ASSUME IntactPage, NEW idx \in Live, RemoveCellAt(idx)
    PROVE  CellsIntact'
<1>1. /\ DOMAIN ptrs' = 1..(CellCount - 1) /\ mem' = mem
      /\ idx + 1 \in 1..CellCount
      /\ \A j \in 1..(CellCount - 1) :
           ptrs'[j] = IF j < idx + 1 THEN ptrs[j] ELSE ptrs[j + 1]
  BY RemovedCells
<1>2. CellCount \in Nat /\ DOMAIN ptrs = 1..CellCount
  BY PointerFacts DEF IntactPage
<1>3. /\ \A k, l \in 1..CellCount : ptrs[k] = ptrs[l] => k = l
      /\ \A k \in 1..CellCount : \E d \in Cell : Holds(mem, ptrs[k], d)
  BY <1>2 DEF IntactPage, CellsIntact
<1>4. \A j \in 1..(CellCount - 1) : j \in 1..CellCount /\ j + 1 \in 1..CellCount
  BY <1>2
<1>5. \A j \in 1..(CellCount - 1) : \E d \in Cell : Holds(mem', ptrs'[j], d)
  BY <1>1, <1>3, <1>4
<1>6. ASSUME NEW j \in 1..(CellCount - 1), NEW k \in 1..(CellCount - 1),
             ptrs'[j] = ptrs'[k]
      PROVE  j = k
  BY <1>1, <1>2, <1>3, <1>4, <1>6
<1> QED BY <1>1, <1>5, <1>6 DEF CellsIntact

LEMMA IntactStep == IntactPage /\ [InPlaceNext]_vars => IntactPage'
<1> SUFFICES ASSUME IntactPage, [InPlaceNext]_vars PROVE IntactPage'
  OBVIOUS
<1>1. Layout'
  BY LayoutStep DEF IntactPage, InPlaceNext, Next, Update
<1>2. CellsIntact'
  <2>1. ASSUME NEW c \in Cell, InsertCell(c) PROVE CellsIntact'
    BY <2>1, InsertionsAreInsertedAt, IntactInsert DEF IntactPage
  <2>2. ASSUME NEW c \in Cell, NEW idx \in 0..CellCount, InsertCellAt(c, idx)
        PROVE CellsIntact'
    BY <2>2, InsertionsAreInsertedAt, IntactInsert DEF IntactPage
  <2>3. ASSUME NEW c \in Cell, NEW idx \in Live, Update(c, idx) PROVE CellsIntact'
    BY <2>3, IntactUpdate
  <2>4. ASSUME NEW idx \in Live, RemoveCellAt(idx) PROVE CellsIntact'
    BY <2>4, IntactRemove
  <2>5. CASE ClearPage
    <3>1. DOMAIN ptrs' = {}
      BY <2>5 DEF ClearPage
    <3> QED BY <3>1 DEF CellsIntact
  <2>6. CASE UNCHANGED vars
    BY <2>6 DEF vars, IntactPage, CellsIntact
  <2> QED BY <2>1, <2>2, <2>3, <2>4, <2>5, <2>6 DEF InPlaceNext
<1> QED BY <1>1, <1>2 DEF IntactPage

(* When rewrites are in place, no operation on one cell of a page damages   *)
(* another one, and each cell can be read back (collectCells, DecodeCell).  *)
THEOREM PageCellsIntact == InPlaceSpec => []CellsIntact
<1>1. IntactPage => CellsIntact
  BY DEF IntactPage
<1> QED BY <1>1, IntactInit, IntactStep, PTL DEF InPlaceSpec

-----------------------------------------------------------------------------
(* In an intact page every position decodes to the cell it holds.          *)
CellsReadable ==
    /\ CellCount \in Nat /\ DOMAIN ptrs = 1..CellCount
    /\ Cells \in Seq(Cell) /\ Len(Cells) = CellCount
    /\ \A i \in 1..CellCount :
         Cells[i] \in Cell /\ Holds(mem, ptrs[i], Cells[i])

LEMMA CellsOfIntactPage == IntactPage => CellsReadable
<1> SUFFICES ASSUME IntactPage PROVE CellsReadable
  OBVIOUS
<1>1. CellCount \in Nat /\ DOMAIN ptrs = 1..CellCount
  BY PointerFacts DEF IntactPage
<1>2. ASSUME NEW i \in 1..CellCount
      PROVE  DecodeCell(mem, ptrs[i]) \in Cell /\ Holds(mem, ptrs[i], DecodeCell(mem, ptrs[i]))
  <2>1. PICK c \in Cell : Holds(mem, ptrs[i], c)
    BY <1>1 DEF IntactPage, CellsIntact
  <2>2. DecodeCell(mem, ptrs[i]) = c
    BY <2>1, DecodeHeld
  <2> QED BY <2>1, <2>2
<1>3. Cells = [i \in 1..CellCount |-> DecodeCell(mem, ptrs[i])]
  BY <1>1 DEF Cells
<1>4. \A i \in 1..CellCount : Cells[i] = DecodeCell(mem, ptrs[i])
  BY <1>3
<1>5. Cells \in Seq(Cell) /\ Len(Cells) = CellCount
  <2>1. Cells \in [1..CellCount -> Cell]
    BY <1>2, <1>3
  <2> QED BY <1>1, <2>1, <1>3
<1> QED BY <1>1, <1>2, <1>4, <1>5 DEF CellsReadable

(* The same in the state after a step.                                     *)
LEMMA CellsOfNextPage == IntactPage' => CellsReadable'
  BY CellsOfIntactPage, PTL

(* The position of a cell in the page of the next state, by what it holds. *)
LEMMA NextCell ==
    ASSUME IntactPage', NEW j \in 1..CellCount', NEW c \in Cell,
           Holds(mem', ptrs'[j], c)
    PROVE  Cells'[j] = c
<1>1. DOMAIN ptrs' = 1..CellCount'
  BY CellsOfNextPage DEF CellsReadable
<1>2. DecodeCell(mem', ptrs'[j]) = c
  BY DecodeHeld
<1> QED BY <1>1, <1>2 DEF Cells

LEMMA InsertIsListInsert ==
    ASSUME IntactPage, IntactPage', NEW c \in Cell, NEW idx, InsertedAt(c, idx + 1),
           idx \in 0..CellCount
    PROVE  List!Insert(c, idx)
<1> DEFINE i == idx + 1
<1>1. /\ CellCount' = CellCount + 1
      /\ i \in 1..(CellCount + 1)
      /\ Holds(mem', ptrs'[i], c)
      /\ \A j \in 1..(CellCount + 1) :
           j # i => Before(j, i) \in 1..CellCount /\ ptrs'[j] = ptrs[Before(j, i)]
      /\ \A k \in 1..CellCount, d \in Cell :
           Holds(mem, ptrs[k], d) => Holds(mem', ptrs[k], d)
  BY InsertedCells
<1>2. /\ Cells \in Seq(Cell) /\ Len(Cells) = CellCount
      /\ \A k \in 1..CellCount : Cells[k] \in Cell /\ Holds(mem, ptrs[k], Cells[k])
  BY CellsOfIntactPage DEF CellsReadable
<1>3. Cells' \in Seq(Cell) /\ Len(Cells') = CellCount'
  BY CellsOfNextPage DEF CellsReadable
<1>4. CellCount \in Nat
  BY PointerFacts DEF IntactPage
<1> HIDE DEF i
<1>5. Cells'[i] = c
  BY <1>1, NextCell
<1>6. ASSUME NEW j \in 1..(CellCount + 1), j # i
      PROVE  Cells'[j] = Cells[Before(j, i)]
  <2>1. Holds(mem', ptrs'[j], Cells[Before(j, i)]) /\ Cells[Before(j, i)] \in Cell
    BY <1>1, <1>2, <1>6
  <2> QED BY <1>1, <2>1, NextCell
<1> DEFINE t == InsertAt(Cells, i, c)
<1>7. /\ t \in Seq(Cell) /\ Len(t) = Len(Cells) + 1
      /\ \A j \in 1..(Len(Cells) + 1) :
           t[j] = IF j < i THEN Cells[j] ELSE IF j = i THEN c ELSE Cells[j - 1]
  <2>1. i \in 1..(Len(Cells) + 1)
    BY <1>1, <1>2
  <2>2. Cells \in Seq(Cell)
    BY <1>2
  <2>3. t \in Seq(Cell) /\ ShiftedIn(t, Cells, i, c)
    BY <2>1, <2>2, InsertAtProperties
  <2> HIDE DEF t
  <2> QED BY <2>3 DEF ShiftedIn
<1> HIDE DEF t
<1>8. ASSUME NEW j \in 1..Len(Cells')
      PROVE  Cells'[j] = t[j]
  <2>1. j \in 1..(CellCount + 1) /\ j \in 1..(Len(Cells) + 1)
    BY <1>1, <1>2, <1>3
  <2>2. CASE j = i
    BY <1>5, <1>7, <2>1, <2>2, <1>1, <1>4
  <2>3. CASE j # i
    <3>1. Cells'[j] = Cells[Before(j, i)]
      BY <1>6, <2>1, <2>3
    <3>2. t[j] = Cells[Before(j, i)]
      BY <1>1, <1>4, <1>7, <2>1, <2>3 DEF Before
    <3> QED BY <3>1, <3>2
  <2> QED BY <2>2, <2>3
<1>9. Len(Cells') = Len(t)
  BY <1>1, <1>2, <1>3, <1>7
<1>10. Cells' = t
  BY <1>3, <1>7, <1>8, <1>9, SeqEqual
<1>11. idx \in 0..Len(Cells)
  BY <1>2
<1> QED BY <1>10, <1>11 DEF List!Insert, List!InsertAt, InsertAt, t, i

LEMMA UpdateIsListOverwrite ==
    ASSUME IntactPage, IntactPage', NEW c \in Cell, NEW idx \in Live, Update(c, idx)
    PROVE  List!Overwrite(c, idx) /\ idx \in 0..Len(Cells)
<1>1. /\ ptrs' = ptrs /\ CellCount' = CellCount
      /\ idx + 1 \in 1..CellCount
      /\ Holds(mem', ptrs[idx + 1], c)
      /\ \A k \in 1..CellCount, d \in Cell :
           k # idx + 1 /\ Holds(mem, ptrs[k], d) => Holds(mem', ptrs[k], d)
  BY UpdatedCells
<1>2. /\ Cells \in Seq(Cell) /\ Len(Cells) = CellCount /\ CellCount \in Nat
      /\ \A k \in 1..CellCount : Cells[k] \in Cell /\ Holds(mem, ptrs[k], Cells[k])
  BY CellsOfIntactPage DEF CellsReadable
<1>3. Cells' \in Seq(Cell) /\ Len(Cells') = CellCount
  BY <1>1, CellsOfNextPage DEF CellsReadable
<1>4. Cells'[idx + 1] = c
  BY <1>1, NextCell
<1>5. ASSUME NEW j \in 1..CellCount, j # idx + 1
      PROVE  Cells'[j] = Cells[j]
  <2>1. Holds(mem', ptrs'[j], Cells[j]) /\ Cells[j] \in Cell
    BY <1>1, <1>2, <1>5
  <2> QED BY <1>1, <2>1, NextCell
<1> DEFINE t == [Cells EXCEPT ![idx + 1] = c]
<1>6. /\ t \in Seq(Cell) /\ Len(t) = Len(Cells)
      /\ \A j \in 1..Len(Cells) : t[j] = IF j = idx + 1 THEN c ELSE Cells[j]
  <2>1. idx + 1 \in 1..Len(Cells) /\ Cells \in Seq(Cell)
    BY <1>1, <1>2
  <2> QED BY <2>1, ExceptSeq
<1> HIDE DEF t
<1>7. \A j \in 1..Len(Cells') : Cells'[j] = t[j]
  BY <1>2, <1>3, <1>4, <1>5, <1>6
<1>8. Cells' = t
  BY <1>2, <1>3, <1>6, <1>7, SeqEqual
<1>9. idx \in 0..(Len(Cells) - 1)
  BY <1>2 DEF Live
<1> QED BY <1>2, <1>8, <1>9 DEF List!Overwrite, t

LEMMA RemoveIsListDelete ==
    ASSUME IntactPage, IntactPage', NEW idx \in Live, RemoveCellAt(idx)
    PROVE  List!Delete(idx) /\ idx \in 0..Len(Cells)
<1>1. /\ CellCount' = CellCount - 1
      /\ idx + 1 \in 1..CellCount
      /\ mem' = mem
      /\ \A j \in 1..(CellCount - 1) :
           ptrs'[j] = IF j < idx + 1 THEN ptrs[j] ELSE ptrs[j + 1]
  BY RemovedCells
<1>2. /\ Cells \in Seq(Cell) /\ Len(Cells) = CellCount /\ CellCount \in Nat
      /\ \A k \in 1..CellCount : Cells[k] \in Cell /\ Holds(mem, ptrs[k], Cells[k])
  BY CellsOfIntactPage DEF CellsReadable
<1>3. Cells' \in Seq(Cell) /\ Len(Cells') = CellCount - 1
  BY <1>1, CellsOfNextPage DEF CellsReadable
<1>4. ASSUME NEW j \in 1..(CellCount - 1)
      PROVE  Cells'[j] = IF j < idx + 1 THEN Cells[j] ELSE Cells[j + 1]
  <2> DEFINE k == IF j < idx + 1 THEN j ELSE j + 1
  <2>1. k \in 1..CellCount /\ ptrs'[j] = ptrs[k] /\ j \in 1..CellCount'
    BY <1>1, <1>2
  <2>2. Holds(mem', ptrs'[j], Cells[k]) /\ Cells[k] \in Cell
    BY <1>1, <1>2, <2>1
  <2>3. Cells'[j] = Cells[k]
    <3> HIDE DEF k
    <3> QED BY <2>1, <2>2, NextCell
  <2> QED BY <2>3
<1> DEFINE t == RemoveAt(Cells, idx + 1)
<1>5. /\ t \in Seq(Cell) /\ Len(t) = Len(Cells) - 1
      /\ \A j \in 1..(Len(Cells) - 1) :
           t[j] = IF j < idx + 1 THEN Cells[j] ELSE Cells[j + 1]
  <2>1. idx + 1 \in 1..Len(Cells) /\ Cells \in Seq(Cell)
    BY <1>1, <1>2
  <2>2. t \in Seq(Cell) /\ ShiftedOut(t, Cells, idx + 1)
    BY <2>1, RemoveAtProperties
  <2> HIDE DEF t
  <2> QED BY <2>2 DEF ShiftedOut
<1> HIDE DEF t
<1>6. \A j \in 1..Len(Cells') : Cells'[j] = t[j]
  BY <1>2, <1>3, <1>4, <1>5
<1>7. Cells' = t
  BY <1>2, <1>3, <1>5, <1>6, SeqEqual
<1>8. idx \in 0..(Len(Cells) - 1)
  BY <1>2 DEF Live
<1> QED BY <1>2, <1>7, <1>8 DEF List!Delete, List!RemoveAt, RemoveAt, t

LEMMA ListInit == Init => List!Init
  BY DEF Init, List!Init, Cells

LEMMA ListStep ==
    IntactPage /\ IntactPage' /\ [InPlaceNext]_vars => [List!Next]_Cells
<1> SUFFICES ASSUME IntactPage, IntactPage', [InPlaceNext]_vars
             PROVE  [List!Next]_Cells
  OBVIOUS
<1>1. Len(Cells) = CellCount /\ CellCount \in Nat /\ Layout
  BY CellsOfIntactPage DEF CellsReadable, IntactPage
<1>2. ASSUME NEW c \in Cell, InsertCell(c) PROVE List!Next
  <2>1. InsertedAt(c, CellCount + 1) /\ CellCount \in 0..CellCount
    BY <1>1, <1>2, InsertionsAreInsertedAt
  <2>2. List!Insert(c, CellCount)
    BY <2>1, InsertIsListInsert
  <2> QED BY <1>1, <2>1, <2>2 DEF List!Next
<1>3. ASSUME NEW c \in Cell, NEW idx \in 0..CellCount, InsertCellAt(c, idx)
      PROVE  List!Next
  <2>1. List!Insert(c, idx)
    BY <1>1, <1>3, InsertionsAreInsertedAt, InsertIsListInsert
  <2> QED BY <1>1, <2>1 DEF List!Next
<1>4. ASSUME NEW c \in Cell, NEW idx \in Live, Update(c, idx) PROVE List!Next
  BY <1>4, UpdateIsListOverwrite DEF List!Next
<1>5. ASSUME NEW idx \in Live, RemoveCellAt(idx) PROVE List!Next
  BY <1>5, RemoveIsListDelete DEF List!Next
<1>6. CASE ClearPage
  <2>1. Cells' = << >>
    BY <1>6 DEF ClearPage, Cells
  <2> QED BY <2>1 DEF List!Next, List!Empty
<1>7. CASE UNCHANGED vars
  <2>1. Cells' = Cells
    BY <1>7 DEF vars, Cells
  <2> QED BY <2>1
<1> QED BY <1>2, <1>3, <1>4, <1>5, <1>6, <1>7 DEF InPlaceNext

(* A page whose rewrites are in place implements a list of cells: each      *)
(* operation of btree.go on the page is the operation of the same name on   *)
(* the list, for every cell size, page size and length of the run.          *)
THEOREM PageImplementsList == InPlaceSpec => IsCellList
<1>1. InPlaceSpec => []IntactPage
  BY IntactInit, IntactStep, PTL DEF InPlaceSpec
<1> QED BY <1>1, ListInit, ListStep, PTL DEF InPlaceSpec, IsCellList, List!Spec
=============================================================================
