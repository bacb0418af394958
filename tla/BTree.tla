------------------------------- MODULE BTree --------------------------------
(***************************************************************************)
(* One B-tree of the store (internal/storage/btree.go): a table, an index  *)
(* or the schema.  Pages are lists of cells, which is what SlottedPage     *)
(* shows of the bytes while no cell is rewritten longer than it was; here  *)
(* all cells have the same length, and a page knows how many it has laid   *)
(* down since it was last cleared, because the bytes of a removed cell are *)
(* never reclaimed and decide when a page is full.                         *)
(*                                                                         *)
(* The operations run one at a time; Pager has what happens when they      *)
(* overlap.  A page that a search reaches is never InvalidPage here, so    *)
(* the branches for it are left out: TLC would stop on them.               *)
(***************************************************************************)
EXTENDS KeySearch, FiniteSets, SequencesExt

CONSTANTS
    Key, Val,
    Room,       \* PageSize less the page header
    CellSize,   \* 8 + key + value bytes
    PtrSize,    \* 2: a cell pointer
    Loads,      \* sequences of keys: one is inserted before the run starts
    MaxPage,    \* bound: pages of the tree
    MaxOps      \* bound: operations that change the tree

(* At least four cells fit a page.  The code does not ask for it: with two *)
(* or three, splitInternal leaves an internal page without any cell.       *)
ASSUME TreeAssumption ==
    /\ Key \subseteq Int /\ Val # {}
    /\ Room \in Nat /\ CellSize \in Nat \ {0} /\ PtrSize \in Nat
    /\ Room >= 4 * (CellSize + PtrSize)
    /\ Loads \subseteq Seq(Key) /\ Loads # {} /\ MaxPage \in Nat \ {0} /\ MaxOps \in Nat

VARIABLES
    tree,     \* root page and pages, by page number
    done,     \* reply of the last operation: it succeeded, or found its key
    rows,     \* reply of the last operation: the rows it returned
    stored,   \* ghost: the rows callers have stored and not deleted
    appended, \* ghost: keys have only ever been added above all others
    ops

vars == <<tree, done, rows, stored, appended, ops>>

Cell(k, v, child) == [key |-> k, val |-> v, left |-> child]
NoPage  == 0  \* InvalidPage
Garbage == Cell("garbage", "garbage", NoPage)

Leaf(cells) == [leaf |-> TRUE, cells |-> cells, right |-> NoPage, laid |-> Len(cells)]
Internal(cells, right) == [leaf |-> FALSE, cells |-> cells, right |-> right, laid |-> Len(cells)]

Keys(pg) == [i \in DOMAIN pg.cells |-> pg.cells[i].key]

(* Mutation: no room is asked for the pointer.                             *)
FullForCell(pg) == Room - CellSize * pg.laid - PtrSize * Len(pg.cells) < CellSize

NeverFull(pg) == FALSE  \* mutation: the free space is not looked at

(* insertCellIntoPage and insertCellIntoPageAt return ErrPageFull.         *)
Full(pg) == Room - CellSize * pg.laid - PtrSize * Len(pg.cells) < CellSize + PtrSize

Placed(pg, idx, c) ==
    [pg EXCEPT !.cells = InsertAt(@, idx + 1, c), !.laid = @ + 1]

(* clearPage, then the cells one after the other; the pointer stays.       *)
Refilled(pg, cells) == [pg EXCEPT !.cells = cells, !.laid = Len(cells)]

(* insertSorted: before the first cell with a greater key.                 *)
InsertSorted(cells, c) ==
    LET greater == {i \in DOMAIN cells : c.key < cells[i].key}
    IN  IF greater = {} THEN Append(cells, c)
        ELSE InsertAt(cells, CHOOSE i \in greater : \A j \in greater : i <= j, c)

(* The child at index idx of an internal page.                             *)
Child(pg, idx) == IF idx >= Len(pg.cells) THEN pg.right ELSE pg.cells[idx + 1].left

(* The pages from page p down to the leaf that a search for k ends in.  A  *)
(* key equal to a separator goes to the left of it.                        *)
PathTo(ps, p, k) ==
    LET from[q \in 1..Len(ps)] ==
            IF ps[q].leaf THEN <<q>>
            ELSE <<q>> \o from[Child(ps[q], Search(Keys(ps[q]), k).idx)]
    IN  from[p]

-----------------------------------------------------------------------------
(* An insertion below a page returns the pages it leaves behind and, when  *)
(* the page was split, the separator and the new page to its right.        *)
Unsplit(ps) == [pages |-> ps, split |-> FALSE]
Split(ps, sep, page) ==
    [pages |-> ps, split |-> TRUE, key |-> sep.key, val |-> sep.val, page |-> page]

SplitLeafDropsMiddle(ps, p, c) ==  \* mutation: the separator leaves the leaves
    LET cells == InsertSorted(ps[p].cells, c)
        mid   == Len(cells) \div 2
    IN  Split(Append([ps EXCEPT ![p] = Refilled(@, SubSeq(cells, 1, mid))],
                     Leaf(SubSeq(cells, mid + 2, Len(cells)))),
              cells[mid + 1], Len(ps) + 1)

SplitLeaf(ps, p, c) ==
    LET cells == InsertSorted(ps[p].cells, c)
        mid   == Len(cells) \div 2
    IN  Split(Append([ps EXCEPT ![p] = Refilled(@, SubSeq(cells, 1, mid))],
                     Leaf(SubSeq(cells, mid + 1, Len(cells)))),
              cells[mid + 1], Len(ps) + 1)

(* Mutation: the left page gets the new page as its rightmost child.       *)
SplitInternalChained(ps, p, c) ==
    LET cells == InsertSorted(ps[p].cells, c)
        mid   == Len(cells) \div 2
    IN  Split(Append([ps EXCEPT ![p] = [Refilled(@, SubSeq(cells, 1, mid))
                                           EXCEPT !.right = Len(ps) + 1]],
                     Internal(SubSeq(cells, mid + 2, Len(cells) - 1), Last(cells).left)),
              cells[mid + 1], Len(ps) + 1)

(* The rightmost pointer of the page and the key of its last cell are not  *)
(* carried over.                                                           *)
SplitInternal(ps, p, c) ==
    LET cells == InsertSorted(ps[p].cells, c)
        mid   == Len(cells) \div 2
    IN  Split(Append([ps EXCEPT ![p] = [Refilled(@, SubSeq(cells, 1, mid))
                                           EXCEPT !.right = cells[mid + 1].left]],
                     Internal(SubSeq(cells, mid + 2, Len(cells) - 1), Last(cells).left)),
              cells[mid + 1], Len(ps) + 1)

InsertLeafUnsorted(ps, p, k, v) ==  \* mutation: the new cell goes last
    LET at == Search(Keys(ps[p]), k)
        c  == Cell(k, v, NoPage)
    IN  IF at.found THEN Unsplit([ps EXCEPT ![p].cells[at.idx + 1] = c])
        ELSE IF Full(ps[p]) THEN SplitLeaf(ps, p, c)
        ELSE Unsplit([ps EXCEPT ![p] = Placed(@, Len(@.cells), c)])

InsertLeafTwice(ps, p, k, v) ==  \* mutation: an existing key is not replaced
    LET at == Search(Keys(ps[p]), k)
        c  == Cell(k, v, NoPage)
    IN  IF Full(ps[p]) THEN SplitLeaf(ps, p, c)
        ELSE Unsplit([ps EXCEPT ![p] = Placed(@, at.idx, c)])

(* insertLeaf, updateLeafCell *)
InsertLeaf(ps, p, k, v) ==
    LET at == Search(Keys(ps[p]), k)
        c  == Cell(k, v, NoPage)
    IN  IF at.found THEN Unsplit([ps EXCEPT ![p].cells[at.idx + 1] = c])
        ELSE IF Full(ps[p]) THEN SplitLeaf(ps, p, c)
        ELSE Unsplit([ps EXCEPT ![p] = Placed(@, at.idx, c)])

(* Mutation: the separator's cell leads to the new page as well.           *)
AddChildTwice(below, p, child, k) ==
    LET ps  == below.pages
        idx == Search(Keys(ps[p]), k).idx
        c   == Cell(below.key, below.val, below.page)
        pg  == IF idx >= Len(ps[p].cells) THEN [ps[p] EXCEPT !.right = below.page]
               ELSE [ps[p] EXCEPT !.cells[idx + 1].left = below.page]
    IN  IF Full(pg) THEN SplitInternal([ps EXCEPT ![p] = pg], p, c)
        ELSE Unsplit([ps EXCEPT ![p] = Placed(pg, Len(pg.cells), c)])

(* insertInto, when the child it descended to was split: the child's old   *)
(* place leads to the new page, and the separator goes last in the page.   *)
AddChild(below, p, child, k) ==
    LET ps  == below.pages
        idx == Search(Keys(ps[p]), k).idx
        c   == Cell(below.key, below.val, child)
        pg  == IF idx >= Len(ps[p].cells) THEN [ps[p] EXCEPT !.right = below.page]
               ELSE [ps[p] EXCEPT !.cells[idx + 1].left = below.page]
    IN  IF Full(pg) THEN SplitInternal([ps EXCEPT ![p] = pg], p, c)
        ELSE Unsplit([ps EXCEPT ![p] = Placed(pg, Len(pg.cells), c)])

(* BTree.Insert: down to the leaf, up again while pages split, and a new   *)
(* root above a split root.                                                *)
Inserted(t, k, v) ==
    LET path == PathTo(t.pages, t.root, k)
        below[i \in 1..Len(path)] ==
            IF i = Len(path) THEN InsertLeaf(t.pages, path[i], k, v)
            ELSE IF below[i + 1].split THEN AddChild(below[i + 1], path[i], path[i + 1], k)
            ELSE below[i + 1]
        top == below[1]
    IN  IF top.split
        THEN [root  |-> Len(top.pages) + 1,
              pages |-> Append(top.pages, Internal(<<Cell(top.key, top.val, t.root)>>, top.page))]
        ELSE [root |-> t.root, pages |-> top.pages]

-----------------------------------------------------------------------------
Leftmost(ps, p) ==
    LET down[q \in 1..Len(ps)] == IF ps[q].leaf THEN q ELSE down[ps[q].cells[1].left]
    IN  down[p]

(* deleteFrom: the first page on the way with a cell of that key.          *)
Meets(t, k) ==
    LET path == PathTo(t.pages, t.root, k)
        has  == {i \in DOMAIN path : Search(Keys(t.pages[path[i]]), k).found}
    IN  IF has = {} THEN NoPage ELSE path[CHOOSE i \in has : \A j \in has : i <= j]

DeleteFails(t, k) ==  \* getLeftmost: "empty leaf page"
    LET p == Meets(t, k)
    IN  /\ p # NoPage /\ ~t.pages[p].leaf
        /\ t.pages[Leftmost(t.pages, t.pages[p].cells[Search(Keys(t.pages[p]), k).idx + 1].left)].cells = << >>

(* In a leaf the cell goes.  In an internal page its cell takes the key    *)
(* and value of the first row to its left, and that row goes.              *)
Deleted(t, k) ==
    LET p   == Meets(t, k)
        idx == Search(Keys(t.pages[p]), k).idx
        l   == Leftmost(t.pages, t.pages[p].cells[idx + 1].left)
        fst == t.pages[l].cells[1]
    IN  IF t.pages[p].leaf
        THEN [t EXCEPT !.pages[p].cells = RemoveAt(@, idx + 1)]
        ELSE [t EXCEPT !.pages[p].cells[idx + 1] = Cell(fst.key, fst.val, @.left),
                       !.pages[l].cells = Tail(@)]

(* BTree.search *)
Found(t, k) ==
    LET leaf == t.pages[Last(PathTo(t.pages, t.root, k))]
        at   == Search(Keys(leaf), k)
    IN  IF at.found THEN <<<<k, leaf.cells[at.idx + 1].val>>>> ELSE << >>

-----------------------------------------------------------------------------
(* A cursor is a stack of frames; an empty stack is at the end.            *)
Frame(p, idx) == [page |-> p, idx |-> idx]
Frames(ps) == [page : DOMAIN ps, idx : Nat]

(* The frames down to the first leaf below p; an empty leaf gets none.     *)
Dive(ps, p) ==
    LET down[q \in 1..Len(ps)] ==
            IF ps[q].leaf THEN IF ps[q].cells = << >> THEN << >> ELSE <<Frame(q, 0)>>
            ELSE <<Frame(q, 0)>> \o down[ps[q].cells[1].left]
    IN  down[p]

(* rewind: at the end when the first leaf is empty.                        *)
CursorStart(t) ==
    IF t.pages[Leftmost(t.pages, t.root)].cells = << >> THEN << >> ELSE Dive(t.pages, t.root)

(* Advance *)
CursorNext(t, stack) ==
    LET next[s \in Seq(Frames(t.pages))] ==
            IF s = << >> THEN << >>
            ELSE LET pg   == t.pages[Last(s).page]
                     f    == [Last(s) EXCEPT !.idx = @ + 1]
                     rest == Front(s)
                 IN  IF pg.leaf
                     THEN IF f.idx < Len(pg.cells) THEN Append(rest, f) ELSE next[rest]
                     ELSE IF f.idx <= Len(pg.cells)
                          THEN Append(rest, f) \o Dive(t.pages, Child(pg, f.idx))
                          ELSE next[rest]
    IN  next[stack]

(* Current: the cell of the top frame, of an internal page if no leaf was  *)
(* pushed on top of it, and whatever the bytes are beyond its last cell.   *)
CursorCell(t, stack) ==
    LET pg == t.pages[Last(stack).page]
    IN  IF Last(stack).idx < Len(pg.cells) THEN pg.cells[Last(stack).idx + 1] ELSE Garbage

(* TableEngine.Scan: every row from a rewound cursor to its end.           *)
Scanned(t) ==
    LET from[s \in Seq(Frames(t.pages))] ==
            IF s = << >> THEN << >>
            ELSE LET c == CursorCell(t, s) IN <<<<c.key, c.val>>>> \o from[CursorNext(t, s)]
    IN  from[CursorStart(t)]

-----------------------------------------------------------------------------
Written(m, k, v) == [x \in DOMAIN m \union {k} |-> IF x = k THEN v ELSE m[x]]

AnyVal == CHOOSE v \in Val : TRUE

EmptyTree == [root |-> 1, pages |-> <<Leaf(<< >>)>>]

(* The tree after the keys of load have been inserted one by one.          *)
Loaded(load) ==
    LET upTo[n \in 0..Len(load)] ==
            IF n = 0 THEN EmptyTree ELSE Inserted(upTo[n - 1], load[n], AnyVal)
    IN  upTo[Len(load)]

Init ==
    /\ \E load \in Loads :
         /\ tree = Loaded(load)
         /\ stored = [k \in ToSet(load) |-> AnyVal]
         /\ appended = \A i, j \in DOMAIN load : i < j => load[i] < load[j]
    /\ done = TRUE /\ rows = << >>
    /\ ops = 0

Insert(k, v) ==
    /\ ops < MaxOps /\ Len(Inserted(tree, k, v).pages) <= MaxPage
    /\ tree' = Inserted(tree, k, v)
    /\ stored' = Written(stored, k, v)
    /\ appended' = (appended /\ \A x \in DOMAIN stored : x < k)
    /\ done' = TRUE /\ rows' = << >>
    /\ ops' = ops + 1

DeleteMiss(k) ==
    /\ Meets(tree, k) = NoPage
    /\ done' = FALSE /\ rows' = << >>
    /\ UNCHANGED <<tree, stored, appended, ops>>

DeleteError(k) ==
    /\ DeleteFails(tree, k)
    /\ done' = FALSE /\ rows' = << >>
    /\ UNCHANGED <<tree, stored, appended, ops>>

Delete(k) ==
    /\ ops < MaxOps
    /\ Meets(tree, k) # NoPage /\ ~DeleteFails(tree, k)
    /\ tree' = Deleted(tree, k)
    /\ stored' = [x \in DOMAIN stored \ {k} |-> stored[x]]
    /\ appended' = FALSE
    /\ done' = TRUE /\ rows' = << >>
    /\ ops' = ops + 1

Get(k) ==
    /\ rows' = Found(tree, k)
    /\ done' = (Found(tree, k) # << >>)
    /\ UNCHANGED <<tree, stored, appended, ops>>

Scan ==
    /\ rows' = Scanned(tree)
    /\ done' = TRUE
    /\ UNCHANGED <<tree, stored, appended, ops>>

(* Rows get ascending keys, as NextAutoInc gives them, and stay.           *)
AppendRow == \E v \in Val : LET k == Cardinality(DOMAIN stored) + 1
                            IN  k \in Key /\ Insert(k, v)

Changes ==
    \/ \E k \in Key, v \in Val : Insert(k, v)
    \/ \E k \in Key : Delete(k) \/ DeleteMiss(k) \/ DeleteError(k)

Reads == Scan \/ \E k \in Key : Get(k)

Spec       == Init /\ [][Changes \/ Reads]_vars
ChangeSpec == Init /\ [][Changes]_vars
AppendSpec == Init /\ [][AppendRow]_vars

-----------------------------------------------------------------------------
Pages == DOMAIN tree.pages
Slots(p) == IF tree.pages[p].leaf THEN {} ELSE 0..Len(tree.pages[p].cells)

Leaves == {p \in Pages : tree.pages[p].leaf}
RowSlots == UNION {{p} \X DOMAIN tree.pages[p].cells : p \in Leaves}
RowAt(s) == tree.pages[s[1]].cells[s[2]]

(* For each key the values of its rows on the leaves, and their number.    *)
RowsByKey ==
    LET slots == RowSlots
        at    == [k \in Key |-> {s \in slots : RowAt(s).key = k}]
    IN  [k \in Key |-> [vals |-> {RowAt(s).val : s \in at[k]}, count |-> Cardinality(at[k])]]

(* The rows on the leaves, as a map.                                       *)
LeafMap == [k \in {RowAt(s).key : s \in RowSlots} |->
              RowAt(CHOOSE s \in RowSlots : RowAt(s).key = k).val]

Map == INSTANCE KVMap WITH map <- LeafMap

TypeOK ==
    /\ tree.root \in Pages
    /\ \A p \in Pages :
         LET pg == tree.pages[p]
         IN  /\ pg.leaf \in BOOLEAN
             /\ \A i \in DOMAIN pg.cells :
                  /\ pg.cells[i].key \in Key /\ pg.cells[i].val \in Val
                  /\ pg.cells[i].left \in IF pg.leaf THEN {NoPage} ELSE Pages
             /\ pg.right \in IF pg.leaf THEN {NoPage} ELSE Pages
             /\ Len(pg.cells) <= pg.laid
             /\ PtrSize * Len(pg.cells) + CellSize * pg.laid <= Room
    /\ done \in BOOLEAN /\ appended \in BOOLEAN /\ ops \in 0..MaxOps
    /\ DOMAIN stored \subseteq Key

(* However splits and deletions follow each other, the keys of a leaf stay *)
(* in order, so that the binary search of the leaf is exact (insertLeaf,   *)
(* splitLeaf, deleteFrom).                                                 *)
LeavesSorted ==
    \A p \in Leaves : LET ks == Keys(tree.pages[p])
                      IN  \A i, j \in DOMAIN ks : i < j => ks[i] < ks[j]

(* No page is the child of two places and the root of none, so no page is  *)
(* split or emptied through two parents, and every descent ends            *)
(* (insertInto, splitInternal).                                            *)
SingleParent ==
    \A p, q \in Pages : \A i \in Slots(p), j \in Slots(q) :
        /\ Child(tree.pages[p], i) = Child(tree.pages[q], j) => p = q /\ i = j
        /\ Child(tree.pages[p], i) # tree.root

(* Every leaf is as deep as every other, whatever splits (Insert).         *)
UniformDepth ==
    LET depths[p \in Pages] ==
            IF tree.pages[p].leaf THEN {0}
            ELSE {d + 1 : d \in UNION {depths[Child(tree.pages[p], i)] : i \in Slots(p)}}
    IN  Cardinality(depths[tree.root]) = 1

(* A step adds, replaces or removes the rows of one key at most, one row   *)
(* of it, whatever pages are split on the way; and a row that a caller has *)
(* stored is there afterwards.  It is on a page, which need not be one a   *)
(* search or a cursor comes to (splitLeaf, splitInternal, deleteFrom).     *)
RowsKept ==
    [][<<tree, stored>>' # <<tree, stored>> =>
         LET before  == RowsByKey
             after   == RowsByKey'
             changed == {x \in Key : before[x] # after[x]}
         IN  /\ Cardinality(changed) <= 1
             /\ \A x \in changed : after[x].count - before[x].count \in {-1, 0, 1}
             /\ \A x \in DOMAIN stored' :
                  (x \notin DOMAIN stored \/ stored'[x] # stored[x])
                      => stored'[x] \in after[x].vals
      ]_vars

(* A scan returns every row that was stored, once, in key order.           *)
ScanComplete == Scanned(tree) = Map!RowsOf(stored)

Height2 == \A i \in Slots(tree.root) : tree.pages[Child(tree.pages[tree.root], i)].leaf

(* A table filled in ascending order, as NextAutoInc fills it, scans       *)
(* completely through every split of its leaves, as long as no internal    *)
(* page has been split.  (It stops being true there: splitInternal drops   *)
(* the rightmost pointer.)                                                 *)
AppendedScans == appended /\ Height2 => ScanComplete

(* A search finds every key that was stored.                               *)
GetComplete == \A k \in DOMAIN stored : Found(tree, k) = <<<<k, stored[k]>>>>

(* A tree of one page is a map: searches, scans, insertions and deletions, *)
(* refused deletions too, do and return what they would with a map.        *)
IsMap == Map!Spec
=============================================================================
