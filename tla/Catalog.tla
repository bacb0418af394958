------------------------------ MODULE Catalog -------------------------------
(***************************************************************************)
(* The B-trees below tables and schema, as far as rows of changing length  *)
(* concern them: a row that is stored again is written in place, so what   *)
(* matters is how cells lie in their page.  Cell i lies right below cell   *)
(* i - 1 (SlottedPage has the bytes).  A cell that outgrows its space      *)
(* covers the start of the cell before it, whose first bytes, the child    *)
(* pointer, nobody reads on a leaf; beyond them it destroys that cell.     *)
(* When the cell before it is written again, its end is destroyed instead. *)
(*                                                                         *)
(* A page is a sequence of cells in the order in which they were laid.     *)
(* The schema tree is a catalogue [pages, sep]: the leaf on page 1 and,    *)
(* once the root has split, the right leaf and the separator.  Bound: it   *)
(* splits once.                                                            *)
(***************************************************************************)
EXTENDS Integers, Sequences, SequencesExt, FiniteSets

CONSTANTS
    Room,     \* bytes of a leaf for cells and their pointers
    LeftPtr   \* bytes at the start of a cell that a leaf does not use

ASSUME CatalogAssumption == Room \in Nat /\ LeftPtr \in Nat

NotSplit == 0     \* keys are positive, in keyCmp order

EmptyCatalog == [pages |-> << << >>, << >> >>, sep |-> NotSplit, sepSpace |-> 0]

(* state "cut": the end of the value is overwritten; "lost": the lengths   *)
(* and the key are.                                                        *)
NewCell(k, v, n) == [key |-> k, val |-> v, len |-> n, space |-> n, live |-> TRUE, state |-> "ok"]

At(pg, k) == {i \in DOMAIN pg : pg[i].live /\ pg[i].key = k}
Keys(pg) == {pg[i].key : i \in {j \in DOMAIN pg : pg[j].live}}
ValueAt(pg, k) == pg[CHOOSE i \in At(pg, k) : TRUE].val

Within(f, k, v) == [x \in DOMAIN f \union {k} |-> IF x = k THEN v ELSE f[x]]
Except(f, k) == [x \in DOMAIN f \ {k} |-> f[x]]

Total(w) ==
    LET upTo[n \in 0..Len(w)] == IF n = 0 THEN 0 ELSE upTo[n - 1] + w[n]
    IN  upTo[Len(w)]

(* Removed cells keep their bytes.                                         *)
Used(pg) == Total([i \in DOMAIN pg |-> pg[i].space])

LiveCells(pg) == {pg[i] : i \in {j \in DOMAIN pg : pg[j].live}}

OutgrownBy(pg, k, n) == \E i \in At(pg, k) : n > pg[i].space

(* rewriteCell with n bytes.  The first cell ends where the page ends and  *)
(* cannot grow: "cell rewrite out of bounds".                              *)
CanRewrite(pg, k, n) == \A i \in At(pg, k) : i = 1 => n <= pg[i].space

Rewritten(pg, k, v, n) ==
    LET i == CHOOSE x \in At(pg, k) : TRUE
    IN  [j \in DOMAIN pg |->
            IF j = i THEN [pg[j] EXCEPT !.val = v, !.len = n, !.state = "ok"]
            ELSE IF j = i - 1 /\ n - pg[i].space > LeftPtr
            THEN [pg[j] EXCEPT !.state = "lost"]
            ELSE IF j = i + 1 /\ pg[j].len > pg[j].space
            THEN [pg[j] EXCEPT !.state = "cut"]
            ELSE pg[j]]

Fits(pg, n) == Used(pg) + n <= Room

(* A removed cell leaves the array of pointers only.                       *)
Without(pg, k) ==
    [j \in DOMAIN pg |-> IF j \in At(pg, k) THEN [pg[j] EXCEPT !.live = FALSE] ELSE pg[j]]

(* insertInto and deleteFrom send a key that equals the separator left.    *)
PageOf(c, k) == IF c.sep = NotSplit \/ k <= c.sep THEN 1 ELSE 2

(* A new cell for which the leaf has no room.                              *)
Splits(c, k, n) == At(c.pages[PageOf(c, k)], k) = {} /\ ~Fits(c.pages[PageOf(c, k)], n)

(* Cells with different keys, the least first.                             *)
ByKey(S) ==
    [i \in 1..Cardinality(S) |-> CHOOSE x \in S : Cardinality({y \in S : y.key < x.key}) = i - 1]

(* splitLeaf of page 1, with the new cell: both halves are laid down anew. *)
(* A half that does not fit its page is left out.                          *)
SplitWith(c, new) ==
    LET sorted == ByKey(LiveCells(c.pages[1]) \union {new})
        fresh  == [i \in DOMAIN sorted |-> NewCell(sorted[i].key, sorted[i].val, sorted[i].len)]
        mid    == Len(sorted) \div 2
    IN  [pages |-> <<SubSeq(fresh, 1, mid), SubSeq(fresh, mid + 1, Len(fresh))>>,
         sep |-> sorted[mid + 1].key,
         sepSpace |-> sorted[mid + 1].len]

PutBeside(c, k, v, n) ==  \* mutation: a key that is there already is not looked for
    LET p == PageOf(c, k)
    IN  IF Fits(c.pages[p], n) THEN [cat |-> [c EXCEPT !.pages[p] = Append(@, NewCell(k, v, n))], ok |-> TRUE]
        ELSE [cat |-> SplitWith(c, NewCell(k, v, n)), ok |-> TRUE]

(* BTree.Insert of the schema tree: the catalogue afterwards, and whether  *)
(* it returned nil.                                                        *)
Put(c, k, v, n) ==
    LET p  == PageOf(c, k)
        pg == c.pages[p]
    IN  IF At(pg, k) # {}
        THEN IF CanRewrite(pg, k, n)
             THEN [cat |-> [c EXCEPT !.pages[p] = Rewritten(@, k, v, n)], ok |-> TRUE]
             ELSE [cat |-> c, ok |-> FALSE]
        ELSE IF Fits(pg, n)
        THEN [cat |-> [c EXCEPT !.pages[p] = Append(@, NewCell(k, v, n))], ok |-> TRUE]
        ELSE [cat |-> SplitWith(c, NewCell(k, v, n)), ok |-> TRUE]

(* The bound: no second split, and no row whose key can not be read.       *)
Followed(c, k, n) ==
    /\ \A p \in 1..2 : \A i \in DOMAIN c.pages[p] : c.pages[p][i].state # "lost"
    /\ c.sep # NotSplit => ~Splits(c, k, n)

Least(pg) == CHOOSE x \in Keys(pg) : \A y \in Keys(pg) : x <= y
LenAt(pg, k) == pg[CHOOSE i \in At(pg, k) : TRUE].len

(* BTree.Delete.  A key that is the separator is replaced by the first row *)
(* of the left leaf, which is what leaves that leaf; without such a row,   *)
(* or with one that does not fit the separator's cell, it is an error.     *)
CanRemoved(c, k) ==
    k = c.sep => /\ Keys(c.pages[1]) # {}
                 /\ LenAt(c.pages[1], Least(c.pages[1])) <= c.sepSpace

Removed(c, k) ==
    IF k = c.sep
    THEN [c EXCEPT !.pages[1] = Without(@, Least(@)), !.sep = Least(c.pages[1])]
    ELSE [c EXCEPT !.pages[PageOf(c, k)] = Without(@, k)]

(* What a cursor finds that starts on page 1: loadAll starts at            *)
(* header.SchemaPage, which no split changes.                              *)
Readable(c) == \A i \in DOMAIN c.pages[1] : c.pages[1][i].live => c.pages[1][i].state = "ok"
Stored(c) == [k \in Keys(c.pages[1]) |-> ValueAt(c.pages[1], k)]
Reopened(c) == [EmptyCatalog EXCEPT !.pages[1] = c.pages[1]]
=============================================================================
