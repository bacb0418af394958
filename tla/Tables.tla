------------------------------- MODULE Tables -------------------------------
(***************************************************************************)
(* Tables, indexes and views: the operations of SchemaManager (schema.go)  *)
(* and TableEngine (table.go), one action for each, as the executor calls  *)
(* them one after the other.  A call that is refused without a change is a *)
(* stuttering step; one that fails half way is an action of its own.       *)
(*                                                                         *)
(* Names stand for their lower-case form.  A row is the sequence of its    *)
(* values and may be shorter or longer than the table's columns are now.   *)
(* A row tree is one leaf (module BTree has larger ones) in the layout of  *)
(* Catalog; an index tree is the set of its keys.                          *)
(***************************************************************************)
EXTENDS Catalog

CONSTANTS
    TableName, IndexName, ViewName,  \* disjoint sets of keys of schema rows
    ColumnName,
    Designs,       \* column lists of CREATE TABLE
    NewColumns,    \* columns of ALTER TABLE ADD COLUMN
    Inserts,       \* column -> value, of INSERT
    Updates,       \* column -> value, of UPDATE
    MaxInt,        \* the largest integer; the least is -MaxInt - 1
    Radix, BaseLen, ColumnLen, ViewLen,  \* lengths of a schema row's parts
    MaxTree,       \* bound: trees ever allocated
    MaxChanges     \* bound: operations in a behaviour

NullV == [type |-> "null", n |-> 0]
IntV(n) == [type |-> "int", n |-> n]
TextV(n) == [type |-> "text", n |-> n]   \* the text of a number, or Word
Word == -1000000                        \* a text that is no number
NullWord == Word - 1                    \* String() of NULL
NoDefault == 0

Bounded(n) == n \in (-MaxInt - 1)..MaxInt

Columns == [name : ColumnName, type : {"INTEGER", "TEXT"}, notNull : BOOLEAN, pk : BOOLEAN, def : Int]
Values == {v \in [type : {"null", "int", "text"}, n : Int] : v.type # "null" => Bounded(v.n) \/ v = TextV(Word)}

(* The keys of schema rows have the prefixes t:, i: and v:.                *)
ASSUME TablesAssumption ==
    /\ TableName \union IndexName \union ViewName \subseteq Nat \ {NotSplit}
    /\ TableName \intersect IndexName = {} /\ TableName \intersect ViewName = {}
    /\ IndexName \intersect ViewName = {}
    /\ Designs \subseteq Seq(Columns)
    /\ \A d \in Designs : \A i, j \in DOMAIN d : d[i].name = d[j].name => i = j
    /\ NewColumns \subseteq Columns
    /\ \A given \in Inserts \union Updates : \A name \in DOMAIN given : given[name] \in Values
    /\ MaxInt \in Nat \ {0} /\ Radix \in Nat \ {0, 1} /\ MaxTree \in Nat
    /\ BaseLen \in Nat /\ ColumnLen \in Nat /\ ViewLen \in Nat

VARIABLES
    tables,    \* SchemaManager.tables
    indexes,   \* SchemaManager.indexes
    views,     \* SchemaManager.views
    cat,       \* the schema tree
    rows,      \* tree -> page of rows
    entries,   \* tree -> keys of an index: value as text, and row id
    marks,     \* ghost: what has happened that a property makes exception of
    changes    \* bound

vars == <<tables, indexes, views, cat, rows, entries, marks, changes>>

Trees == DOMAIN rows
Tree == 1..MaxTree

-----------------------------------------------------------------------------
(* Values and columns.                                                     *)
NoWrap(n) == n  \* mutation: the counter leaves the integers

Wrap(n) == IF n > MaxInt THEN n - 2 * MaxInt - 2 ELSE n

CanCoerce(v, type) == ~(type = "INTEGER" /\ v.type = "text" /\ v.n = Word)

Coerce(v, type) ==
    IF v.type = "null" THEN v
    ELSE IF type = "INTEGER" THEN IntV(v.n) ELSE TextV(v.n)

DefaultOf(col) == IF col.def = NoDefault THEN NullV ELSE TextV(col.def)

ColumnIndex(ts, name) ==
    IF \E i \in DOMAIN ts.cols : ts.cols[i].name = name
    THEN CHOOSE i \in DOMAIN ts.cols : ts.cols[i].name = name ELSE 0

PrimaryKeyColumn(ts) ==
    IF \E i \in DOMAIN ts.cols : ts.cols[i].pk
    THEN CHOOSE i \in DOMAIN ts.cols : ts.cols[i].pk /\ \A j \in 1..(i-1) : ~ts.cols[j].pk
    ELSE 0

ExtendedNull(row, ts) ==  \* mutation: columns the row lacks are NULL
    [i \in DOMAIN row \union DOMAIN ts.cols |-> IF i \in DOMAIN row THEN row[i] ELSE NullV]

(* A row from before ADD COLUMN, as Scan and Update see it.                *)
Extended(row, ts) ==
    [i \in DOMAIN row \union DOMAIN ts.cols |-> IF i \in DOMAIN row THEN row[i] ELSE DefaultOf(ts.cols[i])]

Digits(n) == 1 + Cardinality({p \in 1..3 : n >= <<Radix, Radix * Radix, Radix * Radix * Radix>>[p]})
Width(n) == IF n < 0 THEN 1 + Digits(-n) ELSE Digits(n)

(* encodeValue and the five bytes EncodeRow puts before it.                *)
ValueLen(v) == CASE v.type = "null" -> 5
                 [] v.type = "int"  -> 13
                 [] v.type = "text" -> 5 + IF v.n = Word THEN 4 ELSE Width(v.n)
RowLen(row) == Total([i \in DOMAIN row |-> ValueLen(row[i])])

(* json.Marshal: the list of index names is null before the first index.   *)
NamesLen(ts) == IF ts.names = << >> THEN (IF ts.noNames THEN 4 ELSE 2) ELSE 1 + 4 * Len(ts.names)
TableLen(ts) == BaseLen + ColumnLen * Len(ts.cols) + Width(ts.next) + NamesLen(ts)

-----------------------------------------------------------------------------
Mark(m, p) == IF p THEN {m} ELSE {}
Step == changes < MaxChanges /\ changes' = changes + 1
NewTree == Cardinality(Trees) + 1

(* A table whose rows can be read.                                         *)
Sound(t) == \A i \in DOMAIN rows[tables[t].tree] : rows[tables[t].tree][i].state # "lost"

MarksOfPut(c, k, v, n) ==
    Mark("outgrown", OutgrownBy(c.pages[PageOf(c, k)], k, n))
        \union Mark("unsaved", ~Put(c, k, v, n).ok)
        \union Mark("split", Splits(c, k, n))

(* updateTableSchema: the tables in memory have changed already.           *)
Save(t, ts) == Put(cat, t, ts, TableLen(ts))
MarksOfSave(t, ts) == MarksOfPut(cat, t, ts, TableLen(ts))
CanFollow(t, ts) == Followed(cat, t, TableLen(ts))

SetTable(t, ts, mark) ==
    /\ CanFollow(t, ts)
    /\ tables' = Within(tables, t, ts)
    /\ cat' = Save(t, ts).cat
    /\ marks' = marks \union MarksOfSave(t, ts) \union mark

-----------------------------------------------------------------------------
(* SchemaManager                                                           *)
CreateTable(t, design) ==
    LET ts == [name |-> t, cols |-> design, tree |-> NewTree, names |-> << >>,
               noNames |-> TRUE, next |-> 1]
    IN  /\ Step
        /\ t \notin DOMAIN tables /\ NewTree \in Tree
        /\ SetTable(t, ts, {})
        /\ rows' = Append(rows, << >>)
        /\ entries' = Append(entries, {})
        /\ UNCHANGED <<indexes, views>>

DropTable(t) ==
    /\ Step
    /\ t \in DOMAIN tables /\ CanRemoved(cat, t)
    /\ cat' = Removed(cat, t)
    /\ tables' = Except(tables, t)
    /\ UNCHANGED <<indexes, views, rows, entries, marks>>

(* The rows that are there already get no entry.                           *)
CreateIndex(i, t, column) ==
    LET is == [name |-> i, table |-> t, column |-> column, tree |-> NewTree]
        ts == [tables[t] EXCEPT !.names = Append(@, i), !.noNames = FALSE]
        stored == Put(cat, i, is, BaseLen)
    IN  /\ Step
        /\ i \notin DOMAIN indexes /\ t \in DOMAIN tables /\ NewTree \in Tree
        /\ ColumnIndex(tables[t], column) # 0
        /\ Followed(cat, i, BaseLen) /\ Followed(stored.cat, t, TableLen(ts))
        /\ cat' = Put(stored.cat, t, ts, TableLen(ts)).cat
        /\ marks' = marks \union Mark("split", Splits(cat, i, BaseLen))
                          \union MarksOfPut(stored.cat, t, ts, TableLen(ts))
                          \union Mark("late", Keys(rows[ts.tree]) # {})
        /\ indexes' = Within(indexes, i, is)
        /\ tables' = [tables EXCEPT ![t] = ts]
        /\ rows' = Append(rows, << >>)
        /\ entries' = Append(entries, {})
        /\ UNCHANGED views

(* newIdxs: the list without i, and never null.                            *)
Others(names, i) ==
    LET upTo[n \in 0..Len(names)] ==
          IF n = 0 THEN << >>
          ELSE IF names[n] = i THEN upTo[n - 1] ELSE Append(upTo[n - 1], names[n])
    IN  upTo[Len(names)]

Listed(i, ts) == \E t \in DOMAIN ts : i \in ToSet(ts[t].names)

(* The table is looked up by the name it had when the index was created:   *)
(* one that has been renamed goes on listing the index.                    *)
DropIndex(i) ==
    LET removed == Removed(cat, i)
        t == indexes[i].table
    IN  /\ Step
        /\ i \in DOMAIN indexes /\ CanRemoved(cat, i)
        /\ IF t \in DOMAIN tables
           THEN LET ts == [tables[t] EXCEPT !.names = Others(@, i), !.noNames = FALSE]
                    saved == Put(removed, t, ts, TableLen(ts))
                IN  /\ Followed(removed, t, TableLen(ts))
                    /\ tables' = [tables EXCEPT ![t] = ts]
                    /\ cat' = saved.cat
                    /\ indexes' = IF saved.ok THEN Except(indexes, i) ELSE indexes
                    /\ marks' = marks \union MarksOfPut(removed, t, ts, TableLen(ts))
                                      \union Mark("listed", Listed(i, tables'))
           ELSE /\ cat' = removed
                /\ indexes' = Except(indexes, i)
                /\ marks' = marks \union Mark("listed", Listed(i, tables))
                /\ UNCHANGED tables
        /\ UNCHANGED <<views, rows, entries>>

CreateView(v) ==
    /\ Step
    /\ v \notin views /\ Followed(cat, v, ViewLen)
    /\ cat' = Put(cat, v, v, ViewLen).cat
    /\ views' = views \union {v}
    /\ marks' = marks \union Mark("split", Splits(cat, v, ViewLen))
    /\ UNCHANGED <<tables, indexes, rows, entries>>

DropView(v) ==
    /\ Step
    /\ v \in views /\ CanRemoved(cat, v)
    /\ cat' = Removed(cat, v)
    /\ views' = views \ {v}
    /\ UNCHANGED <<tables, indexes, rows, entries, marks>>

RenameTable(old, new) ==
    LET ts == [tables[old] EXCEPT !.name = new]
        removed == Removed(cat, old)
        saved == Put(removed, new, ts, TableLen(ts))
    IN  /\ Step
        /\ old \in DOMAIN tables /\ new \notin DOMAIN tables
        /\ CanRemoved(cat, old) /\ Followed(removed, new, TableLen(ts))
        /\ tables' = Within(Except(tables, old), new, ts)
        /\ cat' = saved.cat
        /\ marks' = marks \union Mark("split", Splits(removed, new, TableLen(ts)))
        /\ UNCHANGED <<indexes, views, rows, entries>>

(* A table without a primary key may get one while it has rows, which hold *)
(* no key.                                                                 *)
KeyedLate(t, col) ==
    col.pk /\ PrimaryKeyColumn(tables[t]) = 0 /\ Keys(rows[tables[t].tree]) # {}

AddColumn(t, col) ==
    /\ Step
    /\ t \in DOMAIN tables /\ ColumnIndex(tables[t], col.name) = 0
    /\ col.notNull => col.def # NoDefault
    /\ SetTable(t, [tables[t] EXCEPT !.cols = Append(@, col)], Mark("keyed late", KeyedLate(t, col)))
    /\ UNCHANGED <<indexes, views, rows, entries>>

(* An index keeps the old name and is not maintained any more.             *)
RenameColumn(t, old, new) ==
    LET i == ColumnIndex(tables[t], old)
    IN  /\ Step
        /\ t \in DOMAIN tables
        /\ i # 0 /\ ColumnIndex(tables[t], new) = 0
        /\ CanFollow(t, tables[t])
        /\ tables' = [tables EXCEPT ![t].cols[i].name = new]
        /\ cat' = Save(t, tables'[t]).cat
        /\ marks' = marks \union MarksOfSave(t, tables'[t]) \union {"renamed"}
        /\ UNCHANGED <<indexes, views, rows, entries>>

(* The rows keep the value of the column.                                  *)
DropColumn(t, column) ==
    LET i == ColumnIndex(tables[t], column)
        ts == [tables[t] EXCEPT !.cols = RemoveAt(@, i)]
    IN  /\ Step
        /\ t \in DOMAIN tables
        /\ i # 0 /\ ~tables[t].cols[i].pk
        /\ CanFollow(t, ts)
        /\ tables' = [tables EXCEPT ![t] = ts]
        /\ cat' = Save(t, ts).cat
        /\ marks' = marks \union MarksOfSave(t, ts) \union {"dropped"}
        /\ UNCHANGED <<indexes, views, rows, entries>>

-----------------------------------------------------------------------------
(* TableEngine                                                             *)
Maintained(ts) ==
    {i \in ToSet(ts.names) : i \in DOMAIN indexes /\ ColumnIndex(ts, indexes[i].column) # 0}

(* indexKey: integers and the texts of their digits give the same key.     *)
IndexKey(ts, i, row, id) ==
    LET v == row[ColumnIndex(ts, indexes[i].column)]
    IN  <<IF v.type = "null" THEN NullWord ELSE v.n, id>>

NewRow(ts, given) ==
    [i \in DOMAIN ts.cols |->
        IF ts.cols[i].name \in DOMAIN given THEN Coerce(given[ts.cols[i].name], ts.cols[i].type)
        ELSE DefaultOf(ts.cols[i])]

Acceptable(ts, given) ==
    /\ \A name \in DOMAIN given :
          LET i == ColumnIndex(ts, name) IN i # 0 /\ CanCoerce(given[name], ts.cols[i].type)
    /\ \A i \in DOMAIN ts.cols :
          ts.cols[i].notNull /\ ~ts.cols[i].pk => NewRow(ts, given)[i].type # "null"

(* The key is the primary key's Integer field, which is 0 in a text.       *)
GivenId(ts, row) ==
    LET pk == PrimaryKeyColumn(ts)
    IN  IF pk # 0 /\ row[pk].type = "int" THEN row[pk].n ELSE 0

NextLater(ts, id) ==  \* mutation: a given id moves the counter to itself only
    IF id > ts.next THEN id ELSE ts.next

NextAfter(ts, id) == IF id >= ts.next THEN Wrap(id + 1) ELSE ts.next

KeyedIfNull(ts, row, id) ==  \* mutation: a text stays in the primary key
    LET pk == PrimaryKeyColumn(ts)
    IN  [i \in DOMAIN row |-> IF i = pk /\ row[i].type = "null" THEN IntV(id) ELSE row[i]]

KeyedRow(ts, row, id) ==
    LET pk == PrimaryKeyColumn(ts)
    IN  [i \in DOMAIN row |-> IF i = pk /\ GivenId(ts, row) = 0 THEN IntV(id) ELSE row[i]]

(* INSERT with the conflict action.  NextAutoInc is saved first, whatever  *)
(* becomes of the row.                                                     *)
Insert(t, given, onConflict) ==
    LET ts   == tables[t]
        row0 == NewRow(ts, given)
        id   == IF GivenId(ts, row0) # 0 THEN GivenId(ts, row0) ELSE ts.next
        row  == KeyedRow(ts, row0, id)
        ts1  == [ts EXCEPT !.next = NextAfter(ts, id)]
        page == IF onConflict = "REPLACE" THEN Without(rows[ts.tree], id) ELSE rows[ts.tree]
    IN  /\ Step
        /\ t \in DOMAIN tables /\ Sound(t)
        /\ Acceptable(ts, given)
        /\ CanFollow(t, ts1)
        /\ tables' = [tables EXCEPT ![t] = ts1]
        /\ cat' = Save(t, ts1).cat
        /\ marks' = marks \union MarksOfSave(t, ts1) \union Mark("wrapped", id = MaxInt)
        /\ IF Save(t, ts1).ok /\ At(page, id) = {}
           THEN /\ Fits(page, RowLen(row))
                /\ rows' = [rows EXCEPT ![ts.tree] = Append(page, NewCell(id, row, RowLen(row)))]
                /\ entries' = [e \in Trees |-> entries[e] \union
                      {IndexKey(ts, i, row, id) : i \in {x \in Maintained(ts) : indexes[x].tree = e}}]
           ELSE UNCHANGED <<rows, entries>>
        /\ UNCHANGED <<indexes, views>>

(* The index entries are removed before the row.                           *)
Delete(t, id) ==
    LET ts  == tables[t]
        row == ValueAt(rows[ts.tree], id)
        covered == {i \in Maintained(ts) : ColumnIndex(ts, indexes[i].column) <= Len(row)}
    IN  /\ Step
        /\ t \in DOMAIN tables /\ Sound(t) /\ id \in Keys(rows[ts.tree])
        /\ entries' = [e \in Trees |-> entries[e] \
              {IndexKey(ts, i, row, id) : i \in {x \in covered : indexes[x].tree = e}}]
        /\ rows' = [rows EXCEPT ![ts.tree] = Without(@, id)]
        /\ UNCHANGED <<tables, indexes, views, cat, marks>>

MovedLate(set, old, new) ==  \* mutation: the old entry is removed after the new one is stored
    (set \union {new}) \ {old}

Moved(set, old, new) == (set \ {old}) \union {new}

UpdatedRow(ts, row, given) ==
    [i \in DOMAIN row |->
        IF i \in DOMAIN ts.cols /\ ts.cols[i].name \in DOMAIN given
        THEN Coerce(given[ts.cols[i].name], ts.cols[i].type) ELSE row[i]]

MayUpdate(ts, given) ==
    \A name \in DOMAIN given :
        LET i == ColumnIndex(ts, name)
        IN  /\ i # 0 /\ CanCoerce(given[name], ts.cols[i].type)
            /\ ~(ts.cols[i].notNull /\ given[name].type = "null")

(* UPDATE of one row, under the key it has.  The indexes of the columns    *)
(* that are set follow first; then the row may turn out not to fit.        *)
Update(t, id, given) ==
    LET ts  == tables[t]
        pg  == rows[ts.tree]
        old == Extended(ValueAt(pg, id), ts)
        new == UpdatedRow(ts, old, given)
        moved == {i \in Maintained(ts) : indexes[i].column \in DOMAIN given}
    IN  /\ Step
        /\ t \in DOMAIN tables /\ Sound(t) /\ id \in Keys(pg)
        /\ MayUpdate(ts, given)
        /\ entries' = [e \in Trees |->
              IF \E i \in moved : indexes[i].tree = e
              THEN LET i == CHOOSE x \in moved : indexes[x].tree = e
                   IN  Moved(entries[e], IndexKey(ts, i, old, id), IndexKey(ts, i, new, id))
              ELSE entries[e]]
        /\ rows' = IF CanRewrite(pg, id, RowLen(new))
                   THEN [rows EXCEPT ![ts.tree] = Rewritten(@, id, new, RowLen(new))] ELSE rows
        /\ marks' = marks \union Mark("refused", ~CanRewrite(pg, id, RowLen(new)))
              \union Mark("keyed", \E i \in DOMAIN ts.cols : ts.cols[i].pk /\ ts.cols[i].name \in DOMAIN given)
        /\ UNCHANGED <<tables, indexes, views, cat>>

-----------------------------------------------------------------------------
(* The program stops, everything flushed, and NewSchemaManager loads the   *)
(* schema.  With a damaged schema it does not start: no step.              *)
Reopen ==
    LET loaded == Stored(cat)
    IN  /\ Step
        /\ Readable(cat)
        /\ tables' = [t \in DOMAIN loaded \intersect TableName |-> loaded[t]]
        /\ indexes' = [i \in DOMAIN loaded \intersect IndexName |-> loaded[i]]
        /\ views' = DOMAIN loaded \intersect ViewName
        /\ cat' = Reopened(cat)
        /\ UNCHANGED <<rows, entries, marks>>

Init ==
    /\ tables = << >> /\ indexes = << >> /\ views = {}
    /\ cat = EmptyCatalog
    /\ rows = << >> /\ entries = << >>
    /\ marks = {} /\ changes = 0

Next ==
    \/ \E t \in TableName : \/ \E d \in Designs : CreateTable(t, d)
                            \/ DropTable(t)
                            \/ \E new \in TableName : RenameTable(t, new)
                            \/ \E col \in NewColumns : AddColumn(t, col)
                            \/ \E old, new \in ColumnName : RenameColumn(t, old, new)
                            \/ \E column \in ColumnName : DropColumn(t, column)
                            \/ \E given \in Inserts, c \in {"ABORT", "IGNORE", "REPLACE"} : Insert(t, given, c)
                            \/ \E id \in (-MaxInt-1)..MaxInt : Delete(t, id)
                            \/ \E id \in (-MaxInt-1)..MaxInt, given \in Updates : Update(t, id, given)
    \/ \E i \in IndexName : \/ \E t \in TableName, column \in ColumnName : CreateIndex(i, t, column)
                            \/ DropIndex(i)
    \/ \E v \in ViewName : CreateView(v) \/ DropView(v)
    \/ Reopen

Spec == Init /\ [][Next]_vars

-----------------------------------------------------------------------------
(* The maps of the schema manager hold what their rows are supposed to     *)
(* hold, every tree is within the bound, and the catalogue fits its page   *)
(* (of the halves after a split SlottedPage says what holds).              *)
TypeOK ==
    /\ DOMAIN tables \subseteq TableName /\ DOMAIN indexes \subseteq IndexName /\ views \subseteq ViewName
    /\ \A t \in DOMAIN tables : tables[t].name = t /\ tables[t].tree \in Trees
                                /\ tables[t].next \in (-MaxInt-1)..MaxInt
    /\ \A i \in DOMAIN indexes : indexes[i].tree \in Trees
    /\ DOMAIN entries = Trees /\ Trees \subseteq Tree
    /\ "split" \notin marks => Used(cat.pages[1]) <= Room

InMemory ==
    [k \in DOMAIN tables \union DOMAIN indexes \union views |->
        IF k \in DOMAIN tables THEN tables[k] ELSE IF k \in DOMAIN indexes THEN indexes[k] ELSE k]

(* Opening the database finds the schema that the program had when it      *)
(* stopped, as long as no schema row was refused and the schema tree has   *)
(* not split (loadAll against all that writes the maps); and it can be     *)
(* opened as long as no schema row has ever outgrown its cell.             *)
CatalogLoads ==
    marks \intersect {"unsaved", "split"} = {} =>
        /\ Readable(cat) => Stored(cat) = InMemory
        /\ "outgrown" \notin marks => Readable(cat)

(* An id the counter hands out belongs to no row, now and after any        *)
(* reopening: every row's id is below NextAutoInc in memory and in the     *)
(* stored schema, refused insertions included, until the counter wraps.    *)
CounterAhead ==
    marks \intersect {"wrapped", "split"} = {} =>
        /\ \A t \in DOMAIN tables : \A id \in Keys(rows[tables[t].tree]) : id < tables[t].next
        /\ Readable(cat) => \A t \in DOMAIN Stored(cat) \intersect TableName :
              \A id \in Keys(rows[Stored(cat)[t].tree]) : id < Stored(cat)[t].next

(* The primary key column of a row holds the key the row is stored under,  *)
(* also for rows whose key was generated or given as text, and whether the *)
(* table had the column from the start or ALTER TABLE added it while the   *)
(* table was empty.  It stops being so when an UPDATE sets the column, a   *)
(* column in front of it is dropped, or a table without a primary key gets *)
(* one while it has rows: those hold no key, and no value in the column.   *)
PkIsRowid ==
    marks \intersect {"keyed", "keyed late", "dropped", "split"} = {} =>
        \A t \in DOMAIN tables : \A id \in Keys(rows[tables[t].tree]) :
            LET pk == PrimaryKeyColumn(tables[t])
            IN  Sound(t) /\ pk # 0 => ValueAt(rows[tables[t].tree], id)[pk] = IntV(id)

(* No row that Scan returns has a NULL in a NOT NULL column, be the column *)
(* older or younger than the row.  Dropping a column shifts the values of  *)
(* the others; and a column that ADD COLUMN put into memory and could not  *)
(* store may come back with other constraints.  Of several primary key     *)
(* columns, only the first is filled in when it is NULL.                   *)
NotNullHolds ==
    marks \intersect {"dropped", "unsaved", "split"} = {} =>
        \A t \in DOMAIN tables : \A id \in Keys(rows[tables[t].tree]) :
            \A i \in DOMAIN tables[t].cols :
                tables[t].cols[i].notNull /\ (tables[t].cols[i].pk => i = PrimaryKeyColumn(tables[t])) =>
                    Extended(ValueAt(rows[tables[t].tree], id), tables[t])[i].type # "null"

(* Every row has an entry in each index of its table: insertions,          *)
(* replacements, updates and deletions keep the two together, over renames *)
(* of the table and reopenings.  It stops being so when an index is        *)
(* created late, a column is renamed or dropped, an UPDATE is refused      *)
(* after its index entries have moved, or a table lists an index that was  *)
(* dropped, whose name may come to stand for another one.                  *)
IndexCovers ==
    marks \intersect {"late", "renamed", "dropped", "refused", "listed", "split"} = {} =>
        \A t \in DOMAIN tables : \A i \in Maintained(tables[t]) :
            \A id \in Keys(rows[tables[t].tree]) :
                IndexKey(tables[t], i, Extended(ValueAt(rows[tables[t].tree], id), tables[t]), id)
                    \in entries[indexes[i].tree]
=============================================================================
