------------------------------- MODULE Select -------------------------------
(***************************************************************************)
(* SELECT in the executor (executor/executor.go) on the trees of module    *)
(* Parser: rows are read and joined, filtered, grouped or projected, made  *)
(* distinct, sorted and cut.                                               *)
(*                                                                         *)
(* db gives the tables: names for the positions of their rows, and the     *)
(* rows in the order of the scan.  Views, WITH and the aggregates that     *)
(* work on reals or bits are left out.                                     *)
(***************************************************************************)
EXTENDS Eval

Clauses(sel, words) == SelectSeq(sel.args, LAMBDA c : c.op \in words)
Has(sel, word) == Clauses(sel, {word}) # << >>
The(sel, word) == Clauses(sel, {word})[1].args

Items(sel) == sel.args[1].args
IsDistinct(sel) == sel.args[1].op = "DISTINCT"
Expression(item) == IF item.op = "AS" THEN item.args[1] ELSE item
IsStar(item) == item.op = "*" /\ item.args = << >>

TableOf(ref) == Expression(ref).op
AliasOf(ref) == IF ref.op = "AS" THEN ref.args[2].op ELSE ref.op

At(st, row) == [row |-> row, cols |-> st.cols, tables |-> st.tables]

-----------------------------------------------------------------------------
(* gatherRows and applyJoin.  The tables of a context are bound to the row *)
(* last read, which after the loops is the last one of the table.          *)
Bound(tables, alias, table) ==
    IF table.rows = << >> THEN tables
    ELSE [a \in DOMAIN tables \union {alias} |->
             IF a = alias THEN [cols |-> table.cols, row |-> Last(table.rows)] ELSE tables[a]]

Cross(left, right) == FlattenSeq([i \in DOMAIN left |-> [j \in DOMAIN right |-> left[i] \o right[j]]])

Passes(st, join, left, table, right) ==
    LET alias == AliasOf(join.args[1])
        tables == [a \in DOMAIN st.tables \union {alias} |->
                      IF a = alias THEN [cols |-> table.cols, row |-> right] ELSE st.tables[a]]
        how == join.args[2]
        there(cols, row, c) == Position(cols, c) \in 1..Len(row)
    IN  \/ Len(join.args) = 1
        \/ /\ Len(join.args) = 2 /\ how.op = "ON"
           /\ IsTrue(Eval([row |-> left \o right, cols |-> st.cols, tables |-> tables], how.args[1]))
        \/ /\ Len(join.args) = 2 /\ how.op = "USING"
           /\ \A i \in DOMAIN how.args :
                 LET c == how.args[i].op
                 IN  /\ there(st.cols, left, c) /\ there(table.cols, right, c)
                     /\ Same(ValueIn(st.cols, left, c), ValueIn(table.cols, right, c))

Unmatched(join, left, table) ==
    IF join.op = "LEFT" THEN <<left \o [i \in DOMAIN table.cols |-> Null]>> ELSE << >>

Extended(join, left, table, hits) == IF hits = << >> THEN Unmatched(join, left, table) ELSE Cross(<<left>>, hits)

(* RIGHT, FULL and NATURAL do no more than INNER.                          *)
Joined1(db, st, join) ==
    LET table == db[TableOf(join.args[1])]
        hits(left) == SelectSeq(table.rows, LAMBDA right : Passes(st, join, left, table, right))
    IN  [rows |-> FlattenSeq([i \in DOMAIN st.rows |-> Extended(join, st.rows[i], table, hits(st.rows[i]))]),
         cols |-> st.cols,
         tables |-> IF st.rows = << >> THEN st.tables ELSE Bound(st.tables, AliasOf(join.args[1]), table)]

Gather(db, sel) ==
    LET from == The(sel, "FROM")
        main == db[TableOf(from[1])]
        first == [rows |-> main.rows, cols |-> main.cols, tables |-> Bound(<< >>, AliasOf(from[1]), main)]
        crossed == FoldLeft(LAMBDA st, ref : [st EXCEPT !.rows = Cross(@, db[TableOf(ref)].rows)], first, Tail(from))
    IN  FoldLeft(LAMBDA st, join : Joined1(db, st, join), crossed, Clauses(sel, JoinTypes))

Filter(st, sel) ==
    IF ~Has(sel, "WHERE") THEN st.rows
    ELSE SelectSeq(st.rows, LAMBDA row : IsTrue(Eval(At(st, row), The(sel, "WHERE")[1])))

-----------------------------------------------------------------------------
Aggregates == {"COUNT", "SUM", "MIN", "MAX"}
IsCall(e) == e.op \in {"call", "call distinct"}
IsAggregate(e) == IsCall(e) /\ e.args[1].op \in Aggregates

(* containsAggregate looks through operators of one or two operands.       *)
RECURSIVE ContainsAggregate(_)
ContainsAggregate(e) ==
    \/ IsAggregate(e)
    \/ /\ e.op \in UNION {Tiers[i] : i \in DOMAIN Tiers} \union {"AND", "OR", "NOT", "=", "!=", "<", "<=", ">", ">=", "~"}
       /\ \E i \in DOMAIN e.args : ContainsAggregate(e.args[i])

(* simpleAgg: NULLs are passed over; DISTINCT makes no difference.         *)
Aggregated(fn, values) ==
    LET vs == SelectSeq(values, LAMBDA v : ~IsNull(v))
    IN  CASE fn = "COUNT" -> Num(Len(vs))
          [] fn # "COUNT" /\ vs = << >> -> Null
          [] fn = "SUM" /\ vs # << >> -> Num(FoldLeft(LAMBDA n, v : n + v.n, 0, vs))
          [] fn = "MIN" /\ vs # << >> -> FoldLeft(LAMBDA b, v : IF Less(v, b) THEN v ELSE b, vs[1], vs)
          [] fn = "MAX" /\ vs # << >> -> FoldLeft(LAMBDA b, v : IF Less(b, v) THEN v ELSE b, vs[1], vs)

(* evalAggregate: one row; a column that is no aggregate itself has its    *)
(* value in the first row of the group.                                    *)
AggregateRow(st, sel, rows) ==
    LET value(item) ==
            LET e == Expression(item)
                of(row) == IF Len(e.args) = 1 \/ IsStar(e.args[2]) THEN Num(1) ELSE Eval(At(st, row), e.args[2])
            IN  IF IsAggregate(e)
                THEN Aggregated(e.args[1].op, [i \in DOMAIN rows |-> of(rows[i])])
                ELSE Eval(IF rows = << >> THEN NoRow ELSE At(st, rows[1]), e)
    IN  [i \in DOMAIN Items(sel) |-> value(Items(sel)[i])]

(* Values count as equal when they are printed alike.                      *)
Printed(row) == [i \in DOMAIN row |-> Str(row[i])]

(* The rows without those whose keys have come before.                     *)
DistinctBy(rows, keys) ==
    LET keep == SelectSeq([i \in DOMAIN rows |-> i], LAMBDA i : \A j \in 1..i - 1 : keys[j] # keys[i])
    IN  [k \in DOMAIN keep |-> rows[keep[k]]]

GroupKeys(st, sel, rows) ==
    LET by == The(sel, "GROUP")
    IN  [i \in DOMAIN rows |-> Printed([k \in DOMAIN by |-> Eval(At(st, rows[i]), by[k])])]

(* The rows with the same key, in the order of the first of each.          *)
Groups(rows, keys) ==
    LET firsts == DistinctBy(keys, keys)
        of(key) == SelectSeq([i \in DOMAIN rows |-> i], LAMBDA i : keys[i] = key)
    IN  [g \in DOMAIN firsts |-> [k \in DOMAIN of(firsts[g]) |-> rows[of(firsts[g])[k]]]]

(* HAVING sees the columns of no table.                                    *)
Having(sel, rows) ==
    IF Has(sel, "HAVING")
    THEN SelectSeq(rows, LAMBDA row : IsTrue(Eval([NoRow EXCEPT !.row = row], The(sel, "HAVING")[1])))
    ELSE rows

Grouped(st, sel, groups) == Having(sel, [g \in DOMAIN groups |-> AggregateRow(st, sel, groups[g])])

-----------------------------------------------------------------------------
Project(st, sel, row) ==
    FlattenSeq([i \in DOMAIN Items(sel) |->
                   IF IsStar(Items(sel)[i]) THEN row ELSE <<Eval(At(st, row), Expression(Items(sel)[i]))>>])

Dedup(rows) == DistinctBy(rows, [i \in DOMAIN rows |-> Printed(rows[i])])

(* resolveColumnNames and exprName: * stands for the columns of the first  *)
(* table.  Expressions have names that no column has.                      *)
Names(st, sel) ==
    LET name(item) ==
            CASE IsStar(item) -> st.cols
              [] item.op = "AS" -> <<item.args[2].op>>
              [] item.op = "." -> <<item.args[2].op>>
              [] IsCall(item) -> <<item.args[1].op>>
              [] OTHER -> <<item.op>>
    IN  FlattenSeq([i \in DOMAIN Items(sel) |-> name(Items(sel)[i])])

(* A name in ORDER BY is that of a column of the result, or else a column  *)
(* of the first table looked up in the result's row.                       *)
OrderValue(st, names, e, row) ==
    LET i == Position(names, IF e.op = "." THEN e.args[2].op ELSE e.op)
    IN  IF (e.args = << >> \/ e.op = ".") /\ i \in 1..Len(row) THEN row[i] ELSE Eval(At(st, row), e)

Ordered(term) == IF term.op \in {"FIRST", "LAST"} THEN term.args[1] ELSE term
IsDesc(term) == Ordered(term).op = "DESC"
OrderExpr(term) == IF IsDesc(term) THEN Ordered(term).args[1] ELSE Ordered(term)
OrderKey(st, names, terms, row) == [k \in DOMAIN terms |-> OrderValue(st, names, OrderExpr(terms[k]), row)]

SortsBefore(terms, a, b) ==
    \E k \in DOMAIN terms :
        /\ \A j \in 1..k - 1 : Same(a[j], b[j])
        /\ IF IsDesc(terms[k]) THEN Less(b[k], a[k]) ELSE Less(a[k], b[k])

(* Rows with their keys; those whose keys compare equal stay in order.     *)
SortedBy(terms, keyed) ==
    FoldLeft(LAMBDA done, r : InsertAt(done, Len(SelectSeq(done, LAMBDA d : ~SortsBefore(terms, r.key, d.key))) + 1, r),
             << >>, keyed)

RowsOf(keyed) == [i \in DOMAIN keyed |-> keyed[i].row]
Keyed(st, names, terms, rows) ==
    [i \in DOMAIN rows |-> [row |-> rows[i], key |-> OrderKey(st, names, terms, rows[i])]]

Sorted(st, sel, rows) ==
    IF Has(sel, "ORDER")
    THEN RowsOf(SortedBy(The(sel, "ORDER"), Keyed(st, Names(st, sel), The(sel, "ORDER"), rows)))
    ELSE rows

Amount(sel, word) == Eval(NoRow, The(sel, word)[1]).n
Take(n, rows) == IF n < Len(rows) THEN SubSeq(rows, 1, n) ELSE rows
Limited(sel, rows) == IF Has(sel, "LIMIT") THEN Take(Amount(sel, "LIMIT"), rows) ELSE rows
Skipped(sel, rows) == IF Has(sel, "OFFSET") THEN SubSeq(rows, Amount(sel, "OFFSET") + 1, Len(rows)) ELSE rows

CutEarly(sel, rows) == Skipped(sel, Limited(sel, rows))  \* mutation: OFFSET is applied to what LIMIT has left

(* applyLimitOffset; NULL is 0.                                            *)
Cut(sel, rows) == Limited(sel, Skipped(sel, rows))

(* evalSelect.  Without FROM there is one row, whatever WHERE says; with   *)
(* aggregates but no groups ORDER BY and LIMIT are passed over, and with   *)
(* groups DISTINCT.                                                        *)
Aggregating(sel) == \E i \in DOMAIN Items(sel) : ContainsAggregate(Expression(Items(sel)[i]))
Shape(st, sel, rows) ==
    CASE Has(sel, "GROUP") -> Grouped(st, sel, Groups(rows, GroupKeys(st, sel, rows)))
      [] IsDistinct(sel) /\ ~Has(sel, "GROUP") -> Dedup([i \in DOMAIN rows |-> Project(st, sel, rows[i])])
      [] OTHER -> [i \in DOMAIN rows |-> Project(st, sel, rows[i])]

Results(st, sel, rows) ==
    IF Aggregating(sel) /\ ~Has(sel, "GROUP")
    THEN <<AggregateRow(st, sel, rows)>>
    ELSE Cut(sel, Sorted(st, sel, Shape(st, sel, rows)))

FromTables(sel, st) == Results(st, sel, Filter(st, sel))

NoTables(items) == <<[i \in DOMAIN items |-> Eval(NoRow, Expression(items[i]))]>>

EvalSelect(db, sel) ==
    IF Has(sel, "FROM") /\ The(sel, "FROM") # << >>
    THEN FromTables(sel, Gather(db, sel))
    ELSE NoTables(SelectSeq(Items(sel), LAMBDA item : ~IsStar(item)))

(* execCompound, on printed rows: duplicates of the left side stay, except *)
(* in a UNION.                                                             *)
Combine(op, left, right) ==
    CASE op = "UNION ALL" -> left \o right
      [] op = "UNION" -> DistinctBy(left \o right, left \o right)
      [] op = "INTERSECT" -> SelectSeq(left, LAMBDA row : row \in {right[i] : i \in DOMAIN right})
      [] op = "EXCEPT" -> SelectSeq(left, LAMBDA row : row \notin {right[i] : i \in DOMAIN right})

PrintedRows(rows) == [i \in DOMAIN rows |-> Printed(rows[i])]

RECURSIVE ExecSelect(_, _)
ExecSelect(db, sel) ==
    LET compound == Clauses(sel, {"UNION", "UNION ALL", "INTERSECT", "EXCEPT"})
        right == IF compound = << >> THEN << >> ELSE ExecSelect(db, compound[1].args[1])
    IN  Combine(IF compound = << >> THEN "UNION ALL" ELSE compound[1].op, PrintedRows(EvalSelect(db, sel)), right)
=============================================================================
