----------------------------- MODULE Relational -----------------------------
(***************************************************************************)
(* What a SELECT is to mean: which rows, how often and in which order, in  *)
(* terms of the rows of the tables it reads.  The first table may be       *)
(* joined with one other.                                                  *)
(***************************************************************************)
EXTENDS Select, Kleene

Main(db, sel) == db[TableOf(The(sel, "FROM")[1])]
Joins(sel) == Clauses(sel, JoinTypes)
Other(db, sel) == IF Joins(sel) = << >> THEN [cols |-> << >>, rows |-> << >>] ELSE db[TableOf(Joins(sel)[1].args[1])]

(* A row of the result of the join, as the positions of the rows it is     *)
(* made from; 0 for none.                                                  *)
Row(db, sel, p) ==
    Main(db, sel).rows[p[1]]
        \o (IF p[2] = 0 THEN [i \in DOMAIN Other(db, sel).cols |-> Null] ELSE Other(db, sel).rows[p[2]])
Context(db, sel, p) ==
    [row |-> Row(db, sel, p), cols |-> Main(db, sel).cols \o Other(db, sel).cols, tables |-> << >>]

Matches(db, sel, p) ==
    LET join == Joins(sel)[1]
    IN  Len(join.args) = 2 => Meaning(Context(db, sel, p), join.args[2].args[1]) = "T"

Pairs(db, sel) ==
    LET I == DOMAIN Main(db, sel).rows
        J == DOMAIN Other(db, sel).rows
        matched == {p \in I \X J : Matches(db, sel, p)}
    IN  IF Joins(sel) = << >> THEN I \X {0}
        ELSE matched \union {<<i, 0>> : i \in {k \in I : Joins(sel)[1].op = "LEFT" /\ \A p \in matched : p[1] # k}}

Chosen(db, sel) ==
    {p \in Pairs(db, sel) : Has(sel, "WHERE") => Meaning(Context(db, sel, p), The(sel, "WHERE")[1]) = "T"}

Shown(db, sel, p) ==
    FlattenSeq([i \in DOMAIN Items(sel) |->
        IF IsStar(Items(sel)[i]) THEN Row(db, sel, p)
        ELSE <<Eval(Context(db, sel, p), Expression(Items(sel)[i]))>>])

(* The value of an aggregate over a set of rows.                           *)
Least1(V) == CHOOSE v \in V : \A w \in V : ~Less(w, v)
Greatest(V) == CHOOSE v \in V : \A w \in V : ~Less(v, w)
Over(db, sel, K, e) ==
    LET value(p) == Eval(Context(db, sel, p), e.args[2])
        there == {p \in K : IsStar(e.args[2]) \/ ~IsNull(value(p))}
    IN  CASE e.args[1].op = "COUNT" -> Num(Cardinality(there))
          [] e.args[1].op # "COUNT" /\ there = {} -> Null
          [] e.args[1].op = "SUM" /\ there # {} -> Num(FoldSet(LAMBDA p, n : n + value(p).n, 0, there))
          [] e.args[1].op = "MIN" /\ there # {} -> Least1({value(p) : p \in there})
          [] e.args[1].op = "MAX" /\ there # {} -> Greatest({value(p) : p \in there})

Summary(db, sel, K) ==
    [i \in DOMAIN Items(sel) |->
        LET e == Expression(Items(sel)[i])
        IN  IF IsAggregate(e) THEN Over(db, sel, K, e) ELSE Eval(Context(db, sel, CHOOSE p \in K : TRUE), e)]

Classes(db, sel, chosen) ==
    LET key(p) == [i \in DOMAIN The(sel, "GROUP") |-> Eval(Context(db, sel, p), The(sel, "GROUP")[i])]
    IN  {{q \in chosen : key(q) = key(p)} : p \in chosen}

(* What a row of the result is made from: a pair, or a group of pairs.     *)
Units(db, sel, chosen) == IF Has(sel, "GROUP") THEN Classes(db, sel, chosen) ELSE chosen
RowFrom(db, sel, u) == IF Has(sel, "GROUP") THEN Summary(db, sel, u) ELSE Shown(db, sel, u)

Uncut(sel) == [sel EXCEPT !.args = SelectSeq(@, LAMBDA c : c.op \notin {"LIMIT", "OFFSET"})]
Number(sel, word, default) == IF Has(sel, word) THEN Literal(The(sel, word)[1].op).n ELSE default
Occurrences(rows, v) == Cardinality({i \in DOMAIN rows : rows[i] = v})

InOrder(names, terms, rows) ==
    LET column(t) == Position(names, IF t.op = "DESC" THEN t.args[1].op ELSE t.op)
        ahead(t, a, b) == IF t.op = "DESC" THEN Less(b[column(t)], a[column(t)]) ELSE Less(a[column(t)], b[column(t)])
    IN  \A i \in 1..Len(rows) - 1, k \in DOMAIN terms :
            ahead(terms[k], rows[i + 1], rows[i]) => \E j \in 1..k - 1 : ahead(terms[j], rows[i], rows[i + 1])

HasRows(db, sel, units, rows) ==
    /\ {rows[i] : i \in DOMAIN rows} = {RowFrom(db, sel, u) : u \in units}
    /\ \A i \in DOMAIN rows :
          Occurrences(rows, rows[i]) =
              IF IsDistinct(sel) /\ ~Has(sel, "GROUP") THEN 1 ELSE Cardinality({u \in units : RowFrom(db, sel, u) = rows[i]})

IsCut(skip, most, all, rows) ==
    LET left == IF skip > Len(all) THEN 0 ELSE Len(all) - skip
    IN  rows = SubSeq(all, skip + 1, skip + (IF most < left THEN most ELSE left))

(* The rows of a SELECT whose conditions speak of the first table, by      *)
(* names without a table, and whose ORDER BY names columns it shows: each  *)
(* pair that the join keeps, or each group, once (or once for all that     *)
(* look alike, with DISTINCT); ordered as asked for, with NULL the least;  *)
(* and of these the ones that OFFSET and LIMIT leave.                      *)
SelectsRows(db, sel) ==
    LET all == EvalSelect(db, Uncut(sel))
    IN  /\ HasRows(db, sel, Units(db, sel, Chosen(db, sel)), all)
        /\ Has(sel, "ORDER") => InOrder(Names(Gather(db, sel), sel), The(sel, "ORDER"), all)
        /\ IsCut(Number(sel, "OFFSET", 0), Number(sel, "LIMIT", Len(all)), all, EvalSelect(db, sel))

(* Aggregates without GROUP BY: one row, about all rows that are chosen.   *)
Summarises(db, sel) == EvalSelect(db, sel) = <<Summary(db, sel, Chosen(db, sel))>>

(* A compound has the rows that the sets have; the operators associate to  *)
(* the right.                                                              *)
RECURSIVE SetOf(_, _)
Together(op, left, right) ==
    CASE op \in {"UNION", "UNION ALL"} -> left \union right
      [] op = "INTERSECT" -> left \intersect right
      [] op = "EXCEPT" -> left \ right
      [] OTHER -> left

SetOf(db, sel) ==
    Together(Last(sel.args).op, ToSet(PrintedRows(EvalSelect(db, sel))), SetOf(db, Last(sel.args).args[1]))

Combines(db, sel) == ToSet(ExecSelect(db, sel)) = SetOf(db, sel)
=============================================================================
