-------------------------------- MODULE Eval --------------------------------
(***************************************************************************)
(* The expression evaluator (executor/eval.go, with Compare, IsTrue and    *)
(* String of storage/row.go) on the trees of module Parser: columns,       *)
(* logic, comparisons, IN, BETWEEN, LIKE, GLOB, CASE and the functions     *)
(* that choose among their arguments.  Arithmetic and the other functions  *)
(* are left out; values are NULL, small integers and texts.                *)
(***************************************************************************)
EXTENDS Matching, Parser, SequencesExt

Null == [t |-> "null", n |-> 0, s |-> << >>]
Num(i) == [t |-> "int", n |-> i, s |-> << >>]
TextOf(s) == [t |-> "text", n |-> 0, s |-> s]
IsNull(v) == v.t = "null"
Bool(b) == Num(IF b THEN 1 ELSE 0)

(* What the literals of the trees stand for.                               *)
Literal(tok) ==
    CASE tok = "0" -> Num(0)
      [] tok = "1" -> Num(1)
      [] tok = "2" -> Num(2)
      [] tok = "a%" -> TextOf(<<97, Percent>>)
      [] OTHER -> Null

IsLiteral(e) == e.args = << >> /\ e.op \in {"0", "1", "2", "NULL", "a%"}

(* Value.String of a digit, of NULL and of a text.                         *)
Str(v) ==
    CASE v.t = "null" -> <<78, 85, 76, 76>>
      [] v.t = "int" -> <<48 + v.n>>
      [] v.t = "text" -> v.s

RECURSIVE Before(_, _)
Before(s, u) ==
    /\ u # << >>
    /\ s = << >> \/ s[1] < u[1] \/ (s[1] = u[1] /\ Before(Tail(s), Tail(u)))

(* Value.Compare: NULL is the least; integers by size, anything else by    *)
(* what it is printed as.                                                  *)
Less(v, w) ==
    CASE IsNull(v) \/ IsNull(w) -> IsNull(v) /\ ~IsNull(w)
      [] v.t = "int" /\ w.t = "int" -> v.n < w.n
      [] OTHER -> Before(Str(v), Str(w))

Same(v, w) == ~Less(v, w) /\ ~Less(w, v)

(* Value.IsTrue and IsTruthy.                                              *)
IsTrue(v) == v.n # 0 \/ v.s # << >>

-----------------------------------------------------------------------------
(* A row with what is known of its columns: names for its positions, and   *)
(* for each alias the table's columns and the row last read from it.       *)
Position(cols, name) == CHOOSE i \in 0..Len(cols) :
    IF name \in {cols[j] : j \in DOMAIN cols}
    THEN i > 0 /\ cols[i] = name /\ \A j \in 1..i - 1 : cols[j] # name
    ELSE i = 0

ValueIn(cols, row, name) ==
    LET i == Position(cols, name) IN IF i \in 1..Len(row) THEN row[i] ELSE Null

NoRow == [row |-> << >>, cols |-> << >>, tables |-> << >>]

(* resolveIdent.  A name that is no column of the first table is looked up *)
(* in the tables that are bound, in the order of a map; CHOOSE stands for  *)
(* it, and nothing may be said of a name that several of them have.        *)
Column1(ctx, name) ==
    LET others == {a \in DOMAIN ctx.tables : Position(ctx.tables[a].cols, name) > 0}
    IN  IF Position(ctx.cols, name) > 0 THEN ValueIn(ctx.cols, ctx.row, name)
        ELSE IF others = {} \/ ctx.cols = << >> THEN Null
        ELSE LET b == ctx.tables[CHOOSE a \in others : TRUE] IN ValueIn(b.cols, b.row, name)

Column2(ctx, table, name) ==
    IF table \in DOMAIN ctx.tables
    THEN ValueIn(ctx.tables[table].cols, ctx.tables[table].row, name)
    ELSE Column1(ctx, name)

-----------------------------------------------------------------------------
RECURSIVE Eval(_, _)

And3Eager(v, w) ==  \* mutation: the right side alone decides when the left is NULL
    CASE ~IsTrue(v) /\ ~IsNull(v) -> Bool(FALSE)
      [] IsNull(v) -> w
      [] OTHER -> IF IsNull(w) THEN Null ELSE Bool(IsTrue(v) /\ IsTrue(w))

(* A false left side decides; a false right side does not when the left    *)
(* one is NULL.                                                            *)
And3(v, w) ==
    CASE ~IsTrue(v) /\ ~IsNull(v) -> Bool(FALSE)
      [] IsNull(v) -> Null
      [] OTHER -> IF IsNull(w) THEN Null ELSE Bool(IsTrue(v) /\ IsTrue(w))

Or3(v, w) ==
    CASE IsTrue(v) \/ IsTrue(w) -> Bool(TRUE)
      [] ~IsTrue(v) /\ ~IsTrue(w) -> IF IsNull(v) \/ IsNull(w) THEN Null ELSE Bool(FALSE)

Not3(v) == IF IsNull(v) THEN Null ELSE Bool(~IsTrue(v))

ComparisonOf(op, v, w) ==
    IF IsNull(v) \/ IsNull(w) THEN Null
    ELSE Bool(CASE op = "=" -> Same(v, w)
                [] op = "!=" -> ~Same(v, w)
                [] op = "<" -> Less(v, w)
                [] op = "<=" -> ~Less(w, v)
                [] op = ">" -> Less(w, v)
                [] op = ">=" -> ~Less(v, w))

(* The items that are NULL match nothing and are no reason for NULL.       *)
InList(v, ws, neg) == IF IsNull(v) THEN Null ELSE Bool((\E i \in DOMAIN ws : Same(v, ws[i])) # neg)

(* The bounds are compared even when they are NULL.                        *)
InRange(v, lo, hi, neg) == IF IsNull(v) THEN Null ELSE Bool((~Less(v, lo) /\ ~Less(hi, v)) # neg)

LikeValue(v, p, esc, neg) ==
    IF IsNull(v) \/ IsNull(p) THEN Null
    ELSE Bool(LikeMatch(Lower(Str(v)), Lower(Str(p)), esc) # neg)

GlobValue(v, p, neg) == IF IsNull(v) \/ IsNull(p) THEN Null ELSE Bool(GlobMatch(Str(v), Str(p)) # neg)

EscapeOf(vs) == IF Len(vs) = 3 /\ vs[3].s # << >> THEN vs[3].s[1] ELSE Backslash

(* The first branch that applies; NULL is the same as NULL here.           *)
CaseValue(ctx, e) ==
    LET based == e.args[1].op \notin {"WHEN", "ELSE"}
        base == Eval(ctx, e.args[1])
        takes(b) == b.op = "ELSE" \/ (b.op = "WHEN" /\ LET c == Eval(ctx, b.args[1])
                                                       IN  IF based THEN Same(base, c) ELSE IsTrue(c))
        hits == {i \in DOMAIN e.args : (i = 1 => ~based) /\ takes(e.args[i])}
        first == e.args[CHOOSE i \in hits : \A j \in hits : i <= j]
    IN  IF hits = {} THEN Null ELSE Eval(ctx, first.args[Len(first.args)])

(* COUNT and the other aggregates are 0 outside of an aggregation.         *)
FuncValue(fn, vs) ==
    LET there == SelectSeq(vs, LAMBDA v : ~IsNull(v))
        need(n) == Len(vs) >= n
        best(P(_, _)) == FoldLeft(LAMBDA v, w : IF P(w, v) THEN w ELSE v, there[1], there)
    IN  CASE fn = "COALESCE" -> IF there = << >> THEN Null ELSE there[1]
          [] fn = "IFNULL" /\ need(2) -> IF IsNull(vs[1]) THEN vs[2] ELSE vs[1]
          [] fn = "NULLIF" /\ need(2) -> IF Same(vs[1], vs[2]) THEN Null ELSE vs[1]
          [] fn = "IIF" /\ need(3) -> IF IsTrue(vs[1]) THEN vs[2] ELSE vs[3]
          [] fn = "MAX" /\ there # << >> -> best(LAMBDA v, w : Less(w, v))
          [] fn = "MIN" /\ there # << >> -> best(Less)
          [] fn \in {"COUNT", "SUM"} -> Num(0)
          [] OTHER -> Null

Negative(op) == op \in {"NOT IN", "NOT LIKE", "NOT GLOB", "NOT BETWEEN"}

(* EvalExpr.  Subqueries are not evaluated.                                *)
Eval(ctx, e) ==
    LET vs == [i \in DOMAIN e.args |-> Eval(ctx, e.args[i])]
        neg == Negative(e.op)
    IN  CASE IsLiteral(e) -> Literal(e.op)
          [] e.op = "*" /\ e.args = << >> -> Num(1)
          [] e.op \in {"EXISTS", "NOT EXISTS"} -> Num(0)
          [] e.op = "query" -> Null
          [] e.op = "." -> Column2(ctx, e.args[1].op, e.args[2].op)
          [] e.op = "NOT" -> Not3(vs[1])
          [] e.op = "AND" -> And3(vs[1], vs[2])
          [] e.op = "OR" -> Or3(vs[1], vs[2])
          [] e.op \in {"=", "!=", "<", "<=", ">", ">="} -> ComparisonOf(e.op, vs[1], vs[2])
          [] e.op = "IS NULL" -> Bool(IsNull(vs[1]))
          [] e.op = "IS NOT NULL" -> Bool(~IsNull(vs[1]))
          [] e.op \in {"IN", "NOT IN"} /\ Len(e.args) = 2 /\ e.args[2].op = "SELECT" -> InList(Eval(ctx, e.args[1]), << >>, neg)
          [] e.op \in {"IN", "NOT IN"} -> InList(vs[1], Tail(vs), neg)
          [] e.op \in {"BETWEEN", "NOT BETWEEN"} -> InRange(vs[1], vs[2], vs[3], neg)
          [] e.op \in {"LIKE", "NOT LIKE"} -> LikeValue(vs[1], vs[2], EscapeOf(vs), neg)
          [] e.op \in {"GLOB", "NOT GLOB"} -> GlobValue(vs[1], vs[2], neg)
          [] e.op = "CASE" -> CaseValue(ctx, e)
          [] e.op \in {"call", "call distinct"} -> FuncValue(e.args[1].op, Tail(vs))
          [] e.op = "row" -> vs[1]
          [] OTHER -> IF e.args = << >> THEN Column1(ctx, e.op) ELSE Null
=============================================================================
