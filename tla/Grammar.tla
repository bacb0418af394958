------------------------------ MODULE Grammar -------------------------------
(***************************************************************************)
(* What the parser is to read: a table of how tightly operations bind, and *)
(* the text of a tree with parentheses only where the table asks for them. *)
(***************************************************************************)
EXTENDS Parser, SequencesExt

Comparisons == {"=", "!=", "<", "<=", ">", ">=", "IN", "NOT IN", "LIKE", "NOT LIKE", "GLOB", "NOT GLOB",
                "BETWEEN", "NOT BETWEEN"}
Tier(op) == CHOOSE i \in DOMAIN Tiers : op \in Tiers[i]
Tightest == Len(Tiers) + 4

(* From 1, the loosest; "-" of one operand is a tree of its own.           *)
Binds(e) ==
    CASE e.op = "OR" -> 1
      [] e.op = "AND" -> 2
      [] e.op = "NOT" -> 3
      [] e.op \in Comparisons -> 4
      [] Len(e.args) = 1 /\ e.op \in {"-", "~"} -> Tightest + 1
      [] Len(e.args) = 2 /\ e.op \in UNION {Tiers[i] : i \in DOMAIN Tiers} -> Tier(e.op) + 4
      [] e.op \in {"IS NULL", "IS NOT NULL"} -> Tightest + 2
      [] OTHER -> Tightest + 3

RECURSIVE Text(_), Fit(_, _)

Fit(e, tightness) == IF Binds(e) >= tightness THEN Text(e) ELSE <<"(">> \o Text(e) \o <<")">>

(* A list with commas; every item is an expression, or what Item says.     *)
Commas(es, Item(_)) ==
    FlattenSeq([i \in DOMAIN es |-> (IF i = 1 THEN << >> ELSE <<",">>) \o Item(es[i])])

Exprs(es) == Commas(es, LAMBDA e : Fit(e, 1))

Named(e) ==
    CASE e.op = "AS" -> Fit(e.args[1], 1) \o <<"AS", e.args[2].op>>
      [] e.op = "DESC" -> Fit(e.args[1], 1) \o <<"DESC">>
      [] OTHER -> Fit(e, 1)

ClauseText(c) ==
    CASE c.op = "COLUMNS" -> Commas(c.args, Named)
      [] c.op = "DISTINCT" -> <<"DISTINCT">> \o Commas(c.args, Named)
      [] c.op = "FROM" -> <<"FROM">> \o Commas(c.args, Named)
      [] c.op \in {"GROUP", "ORDER"} -> <<c.op, "BY">> \o Commas(c.args, Named)
      [] c.op \in JoinTypes ->
            <<c.op, "JOIN">> \o Named(c.args[1])
                \o (IF Len(c.args) = 1 THEN << >>
                    ELSE IF c.args[2].op = "ON" THEN <<"ON">> \o Fit(c.args[2].args[1], 1)
                    ELSE <<"USING", "(">> \o Exprs(c.args[2].args) \o <<")">>)
      [] c.op = "UNION ALL" -> <<"UNION", "ALL">> \o Text(c.args[1])
      [] c.op \in {"UNION", "INTERSECT", "EXCEPT"} -> <<c.op>> \o Text(c.args[1])
      [] OTHER -> <<c.op>> \o Fit(c.args[1], 1)

Negated(op) == CASE op = "NOT IN" -> <<"NOT", "IN">>
                 [] op = "NOT LIKE" -> <<"NOT", "LIKE">>
                 [] op = "NOT GLOB" -> <<"NOT", "GLOB">>
                 [] op = "NOT BETWEEN" -> <<"NOT", "BETWEEN">>
                 [] op = "IS NULL" -> <<"IS", "NULL">>
                 [] op = "IS NOT NULL" -> <<"IS", "NOT", "NULL">>
                 [] op = "NOT EXISTS" -> <<"NOT", "EXISTS">>
                 [] OTHER -> <<op>>

Text(e) ==
    LET op == Negated(e.op)
        a == e.args
        at == Binds(e)
    IN  CASE a = << >> -> <<e.op>>
          [] e.op = "NOT" -> <<"NOT">> \o Fit(a[1], at + 1)
          [] e.op \in {"-", "~"} /\ Len(a) = 1 -> <<e.op>> \o Fit(a[1], at + 1)
          [] e.op \in {"IS NULL", "IS NOT NULL"} -> Fit(a[1], at) \o op
          [] e.op \in {"IN", "NOT IN"} /\ Len(a) = 2 /\ a[2].op = "SELECT" ->
                Fit(a[1], at) \o op \o <<"(">> \o Text(a[2]) \o <<")">>
          [] e.op \in {"IN", "NOT IN"} /\ ~(Len(a) = 2 /\ a[2].op = "SELECT") ->
                Fit(a[1], at) \o op \o <<"(">> \o Exprs(Tail(a)) \o <<")">>
          [] e.op \in {"BETWEEN", "NOT BETWEEN"} ->
                Fit(a[1], at) \o op \o Fit(a[2], at + 1) \o <<"AND">> \o Fit(a[3], at + 1)
          [] e.op \in {"LIKE", "NOT LIKE"} /\ Len(a) = 3 ->
                Fit(a[1], at) \o op \o Fit(a[2], at + 1) \o <<"MATCH">> \o Fit(a[3], at + 1)
          [] at <= Tightest /\ e.op # "NOT" /\ Len(a) = 2 /\ e.op \notin {"IN", "NOT IN"} ->
                Fit(a[1], at) \o op \o Fit(a[2], at + 1)
          [] e.op = "." -> <<a[1].op, ".", a[2].op>>
          [] e.op = "call" -> <<a[1].op, "(">> \o Exprs(Tail(a)) \o <<")">>
          [] e.op = "call distinct" -> <<a[1].op, "(", "DISTINCT">> \o Exprs(Tail(a)) \o <<")">>
          [] e.op = "row" -> <<"(">> \o Exprs(a) \o <<")">>
          [] e.op = "CASE" -> <<"CASE">> \o FlattenSeq([i \in DOMAIN a |-> Text(a[i])]) \o <<"END">>
          [] e.op = "WHEN" -> <<"WHEN">> \o Fit(a[1], 1) \o <<"THEN">> \o Fit(a[2], 1)
          [] e.op = "ELSE" -> <<"ELSE">> \o Fit(a[1], 1)
          [] e.op = "CAST" -> <<"CAST", "(">> \o Fit(a[1], 1) \o <<"AS", a[2].op, ")">>
          [] e.op \in {"EXISTS", "NOT EXISTS"} -> op \o <<"(">> \o Text(a[1]) \o <<")">>
          [] e.op = "query" -> <<"(">> \o Text(a[1]) \o <<")">>
          [] e.op = "SELECT" -> <<"SELECT">> \o FlattenSeq([i \in DOMAIN a |-> ClauseText(a[i])])

-----------------------------------------------------------------------------
(* Trees to try: every operation with its operands from a set.             *)
Binary == {"OR", "AND", "=", "<", "LIKE", "NOT GLOB"} \union {"||", "|", "&", "<<", "+", "-", "*", "%"}

Of1(E) ==
    {Node(op, <<e>>) : op \in {"NOT", "-", "~", "IS NULL", "IS NOT NULL"}, e \in E}
    \union {Node("CAST", <<e, Leaf("TEXT")>>) : e \in E}
    \union {Node(op, <<Leaf("f"), e>>) : op \in {"call", "call distinct"}, e \in E}

Of2(E, F) ==
    {Node(op, <<e, f>>) : op \in Binary \union {"IN", "row"}, e \in E, f \in F}
    \union {Node("CASE", <<Node("WHEN", <<e, f>>)>>) : e \in E, f \in F}

Of3(E, F, G) ==
    {Node(op, <<e, f, g>>) : op \in {"BETWEEN", "NOT BETWEEN", "NOT IN", "LIKE"}, e \in E, f \in F, g \in G}
    \union {Node("CASE", <<e, Node("WHEN", <<f, Leaf("1")>>), Node("ELSE", <<g>>)>>) : e \in E, f \in F, g \in G}

Leaves == {Leaf("x"), Node(".", <<Leaf("t"), Leaf("y")>>)}
Small == LET X == {Leaf("x")} IN X \union Of1(X) \union Of2(X, X) \union Of3(X, X, X)

(* NOT EXISTS is read as one where an operand is expected, and as NOT of an *)
(* EXISTS elsewhere.                                                       *)
InQuery(S) ==
    {Node("query", <<s>>) : s \in S} \union {Node("IN", <<Leaf("x"), s>>) : s \in S}
    \union {Node("=", <<Leaf("x"), Node("NOT EXISTS", <<s>>)>>) : s \in S}

(* Statements, with an expression in each clause.                          *)
From(t) == Node("FROM", <<t>>)
T == Leaf("t")
Joined(e) == {<< >>, <<Node("CROSS", <<T>>)>>, <<Node("LEFT", <<Node("AS", <<T, Leaf("x")>>), Node("ON", <<e>>)>>)>>,
              <<Node("INNER", <<T, Node("USING", <<Leaf("x"), Leaf("y")>>)>>)>>}
Options(e) == {<< >>, <<Node("WHERE", <<e>>)>>, <<Node("GROUP", <<e, Leaf("x")>>), Node("HAVING", <<e>>)>>}
Ends(e) == {<< >>, <<Node("ORDER", <<Node("DESC", <<e>>), Leaf("x")>>)>>,
            <<Node("LIMIT", <<e>>), Node("OFFSET", <<e>>)>>}
Plain(E) ==
    UNION {{Node("SELECT", <<Node(d, <<Node("AS", <<e, Leaf("y")>>), Leaf("*")>>), From(T)>> \o j \o o \o z) :
                d \in {"COLUMNS", "DISTINCT"}, j \in Joined(e), o \in Options(e), z \in Ends(e)} : e \in E}
Compounds(S) ==
    {Node("SELECT", <<Node("COLUMNS", <<Leaf("x")>>), Node(op, <<s>>)>>) :
        op \in {"UNION", "UNION ALL", "INTERSECT", "EXCEPT"}, s \in S}
Expressions ==
    Leaves \union Small \union Of1(Small) \union Of2(Small, Small)
    \union Of3(Small, Small, {Leaf("1")}) \union Of3({Leaf("1")}, Small, Small)
    \union InQuery(Plain({Leaf("1")}))

Statements == LET P == Plain(Small) IN P \union Compounds(Plain({Leaf("1")}))

(* A text with the parentheses that precedence and associativity ask for   *)
(* and no others is read as the tree it was written from, to its end, by   *)
(* parseExpr and by parseSelect.                                           *)
ReadAsWritten(e) ==
    (IF e.op = "SELECT" THEN Select(Text(e)) ELSE Expr(Text(e))) = Ok(e, << >>)
=============================================================================
