------------------------------ MODULE MCQuery ------------------------------
(* The parser, the evaluator and SELECT on bounded inputs: one state for   *)
(* an expression, statement, pair of texts, or statement with its tables.  *)
EXTENDS Grammar, Relational, Patterns

Tree(e) == [kind |-> "tree", tree |-> e]

Texts(A, n) == UNION {[1..k -> A] : k \in 0..n}
Letter == 97
LikePairs == {Pair(s, p) : s \in Texts({Letter, Percent, Backslash}, 3),
                           p \in Texts({Letter, Percent, Underscore, Backslash}, 4)}
GlobPairs == {Pair(s, p) : s \in Texts({Letter, Letter + 1}, 3),
                           p \in Texts({Letter, Star, Open, Close, Caret, Dash}, 4)}

-----------------------------------------------------------------------------
X == Leaf("x")
Y == Leaf("y")
Atoms ==
    {X, Leaf("NULL"), Node("IS NULL", <<X>>), Node("NOT LIKE", <<X, Leaf("a%")>>)}
    \union {Node(op, <<X, Y>>) : op \in {"=", "<"}}
    \union {Node(op, <<X, Leaf("1"), Y>>) : op \in {"IN", "NOT IN", "BETWEEN", "NOT BETWEEN"}}
Connect(A, B) ==
    A \union {Node("NOT", <<a>>) : a \in A} \union {Node(op, <<a, b>>) : op \in {"AND", "OR"}, a \in A, b \in B}
Cases(A) ==
    {Node("CASE", <<Node("WHEN", <<a, Leaf("1")>>), Node("ELSE", <<Leaf(c)>>)>>) : a \in A, c \in {"0", "NULL"}}
Conditions == Connect(Connect(Atoms, Atoms) \union Cases(Connect(Atoms, {X})), Atoms)
Values == {Null, Num(0), Num(1), TextOf(<<Letter>>)}

-----------------------------------------------------------------------------
(* Tables t(x, y) and u(z), and the statements on them.                    *)
Cells == {Null, Num(1), Num(2)}
Db(t, u) ==
    [name \in {"t", "u"} |-> IF name = "t" THEN [cols |-> <<"x", "y">>, rows |-> t] ELSE [cols |-> <<"z">>, rows |-> u]]
Two == {<<r, s>> : r \in Cells \X Cells, s \in Cells \X Cells}
Three == {<<<<a, Num(1)>>, <<b, Num(2)>>, <<c, d>>>> : a \in Cells, b \in Cells, c \in Cells, d \in {Num(1), Null}}
Right == {<< >>, <<<<Num(1)>>, <<Null>>, <<Num(1)>>>>}

Stmt(sort, items, rest) == Node("SELECT", <<Node(sort, items), From(T)>> \o rest)
Clause1(word, e) == Node(word, <<e>>)
Maybe(c) == {<< >>, c}
Where == {<< >>} \union {<<Clause1("WHERE", e)>> :
    e \in {Node("<", <<X, Leaf("2")>>), Node("NOT", <<Node("=", <<X, Y>>)>>)}}
Joining == {<<Node(how, <<Leaf("u")>> \o on)>> : how \in {"INNER", "LEFT"},
                on \in {<< >>, <<Clause1("ON", Node("=", <<X, Leaf("z")>>))>>}}
Ordering == {<<Node("ORDER", <<X>>)>>, <<Node("ORDER", <<Clause1("DESC", X), Y>>)>>}
Cuts == {l \o o : l \in {<< >>, <<Clause1("LIMIT", Leaf("1"))>>, <<Clause1("LIMIT", Leaf("2"))>>},
                  o \in {<< >>, <<Clause1("OFFSET", Leaf("1"))>>}}
Call(fn, e) == Node("call", <<Leaf(fn), e>>)
Sums == <<Call("COUNT", Leaf("*")), Call("SUM", Y), Call("COUNT", Y), Call("MIN", Y), Call("MAX", Y)>>
GroupX == Node("GROUP", <<X>>)

Sorts == {Stmt(sort, items, w \o o \o c) : sort \in {"COLUMNS", "DISTINCT"}, items \in {<<Leaf("*")>>, <<Y, X>>},
              w \in Where, o \in Ordering, c \in Cuts}
JoinStmts == {Stmt(sort, <<Leaf("*")>>, j \o w) : sort \in {"COLUMNS", "DISTINCT"}, j \in Joining, w \in Where}
GroupStmts == {Stmt("COLUMNS", <<X>> \o Sums, w \o <<GroupX>> \o o) :
                   w \in Where, o \in Maybe(<<Node("ORDER", <<Clause1("DESC", X)>>)>>)}
SumStmts == {Stmt("COLUMNS", Sums, w) : w \in Where}
Sides == {Stmt("COLUMNS", <<X>>, << >>), Stmt("DISTINCT", <<Y>>, << >>)}
Operators == {"UNION", "UNION ALL", "INTERSECT", "EXCEPT"}
After(S) == {Stmt("COLUMNS", <<Leaf(c)>>, <<Clause1(op, s)>>) : c \in {"x", "y"}, op \in Operators, s \in S}

On(S, db) == {[kind |-> "select", select |-> s, db |-> db] : s \in S}

Init ==
    \/ \E e \in Expressions \union Statements : input = Tree(e)
    \/ input \in LikePairs \union GlobPairs
    \/ \E e \in Conditions, v \in Values, w \in Values : input = [kind |-> "condition", tree |-> e, row |-> <<v, w>>]
    \/ \E t \in Three : input \in On(Sorts, Db(t, << >>))
    \/ \E t \in Two, u \in Right : input \in On(JoinStmts, Db(t, u))
    \/ \E t \in Three \union {<< >>} : input \in On(GroupStmts \union SumStmts, Db(t, << >>))
    \/ \E t \in Three : input \in On(After(Sides) \union After(After(Sides)), Db(t, << >>))
Next == UNCHANGED input

-----------------------------------------------------------------------------
(* parseExpr and parseSelect: precedence, associativity and the order of   *)
(* the clauses are those of the grammar.                                   *)
ParsesPrinted == input.kind = "tree" => ReadAsWritten(input.tree)

(* evalBinary and its kin: NULL is the value that is not known.            *)
WhereIsKnown ==
    input.kind = "condition" =>
        SaysWhatIsKnown([row |-> input.row, cols |-> <<"x", "y">>, tables |-> << >>], input.tree)

(* execSelect: the rows that the clauses ask for, each as often as it is   *)
(* to come, in order; one row for aggregates; the sets of a compound.      *)
SelectMeans ==
    input.kind = "select" =>
        CASE Has(input.select, "FROM") /\ \E i \in DOMAIN input.select.args : input.select.args[i].op \in Operators ->
                 Combines(input.db, input.select)
          [] IsAggregate(Items(input.select)[1]) -> Summarises(input.db, input.select)
          [] OTHER -> SelectsRows(input.db, input.select)
=============================================================================
