------------------------------- MODULE Parser -------------------------------
(***************************************************************************)
(* Expressions and SELECT of the parser (parser/parser.go): recursive      *)
(* descent over a sequence of tokens, one operator per method.             *)
(*                                                                         *)
(* A token is a word; what a number or a name is spelled like does not     *)
(* matter.  A tree has an operation and subtrees; a SELECT has the clauses *)
(* that are there as its subtrees.  A method returns the tree and the      *)
(* tokens that are left, or Fail.                                          *)
(***************************************************************************)
EXTENDS Sequences, Integers

Idents == {"x", "y", "t", "f"}
Literals == {"1", "2", "NULL"}
TypeNames == {"INTEGER", "TEXT"}

Node(op, args) == [op |-> op, args |-> args]
Leaf(tok) == Node(tok, << >>)

Ok(tree, rest) == [ok |-> TRUE, tree |-> tree, rest |-> rest]
Fail == [ok |-> FALSE, tree |-> Leaf("EOF"), rest |-> << >>]

Peek(ts) == IF ts = << >> THEN "EOF" ELSE Head(ts)
Rest(ts) == IF ts = << >> THEN ts ELSE Tail(ts)

(* What has been parsed, with another subtree.                             *)
With(r, p) == IF r.ok /\ p.ok THEN Ok(Node(r.tree.op, Append(r.tree.args, p.tree)), p.rest) ELSE Fail
Wrap(op, p) == IF p.ok THEN Ok(Node(op, <<p.tree>>), p.rest) ELSE Fail
Expect(r, tok) == IF r.ok /\ Peek(r.rest) = tok THEN Ok(r.tree, Tail(r.rest)) ELSE Fail
Skip(ts, tok) == IF Peek(ts) = tok THEN Ok(Leaf(tok), Tail(ts)) ELSE Fail

RECURSIVE AndRest(_), OrRest(_), Comparison(_), Compared(_), Tight(_, _), TightRest(_, _), PostfixRest(_), Primary(_),
          Listed(_, _), ArgsRest(_), WhenRest(_), ColumnsRest(_), TablesRest(_), JoinsRest(_), NamesRest(_), OrderRest(_),
          ExprsRest(_), Nested(_, _)

(* What is found within one another: Nested, at the end, has the bodies.   *)
Expr(ts) == Nested("expression", ts)
Concat(ts) == Nested("operand", ts)
Select(ts) == Nested("SELECT", ts)
Query(ts) == Wrap("query", Select(ts))

-----------------------------------------------------------------------------
NotExpr(ts) == IF Peek(ts) = "NOT" THEN Wrap("NOT", Comparison(Tail(ts))) ELSE Comparison(ts)

AndRest(r) ==
    IF r.ok /\ Peek(r.rest) = "AND" THEN AndRest(With(Wrap("AND", r), NotExpr(Tail(r.rest)))) ELSE r

And(ts) == AndRest(NotExpr(ts))

OrRest(r) ==
    IF r.ok /\ Peek(r.rest) = "OR" THEN OrRest(With(Wrap("OR", r), And(Tail(r.rest)))) ELSE r

Or(ts) == OrRest(And(ts))

-----------------------------------------------------------------------------
(* IS: with NULL a test of its own, otherwise = and !=.                    *)
IsNegated(r) == Peek(Tail(r.rest)) = "NOT"
AfterIs(r) == IF IsNegated(r) THEN Tail(Tail(r.rest)) ELSE Tail(r.rest)

Is(r, right) ==
    IF Peek(AfterIs(r)) = "NULL"
    THEN Ok(Node(IF IsNegated(r) THEN "IS NOT NULL" ELSE "IS NULL", <<r.tree>>), Tail(AfterIs(r)))
    ELSE With(Wrap(IF IsNegated(r) THEN "!=" ELSE "=", r), right)

(* IS binds to the primary before it, tighter than any other operator.     *)
PostfixRest(r) == IF r.ok /\ Peek(r.rest) = "IS" THEN PostfixRest(Is(r, Primary(AfterIs(r)))) ELSE r

Postfix(ts) == PostfixRest(Primary(ts))

Unary(ts) ==
    CASE Peek(ts) \in {"-", "~"} -> Wrap(Peek(ts), Postfix(Tail(ts)))
      [] Peek(ts) = "+" -> Postfix(Tail(ts))
      [] OTHER -> Postfix(ts)

-----------------------------------------------------------------------------
(* parseConcat to parseMulDiv: one loop to a level, the operators of a     *)
(* level associate to the left.                                            *)
Tiers == <<{"||"}, {"|"}, {"&"}, {"<<", ">>"}, {"+", "-"}, {"*", "/", "%"}>>

TightRestRight(i, r) ==  \* mutation: the operators of a level associate to the right
    IF r.ok /\ Peek(r.rest) \in Tiers[i]
    THEN With(Wrap(Peek(r.rest), r), Tight(i, Tail(r.rest)))
    ELSE r

TightRest(i, r) ==
    IF r.ok /\ Peek(r.rest) \in Tiers[i]
    THEN TightRest(i, With(Wrap(Peek(r.rest), r), Tight(i + 1, Tail(r.rest))))
    ELSE r

Tight(i, ts) == IF i > Len(Tiers) THEN Unary(ts) ELSE TightRest(i, Tight(i + 1, ts))

-----------------------------------------------------------------------------
(* parseComparison.  Where the code has a case of its own for NOT IN, the  *)
(* name of the operation says so.                                          *)
TrueFalse(ts) ==
    IF Peek(ts) \in {"TRUE", "FALSE"} THEN Ok(Leaf(IF Peek(ts) = "TRUE" THEN "1" ELSE "0"), Tail(ts)) ELSE Concat(ts)

(* The list of IN may end with a comma.                                    *)
Listed(r, ts) ==
    IF Peek(ts) \in {")", "EOF"} THEN Expect(Ok(r.tree, ts), ")")
    ELSE LET p == With(r, Expr(ts))
         IN  IF p.ok /\ Peek(p.rest) = "," THEN Listed(p, Tail(p.rest)) ELSE Expect(p, ")")

In(op, r, ts) ==
    LET open == Skip(ts, "(")
    IN  IF ~open.ok THEN Fail
        ELSE IF Peek(open.rest) = "SELECT" THEN Expect(With(Wrap(op, r), Select(open.rest)), ")")
        ELSE Listed(Wrap(op, r), open.rest)

(* The word that introduces an escape character is MATCH, not ESCAPE.      *)
Like(op, r, ts) ==
    LET p == With(Wrap(op, r), Concat(ts))
    IN  IF p.ok /\ Peek(p.rest) = "MATCH" THEN With(p, Concat(Tail(p.rest))) ELSE p

Glob(op, r, ts) == With(Wrap(op, r), Concat(ts))

Between(op, r, ts) ==
    LET low == Expect(With(Wrap(op, r), Concat(ts)), "AND")
    IN  IF low.ok THEN With(low, Concat(low.rest)) ELSE Fail

(* A NOT that introduces none of these is read as AND NOT.                 *)
AndNot(r, ts) == With(Wrap("AND", r), Wrap("NOT", Comparison(ts)))

Compared(r) ==
    LET op == Peek(r.rest)
        ts == Rest(r.rest)
        next == Peek(ts)
    IN  CASE ~r.ok -> Fail
          [] op \in {"=", "!=", "<", "<=", ">", ">="} -> Compared(With(Wrap(op, r), Concat(ts)))
          [] op = "IS" -> Compared(Is(r, TrueFalse(AfterIs(r))))
          [] op = "IN" -> Compared(In("IN", r, ts))
          [] op = "LIKE" -> Compared(Like("LIKE", r, ts))
          [] op = "GLOB" -> Compared(Glob("GLOB", r, ts))
          [] op = "BETWEEN" -> Compared(Between("BETWEEN", r, ts))
          [] op = "NOT" /\ next = "IN" -> Compared(In("NOT IN", r, Tail(ts)))
          [] op = "NOT" /\ next = "LIKE" -> Compared(Like("NOT LIKE", r, Tail(ts)))
          [] op = "NOT" /\ next = "GLOB" -> Compared(Glob("NOT GLOB", r, Tail(ts)))
          [] op = "NOT" /\ next = "BETWEEN" -> Compared(Between("NOT BETWEEN", r, Tail(ts)))
          [] op = "NOT" -> AndNot(r, ts)
          [] OTHER -> r

Comparison(ts) == Compared(Concat(ts))

-----------------------------------------------------------------------------
ArgsRest(p) ==
    IF p.ok /\ Peek(p.rest) = "," THEN ArgsRest(With(p, Expr(Tail(p.rest)))) ELSE Expect(p, ")")

FuncCall(ts) ==
    LET fn == Node("call", <<Leaf(Head(ts))>>)
        in == Tail(Tail(ts))
        distinct == Peek(in) = "DISTINCT"
    IN  CASE Peek(in) = ")" -> Ok(fn, Tail(in))
          [] Peek(in) = "*" -> Expect(With(Ok(fn, in), Ok(Leaf("*"), Tail(in))), ")")
          [] distinct -> ArgsRest(With(Ok(Node("call distinct", fn.args), in), Expr(Tail(in))))
          [] OTHER -> ArgsRest(With(Ok(fn, in), Expr(in)))

WhenRest(r) ==
    IF r.ok /\ Peek(r.rest) = "WHEN"
    THEN LET cond == Expect(Wrap("WHEN", Expr(Tail(r.rest))), "THEN")
         IN  IF cond.ok THEN WhenRest(With(r, With(cond, Expr(cond.rest)))) ELSE Fail
    ELSE r

CaseExpr(ts) ==
    LET none == Ok(Leaf("CASE"), ts)
        base == IF Peek(ts) = "WHEN" THEN none ELSE With(none, Expr(ts))
        whens == WhenRest(base)
    IN  IF whens.ok /\ Peek(whens.rest) = "ELSE"
        THEN Expect(With(whens, Wrap("ELSE", Expr(Tail(whens.rest)))), "END")
        ELSE Expect(whens, "END")

(* In parentheses: a subquery, an expression, or a row of several.         *)
Parens(ts) ==
    IF Peek(ts) = "SELECT" THEN Expect(Query(ts), ")")
    ELSE LET e == Expr(ts)
         IN  IF e.ok /\ Peek(e.rest) = "," THEN ArgsRest(Wrap("row", e)) ELSE Expect(e, ")")

Cast(ts) ==
    LET open == Skip(ts, "(")
        e == IF open.ok THEN Expect(Wrap("CAST", Expr(open.rest)), "AS") ELSE Fail
    IN  IF e.ok /\ Peek(e.rest) \in TypeNames
        THEN Expect(With(e, Ok(Leaf(Peek(e.rest)), Tail(e.rest))), ")")
        ELSE Fail

(* The word after the parenthesis is taken for SELECT.                     *)
Exists(op, ts) ==
    LET open == Skip(ts, "(")
    IN  IF open.ok THEN Expect(Wrap(op, Select(open.rest)), ")") ELSE Fail

Primary(ts) ==
    LET tok == Peek(ts)
        next == IF ts = << >> THEN "EOF" ELSE Peek(Tail(ts))
    IN  CASE tok \in Literals \union {"*"} -> Ok(Leaf(tok), Tail(ts))
          [] tok \in {"TRUE", "FALSE"} -> TrueFalse(ts)
          [] tok = "(" -> Parens(Tail(ts))
          [] tok = "CASE" -> CaseExpr(Tail(ts))
          [] tok = "CAST" -> Cast(Tail(ts))
          [] tok = "EXISTS" -> Exists("EXISTS", Tail(ts))
          [] tok = "NOT" /\ next = "EXISTS" -> Exists("NOT EXISTS", Tail(Tail(ts)))
          [] tok = "NOT" /\ next # "EXISTS" -> Wrap("NOT", Primary(Tail(ts)))
          [] tok \in Idents /\ next = "." ->
                LET after == Tail(Tail(ts))
                IN  IF Peek(after) \in Idents
                    THEN Ok(Node(".", <<Leaf(tok), Leaf(Peek(after))>>), Tail(after))
                    ELSE Fail
          [] tok \in Idents /\ next = "(" -> FuncCall(ts)
          [] tok \in Idents /\ next \notin {".", "("} -> Ok(Leaf(tok), Tail(ts))
          [] OTHER -> Fail

-----------------------------------------------------------------------------
(* SELECT                                                                  *)
Ident(ts) == IF Peek(ts) \in Idents THEN Ok(Leaf(Peek(ts)), Tail(ts)) ELSE Fail

(* An alias, with AS or without.                                           *)
Aliased(p) ==
    CASE p.ok /\ Peek(p.rest) = "AS" -> With(Wrap("AS", p), Ident(Tail(p.rest)))
      [] p.ok /\ Peek(p.rest) \in Idents -> With(Wrap("AS", p), Ident(p.rest))
      [] OTHER -> p

Column(ts) == IF Peek(ts) = "*" THEN Ok(Leaf("*"), Tail(ts)) ELSE Aliased(Expr(ts))

ColumnsRest(r) ==
    IF r.ok /\ Peek(r.rest) = "," THEN ColumnsRest(With(r, Column(Tail(r.rest)))) ELSE r

TablesRest(r) ==
    IF r.ok /\ Peek(r.rest) = "," /\ Peek(Tail(r.rest)) # "("
    THEN TablesRest(With(r, Aliased(Ident(Tail(r.rest)))))
    ELSE IF r.ok /\ Peek(r.rest) = "," THEN Ok(r.tree, Tail(r.rest)) ELSE r

Tables(ts) == IF Peek(ts) = "(" THEN Ok(Leaf("FROM"), ts) ELSE TablesRest(Wrap("FROM", Aliased(Ident(ts))))

NamesRest(r) ==
    IF r.ok /\ Peek(r.rest) = "," THEN NamesRest(With(r, Ident(Tail(r.rest)))) ELSE Expect(r, ")")

JoinTypes == {"INNER", "LEFT", "RIGHT", "FULL", "CROSS", "NATURAL"}

(* JOIN alone is an inner one.  OUTER is skipped after LEFT, RIGHT, FULL.  *)
JoinsRest(r) ==
    LET type == Peek(r.rest)
        after == IF type = "JOIN" THEN r.rest ELSE Rest(r.rest)
        word == IF type \in {"LEFT", "RIGHT", "FULL"} /\ Peek(after) = "OUTER" THEN Tail(after) ELSE after
        table == Wrap(IF type = "JOIN" THEN "INNER" ELSE type, Aliased(Ident(Rest(word))))
        using == IF table.ok /\ Peek(table.rest) = "USING" THEN Skip(Tail(table.rest), "(") ELSE Fail
    IN  CASE ~r.ok \/ type \notin JoinTypes \union {"JOIN"} -> r
          [] Peek(word) # "JOIN" \/ ~table.ok -> Fail
          [] Peek(table.rest) = "ON" -> JoinsRest(With(r, With(table, Wrap("ON", Expr(Tail(table.rest))))))
          [] Peek(table.rest) = "USING" ->
                JoinsRest(With(r, With(table, IF using.ok THEN NamesRest(Wrap("USING", Ident(using.rest))) ELSE Fail)))
          [] OTHER -> JoinsRest(With(r, table))

ExprsRest(r) ==
    IF r.ok /\ Peek(r.rest) = "," THEN ExprsRest(With(r, Expr(Tail(r.rest)))) ELSE r

(* NULLS is read and not used when the rows are sorted.                    *)
OrderBy(ts) ==
    LET e == Expr(ts)
        desc == e.ok /\ Peek(e.rest) = "DESC"
        term == IF desc THEN Wrap("DESC", e) ELSE e
        after == IF e.ok /\ Peek(e.rest) \in {"DESC", "ASC"} THEN Tail(e.rest) ELSE e.rest
        nulls == Peek(after) = "NULLS"
        place == IF nulls THEN Peek(Tail(after)) ELSE "none"
        left == IF place \in {"FIRST", "LAST"} THEN Tail(Tail(after)) ELSE IF nulls THEN Tail(after) ELSE after
    IN  IF ~e.ok THEN Fail
        ELSE IF place \in {"FIRST", "LAST"} THEN Ok(Node(place, <<term.tree>>), left)
        ELSE Ok(term.tree, left)

OrderRest(r) ==
    IF r.ok /\ Peek(r.rest) = "," THEN OrderRest(With(r, OrderBy(Tail(r.rest)))) ELSE r

By(ts, P(_)) == LET by == Skip(ts, "BY") IN IF by.ok THEN P(by.rest) ELSE Fail
GroupClause(ts) == ExprsRest(Wrap("GROUP", Expr(ts)))
OrderClause(ts) == OrderRest(Wrap("ORDER", OrderBy(ts)))

(* ALL is noted in the name of the operation.                              *)
Compound(r) ==
    LET op == Peek(r.rest)
        all == Peek(Tail(r.rest)) = "ALL"
        ts == IF all THEN Tail(Tail(r.rest)) ELSE Tail(r.rest)
    IN  With(r, Wrap(IF all THEN op \o " ALL" ELSE op, Select(ts)))

Selected(ts) ==
    LET distinct == Peek(ts) = "DISTINCT"
        cols == IF Peek(ts) \in {"DISTINCT", "ALL"} THEN Tail(ts) ELSE ts
    IN  ColumnsRest(Wrap(IF distinct THEN "DISTINCT" ELSE "COLUMNS", Column(cols)))

(* The clauses that may follow, in the only order that is accepted: each   *)
(* is passed over when its word is not the next one.  ORDER BY and LIMIT   *)
(* after a compound have been taken by the SELECT on its right.            *)
Clause(r, word, P(_)) ==
    IF r.ok /\ Peek(r.rest) = word THEN With(r, P(Tail(r.rest))) ELSE r

SelectStmt(ts) ==
    LET cols == Wrap("SELECT", Selected(Rest(ts)))
        from == Clause(cols, "FROM", Tables)
        joins == IF from.ok /\ from # cols THEN JoinsRest(from) ELSE from
        where == Clause(joins, "WHERE", LAMBDA s : Wrap("WHERE", Expr(s)))
        group == Clause(where, "GROUP", LAMBDA s : By(s, GroupClause))
        having == Clause(group, "HAVING", LAMBDA s : Wrap("HAVING", Expr(s)))
        compound == IF having.ok /\ Peek(having.rest) \in {"UNION", "INTERSECT", "EXCEPT"} THEN Compound(having) ELSE having
        order == Clause(compound, "ORDER", LAMBDA s : By(s, OrderClause))
        limit == Clause(order, "LIMIT", LAMBDA s : Wrap("LIMIT", Expr(s)))
    IN  Clause(limit, "OFFSET", LAMBDA s : Wrap("OFFSET", Expr(s)))

Nested(what, ts) ==
    CASE what = "expression" -> Or(ts)
      [] what = "operand" -> Tight(1, ts)
      [] what = "SELECT" -> SelectStmt(ts)
=============================================================================
