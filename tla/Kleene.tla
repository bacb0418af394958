------------------------------- MODULE Kleene -------------------------------
(***************************************************************************)
(* What a condition is to mean: the three-valued logic of SQL, in which    *)
(* NULL is a value that is not known.                                      *)
(***************************************************************************)
EXTENDS Eval

Truth(v) == IF IsNull(v) THEN "U" ELSE IF IsTrue(v) THEN "T" ELSE "F"
Of(b) == IF b THEN "T" ELSE "F"
Neg(k) == CASE k = "T" -> "F" [] k = "F" -> "T" [] k = "U" -> "U"
All(K) == IF "F" \in K THEN "F" ELSE IF "U" \in K THEN "U" ELSE "T"
Some(K) == Neg(All({Neg(k) : k \in K}))

Equal(v, w) == IF IsNull(v) \/ IsNull(w) THEN "U" ELSE Of(Same(v, w))
AtMost(v, w) == IF IsNull(v) \/ IsNull(w) THEN "U" ELSE Of(~Less(w, v))

(* Conditions whose operands are values.                                   *)
OfValues(op, v) ==
    CASE op = "=" -> Equal(v[1], v[2])
      [] op = "!=" -> Neg(Equal(v[1], v[2]))
      [] op = "<=" -> AtMost(v[1], v[2])
      [] op = "<" -> Neg(AtMost(v[2], v[1]))
      [] op = ">=" -> AtMost(v[2], v[1])
      [] op = ">" -> Neg(AtMost(v[1], v[2]))
      [] op = "IS NULL" -> Of(IsNull(v[1]))
      [] op = "IS NOT NULL" -> Of(~IsNull(v[1]))
      [] op = "IN" -> Some({Equal(v[1], v[i]) : i \in 2..Len(v)})
      [] op = "BETWEEN" -> All({AtMost(v[2], v[1]), AtMost(v[1], v[3])})

ValueConditions == {"=", "!=", "<=", "<", ">=", ">", "IS NULL", "IS NOT NULL", "IN", "BETWEEN"}
Opposite == [op \in {"NOT IN", "NOT BETWEEN"} |-> IF op = "NOT IN" THEN "IN" ELSE "BETWEEN"]

RECURSIVE Meaning(_, _)

(* Operands of comparisons are columns and literals; CASE has one branch   *)
(* and ELSE.                                                               *)
Meaning(ctx, e) ==
    LET a == e.args
    IN  CASE e.op = "AND" -> All({Meaning(ctx, a[1]), Meaning(ctx, a[2])})
          [] e.op = "OR" -> Some({Meaning(ctx, a[1]), Meaning(ctx, a[2])})
          [] e.op = "NOT" -> Neg(Meaning(ctx, a[1]))
          [] e.op = "CASE" -> Meaning(ctx, IF Meaning(ctx, a[1].args[1]) = "T" THEN a[1].args[2] ELSE a[2].args[1])
          [] e.op \in DOMAIN Opposite -> Neg(Meaning(ctx, [e EXCEPT !.op = Opposite[@]]))
          [] e.op \in ValueConditions -> OfValues(e.op, [i \in DOMAIN a |-> Eval(ctx, a[i])])
          [] OTHER -> Truth(Eval(ctx, e))

RECURSIVE Known(_, _), Positive(_), Bounded(_, _)

(* No NOT.                                                                 *)
Positive(e) ==
    /\ e.op \notin {"NOT", "NOT IN", "NOT BETWEEN"}
    /\ \A i \in DOMAIN e.args : Positive(e.args[i])

(* No list or range has a NULL in it, and the condition of a CASE no NOT.  *)
Known(ctx, e) ==
    /\ e.op \in {"IN", "NOT IN", "BETWEEN", "NOT BETWEEN"}
           => \A i \in 2..Len(e.args) : ~IsNull(Eval(ctx, e.args[i]))
    /\ e.op = "CASE" => Positive(e.args[1].args[1])
    /\ \A i \in DOMAIN e.args : Known(ctx, e.args[i])

Bounded(ctx, e) ==
    /\ e.op = "BETWEEN" => ~IsNull(Eval(ctx, e.args[2]))
    /\ \A i \in DOMAIN e.args : Bounded(ctx, e.args[i])

(* WHERE and the three-valued logic of SQL.  The evaluator may not know    *)
(* what is known (NULL AND false is NULL), but what it says it knows is    *)
(* right, under any number of NOTs, unless a list or a range has a NULL in *)
(* it; and a condition without NOT lets a row through exactly when it is   *)
(* true, also with NULLs in its lists and upper bounds.                    *)
SaysWhatIsKnown(ctx, e) ==
    LET said == Truth(Eval(ctx, e))
        known == Meaning(ctx, e)
    IN  /\ Known(ctx, e) => said \in {known, "U"}
        /\ Positive(e) /\ Bounded(ctx, e) => (said = "T" <=> known = "T")
=============================================================================
