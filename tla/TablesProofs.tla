---------------------------- MODULE TablesProofs -----------------------------
(***************************************************************************)
(* Proofs about Tables.  The schema in memory and the schema tree are kept *)
(* apart by one thing only: a row that lies first in its page cannot grow  *)
(* (Limits), so a table whose row is limited may be ahead of what is       *)
(* stored.  Agree says all that ties the two together; it takes the maps   *)
(* and the tree as parameters, so that an operation that changes the tree  *)
(* twice is two steps of one argument.  The other invariants, about the    *)
(* counter, the primary key, NOT NULL and the indexes, rest on it.         *)
(*                                                                         *)
(* First, what the operations of Catalog do to the map from keys to values *)
(* that a page stands for.  A page never holds a key twice (Distinct), so  *)
(* each of them changes the map at one key; which cell is the first of its *)
(* page, and so cannot grow, is kept apart.                                *)
(***************************************************************************)
EXTENDS Tables, ListLemmas, FiniteSetTheorems

CellOf(V) == [key : Int, val : V, len : Int, space : Int, live : BOOLEAN, state : {"ok", "cut", "lost"}]

Distinct(pg) ==
    \A i, j \in DOMAIN pg : pg[i].live /\ pg[j].live /\ pg[i].key = pg[j].key => i = j

(* No cell has outgrown its space or was damaged.                          *)
Whole(pg) == \A i \in DOMAIN pg : pg[i].len <= pg[i].space /\ pg[i].state = "ok"

-----------------------------------------------------------------------------
(* The sums that Total passes through.                                     *)
IsSums(w, f) ==
    f \in [0..Len(w) -> Int] /\ f[0] = 0 /\ \A n \in 1..Len(w) : f[n] = f[n - 1] + w[n]

LEMMA TotalIsSum ==
    ASSUME NEW w \in Seq(Int)
    PROVE  \E f : IsSums(w, f) /\ Total(w) = f[Len(w)]
<1> DEFINE plus == [p \in Int \X Int |-> p[1] + p[2]]
           sums[n \in 0..Len(w)] == IF n = 0 THEN 0 ELSE sums[n - 1] + w[n]
           IsSum(f) == f = [n \in 0..Len(w) |-> IF n = 0 THEN 0 ELSE f[n - 1] + w[n]]
<1>1. Len(w) \in Nat /\ \A n \in 1..Len(w) : w[n] \in Int
  OBVIOUS
<1>2. PICK f \in [0..Len(w) -> Int] :
         f[0] = 0 /\ \A n \in 1..Len(w) : f[n] = plus[<<f[n - 1], w[n]>>]
  <2>1. plus \in FoldsOf(Int, Int)
    BY DEF FoldsOf
  <2> DEFINE S == Int
             zero == 0
  <2>2. zero \in S /\ w \in Seq(S) /\ plus \in FoldsOf(S, S)
    BY <2>1
  <2>3. \E f \in [0..Len(w) -> S] : f[0] = zero /\ \A n \in 1..Len(w) : f[n] = plus[<<f[n - 1], w[n]>>]
    <3> HIDE DEF plus, S, zero
    <3> QED BY <2>2, FoldExists
  <2> QED BY <2>3
<1>3. \A n \in 1..Len(w) : f[n] = f[n - 1] + w[n]
  <2> SUFFICES ASSUME NEW n \in 1..Len(w) PROVE f[n] = f[n - 1] + w[n]
    OBVIOUS
  <2>1. n - 1 \in 0..Len(w) /\ w[n] \in Int
    BY <1>1
  <2>2. f[n - 1] \in Int
    BY <1>2, <2>1
  <2> QED BY <1>2, <2>1, <2>2
<1>4. IsSum(f)
  <2>1. DOMAIN f = 0..Len(w) /\ f = [n \in 0..Len(w) |-> f[n]]
    BY <1>2
  <2>2. \A n \in 0..Len(w) : f[n] = IF n = 0 THEN 0 ELSE f[n - 1] + w[n]
    BY <1>1, <1>2, <1>3
  <2> QED BY <2>1, <2>2
<1>5. IsSum(sums)
  <2>1. sums = CHOOSE g : IsSum(g)
    BY DEF sums
  <2> HIDE DEF sums, IsSum
  <2> QED BY <1>4, <2>1
<1>6. IsSums(w, sums)
  <2>1. \A n \in 0..Len(w) : sums[n] = IF n = 0 THEN 0 ELSE sums[n - 1] + w[n]
    BY <1>5
  <2>2. DOMAIN sums = 0..Len(w) /\ sums = [n \in 0..Len(w) |-> sums[n]]
    BY <1>5
  <2> HIDE DEF sums
  <2> DEFINE Holds == {n \in Nat : n <= Len(w) => sums[n] \in Int}
  <2>3. 0 \in Holds
    BY <2>1, <1>1
  <2>4. ASSUME NEW n \in Nat, n \in Holds PROVE n + 1 \in Holds
    <3> SUFFICES ASSUME n + 1 <= Len(w) PROVE sums[n + 1] \in Int
      OBVIOUS
    <3>1. sums[n] \in Int /\ w[n + 1] \in Int /\ n + 1 \in 0..Len(w) /\ (n + 1) - 1 = n /\ n + 1 # 0
      BY <2>4, <1>1
    <3>2. sums[n + 1] = sums[n] + w[n + 1]
      BY <2>1, <3>1
    <3> QED BY <3>1, <3>2
  <2>5. Nat \subseteq Holds
    <3> HIDE DEF Holds
    <3> QED BY <2>3, <2>4, SetInduction
  <2>6. \A n \in 0..Len(w) : sums[n] \in Int
    BY <2>5, <1>1
  <2>7. sums \in [0..Len(w) -> Int]
    BY <2>2, <2>6
  <2>8. sums[0] = 0 /\ \A n \in 1..Len(w) : sums[n] = sums[n - 1] + w[n]
    BY <2>1, <1>1
  <2> QED BY <2>7, <2>8 DEF IsSums
<1>7. Total(w) = sums[Len(w)]
  BY DEF Total
<1> QED BY <1>6, <1>7

LEMMA SumsAgree ==
    ASSUME NEW w, NEW u, NEW f, NEW g, IsSums(w, f), IsSums(u, g), Len(w) \in Nat, Len(u) \in Nat,
           Len(w) <= Len(u), \A n \in 1..Len(w) : w[n] = u[n]
    PROVE  f[Len(w)] = g[Len(w)]
<1> DEFINE Agree == {n \in Nat : n <= Len(w) => f[n] = g[n]}
<1>1. 0 \in Agree
  BY DEF IsSums
<1>2. ASSUME NEW n \in Nat, n \in Agree PROVE n + 1 \in Agree
  <2> SUFFICES ASSUME n + 1 <= Len(w) PROVE f[n + 1] = g[n + 1]
    OBVIOUS
  <2>1. f[n] = g[n] /\ n + 1 \in 1..Len(w) /\ n + 1 \in 1..Len(u) /\ (n + 1) - 1 = n
    BY <1>2
  <2>2. f[n + 1] = f[n] + w[n + 1] /\ g[n + 1] = g[n] + u[n + 1]
    BY <2>1 DEF IsSums
  <2> QED BY <2>1, <2>2
<1>3. Nat \subseteq Agree
  <2> HIDE DEF Agree
  <2> QED BY <1>1, <1>2, SetInduction
<1> QED BY <1>3

LEMMA TotalProperties ==
    ASSUME NEW w \in Seq(Int)
    PROVE  /\ Total(w) \in Int
           /\ w = << >> => Total(w) = 0
           /\ \A x \in Int : Total(Append(w, x)) = Total(w) + x
<1>1. PICK f : IsSums(w, f) /\ Total(w) = f[Len(w)]
  BY TotalIsSum
<1>2. Len(w) \in Nat /\ Len(w) \in 0..Len(w)
  OBVIOUS
<1>3. ASSUME NEW x \in Int PROVE Total(Append(w, x)) = Total(w) + x
  <2> DEFINE u == Append(w, x)
  <2>1. u \in Seq(Int) /\ Len(u) = Len(w) + 1 /\ u[Len(u)] = x /\ \A n \in 1..Len(w) : w[n] = u[n]
    OBVIOUS
  <2> HIDE DEF u
  <2>2. PICK g : IsSums(u, g) /\ Total(u) = g[Len(u)]
    BY <2>1, TotalIsSum
  <2>3. f[Len(w)] = g[Len(w)]
    BY <1>1, <1>2, <2>1, <2>2, SumsAgree
  <2>4. Len(u) \in 1..Len(u) /\ Len(u) - 1 = Len(w)
    BY <1>2, <2>1
  <2>5. g[Len(u)] = g[Len(u) - 1] + u[Len(u)]
    BY <2>2, <2>4 DEF IsSums
  <2> QED BY <1>1, <2>1, <2>2, <2>3, <2>4, <2>5 DEF u
<1>4. Total(w) \in Int
  BY <1>1, <1>2 DEF IsSums
<1>5. w = << >> => Total(w) = 0
  BY <1>1 DEF IsSums
<1> QED BY <1>3, <1>4, <1>5

-----------------------------------------------------------------------------
LEMMA AtKeys ==
    ASSUME NEW pg, NEW k
    PROVE  k \in Keys(pg) <=> At(pg, k) # {}
BY DEF Keys, At

LEMMA ValueFound ==
    ASSUME NEW pg, Distinct(pg), NEW k, NEW i \in At(pg, k)
    PROVE  /\ ValueAt(pg, k) = pg[i].val
           /\ (CHOOSE x \in At(pg, k) : TRUE) = i
           /\ k \in Keys(pg)
<1>1. \A j \in At(pg, k) : j = i
  BY DEF At, Distinct
<1>2. (CHOOSE x \in At(pg, k) : TRUE) = i
  BY <1>1
<1> QED BY <1>2 DEF ValueAt, Keys, At

(* A page that keeps its live keys where they are, and the values of all   *)
(* of them but one, stands for the same map but for that one.              *)
LEMMA AppendedPage ==
    ASSUME NEW V, NEW pg \in Seq(CellOf(V)), Distinct(pg),
           NEW k \in Int, k \notin Keys(pg), NEW v \in V, NEW n \in Int
    PROVE  LET new == Append(pg, NewCell(k, v, n))
           IN  /\ new \in Seq(CellOf(V)) /\ Distinct(new)
               /\ Keys(new) = Keys(pg) \union {k}
               /\ ValueAt(new, k) = v
               /\ \A x \in Keys(pg) : ValueAt(new, x) = ValueAt(pg, x)
               /\ Whole(pg) => Whole(new)
               /\ Len(pg) = 0 => new[1] = NewCell(k, v, n)
               /\ Len(pg) # 0 => Len(new) # 0 /\ new[1] = pg[1]
<1> DEFINE new == Append(pg, NewCell(k, v, n))
<1>1. NewCell(k, v, n) \in CellOf(V)
  BY DEF NewCell, CellOf
<1>2. /\ new \in Seq(CellOf(V)) /\ Len(new) = Len(pg) + 1 /\ Len(pg) \in Nat
      /\ DOMAIN new = 1..Len(new) /\ DOMAIN pg = 1..Len(pg)
      /\ \A i \in DOMAIN pg : new[i] = pg[i] /\ pg[i] \in CellOf(V)
      /\ new[Len(pg) + 1] = NewCell(k, v, n)
  BY <1>1
<1> HIDE DEF new
<1>3. Distinct(new)
  BY <1>2 DEF Distinct, Keys, NewCell
<1>4. \A x \in Keys(pg) : \A i \in At(pg, x) : i \in At(new, x)
  BY <1>2 DEF At
<1>5. Len(pg) + 1 \in At(new, k)
  BY <1>2 DEF At, NewCell
<1>6. Keys(new) = Keys(pg) \union {k}
  <2>1. \A x \in Keys(pg) \union {k} : At(new, x) # {}
    BY <1>4, <1>5, AtKeys
  <2>2. ASSUME NEW x \in Keys(new) PROVE x \in Keys(pg) \union {k}
    <3>1. PICK i \in DOMAIN new : new[i].live /\ new[i].key = x
      BY DEF Keys
    <3>2. CASE i \in DOMAIN pg
      BY <3>1, <3>2, <1>2 DEF Keys
    <3>3. CASE i = Len(pg) + 1
      BY <3>1, <3>3, <1>2 DEF NewCell
    <3> QED BY <3>1, <3>2, <3>3, <1>2
  <2> QED BY <2>1, <2>2, AtKeys
<1>7. ValueAt(new, k) = v
  BY <1>3, <1>5, <1>2, ValueFound DEF NewCell
<1>8. ASSUME NEW x \in Keys(pg) PROVE ValueAt(new, x) = ValueAt(pg, x)
  <2>1. PICK i \in At(pg, x) : TRUE
    BY AtKeys
  <2>2. i \in At(new, x) /\ i \in DOMAIN pg
    BY <1>4 DEF At
  <2>3. ValueAt(pg, x) = pg[i].val /\ ValueAt(new, x) = new[i].val
    BY <2>2, <1>3, ValueFound
  <2> QED BY <2>2, <2>3, <1>2
<1>9. Whole(pg) => Whole(new)
  BY <1>2 DEF Whole, NewCell
<1>10. /\ Len(pg) = 0 => new[1] = NewCell(k, v, n)
       /\ Len(pg) # 0 => Len(new) # 0 /\ new[1] = pg[1]
  <2>1. Len(pg) = 0 => new[1] = NewCell(k, v, n)
    BY <1>2
  <2>2. Len(pg) # 0 => 1 \in DOMAIN pg
    BY <1>2
  <2>3. Len(pg) # 0 => Len(new) # 0
    BY <1>2
  <2> QED BY <2>1, <2>2, <2>3, <1>2
<1>11. new \in Seq(CellOf(V))
  BY <1>2
<1> QED BY <1>3, <1>6, <1>7, <1>8, <1>9, <1>10, <1>11, Zenon DEF new

(* Cells that stay where they are, with their keys and their space.        *)
Kept(new, pg) ==
    /\ DOMAIN new = DOMAIN pg
    /\ \A j \in DOMAIN pg : new[j].key = pg[j].key /\ new[j].space = pg[j].space

SameLive(new, pg) == \A j \in DOMAIN pg : new[j].live = pg[j].live

LEMMA RewrittenPage ==
    ASSUME NEW V, NEW pg \in Seq(CellOf(V)), Distinct(pg),
           NEW k \in Keys(pg), NEW v \in V, NEW n \in Int
    PROVE  LET new == Rewritten(pg, k, v, n)
           IN  /\ new \in Seq(CellOf(V)) /\ Distinct(new) /\ Kept(new, pg) /\ SameLive(new, pg)
               /\ Keys(new) = Keys(pg)
               /\ ValueAt(new, k) = v
               /\ \A x \in Keys(pg) \ {k} : ValueAt(new, x) = ValueAt(pg, x)
               /\ Whole(pg) /\ ~OutgrownBy(pg, k, n) => Whole(new)
<1> DEFINE new == Rewritten(pg, k, v, n)
<1>1. PICK i \in At(pg, k) : TRUE
  BY AtKeys
<1>2. new = [j \in DOMAIN pg |->
            IF j = i THEN [pg[j] EXCEPT !.val = v, !.len = n, !.state = "ok"]
            ELSE IF j = i - 1 /\ n - pg[i].space > LeftPtr
            THEN [pg[j] EXCEPT !.state = "lost"]
            ELSE IF j = i + 1 /\ pg[j].len > pg[j].space
            THEN [pg[j] EXCEPT !.state = "cut"]
            ELSE pg[j]]
  BY <1>1, ValueFound DEF Rewritten
<1>3. DOMAIN pg = 1..Len(pg) /\ Len(pg) \in Nat /\ \A j \in DOMAIN pg : pg[j] \in CellOf(V)
  OBVIOUS
<1>4. i \in DOMAIN pg /\ pg[i].live /\ pg[i].key = k
  BY <1>1 DEF At
<1> HIDE DEF new
<1>5. \A j \in DOMAIN pg :
        /\ new[j] \in CellOf(V)
        /\ new[j].key = pg[j].key /\ new[j].space = pg[j].space /\ new[j].live = pg[j].live
        /\ new[j].val = IF j = i THEN v ELSE pg[j].val
  BY <1>2, <1>3 DEF CellOf
<1>6. DOMAIN new = 1..Len(pg) /\ new \in [1..Len(pg) -> CellOf(V)]
  BY <1>2, <1>3, <1>5
<1>7. new \in Seq(CellOf(V)) /\ DOMAIN new = DOMAIN pg
  BY <1>3, <1>6, IsASeq
<1>8. \A x : At(new, x) = At(pg, x)
  BY <1>5, <1>7 DEF At
<1>9. Keys(new) = Keys(pg)
  BY <1>5, <1>7 DEF Keys
<1>10. Distinct(new)
  BY <1>5, <1>7 DEF Distinct
<1>11. ValueAt(new, k) = v
  BY <1>8, <1>10, <1>1, <1>4, <1>5, ValueFound
<1>12. ASSUME NEW x \in Keys(pg) \ {k} PROVE ValueAt(new, x) = ValueAt(pg, x)
  <2>1. PICK j \in At(pg, x) : TRUE
    BY AtKeys
  <2>2. j \in At(new, x) /\ j \in DOMAIN pg /\ j # i
    BY <1>8, <1>4 DEF At
  <2>3. ValueAt(pg, x) = pg[j].val /\ ValueAt(new, x) = new[j].val
    BY <2>2, <1>10, ValueFound
  <2> QED BY <2>2, <2>3, <1>5
<1>13. ASSUME Whole(pg), ~OutgrownBy(pg, k, n) PROVE Whole(new)
  <2>1. n <= pg[i].space
    BY <1>13, <1>1, <1>3, <1>4 DEF OutgrownBy, CellOf
  <2>2. \A j \in DOMAIN pg : pg[j].len <= pg[j].space /\ pg[j].state = "ok"
    BY <1>13 DEF Whole
  <2>3. ASSUME NEW j \in DOMAIN pg PROVE new[j].len <= new[j].space /\ new[j].state = "ok"
    <3>1. CASE j = i
      BY <3>1, <2>1, <1>2, <1>3 DEF CellOf
    <3>2. CASE j # i
      <4>1. ~(n - pg[i].space > LeftPtr)
        BY <2>1, <1>3, <1>4, CatalogAssumption DEF CellOf
      <4>2. ~(pg[j].len > pg[j].space)
        BY <2>2, <1>3 DEF CellOf
      <4>3. new[j] = pg[j]
        BY <3>2, <4>1, <4>2, <1>2
      <4> QED BY <4>3, <2>2
    <3> QED BY <3>1, <3>2
  <2> QED BY <2>3, <1>7 DEF Whole
<1>14. Kept(new, pg) /\ SameLive(new, pg)
  BY <1>5, <1>7 DEF Kept, SameLive
<1> QED BY <1>7, <1>9, <1>10, <1>11, <1>12, <1>13, <1>14, Zenon DEF new

LEMMA WithoutPage ==
    ASSUME NEW V, NEW pg \in Seq(CellOf(V)), Distinct(pg), NEW k
    PROVE  LET new == Without(pg, k)
           IN  /\ new \in Seq(CellOf(V)) /\ Distinct(new) /\ Kept(new, pg)
               /\ \A j \in DOMAIN pg : new[j].live <=> pg[j].live /\ pg[j].key # k
               /\ Keys(new) = Keys(pg) \ {k}
               /\ \A x \in Keys(new) : ValueAt(new, x) = ValueAt(pg, x)
               /\ Whole(pg) => Whole(new)
<1> DEFINE new == Without(pg, k)
<1>1. DOMAIN pg = 1..Len(pg) /\ Len(pg) \in Nat /\ \A j \in DOMAIN pg : pg[j] \in CellOf(V)
  OBVIOUS
<1>2. DOMAIN new = DOMAIN pg /\ \A j \in DOMAIN pg :
         new[j] = IF j \in At(pg, k) THEN [pg[j] EXCEPT !.live = FALSE] ELSE pg[j]
  BY DEF Without
<1> HIDE DEF new
<1>3. \A j \in DOMAIN pg :
        /\ new[j] \in CellOf(V)
        /\ new[j].key = pg[j].key /\ new[j].space = pg[j].space /\ new[j].val = pg[j].val
        /\ new[j].len = pg[j].len /\ new[j].state = pg[j].state
  <2> SUFFICES ASSUME NEW j \in DOMAIN pg
               PROVE  /\ new[j] \in CellOf(V)
                      /\ new[j].key = pg[j].key /\ new[j].space = pg[j].space /\ new[j].val = pg[j].val
                      /\ new[j].len = pg[j].len /\ new[j].state = pg[j].state
    OBVIOUS
  <2>1. pg[j] \in CellOf(V)
    BY <1>1
  <2>2. [pg[j] EXCEPT !.live = FALSE] \in CellOf(V)
    BY <2>1 DEF CellOf
  <2>3. CASE j \in At(pg, k)
    BY <2>1, <2>2, <2>3, <1>2 DEF CellOf
  <2>4. CASE j \notin At(pg, k)
    BY <2>1, <2>4, <1>2
  <2> QED BY <2>3, <2>4
<1>4. \A j \in DOMAIN pg : new[j].live <=> pg[j].live /\ pg[j].key # k
  <2> SUFFICES ASSUME NEW j \in DOMAIN pg PROVE new[j].live <=> pg[j].live /\ pg[j].key # k
    OBVIOUS
  <2>1. CASE j \in At(pg, k)
    BY <2>1, <1>1, <1>2 DEF At, CellOf
  <2>2. CASE j \notin At(pg, k)
    BY <2>2, <1>1, <1>2 DEF At, CellOf
  <2> QED BY <2>1, <2>2
<1>5. new \in Seq(CellOf(V))
  <2>1. new \in [1..Len(pg) -> CellOf(V)]
    <3>1. new = [j \in DOMAIN pg |-> IF j \in At(pg, k) THEN [pg[j] EXCEPT !.live = FALSE] ELSE pg[j]]
      BY DEF new, Without
    <3> QED BY <1>1, <1>3, <3>1
  <2> QED BY <2>1, <1>1, IsASeq
<1>6. Distinct(new)
  BY <1>2, <1>3, <1>4 DEF Distinct
<1>7. \A x : At(new, x) = IF x = k THEN {} ELSE At(pg, x)
  BY <1>2, <1>3, <1>4 DEF At
<1>8. Keys(new) = Keys(pg) \ {k}
  <2>1. \A x : x \in Keys(new) <=> x \in Keys(pg) /\ x # k
    BY <1>7, AtKeys
  <2> QED BY <2>1
<1>9. ASSUME NEW x \in Keys(new) PROVE ValueAt(new, x) = ValueAt(pg, x)
  <2>1. PICK j \in At(new, x) : TRUE
    BY AtKeys
  <2>2. j \in At(pg, x) /\ j \in DOMAIN pg
    BY <2>1, <1>7 DEF At
  <2>3. ValueAt(pg, x) = pg[j].val /\ ValueAt(new, x) = new[j].val
    BY <2>1, <2>2, <1>6, ValueFound
  <2> QED BY <2>2, <2>3, <1>3
<1>10. Whole(pg) => Whole(new)
  BY <1>2, <1>3 DEF Whole
<1>11. Kept(new, pg)
  BY <1>2, <1>3 DEF Kept
<1> QED BY <1>4, <1>5, <1>6, <1>8, <1>9, <1>10, <1>11, Zenon DEF new

-----------------------------------------------------------------------------
(* The bytes in use: those of a cell stay in use when it is written again  *)
(* or removed.                                                             *)
Spaces(pg) == [i \in DOMAIN pg |-> pg[i].space]

LEMMA SpacesOfPage ==
    ASSUME NEW V, NEW pg \in Seq(CellOf(V))
    PROVE  Spaces(pg) \in Seq(Int) /\ Len(Spaces(pg)) = Len(pg)
<1>1. DOMAIN pg = 1..Len(pg) /\ Len(pg) \in Nat /\ \A i \in DOMAIN pg : pg[i] \in CellOf(V)
  OBVIOUS
<1>2. Spaces(pg) \in [1..Len(pg) -> Int]
  BY <1>1 DEF Spaces, CellOf
<1> QED BY <1>1, <1>2, IsASeq

LEMMA UsedBytes ==
    ASSUME NEW V, NEW pg \in Seq(CellOf(V))
    PROVE  /\ Used(pg) \in Int
           /\ pg = << >> => Used(pg) = 0
           /\ \A k \in Int, v \in V, n \in Int : Used(Append(pg, NewCell(k, v, n))) = Used(pg) + n
           /\ \A new : Kept(new, pg) => Used(new) = Used(pg)
<1>1. Spaces(pg) \in Seq(Int) /\ Used(pg) = Total(Spaces(pg))
  BY SpacesOfPage DEF Used, Spaces
<1>2. ASSUME NEW k \in Int, NEW v \in V, NEW n \in Int
      PROVE  Used(Append(pg, NewCell(k, v, n))) = Used(pg) + n
  <2> DEFINE new == Append(pg, NewCell(k, v, n))
  <2>1. DOMAIN new = 1..(Len(pg) + 1) /\ DOMAIN pg = 1..Len(pg) /\ Len(pg) \in Nat
        /\ new[Len(pg) + 1].space = n /\ \A i \in 1..Len(pg) : new[i] = pg[i]
    BY DEF NewCell
  <2>2. Len(Spaces(pg)) = Len(pg)
    BY SpacesOfPage
  <2>3. Append(Spaces(pg), n) = Spaces(new)
    <3> DEFINE w == Append(Spaces(pg), n)
    <3>1. w \in Seq(Int) /\ Len(w) = Len(pg) + 1
      BY <1>1, <2>2
    <3>2. \A i \in 1..(Len(pg) + 1) : w[i] = new[i].space
      <4>1. \A i \in 1..Len(pg) : w[i] = pg[i].space
        BY <1>1, <2>1, <2>2 DEF Spaces
      <4>2. w[Len(pg) + 1] = n
        BY <1>1, <2>2
      <4> HIDE DEF w, new
      <4> QED BY <4>1, <4>2, <2>1
    <3> HIDE DEF w, new
    <3>3. w = [i \in 1..(Len(pg) + 1) |-> w[i]]
      BY <3>1, LenProperties, Zenon
    <3>4. w = [i \in 1..(Len(pg) + 1) |-> new[i].space]
      BY <3>2, <3>3
    <3> QED BY <3>4, <2>1 DEF Spaces, w
  <2>4. Used(new) = Total(Spaces(new))
    BY DEF Used, Spaces
  <2> HIDE DEF new
  <2>5. Used(new) = Used(pg) + n
    BY <1>1, <2>3, <2>4, TotalProperties
  <2> QED BY <2>5 DEF new
<1>3. ASSUME NEW new, Kept(new, pg) PROVE Used(new) = Used(pg)
  <2>1. Spaces(new) = Spaces(pg)
    BY <1>3 DEF Kept, Spaces
  <2> QED BY <2>1 DEF Used, Spaces
<1>4. Used(pg) \in Int
  BY <1>1, TotalProperties
<1>5. pg = << >> => Used(pg) = 0
  <2>1. pg = << >> => Len(Spaces(pg)) = 0
    BY SpacesOfPage
  <2> QED BY <1>1, <2>1, TotalProperties, EmptySeq
<1> QED BY <1>2, <1>3, <1>4, <1>5

-----------------------------------------------------------------------------
(* The schema tree before its root has split.                              *)
CatalogOf(V) == [pages : [1..2 -> Seq(CellOf(V))], sep : Int, sepSpace : Int]

OneLeaf(c, V) == c \in CatalogOf(V) /\ c.sep = NotSplit /\ Distinct(c.pages[1])

IsLaid(c) == c.pages[1] # << >>

(* The space the row of key k is bound to, if its cell is the first.       *)
Limits(c, k) == {c.pages[1][i].space : i \in {1} \intersect At(c.pages[1], k)}

LEMMA OneLeafFacts ==
    ASSUME NEW V, NEW c, OneLeaf(c, V)
    PROVE  /\ c.pages[1] \in Seq(CellOf(V)) /\ c.pages \in [1..2 -> Seq(CellOf(V))]
           /\ Distinct(c.pages[1]) /\ c.sep = NotSplit
           /\ \A k : PageOf(c, k) = 1
           /\ DOMAIN Stored(c) = Keys(c.pages[1])
           /\ \A k \in DOMAIN Stored(c) : Stored(c)[k] = ValueAt(c.pages[1], k)
           /\ \A k \in DOMAIN Stored(c) : Stored(c)[k] \in V
<1>1. /\ c.pages[1] \in Seq(CellOf(V)) /\ c.pages \in [1..2 -> Seq(CellOf(V))]
      /\ Distinct(c.pages[1]) /\ c.sep = NotSplit
      /\ \A k : PageOf(c, k) = 1
  BY DEF OneLeaf, CatalogOf, PageOf
<1>2. /\ DOMAIN Stored(c) = Keys(c.pages[1])
      /\ \A k \in DOMAIN Stored(c) : Stored(c)[k] = ValueAt(c.pages[1], k)
  BY DEF Stored
<1>3. ASSUME NEW k \in Keys(c.pages[1]) PROVE ValueAt(c.pages[1], k) \in V
  <2>1. PICK i \in At(c.pages[1], k) : TRUE
    BY AtKeys
  <2>2. ValueAt(c.pages[1], k) = c.pages[1][i].val
    BY <1>1, <2>1, ValueFound
  <2>3. c.pages[1][i] \in CellOf(V)
    BY <1>1, <2>1 DEF At
  <2> QED BY <2>2, <2>3 DEF CellOf
<1> QED BY <1>1, <1>2, <1>3

(* A catalogue whose first page is replaced.                               *)
LEMMA PageReplaced ==
    ASSUME NEW V, NEW c, OneLeaf(c, V), NEW new \in Seq(CellOf(V)), Distinct(new)
    PROVE  LET d == [c EXCEPT !.pages[1] = new]
           IN  OneLeaf(d, V) /\ d.pages[1] = new
<1> DEFINE d == [c EXCEPT !.pages[1] = new]
<1>1. c \in CatalogOf(V) /\ c.sep = NotSplit
  BY DEF OneLeaf
<1>2. c.pages \in [1..2 -> Seq(CellOf(V))]
  BY <1>1 DEF CatalogOf
<1>3. [c.pages EXCEPT ![1] = new] \in [1..2 -> Seq(CellOf(V))] /\ [c.pages EXCEPT ![1] = new][1] = new
  BY <1>2
<1>4. d = [c EXCEPT !.pages = [c.pages EXCEPT ![1] = new]]
  BY <1>1 DEF CatalogOf
<1>5. d \in CatalogOf(V) /\ d.sep = c.sep /\ d.pages = [c.pages EXCEPT ![1] = new]
  BY <1>1, <1>3, <1>4 DEF CatalogOf
<1> QED BY <1>1, <1>3, <1>5 DEF OneLeaf

(* What an attempt to store v under k, in n bytes, makes of c.             *)
CanStore(c, k, n) == \A s \in Limits(c, k) : n <= s

PutAs(c, d, k, v, n) ==
    /\ Stored(d) = IF CanStore(c, k, n) THEN Within(Stored(c), k, v) ELSE Stored(c)
    /\ IsLaid(d)
    /\ \A x : Limits(d, x) = IF IsLaid(c) THEN Limits(c, x) ELSE IF x = k THEN {n} ELSE {}
    /\ Whole(c.pages[1]) /\ ~OutgrownBy(c.pages[1], k, n) => Whole(d.pages[1])
    /\ Used(c.pages[1]) <= Room => Used(d.pages[1]) <= Room

(* BTree.Insert into one leaf: it is refused exactly when the row's cell is *)
(* the first and too small, and is then without effect; otherwise the map   *)
(* has the new value at the key and is the same elsewhere.                  *)
LEMMA PutInLeaf ==
    ASSUME NEW V, NEW c, OneLeaf(c, V),
           NEW k \in Int, NEW v \in V, NEW n \in Int, ~Splits(c, k, n)
    PROVE  LET d == Put(c, k, v, n)
           IN  /\ OneLeaf(d.cat, V)
               /\ d.ok <=> CanStore(c, k, n)
               /\ PutAs(c, d.cat, k, v, n)
<1> DEFINE pg == c.pages[1]
           d == Put(c, k, v, n)
<1>1. /\ pg \in Seq(CellOf(V)) /\ Distinct(pg) /\ PageOf(c, k) = 1
      /\ DOMAIN Stored(c) = Keys(pg) /\ \A x \in Keys(pg) : Stored(c)[x] = ValueAt(pg, x)
  BY OneLeafFacts
<1>2. /\ DOMAIN pg = 1..Len(pg) /\ Len(pg) \in Nat
      /\ \A j \in DOMAIN pg : pg[j] \in CellOf(V)
  <2> HIDE DEF pg
  <2> QED BY <1>1
<1>3. CanRewrite(pg, k, n) <=> CanStore(c, k, n)
  <2>1. CASE 1 \in At(pg, k)
    <3>1. Limits(c, k) = {pg[1].space}
      BY <2>1 DEF Limits
    <3> QED BY <2>1, <3>1 DEF CanRewrite, CanStore
  <2>2. CASE 1 \notin At(pg, k)
    <3>1. Limits(c, k) = {}
      BY <2>2 DEF Limits
    <3> QED BY <2>2, <3>1 DEF CanRewrite, CanStore
  <2> QED BY <2>1, <2>2
<1>4. CASE At(pg, k) = {}
  <2> DEFINE new == Append(pg, NewCell(k, v, n))
  <2>1. k \notin Keys(pg)
    BY <1>4, AtKeys
  <2>2. Fits(pg, n)
    BY <1>1, <1>4 DEF Splits
  <2>3. d = [cat |-> [c EXCEPT !.pages[1] = new], ok |-> TRUE]
    BY <1>1, <1>4, <2>2 DEF Put
  <2>4. /\ new \in Seq(CellOf(V)) /\ Distinct(new)
        /\ Keys(new) = Keys(pg) \union {k} /\ ValueAt(new, k) = v
        /\ \A x \in Keys(pg) : ValueAt(new, x) = ValueAt(pg, x)
        /\ Whole(pg) => Whole(new)
        /\ Len(pg) = 0 => new[1] = NewCell(k, v, n)
        /\ Len(pg) # 0 => Len(new) # 0 /\ new[1] = pg[1]
    BY <1>1, <2>1, AppendedPage
  <2>5. DOMAIN new = 1..(Len(pg) + 1)
    BY <1>1
  <2> HIDE DEF new
  <2>6. OneLeaf(d.cat, V) /\ d.cat.pages[1] = new /\ d.ok = TRUE
    <3>1. LET e == [c EXCEPT !.pages[1] = new] IN OneLeaf(e, V) /\ e.pages[1] = new
      BY <2>4, PageReplaced, Zenon
    <3>2. d.cat = [c EXCEPT !.pages[1] = new] /\ d.ok = TRUE
      BY <2>3
    <3> QED BY <3>1, <3>2, Zenon
  <2>7. Stored(d.cat) = Within(Stored(c), k, v)
    <3>1. DOMAIN Stored(d.cat) = Keys(pg) \union {k}
          /\ \A x \in DOMAIN Stored(d.cat) : Stored(d.cat)[x] = ValueAt(new, x)
      BY <2>4, <2>6 DEF Stored
    <3>2. ASSUME NEW x \in Keys(pg) \union {k}
          PROVE  ValueAt(new, x) = IF x = k THEN v ELSE Stored(c)[x]
      BY <1>1, <2>4
    <3>3. Stored(d.cat) = [x \in Keys(pg) \union {k} |-> ValueAt(new, x)]
      BY <2>4, <2>6 DEF Stored
    <3> QED BY <1>1, <3>2, <3>3 DEF Within
  <2>8. IsLaid(d.cat)
    BY <2>5, <2>6, <1>2 DEF IsLaid
  <2>9. Limits(c, k) = {}
    BY <1>4 DEF Limits
  <2>10. ASSUME IsLaid(c), NEW x PROVE Limits(d.cat, x) = Limits(c, x)
    <3>1. Len(pg) # 0
      BY <2>10, <1>1, EmptySeq DEF IsLaid
    <3>2. 1 \in DOMAIN pg /\ 1 \in DOMAIN new /\ new[1] = pg[1]
      BY <3>1, <2>4, <2>5, <1>2
    <3> QED BY <3>2, <2>6 DEF Limits, At
  <2>11. ASSUME ~IsLaid(c), NEW x PROVE Limits(d.cat, x) = IF x = k THEN {n} ELSE {}
    <3>1. Len(pg) = 0
      BY <2>11, <1>1 DEF IsLaid
    <3>2. 1 \in DOMAIN new /\ new[1].live /\ new[1].key = k /\ new[1].space = n
      BY <3>1, <2>4, <2>5 DEF NewCell
    <3> QED BY <3>2, <2>6 DEF Limits, At
  <2>12. Used(d.cat.pages[1]) <= Room
    <3>1. Used(new) = Used(pg) + n
      BY <1>1, UsedBytes DEF new
    <3> QED BY <3>1, <2>2, <2>6 DEF Fits
  <2>13. CanStore(c, k, n)
    BY <2>9 DEF CanStore
  <2> QED BY <2>4, <2>6, <2>7, <2>8, <2>10, <2>11, <2>12, <2>13 DEF PutAs
<1>5. CASE At(pg, k) # {} /\ CanRewrite(pg, k, n)
  <2> DEFINE new == Rewritten(pg, k, v, n)
  <2>1. k \in Keys(pg)
    BY <1>5, AtKeys
  <2>3. d = [cat |-> [c EXCEPT !.pages[1] = new], ok |-> TRUE]
    BY <1>1, <1>5 DEF Put
  <2>4. /\ new \in Seq(CellOf(V)) /\ Distinct(new) /\ Kept(new, pg) /\ SameLive(new, pg)
        /\ Keys(new) = Keys(pg) /\ ValueAt(new, k) = v
        /\ \A x \in Keys(pg) \ {k} : ValueAt(new, x) = ValueAt(pg, x)
        /\ Whole(pg) /\ ~OutgrownBy(pg, k, n) => Whole(new)
    <3>1. pg \in Seq(CellOf(V)) /\ Distinct(pg) /\ k \in Keys(pg)
      BY <1>1, <2>1
    <3> HIDE DEF pg
    <3> QED BY <3>1, RewrittenPage
  <2> HIDE DEF new
  <2>6. OneLeaf(d.cat, V) /\ d.cat.pages[1] = new /\ d.ok = TRUE
    <3>1. LET e == [c EXCEPT !.pages[1] = new] IN OneLeaf(e, V) /\ e.pages[1] = new
      BY <2>4, PageReplaced, Zenon
    <3>2. d.cat = [c EXCEPT !.pages[1] = new] /\ d.ok = TRUE
      BY <2>3
    <3> QED BY <3>1, <3>2, Zenon
  <2>7. Stored(d.cat) = Within(Stored(c), k, v)
    <3>1. ASSUME NEW x \in Keys(pg)
          PROVE  ValueAt(new, x) = IF x = k THEN v ELSE Stored(c)[x]
      BY <1>1, <2>4
    <3>2. Stored(d.cat) = [x \in Keys(pg) |-> ValueAt(new, x)]
      BY <2>4, <2>6 DEF Stored
    <3>3. Keys(pg) = DOMAIN Stored(c) \union {k}
      BY <1>1, <2>1
    <3> QED BY <3>1, <3>2, <3>3 DEF Within
  <2>8. IsLaid(c) /\ IsLaid(d.cat)
    <3>1. PICK j \in DOMAIN pg : TRUE
      BY <1>5 DEF At
    <3> QED BY <3>1, <2>4, <2>6, <1>2 DEF IsLaid, Kept
  <2>9. ASSUME NEW x PROVE Limits(d.cat, x) = Limits(c, x)
    <3>2. At(new, x) = At(pg, x)
      BY <2>4 DEF At, Kept, SameLive
    <3>3. \A j \in At(pg, x) : new[j].space = pg[j].space
      BY <2>4 DEF At, Kept
    <3> QED BY <3>2, <3>3, <2>6 DEF Limits
  <2>10. Used(d.cat.pages[1]) = Used(pg)
    <3>1. Used(new) = Used(pg)
      BY <1>1, <2>4, UsedBytes, Zenon
    <3> QED BY <3>1, <2>6
  <2> QED BY <1>3, <1>5, <2>4, <2>6, <2>7, <2>8, <2>9, <2>10 DEF PutAs
<1>6. CASE At(pg, k) # {} /\ ~CanRewrite(pg, k, n)
  <2>1. d = [cat |-> c, ok |-> FALSE]
    BY <1>1, <1>6 DEF Put
  <2>2. IsLaid(c)
    BY <1>6 DEF IsLaid, At
  <2>3. Whole(c.pages[1]) => Whole(d.cat.pages[1])
    BY <2>1
  <2>4. Used(c.pages[1]) <= Room => Used(d.cat.pages[1]) <= Room
    BY <2>1
  <2> QED BY <2>1, <2>2, <2>3, <2>4, <1>3, <1>6 DEF PutAs
<1> QED BY <1>4, <1>5, <1>6

(* What removing the row of k makes of c.                                  *)
RemovedAs(c, d, k) ==
    /\ Stored(d) = Except(Stored(c), k)
    /\ IsLaid(d) <=> IsLaid(c)
    /\ \A x : Limits(d, x) = IF x = k THEN {} ELSE Limits(c, x)
    /\ Whole(c.pages[1]) => Whole(d.pages[1])
    /\ Used(d.pages[1]) = Used(c.pages[1])

LEMMA RemovedFromLeaf ==
    ASSUME NEW V, NEW c, OneLeaf(c, V), NEW k, k # NotSplit
    PROVE  OneLeaf(Removed(c, k), V) /\ RemovedAs(c, Removed(c, k), k)
<1> DEFINE pg == c.pages[1]
           d == Removed(c, k)
           new == Without(pg, k)
<1>1. /\ pg \in Seq(CellOf(V)) /\ Distinct(pg) /\ PageOf(c, k) = 1 /\ c.sep = NotSplit
      /\ DOMAIN Stored(c) = Keys(pg) /\ \A x \in Keys(pg) : Stored(c)[x] = ValueAt(pg, x)
  BY OneLeafFacts
<1>2. d = [c EXCEPT !.pages[1] = new]
  BY <1>1 DEF Removed
<1>3. /\ new \in Seq(CellOf(V)) /\ Distinct(new) /\ Kept(new, pg)
      /\ \A j \in DOMAIN pg : new[j].live <=> pg[j].live /\ pg[j].key # k
      /\ Keys(new) = Keys(pg) \ {k}
      /\ \A x \in Keys(new) : ValueAt(new, x) = ValueAt(pg, x)
      /\ Whole(pg) => Whole(new)
  BY <1>1, WithoutPage
<1> HIDE DEF new
<1>4. OneLeaf(d, V) /\ d.pages[1] = new
  BY <1>2, <1>3, PageReplaced
<1>5. Stored(d) = Except(Stored(c), k)
  BY <1>1, <1>3, <1>4 DEF Stored, Except
<1>6. IsLaid(d) <=> IsLaid(c)
  <2>1. DOMAIN new = 1..Len(new) /\ DOMAIN pg = 1..Len(pg) /\ Len(new) \in Nat /\ Len(pg) \in Nat
    BY <1>1, <1>3
  <2>2. Len(new) = Len(pg)
    BY <2>1, <1>3 DEF Kept
  <2>3. (new = << >> <=> Len(new) = 0) /\ (pg = << >> <=> Len(pg) = 0)
    BY <1>1, <1>3, EmptySeq
  <2> QED BY <2>2, <2>3, <1>4 DEF IsLaid
<1>7. ASSUME NEW x PROVE Limits(d, x) = IF x = k THEN {} ELSE Limits(c, x)
  <2>1. At(new, x) = IF x = k THEN {} ELSE At(pg, x)
    BY <1>3 DEF At, Kept
  <2>2. \A j \in At(pg, x) : new[j].space = pg[j].space
    BY <1>3 DEF At, Kept
  <2> QED BY <2>1, <2>2, <1>4 DEF Limits
<1>8. Used(d.pages[1]) = Used(pg)
  BY <1>1, <1>3, <1>4, UsedBytes
<1> QED BY <1>3, <1>4, <1>5, <1>6, <1>7, <1>8 DEF RemovedAs

LEMMA EmptyLeaf ==
    ASSUME NEW V
    PROVE  /\ OneLeaf(EmptyCatalog, V)
           /\ EmptyCatalog.pages[1] = << >> /\ DOMAIN Stored(EmptyCatalog) = {}
           /\ ~IsLaid(EmptyCatalog)
           /\ \A k : Limits(EmptyCatalog, k) = {}
           /\ Whole(EmptyCatalog.pages[1])
<1>1. << >> \in Seq(CellOf(V)) /\ DOMAIN << >> = {}
  OBVIOUS
<1>2. << << >>, << >> >> \in [1..2 -> Seq(CellOf(V))]
  <2> DEFINE e == << >>
  <2>1. e \in Seq(CellOf(V))
    BY <1>1
  <2> HIDE DEF e
  <2>2. DOMAIN <<e, e>> = 1..2 /\ <<e, e>>[1] = e /\ <<e, e>>[2] = e
    OBVIOUS
  <2>3. <<e, e>> \in [1..2 -> Seq(CellOf(V))]
    BY <2>1, <2>2
  <2> QED BY <2>3 DEF e
<1>3. EmptyCatalog \in CatalogOf(V) /\ EmptyCatalog.sep = NotSplit /\ EmptyCatalog.pages[1] = << >>
  BY <1>2 DEF EmptyCatalog, CatalogOf, NotSplit
<1> QED BY <1>1, <1>3 DEF OneLeaf, Distinct, Stored, Keys, IsLaid, Limits, At, Whole

(* Opening the file again finds the same leaf.                             *)
LEMMA ReopenedLeaf ==
    ASSUME NEW V, NEW c, OneLeaf(c, V)
    PROVE  LET d == Reopened(c)
           IN  /\ OneLeaf(d, V) /\ d.pages[1] = c.pages[1]
               /\ Stored(d) = Stored(c)
               /\ IsLaid(d) <=> IsLaid(c)
               /\ \A x : Limits(d, x) = Limits(c, x)
<1> DEFINE d == Reopened(c)
<1>1. d = [EmptyCatalog EXCEPT !.pages[1] = c.pages[1]]
  BY DEF Reopened
<1>2. OneLeaf(EmptyCatalog, V)
  BY EmptyLeaf
<1>3. OneLeaf(d, V) /\ d.pages[1] = c.pages[1]
  BY <1>1, <1>2, PageReplaced, OneLeafFacts
<1>4. Stored(d) = Stored(c) /\ (IsLaid(d) <=> IsLaid(c)) /\ \A x : Limits(d, x) = Limits(c, x)
  <2> HIDE DEF d
  <2> QED BY <1>3 DEF Stored, IsLaid, Limits
<1> QED BY <1>3, <1>4

-----------------------------------------------------------------------------
(* The schema tree with any number of leaves that are followed: what they  *)
(* hold is of the right kind, whatever a split has done to the rest.  G is *)
(* the set of pairs of a key and a value that may be stored.               *)
LeafOf(pg, V, G) ==
    /\ pg \in Seq(CellOf(V)) /\ Distinct(pg)
    /\ \A k \in Keys(pg) : <<k, ValueAt(pg, k)>> \in G

Leaves(c, V, G) ==
    /\ c \in [pages : [1..2 -> Seq(CellOf(V))], sep : {c.sep}, sepSpace : {c.sepSpace}]
    /\ LeafOf(c.pages[1], V, G) /\ LeafOf(c.pages[2], V, G)

OneKey(S) == \A x, y \in S : x.key = y.key => x = y
Below(S, x) == {y \in S : y.key < x.key}

(* With different keys, every rank is taken: the numbers of smaller cells  *)
(* are as many as there are cells.                                         *)
LEMMA RankTaken ==
    ASSUME NEW S, IsFiniteSet(S), OneKey(S), \A x \in S : x.key \in Int, NEW r \in 0..(Cardinality(S) - 1)
    PROVE  \E x \in S : Cardinality(Below(S, x)) = r
<1> DEFINE N == Cardinality(S)
           rank == [x \in S |-> Cardinality(Below(S, x))]
<1>1. N \in Nat
  BY FS_CardinalityType
<1>2. ASSUME NEW x \in S
      PROVE  /\ IsFiniteSet(Below(S, x)) /\ Cardinality(Below(S, x)) \in 0..(N - 1)
  <2>1. Below(S, x) \in SUBSET S /\ x \notin Below(S, x)
    BY DEF Below
  <2>2. IsFiniteSet(Below(S, x)) /\ Cardinality(Below(S, x)) <= N /\ Cardinality(Below(S, x)) # N
    <3>1. Below(S, x) # S
      BY <2>1
    <3> QED BY <2>1, <3>1, FS_Subset
  <2>3. Cardinality(Below(S, x)) \in Nat
    BY <2>2, FS_CardinalityType
  <2> QED BY <1>1, <2>2, <2>3
<1>3. ASSUME NEW x \in S, NEW y \in S, x.key < y.key
      PROVE  Cardinality(Below(S, x)) # Cardinality(Below(S, y))
  <2>1. Below(S, x) \in SUBSET Below(S, y) /\ x \in Below(S, y) /\ x \notin Below(S, x)
    BY <1>3 DEF Below
  <2>2. Below(S, x) # Below(S, y)
    BY <2>1
  <2> QED BY <1>2, <2>1, <2>2, FS_Subset
<1>4. rank \in Injection(S, 0..(N - 1))
  <2>1. rank \in [S -> 0..(N - 1)]
    BY <1>2
  <2>2. ASSUME NEW x \in S, NEW y \in S, rank[x] = rank[y] PROVE x = y
    <3>1. x.key = y.key
      BY <1>3, <2>2
    <3> QED BY <3>1 DEF OneKey
  <2> QED BY <2>1, <2>2 DEF Injection, IsInjective
<1>5. IsFiniteSet(0..(N - 1)) /\ Cardinality(0..(N - 1)) = N
  <2> DEFINE b == N - 1
  <2>1. 0 \in Int /\ b \in Int
    BY <1>1
  <2>2. IsFiniteSet(0..b) /\ Cardinality(0..b) = IF 0 > b THEN 0 ELSE b - 0 + 1
    <3> HIDE DEF b
    <3> QED BY <2>1, FS_Interval
  <2> QED BY <1>1, <2>2
<1>6. rank \in Surjection(S, 0..(N - 1))
  <2> HIDE DEF rank
  <2> QED BY <1>4, <1>5, FS_Injection
<1>7. \E x \in S : rank[x] = r
  BY <1>6 DEF Surjection
<1> QED BY <1>7

LEMMA ByKeyProperties ==
    ASSUME NEW S, IsFiniteSet(S), OneKey(S), \A x \in S : x.key \in Int
    PROVE  /\ ByKey(S) \in Seq(S) /\ Len(ByKey(S)) = Cardinality(S)
           /\ \A i, j \in 1..Len(ByKey(S)) : ByKey(S)[i].key = ByKey(S)[j].key => i = j
<1> DEFINE N == Cardinality(S)
           s == ByKey(S)
<1>1. N \in Nat
  BY FS_CardinalityType
<1>2. ASSUME NEW i \in 1..N
      PROVE  s[i] \in S /\ Cardinality(Below(S, s[i])) = i - 1
  <2>1. i - 1 \in 0..(Cardinality(S) - 1)
    BY <1>1
  <2>2. \E x \in S : Cardinality(Below(S, x)) = i - 1
    BY <2>1, RankTaken
  <2>3. s[i] = CHOOSE x \in S : Cardinality(Below(S, x)) = i - 1
    BY DEF ByKey, Below
  <2> HIDE DEF s
  <2> QED BY <2>2, <2>3
<1>3. s \in Seq(S) /\ Len(s) = N
  <2> DEFINE Ranked(i) == CHOOSE x \in S : Cardinality({y \in S : y.key < x.key}) = i - 1
  <2>1. s = [i \in 1..N |-> Ranked(i)]
    BY DEF ByKey
  <2> HIDE DEF Ranked
  <2> HIDE DEF s
  <2> QED BY <1>1, <1>2, <2>1
<1>4. ASSUME NEW i \in 1..N, NEW j \in 1..N, s[i].key = s[j].key PROVE i = j
  <2> HIDE DEF s
  <2>1. s[i] = s[j]
    BY <1>2, <1>4 DEF OneKey
  <2>2. i - 1 = j - 1
    BY <1>2, <2>1
  <2> QED BY <2>2
<1> QED BY <1>3, <1>4

(* Cells laid down one after the other, with different keys.               *)
LEMMA LaidAnew ==
    ASSUME NEW V, NEW G, NEW f \in Seq(CellOf(V)),
           \A i \in DOMAIN f : <<f[i].key, f[i].val>> \in G,
           \A i, j \in DOMAIN f : f[i].key = f[j].key => i = j
    PROVE  LeafOf(f, V, G)
<1>1. Distinct(f)
  BY DEF Distinct
<1>2. ASSUME NEW k \in Keys(f) PROVE <<k, ValueAt(f, k)>> \in G
  <2>1. PICK i \in DOMAIN f : i \in At(f, k) /\ f[i].key = k
    BY DEF Keys, At
  <2>2. ValueAt(f, k) = f[i].val
    BY <1>1, <2>1, ValueFound
  <2> QED BY <2>1, <2>2
<1> QED BY <1>1, <1>2 DEF LeafOf

(* splitLeaf: both halves hold cells of the leaf, or the new one.          *)
LEMMA SplitInLeaves ==
    ASSUME NEW V, NEW G, NEW c, Leaves(c, V, G),
           NEW k \in Int, NEW v \in V, NEW n \in Int, <<k, v>> \in G, k \notin Keys(c.pages[1])
    PROVE  Leaves(SplitWith(c, NewCell(k, v, n)), V, G)
<1> DEFINE pg == c.pages[1]
           cell == NewCell(k, v, n)
           S == LiveCells(pg) \union {cell}
           sorted == ByKey(S)
           fresh == [i \in DOMAIN sorted |-> NewCell(sorted[i].key, sorted[i].val, sorted[i].len)]
           N == Len(sorted)
           mid == N \div 2
           low == SubSeq(fresh, 1, mid)
           high == SubSeq(fresh, mid + 1, Len(fresh))
<1>1. LeafOf(pg, V, G) /\ pg \in Seq(CellOf(V)) /\ Distinct(pg)
  BY DEF Leaves, LeafOf
<1>2. cell \in CellOf(V) /\ cell.key = k /\ cell.val = v
  BY DEF NewCell, CellOf
<1>3. ASSUME NEW x \in LiveCells(pg)
      PROVE  x \in CellOf(V) /\ <<x.key, x.val>> \in G /\ x.key \in Keys(pg)
  <2>1. PICK i \in DOMAIN pg : pg[i].live /\ x = pg[i]
    BY DEF LiveCells
  <2>2. x \in CellOf(V)
    BY <1>1, <2>1
  <2>3. i \in At(pg, x.key)
    BY <2>1 DEF At
  <2>4. ValueAt(pg, x.key) = x.val /\ x.key \in Keys(pg)
    BY <1>1, <2>1, <2>3, ValueFound
  <2> QED BY <1>1, <2>2, <2>4 DEF LeafOf
<1>4. OneKey(LiveCells(pg))
  <2> SUFFICES ASSUME NEW x \in LiveCells(pg), NEW y \in LiveCells(pg), x.key = y.key PROVE x = y
    BY DEF OneKey
  <2>1. PICK i \in DOMAIN pg : pg[i].live /\ x = pg[i]
    BY DEF LiveCells
  <2>2. PICK j \in DOMAIN pg : pg[j].live /\ y = pg[j]
    BY DEF LiveCells
  <2>3. i = j
    BY <1>1, <2>1, <2>2 DEF Distinct
  <2> QED BY <2>1, <2>2, <2>3
<1>5. IsFiniteSet(LiveCells(pg))
  <2> DEFINE I == {j \in DOMAIN pg : pg[j].live}
             at == [j \in I |-> pg[j]]
  <2>1. Len(pg) \in Nat /\ DOMAIN pg = 1..Len(pg)
    BY <1>1
  <2>2. IsFiniteSet(1..Len(pg)) /\ I \in SUBSET (1..Len(pg))
    BY <2>1, FS_Interval
  <2>3. IsFiniteSet(I)
    <3> HIDE DEF I
    <3> QED BY <2>2, FS_Subset
  <2>4. at \in Surjection(I, LiveCells(pg))
    BY DEF LiveCells, Surjection
  <2> HIDE DEF at, I
  <2> QED BY <2>3, <2>4, FS_Surjection
<1> HIDE DEF pg, cell
<1>6. /\ IsFiniteSet(S) /\ OneKey(S)
      /\ \A x \in S : x \in CellOf(V) /\ <<x.key, x.val>> \in G /\ x.key \in Int
  <2>1. IsFiniteSet(S)
    BY <1>5, FS_AddElement
  <2>2. OneKey(S)
    BY <1>2, <1>3, <1>4 DEF OneKey, pg
  <2>3. ASSUME NEW x \in S PROVE x \in CellOf(V) /\ <<x.key, x.val>> \in G /\ x.key \in Int
    <3>1. x \in CellOf(V) /\ <<x.key, x.val>> \in G
      BY <1>2, <1>3
    <3> QED BY <3>1 DEF CellOf
  <2> QED BY <2>1, <2>2, <2>3
<1> HIDE DEF S
<1>7. /\ sorted \in Seq(S) /\ \A i, j \in 1..N : sorted[i].key = sorted[j].key => i = j
  BY <1>6, ByKeyProperties
<1> HIDE DEF sorted
<1>8. /\ fresh \in Seq(CellOf(V)) /\ Len(fresh) = N /\ N \in Nat /\ mid \in 0..N
      /\ \A i \in 1..N : /\ fresh[i] \in CellOf(V) /\ fresh[i].key = sorted[i].key
                          /\ <<fresh[i].key, fresh[i].val>> \in G
  <2>1. N \in Nat /\ DOMAIN sorted = 1..N /\ \A i \in 1..N : sorted[i] \in S
    BY <1>7
  <2>2. ASSUME NEW i \in 1..N
        PROVE  /\ fresh[i] \in CellOf(V) /\ fresh[i].key = sorted[i].key
               /\ <<fresh[i].key, fresh[i].val>> \in G
    <3>1. sorted[i] \in CellOf(V) /\ <<sorted[i].key, sorted[i].val>> \in G
      BY <1>6, <2>1
    <3>2. fresh[i] = NewCell(sorted[i].key, sorted[i].val, sorted[i].len)
      BY <2>1
    <3> HIDE DEF fresh
    <3> QED BY <3>1, <3>2 DEF NewCell, CellOf
  <2>3. fresh \in Seq(CellOf(V)) /\ Len(fresh) = N
    <3> DEFINE Q == CellOf(V)
               M == N
    <3>1. M \in Nat /\ M = N /\ fresh = [i \in 1..M |-> fresh[i]] /\ \A i \in 1..M : fresh[i] \in Q
      BY <2>1, <2>2
    <3> HIDE DEF fresh, Q, M
    <3>2. fresh \in Seq(Q) /\ Len(fresh) = M
      BY <3>1
    <3> QED BY <3>1, <3>2 DEF Q
  <2> QED BY <2>1, <2>2, <2>3
<1> HIDE DEF fresh
<1>9. /\ low \in Seq(CellOf(V)) /\ Len(low) = mid
      /\ \A i \in 1..mid : low[i] = fresh[i]
  <2> DEFINE m == mid
  <2>1. 1 \in Int /\ m \in Int /\ \A i \in 1..m : fresh[i] \in CellOf(V)
    BY <1>8
  <2>2. /\ SubSeq(fresh, 1, m) \in Seq(CellOf(V)) /\ Len(SubSeq(fresh, 1, m)) = IF 1 <= m THEN m - 1 + 1 ELSE 0
        /\ \A i \in 1..(m - 1 + 1) : SubSeq(fresh, 1, m)[i] = fresh[1 + i - 1]
    <3> HIDE DEF m
    <3> QED BY <2>1, SubSeqProperties
  <2>3. m \in 0..N /\ low = SubSeq(fresh, 1, m)
    BY <1>8
  <2> HIDE DEF m, low
  <2>4. m - 1 + 1 = m /\ (IF 1 <= m THEN m - 1 + 1 ELSE 0) = m /\ \A i \in 1..m : 1 + i - 1 = i
    BY <2>3, <1>8
  <2> QED BY <2>2, <2>3, <2>4 DEF m
<1>10. /\ high \in Seq(CellOf(V)) /\ Len(high) = N - mid
       /\ \A i \in 1..(N - mid) : high[i] = fresh[mid + i]
  <2> DEFINE a == mid + 1
             b == Len(fresh)
  <2>1. a \in Int /\ b \in Int /\ b = N /\ \A i \in a..b : fresh[i] \in CellOf(V)
    BY <1>8
  <2>2. /\ SubSeq(fresh, a, b) \in Seq(CellOf(V)) /\ Len(SubSeq(fresh, a, b)) = IF a <= b THEN b - a + 1 ELSE 0
        /\ \A i \in 1..(b - a + 1) : SubSeq(fresh, a, b)[i] = fresh[a + i - 1]
    <3> HIDE DEF a, b
    <3> QED BY <2>1, SubSeqProperties
  <2>3. a = mid + 1 /\ mid \in 0..N /\ N \in Nat
    BY <1>8
  <2>4. high = SubSeq(fresh, a, b)
    OBVIOUS
  <2> HIDE DEF a, b, high, mid
  <2>5. b - a + 1 = N - mid /\ (IF a <= b THEN b - a + 1 ELSE 0) = N - mid
        /\ \A i \in 1..(N - mid) : a + i - 1 = mid + i
    BY <2>1, <2>3
  <2> QED BY <2>2, <2>4, <2>5
<1> HIDE DEF low, high, mid
<1>11. LeafOf(low, V, G)
  <2>1. DOMAIN low = 1..mid /\ \A i \in 1..mid : i \in 1..N
    BY <1>8, <1>9
  <2>2. \A i \in DOMAIN low : <<low[i].key, low[i].val>> \in G
    BY <1>8, <1>9, <2>1
  <2>3. ASSUME NEW i \in DOMAIN low, NEW j \in DOMAIN low, low[i].key = low[j].key PROVE i = j
    <3>1. sorted[i].key = sorted[j].key /\ i \in 1..N /\ j \in 1..N
      BY <1>8, <1>9, <2>1, <2>3
    <3> QED BY <1>7, <3>1
  <2> QED BY <1>9, <2>2, <2>3, LaidAnew
<1>12. LeafOf(high, V, G)
  <2>1. DOMAIN high = 1..(N - mid) /\ \A i \in 1..(N - mid) : mid + i \in 1..N
    BY <1>8, <1>10
  <2>2. \A i \in DOMAIN high : <<high[i].key, high[i].val>> \in G
    BY <1>8, <1>10, <2>1
  <2>3. ASSUME NEW i \in DOMAIN high, NEW j \in DOMAIN high, high[i].key = high[j].key PROVE i = j
    <3>1. sorted[mid + i].key = sorted[mid + j].key /\ mid + i \in 1..N /\ mid + j \in 1..N
      BY <1>8, <1>10, <2>1, <2>3
    <3>2. mid + i = mid + j
      BY <1>7, <3>1
    <3> QED BY <1>8, <2>1, <3>2
  <2> QED BY <1>10, <2>2, <2>3, LaidAnew
<1> DEFINE d == SplitWith(c, cell)
<1>13. d = [pages |-> <<low, high>>, sep |-> sorted[mid + 1].key, sepSpace |-> sorted[mid + 1].len]
  BY DEF SplitWith, S, pg, sorted, fresh, mid, low, high
<1>14. LeafOf(low, V, G) /\ LeafOf(high, V, G) /\ low \in Seq(CellOf(V)) /\ high \in Seq(CellOf(V))
  BY <1>9, <1>10, <1>11, <1>12
<1>15. Leaves(d, V, G)
  <2> HIDE DEF d
  <2> QED BY <1>13, <1>14 DEF Leaves
<1> QED BY <1>15 DEF cell

LEMMA LeavesRead ==
    ASSUME NEW V, NEW G, NEW c, Leaves(c, V, G)
    PROVE  /\ \A k \in DOMAIN Stored(c) : <<k, Stored(c)[k]>> \in G
           /\ LeafOf(c.pages[1], V, G)
           /\ \A p \in 1..2 : LeafOf(c.pages[p], V, G)
           /\ \A k : PageOf(c, k) \in 1..2
<1>1. LeafOf(c.pages[1], V, G) /\ LeafOf(c.pages[2], V, G)
  BY DEF Leaves
<1>2. \A p \in 1..2 : p = 1 \/ p = 2
  OBVIOUS
<1>3. \A p \in 1..2 : LeafOf(c.pages[p], V, G)
  BY <1>1, <1>2
<1>4. \A k \in DOMAIN Stored(c) : <<k, Stored(c)[k]>> \in G
  BY <1>1 DEF Stored, LeafOf
<1>5. \A k : PageOf(c, k) \in 1..2
  BY DEF PageOf
<1> QED BY <1>1, <1>3, <1>4, <1>5

LEMMA LeavesAre ==
    ASSUME NEW V, NEW G, NEW s, NEW t, NEW low, NEW high, LeafOf(low, V, G), LeafOf(high, V, G)
    PROVE  Leaves([pages |-> <<low, high>>, sep |-> s, sepSpace |-> t], V, G)
<1> DEFINE Q == Seq(CellOf(V))
           d == [pages |-> <<low, high>>, sep |-> s, sepSpace |-> t]
<1>1. low \in Q /\ high \in Q
  BY DEF LeafOf
<1> HIDE DEF Q
<1>2. /\ d \in [pages : [1..2 -> Q], sep : {d.sep}, sepSpace : {d.sepSpace}]
      /\ d.pages[1] = low /\ d.pages[2] = high
  BY <1>1
<1> HIDE DEF d
<1>3. Leaves(d, V, G)
  BY <1>2 DEF Leaves, Q
<1> QED BY <1>3 DEF d

LEMMA LeafReplaced ==
    ASSUME NEW V, NEW G, NEW c, Leaves(c, V, G), NEW p \in 1..2, NEW pg, LeafOf(pg, V, G)
    PROVE  Leaves([c EXCEPT !.pages[p] = pg], V, G)
<1> DEFINE Q == Seq(CellOf(V))
           d == [c EXCEPT !.pages[p] = pg]
<1>1. /\ c \in [pages : [1..2 -> Q], sep : {c.sep}, sepSpace : {c.sepSpace}] /\ pg \in Q
      /\ LeafOf(c.pages[1], V, G) /\ LeafOf(c.pages[2], V, G)
  BY DEF Leaves, LeafOf
<1> HIDE DEF Q
<1>2. p = 1 \/ p = 2
  OBVIOUS
<1>3. /\ d \in [pages : [1..2 -> Q], sep : {d.sep}, sepSpace : {d.sepSpace}]
      /\ \A q \in 1..2 : d.pages[q] = IF q = p THEN pg ELSE c.pages[q]
  BY <1>1
<1> HIDE DEF d
<1>4. LeafOf(d.pages[1], V, G) /\ LeafOf(d.pages[2], V, G)
  BY <1>1, <1>2, <1>3
<1>5. Leaves(d, V, G)
  BY <1>3, <1>4 DEF Leaves, Q
<1> QED BY <1>5 DEF d

LEMMA SeparatorReplaced ==
    ASSUME NEW V, NEW G, NEW c, Leaves(c, V, G), NEW pg, LeafOf(pg, V, G), NEW x
    PROVE  Leaves([c EXCEPT !.pages[1] = pg, !.sep = x], V, G)
<1> DEFINE f == [c EXCEPT !.pages[1] = pg]
           e == [c EXCEPT !.pages[1] = pg, !.sep = x]
<1>1. Leaves(f, V, G)
  <2>1. 1 \in 1..2
    OBVIOUS
  <2> QED BY <2>1, LeafReplaced
<1>2. e = [f EXCEPT !.sep = x]
  OBVIOUS
<1> HIDE DEF f
<1>3. /\ e \in [pages : {f.pages}, sep : {e.sep}, sepSpace : {e.sepSpace}]
      /\ f.pages \in [1..2 -> Seq(CellOf(V))]
      /\ LeafOf(f.pages[1], V, G) /\ LeafOf(f.pages[2], V, G)
  BY <1>1, <1>2 DEF Leaves
<1> HIDE DEF e
<1>4. Leaves(e, V, G)
  BY <1>3 DEF Leaves
<1> QED BY <1>4 DEF e

LEMMA PutInLeaves ==
    ASSUME NEW V, NEW G, NEW c, Leaves(c, V, G),
           NEW k \in Int, NEW v \in V, NEW n \in Int, <<k, v>> \in G,
           Followed(c, k, n)
    PROVE  Leaves(Put(c, k, v, n).cat, V, G)
<1> DEFINE p  == PageOf(c, k)
           pg == c.pages[p]
<1>1. p \in 1..2 /\ LeafOf(pg, V, G) /\ pg \in Seq(CellOf(V)) /\ Distinct(pg)
  BY LeavesRead DEF LeafOf
<1>2. CASE At(pg, k) # {} /\ CanRewrite(pg, k, n)
  <2>1. k \in Keys(pg)
    BY <1>2, AtKeys
  <2> DEFINE new == Rewritten(pg, k, v, n)
  <2>2. /\ new \in Seq(CellOf(V)) /\ Distinct(new) /\ Keys(new) = Keys(pg) /\ ValueAt(new, k) = v
        /\ \A x \in Keys(pg) \ {k} : ValueAt(new, x) = ValueAt(pg, x)
    <3> HIDE DEF pg
    <3> QED BY <1>1, <2>1, RewrittenPage
  <2>3. Put(c, k, v, n).cat = [c EXCEPT !.pages[p] = new]
    BY <1>2 DEF Put
  <2> HIDE DEF new, pg, p
  <2>4. LeafOf(new, V, G)
    BY <1>1, <2>2 DEF LeafOf
  <2>5. Leaves([c EXCEPT !.pages[p] = new], V, G)
    BY <1>1, <2>4, LeafReplaced
  <2> QED BY <2>3, <2>5
<1>3. CASE At(pg, k) # {} /\ ~CanRewrite(pg, k, n)
  BY <1>3 DEF Put
<1>4. CASE At(pg, k) = {} /\ Fits(pg, n)
  <2>1. k \notin Keys(pg)
    BY <1>4, AtKeys
  <2> DEFINE new == Append(pg, NewCell(k, v, n))
  <2>2. /\ new \in Seq(CellOf(V)) /\ Distinct(new) /\ Keys(new) = Keys(pg) \union {k} /\ ValueAt(new, k) = v
        /\ \A x \in Keys(pg) : ValueAt(new, x) = ValueAt(pg, x)
    <3> HIDE DEF pg
    <3> QED BY <1>1, <2>1, AppendedPage
  <2>3. Put(c, k, v, n).cat = [c EXCEPT !.pages[p] = new]
    BY <1>4 DEF Put
  <2> HIDE DEF new, pg, p
  <2>4. LeafOf(new, V, G)
    BY <1>1, <2>2 DEF LeafOf
  <2>5. Leaves([c EXCEPT !.pages[p] = new], V, G)
    BY <1>1, <2>4, LeafReplaced
  <2> QED BY <2>3, <2>5
<1>5. CASE At(pg, k) = {} /\ ~Fits(pg, n)
  <2>1. c.sep = NotSplit
    BY <1>5 DEF Followed, Splits
  <2>2. p = 1
    BY <2>1 DEF PageOf
  <2>3. k \notin Keys(c.pages[1])
    BY <1>5, <2>2, AtKeys
  <2>4. Put(c, k, v, n).cat = SplitWith(c, NewCell(k, v, n))
    BY <1>5 DEF Put
  <2> QED BY <2>3, <2>4, SplitInLeaves
<1> QED BY <1>2, <1>3, <1>4, <1>5

LEMMA RemovedFromLeaves ==
    ASSUME NEW V, NEW G, NEW c, Leaves(c, V, G), NEW k
    PROVE  Leaves(Removed(c, k), V, G)
<1>1. ASSUME NEW p \in 1..2, NEW x PROVE LeafOf(Without(c.pages[p], x), V, G)
  <2> DEFINE pg == c.pages[p]
             new == Without(pg, x)
  <2>1. LeafOf(pg, V, G) /\ pg \in Seq(CellOf(V)) /\ Distinct(pg)
    BY LeavesRead DEF LeafOf
  <2> HIDE DEF pg
  <2>2. /\ new \in Seq(CellOf(V)) /\ Distinct(new) /\ Keys(new) = Keys(pg) \ {x}
        /\ \A y \in Keys(new) : ValueAt(new, y) = ValueAt(pg, y)
    BY <2>1, WithoutPage
  <2> HIDE DEF new
  <2>3. LeafOf(new, V, G)
    BY <2>1, <2>2 DEF LeafOf
  <2> QED BY <2>3 DEF new, pg
<1>2. CASE k = c.sep
  <2> DEFINE new == Without(c.pages[1], Least(c.pages[1]))
  <2>1. Removed(c, k) = [c EXCEPT !.pages[1] = new, !.sep = Least(c.pages[1])]
    BY <1>2 DEF Removed
  <2>2. LeafOf(new, V, G)
    BY <1>1
  <2> HIDE DEF new
  <2>3. Leaves([c EXCEPT !.pages[1] = new, !.sep = Least(c.pages[1])], V, G)
    BY <2>2, SeparatorReplaced
  <2> QED BY <2>1, <2>3
<1>3. CASE k # c.sep
  <2> DEFINE p == PageOf(c, k)
             new == Without(c.pages[p], k)
  <2>1. Removed(c, k) = [c EXCEPT !.pages[p] = new]
    BY <1>3 DEF Removed
  <2>2. p \in 1..2
    BY LeavesRead
  <2>3. LeafOf(new, V, G)
    BY <1>1, <2>2
  <2> HIDE DEF new, p
  <2>4. Leaves([c EXCEPT !.pages[p] = new], V, G)
    BY <2>2, <2>3, LeafReplaced
  <2> QED BY <2>1, <2>4
<1> QED BY <1>2, <1>3

LEMMA LeavesGrow ==
    ASSUME NEW V, NEW G, NEW H, G \subseteq H, NEW c, Leaves(c, V, G)
    PROVE  Leaves(c, V, H)
BY DEF Leaves, LeafOf

LEMMA NothingLaid ==
    ASSUME NEW V, NEW G
    PROVE  LeafOf(<< >>, V, G)
<1>1. DOMAIN << >> = {} /\ << >> \in Seq(CellOf(V))
  OBVIOUS
<1> QED BY <1>1 DEF LeafOf, Distinct, Keys

LEMMA LeavesReopened ==
    ASSUME NEW V, NEW G, NEW c, Leaves(c, V, G)
    PROVE  Leaves(Reopened(c), V, G)
<1>1. Reopened(c) = [pages |-> <<c.pages[1], << >> >>, sep |-> NotSplit, sepSpace |-> 0]
  BY DEF Reopened, EmptyCatalog
<1>2. LeafOf(c.pages[1], V, G) /\ LeafOf(<< >>, V, G)
  BY LeavesRead, NothingLaid
<1> QED BY <1>1, <1>2, LeavesAre

LEMMA LeavesEmpty ==
    ASSUME NEW V, NEW G
    PROVE  Leaves(EmptyCatalog, V, G)
BY NothingLaid, LeavesAre DEF EmptyCatalog

-----------------------------------------------------------------------------
AnyValue == [type : {"null", "int", "text"}, n : Int]
Row == Seq(AnyValue)
SchemaOf == [name : TableName, cols : Seq(Columns), tree : Nat, names : Seq(IndexName),
             noNames : BOOLEAN, next : Int]
IndexOf == [name : IndexName, table : TableName, column : ColumnName, tree : Nat]
SchemaRow == SchemaOf \union IndexOf \union ViewName

OneName(ts) == \A i, j \in DOMAIN ts.cols : ts.cols[i].name = ts.cols[j].name => i = j

(* A table of the database, with one of the trees 1..n.                    *)
IsTable(ts, t, n) ==
    ts \in SchemaOf /\ ts.name = t /\ ts.tree \in 1..n /\ Bounded(ts.next) /\ OneName(ts)

OneEach(f) == \A x, y \in DOMAIN f : f[x].tree = f[y].tree => x = y

(* The maps T, I and W of tables, indexes and views, and the schema tree c.*)
Maps(T, I, W, n) ==
    /\ DOMAIN T \subseteq TableName
    /\ \A t \in DOMAIN T : IsTable(T[t], t, n)
    /\ DOMAIN I \subseteq IndexName
    /\ \A i \in DOMAIN I : I[i] \in IndexOf /\ I[i].tree \in 1..n
    /\ W \subseteq ViewName
    /\ OneEach(T) /\ OneEach(I)

StoredTables(T, c, n) ==
    \A t \in TableName :
        /\ t \in DOMAIN T <=> t \in DOMAIN Stored(c)
        /\ t \in DOMAIN T => /\ IsTable(Stored(c)[t], t, n) /\ Stored(c)[t].tree = T[t].tree
                             /\ Limits(c, t) = {} => Stored(c)[t] = T[t]

StoredIndexes(I, c) ==
    \A i \in IndexName : i \in DOMAIN Stored(c) => i \in DOMAIN I /\ Stored(c)[i] = I[i]

StoredViews(W, c) ==
    \A v \in ViewName : /\ v \in W <=> v \in DOMAIN Stored(c)
                        /\ v \in W => Stored(c)[v] = v

Agree(T, I, W, c, n) ==
    /\ Maps(T, I, W, n)
    /\ OneLeaf(c, SchemaRow) /\ Used(c.pages[1]) <= Room
    /\ DOMAIN Stored(c) \subseteq TableName \union IndexName \union ViewName
    /\ StoredTables(T, c, n) /\ StoredIndexes(I, c) /\ StoredViews(W, c)

AllSaved(T, I, c) ==
    /\ \A t \in DOMAIN T : t \in DOMAIN Stored(c) /\ Stored(c)[t] = T[t]
    /\ DOMAIN I \subseteq DOMAIN Stored(c)

RowsTyped ==
    /\ rows \in Seq(Seq(CellOf(Row))) /\ Len(rows) <= MaxTree
    /\ entries \in Seq(SUBSET (Int \X Int)) /\ Len(entries) = Len(rows)
    /\ \A e \in DOMAIN rows : Distinct(rows[e])

SchemaInv ==
    /\ RowsTyped
    /\ Agree(tables, indexes, views, cat, Len(rows))
    /\ "unsaved" \notin marks => AllSaved(tables, indexes, cat)
    /\ "outgrown" \notin marks => Whole(cat.pages[1])

-----------------------------------------------------------------------------
RowKeys(t) == Keys(rows[tables[t].tree])
RowAt(t, id) == ValueAt(rows[tables[t].tree], id)

(* What the program knows of a table: what it has in memory, and what it   *)
(* has after opening the database again.                                   *)
Known(t) == {tables[t], Stored(cat)[t]}

CounterInv ==
    "wrapped" \notin marks =>
        \A t \in DOMAIN tables : \A ts \in Known(t) : \A id \in Keys(rows[ts.tree]) : id < ts.next

HoldsKey(ts, row, id) ==
    LET pk == PrimaryKeyColumn(ts) IN pk # 0 => pk \in DOMAIN row /\ row[pk] = IntV(id)

HoldsKeys(ts, pg) == \A id \in Keys(pg) : HoldsKey(ts, ValueAt(pg, id), id)

KeyKept == marks \intersect {"keyed late", "dropped"} = {}
KeysHeld == marks \intersect {"keyed", "keyed late", "dropped"} = {}

(* A column that ADD COLUMN could not store may be the primary key of a    *)
(* table in memory only, but not of a table that has rows.                 *)
KeyInv ==
    /\ KeyKept =>
          \A t \in DOMAIN tables : RowKeys(t) # {} =>
              \A ts, us \in Known(t) : PrimaryKeyColumn(ts) = PrimaryKeyColumn(us)
    /\ KeysHeld =>
          \A t \in DOMAIN tables : \A ts \in Known(t) : HoldsKeys(ts, rows[ts.tree])

Guarded(ts, i) == ts.cols[i].notNull /\ (ts.cols[i].pk => i = PrimaryKeyColumn(ts))

NoNulls(ts, row) ==
    /\ Len(row) <= Len(ts.cols)
    /\ \A i \in DOMAIN ts.cols : Guarded(ts, i) => Extended(row, ts)[i].type # "null"

NullInv ==
    marks \intersect {"dropped", "unsaved"} = {} =>
        \A t \in DOMAIN tables : \A id \in RowKeys(t) : NoNulls(tables[t], RowAt(t, id))

-----------------------------------------------------------------------------
(* A schema row that is the first of its page was stored before its table  *)
(* had an index, and has no room for the name of one.                      *)
Listing(T, I, c) ==
    /\ \A t \in DOMAIN T : \A i \in ToSet(T[t].names) :
          i \in DOMAIN Stored(c) /\ ColumnIndex(T[t], I[i].column) # 0
    /\ \A t, u \in DOMAIN T : ToSet(T[t].names) \intersect ToSet(T[u].names) # {} => t = u
    /\ \A t \in DOMAIN T : \A s \in Limits(c, t) :
          /\ Stored(c)[t].names = << >>
          /\ s <= BaseLen + ColumnLen * Len(Stored(c)[t].cols) + 5
          /\ Len(Stored(c)[t].cols) <= Len(T[t].cols)

(* indexKey, of the index is.                                              *)
Entry(ts, is, row, id) ==
    LET v == row[ColumnIndex(ts, is.column)] IN <<IF v.type = "null" THEN NullWord ELSE v.n, id>>

Covers(ts, I, R, E) ==
    \A i \in ToSet(ts.names) : \A id \in Keys(R[ts.tree]) :
        Entry(ts, I[i], Extended(ValueAt(R[ts.tree], id), ts), id) \in E[I[i].tree]

IndexInv ==
    marks \intersect {"late", "renamed", "dropped", "refused", "listed"} = {} =>
        /\ Listing(tables, indexes, cat)
        /\ \A t \in DOMAIN tables : Covers(tables[t], indexes, rows, entries)

IInv == "split" \notin marks => SchemaInv /\ CounterInv /\ KeyInv /\ NullInv /\ IndexInv
-----------------------------------------------------------------------------
SameLimits(c, d, k) == \A x : x # k => Limits(d, x) = Limits(c, x)

LEMMA PutElsewhere ==
    ASSUME NEW c, NEW d, NEW k, NEW v, NEW n, PutAs(c, d, k, v, n)
    PROVE  /\ SameLimits(c, d, k)
           /\ Limits(c, k) # {} => Limits(d, k) = Limits(c, k)
           /\ \A x \in DOMAIN Stored(c) \ {k} : x \in DOMAIN Stored(d) /\ Stored(d)[x] = Stored(c)[x]
           /\ DOMAIN Stored(d) \subseteq DOMAIN Stored(c) \union {k}
           /\ DOMAIN Stored(c) \subseteq DOMAIN Stored(d)
           /\ CanStore(c, k, n) => k \in DOMAIN Stored(d) /\ Stored(d)[k] = v
           /\ ~CanStore(c, k, n) => Stored(d) = Stored(c) /\ Limits(d, k) = Limits(c, k) /\ Limits(c, k) # {}
<1>1. ~IsLaid(c) => \A x : Limits(c, x) = {}
  <2>1. DOMAIN << >> = {}
    OBVIOUS
  <2> QED BY <2>1 DEF IsLaid, Limits, At
<1>2. SameLimits(c, d, k)
  BY <1>1 DEF PutAs, SameLimits
<1>3. Limits(c, k) # {} => Limits(d, k) = Limits(c, k)
  BY <1>1 DEF PutAs
<1>4. ~CanStore(c, k, n) => Limits(c, k) # {}
  BY DEF CanStore
<1>5. CASE CanStore(c, k, n)
  <2>1. Stored(d) = Within(Stored(c), k, v)
    BY <1>5 DEF PutAs
  <2> QED BY <1>2, <1>3, <1>5, <2>1 DEF Within
<1>6. CASE ~CanStore(c, k, n)
  BY <1>2, <1>3, <1>4, <1>6 DEF PutAs
<1> QED BY <1>5, <1>6

LEMMA PutDone ==
    ASSUME NEW c, NEW d, NEW k, NEW v, NEW n, PutAs(c, d, k, v, n), CanStore(c, k, n)
    PROVE  k \in DOMAIN Stored(d) /\ Stored(d)[k] = v
BY PutElsewhere

LEMMA PutRefused ==
    ASSUME NEW c, NEW d, NEW k, NEW v, NEW n, PutAs(c, d, k, v, n), ~CanStore(c, k, n)
    PROVE  Stored(d) = Stored(c) /\ Limits(c, k) # {} /\ Limits(d, k) = Limits(c, k)
BY PutElsewhere

LEMMA StoredKeys ==
    ASSUME NEW c, NEW k
    PROVE  /\ Limits(c, k) # {} => k \in DOMAIN Stored(c) /\ IsLaid(c)
           /\ k \in DOMAIN Stored(c) => IsLaid(c)
<1>1. DOMAIN << >> = {}
  OBVIOUS
<1> QED BY <1>1, AtKeys DEF Limits, Stored, IsLaid, At

(* createTable and updateTableSchema.                                      *)
LEMMA TableStored ==
    ASSUME NEW T, NEW I, NEW W, NEW c, NEW n \in Nat, Agree(T, I, W, c, n),
           NEW m \in Nat, n <= m, NEW t \in TableName, NEW ts, IsTable(ts, t, m),
           t \in DOMAIN T => ts.tree = T[t].tree,
           t \notin DOMAIN T => ts.tree \notin 1..n,
           NEW d, NEW len, OneLeaf(d, SchemaRow), PutAs(c, d, t, ts, len)
    PROVE  /\ Agree(Within(T, t, ts), I, W, d, m)
           /\ AllSaved(T, I, c) /\ CanStore(c, t, len) => AllSaved(Within(T, t, ts), I, d)
<1> DEFINE U == Within(T, t, ts)
<1>1. DOMAIN U = DOMAIN T \union {t} /\ \A x \in DOMAIN U : U[x] = IF x = t THEN ts ELSE T[x]
  BY DEF Within
<1> HIDE DEF U
<1>2. /\ Maps(T, I, W, n) /\ StoredTables(T, c, n) /\ StoredIndexes(I, c) /\ StoredViews(W, c)
      /\ DOMAIN Stored(c) \subseteq TableName \union IndexName \union ViewName
      /\ Used(c.pages[1]) <= Room
  BY DEF Agree
<1>3. \A x : x \in 1..n => x \in 1..m
  OBVIOUS
<1>4. Maps(U, I, W, m)
  <2>1. \A x \in DOMAIN U : IsTable(U[x], x, m)
    BY <1>1, <1>2, <1>3 DEF Maps, IsTable
  <2>2. OneEach(U)
    <3> SUFFICES ASSUME NEW x \in DOMAIN U, NEW y \in DOMAIN U, U[x].tree = U[y].tree PROVE x = y
      BY DEF OneEach
    <3>1. CASE x # t /\ y # t
      BY <3>1, <1>1, <1>2 DEF Maps, OneEach
    <3>2. CASE t \in DOMAIN T
      BY <3>2, <1>1, <1>2 DEF Maps, OneEach
    <3>3. CASE t \notin DOMAIN T
      <4>1. \A z \in DOMAIN T : T[z].tree \in 1..n
        BY <1>2 DEF Maps, IsTable
      <4> QED BY <3>3, <4>1, <1>1, <3>1
    <3> QED BY <3>2, <3>3
  <2> QED BY <1>1, <1>2, <1>3, <2>1, <2>2 DEF Maps
<1>5. /\ DOMAIN Stored(d) \subseteq TableName \union IndexName \union ViewName
      /\ Used(d.pages[1]) <= Room
  <2>1. DOMAIN Stored(d) \subseteq DOMAIN Stored(c) \union {t}
    BY PutElsewhere
  <2> QED BY <1>2, <2>1 DEF PutAs
<1>6. StoredTables(U, d, m)
  <2> SUFFICES ASSUME NEW x \in TableName
               PROVE  /\ x \in DOMAIN U <=> x \in DOMAIN Stored(d)
                      /\ x \in DOMAIN U => /\ IsTable(Stored(d)[x], x, m) /\ Stored(d)[x].tree = U[x].tree
                                           /\ Limits(d, x) = {} => Stored(d)[x] = U[x]
    BY DEF StoredTables, SameLimits
  <2>1. CASE x # t
    <3>1. x \in DOMAIN U <=> x \in DOMAIN T
      BY <2>1, <1>1
    <3>2. x \in DOMAIN Stored(d) <=> x \in DOMAIN Stored(c)
      BY <2>1, PutElsewhere
    <3>3. x \in DOMAIN T <=> x \in DOMAIN Stored(c)
      BY <1>2 DEF StoredTables, SameLimits
    <3>4. ASSUME x \in DOMAIN T
          PROVE  /\ IsTable(Stored(d)[x], x, m) /\ Stored(d)[x].tree = U[x].tree
                 /\ Limits(d, x) = {} => Stored(d)[x] = U[x]
      <4>1. Stored(d)[x] = Stored(c)[x] /\ Limits(d, x) = Limits(c, x) /\ U[x] = T[x]
        BY <2>1, <3>3, <3>4, <1>1, PutElsewhere DEF SameLimits
      <4>2. IsTable(Stored(c)[x], x, n) /\ Stored(c)[x].tree = T[x].tree
            /\ (Limits(c, x) = {} => Stored(c)[x] = T[x])
        BY <3>4, <1>2 DEF StoredTables, SameLimits
      <4> QED BY <4>1, <4>2, <1>3 DEF IsTable
    <3> QED BY <3>1, <3>2, <3>3, <3>4
  <2>2. CASE x = t /\ CanStore(c, t, len)
    BY <2>2, <1>1, PutElsewhere
  <2>3. CASE x = t /\ ~CanStore(c, t, len)
    <3>1. Stored(d) = Stored(c) /\ Limits(d, t) # {} /\ Limits(c, t) # {}
      BY <2>3, PutElsewhere
    <3>2. t \in DOMAIN T /\ t \in DOMAIN Stored(c)
      BY <3>1, <1>2, StoredKeys DEF StoredTables, SameLimits
    <3>3. IsTable(Stored(c)[t], t, n) /\ Stored(c)[t].tree = T[t].tree
      BY <3>2, <1>2 DEF StoredTables, SameLimits
    <3> QED BY <2>3, <3>1, <3>2, <3>3, <1>1, <1>3 DEF IsTable
  <2> QED BY <2>1, <2>2, <2>3
<1>7. \A k \in IndexName \union ViewName :
         /\ k # t /\ (k \in DOMAIN Stored(d) <=> k \in DOMAIN Stored(c))
         /\ k \in DOMAIN Stored(c) => Stored(d)[k] = Stored(c)[k]
  BY PutElsewhere, TablesAssumption
<1>8. StoredIndexes(I, d) /\ StoredViews(W, d)
  BY <1>2, <1>7 DEF StoredIndexes, StoredViews
<1>9. ASSUME AllSaved(T, I, c), CanStore(c, t, len) PROVE AllSaved(U, I, d)
  BY <1>1, <1>9, PutElsewhere DEF AllSaved
<1> QED BY <1>4, <1>5, <1>6, <1>8, <1>9 DEF Agree, U

LEMMA NewKey ==
    ASSUME NEW c, NEW k, k \notin DOMAIN Stored(c)
    PROVE  Limits(c, k) = {} /\ \A n : CanStore(c, k, n)
BY StoredKeys DEF CanStore

LEMMA NewKeyPut ==
    ASSUME NEW c, NEW d, NEW k, NEW v, NEW n, PutAs(c, d, k, v, n), k \notin DOMAIN Stored(c)
    PROVE  /\ DOMAIN Stored(d) = DOMAIN Stored(c) \union {k} /\ Stored(d)[k] = v
           /\ \A x \in DOMAIN Stored(c) : Stored(d)[x] = Stored(c)[x]
           /\ SameLimits(c, d, k)
           /\ Used(c.pages[1]) <= Room => Used(d.pages[1]) <= Room
<1>1. CanStore(c, k, n)
  BY NewKey
<1>2. Stored(d) = Within(Stored(c), k, v)
  BY <1>1 DEF PutAs
<1>3. /\ SameLimits(c, d, k)
      /\ Used(c.pages[1]) <= Room => Used(d.pages[1]) <= Room
  BY PutElsewhere DEF PutAs
<1> QED BY <1>2, <1>3 DEF Within

(* createIndex: the row of a new index.                                    *)
LEMMA IndexStored ==
    ASSUME NEW T, NEW I, NEW W, NEW c, NEW n \in Nat, Agree(T, I, W, c, n),
           NEW m \in Nat, n <= m, NEW i \in IndexName, NEW is \in IndexOf,
           i \notin DOMAIN I, is.tree \in 1..m, is.tree \notin 1..n,
           NEW d, NEW len, OneLeaf(d, SchemaRow), PutAs(c, d, i, is, len)
    PROVE  /\ Agree(T, Within(I, i, is), W, d, m)
           /\ AllSaved(T, I, c) => AllSaved(T, Within(I, i, is), d)
<1> DEFINE J == Within(I, i, is)
<1>1. DOMAIN J = DOMAIN I \union {i} /\ \A x \in DOMAIN J : J[x] = IF x = i THEN is ELSE I[x]
  BY DEF Within
<1> HIDE DEF J
<1>2. /\ Maps(T, I, W, n) /\ StoredTables(T, c, n) /\ StoredIndexes(I, c) /\ StoredViews(W, c)
      /\ DOMAIN Stored(c) \subseteq TableName \union IndexName \union ViewName
      /\ Used(c.pages[1]) <= Room
  BY DEF Agree
<1>3. \A x : x \in 1..n => x \in 1..m
  OBVIOUS
<1>4. i \notin DOMAIN Stored(c)
  BY <1>2 DEF StoredIndexes
<1>5. /\ DOMAIN Stored(d) = DOMAIN Stored(c) \union {i} /\ Stored(d)[i] = is
      /\ \A k \in DOMAIN Stored(c) : Stored(d)[k] = Stored(c)[k]
      /\ SameLimits(c, d, i)
      /\ Used(d.pages[1]) <= Room
  <2>1. Used(c.pages[1]) <= Room
    BY <1>2
  <2> QED BY <2>1, <1>4, NewKeyPut, SMTT(30)
<1>6. Maps(T, J, W, m)
  <2>1. \A x \in DOMAIN T : IsTable(T[x], x, m)
    BY <1>2, <1>3 DEF Maps, IsTable
  <2>2. \A x \in DOMAIN J : J[x] \in IndexOf /\ J[x].tree \in 1..m
    BY <1>1, <1>2, <1>3 DEF Maps
  <2>3. OneEach(J)
    BY <1>1, <1>2 DEF Maps, OneEach
  <2> QED BY <1>1, <1>2, <2>1, <2>2, <2>3 DEF Maps
<1>7. \A k \in TableName \union ViewName : k # i
  BY TablesAssumption
<1>8. StoredTables(T, d, m)
  <2>1. \A x, y : IsTable(x, y, n) => IsTable(x, y, m)
    BY <1>3 DEF IsTable
  <2> QED BY <1>2, <1>5, <1>7, <2>1 DEF StoredTables, SameLimits
<1>9. StoredIndexes(J, d) /\ StoredViews(W, d)
  BY <1>1, <1>2, <1>5, <1>7 DEF StoredIndexes, StoredViews
<1>10. /\ DOMAIN Stored(d) \subseteq TableName \union IndexName \union ViewName
       /\ Used(d.pages[1]) <= Room
  BY <1>2, <1>5
<1>11. ASSUME AllSaved(T, I, c) PROVE AllSaved(T, J, d)
  BY <1>1, <1>5, <1>11 DEF AllSaved
<1> QED BY <1>6, <1>8, <1>9, <1>10, <1>11 DEF Agree, J

(* createView.                                                             *)
LEMMA ViewStored ==
    ASSUME NEW T, NEW I, NEW W, NEW c, NEW n \in Nat, Agree(T, I, W, c, n),
           NEW v \in ViewName, v \notin W,
           NEW d, NEW len, OneLeaf(d, SchemaRow), PutAs(c, d, v, v, len)
    PROVE  /\ Agree(T, I, W \union {v}, d, n)
           /\ AllSaved(T, I, c) => AllSaved(T, I, d)
<1>2. /\ Maps(T, I, W, n) /\ StoredTables(T, c, n) /\ StoredIndexes(I, c) /\ StoredViews(W, c)
      /\ DOMAIN Stored(c) \subseteq TableName \union IndexName \union ViewName
      /\ Used(c.pages[1]) <= Room
  BY DEF Agree
<1>4. v \notin DOMAIN Stored(c)
  BY <1>2 DEF StoredViews
<1>5. /\ DOMAIN Stored(d) = DOMAIN Stored(c) \union {v} /\ Stored(d)[v] = v
      /\ \A k \in DOMAIN Stored(c) : Stored(d)[k] = Stored(c)[k]
      /\ SameLimits(c, d, v)
      /\ Used(d.pages[1]) <= Room
  <2>1. Used(c.pages[1]) <= Room
    BY <1>2
  <2> QED BY <2>1, <1>4, NewKeyPut, SMTT(30)
<1>6. Maps(T, I, W \union {v}, n)
  BY <1>2 DEF Maps
<1>7. \A k \in TableName \union IndexName : k # v
  BY TablesAssumption
<1>8. StoredTables(T, d, n)
  BY <1>2, <1>5, <1>7 DEF StoredTables, SameLimits
<1>9. StoredIndexes(I, d) /\ StoredViews(W \union {v}, d)
  BY <1>2, <1>5, <1>7 DEF StoredIndexes, StoredViews
<1>10. /\ DOMAIN Stored(d) \subseteq TableName \union IndexName \union ViewName
       /\ Used(d.pages[1]) <= Room
  BY <1>2, <1>5
<1>11. ASSUME AllSaved(T, I, c) PROVE AllSaved(T, I, d)
  BY <1>5, <1>11 DEF AllSaved
<1> QED BY <1>6, <1>8, <1>9, <1>10, <1>11 DEF Agree

LEMMA RemoveElsewhere ==
    ASSUME NEW c, NEW d, NEW k, RemovedAs(c, d, k)
    PROVE  /\ DOMAIN Stored(d) = DOMAIN Stored(c) \ {k}
           /\ \A x \in DOMAIN Stored(d) : Stored(d)[x] = Stored(c)[x]
           /\ SameLimits(c, d, k)
           /\ Limits(d, k) = {}
           /\ Used(d.pages[1]) = Used(c.pages[1])
BY DEF RemovedAs, Except, SameLimits

(* The row of a table, an index or a view leaves the schema tree.          *)
LEMMA TableRemoved ==
    ASSUME NEW T, NEW I, NEW W, NEW c, NEW n \in Nat, Agree(T, I, W, c, n),
           NEW t \in TableName, NEW d, OneLeaf(d, SchemaRow), RemovedAs(c, d, t)
    PROVE  /\ Agree(Except(T, t), I, W, d, n)
           /\ AllSaved(T, I, c) => AllSaved(Except(T, t), I, d)
<1> DEFINE U == Except(T, t)
<1>1. DOMAIN U = DOMAIN T \ {t} /\ \A x \in DOMAIN U : U[x] = T[x]
  BY DEF Except
<1> HIDE DEF U
<1>0. /\ DOMAIN Stored(d) = DOMAIN Stored(c) \ {t}
      /\ \A x \in DOMAIN Stored(d) : Stored(d)[x] = Stored(c)[x]
      /\ SameLimits(c, d, t)
      /\ Used(d.pages[1]) = Used(c.pages[1])
  BY RemoveElsewhere
<1>2. /\ Maps(T, I, W, n) /\ StoredTables(T, c, n) /\ StoredIndexes(I, c) /\ StoredViews(W, c)
      /\ DOMAIN Stored(c) \subseteq TableName \union IndexName \union ViewName
      /\ Used(c.pages[1]) <= Room
  BY DEF Agree
<1>3. Maps(U, I, W, n)
  BY <1>1, <1>2 DEF Maps, OneEach
<1>4. \A k \in IndexName \union ViewName : k # t
  BY TablesAssumption
<1>5. StoredTables(U, d, n)
  BY <1>1, <1>2, <1>0 DEF StoredTables, SameLimits
<1>6. StoredIndexes(I, d) /\ StoredViews(W, d)
  BY <1>2, <1>4, <1>0 DEF StoredIndexes, StoredViews
<1>7. /\ DOMAIN Stored(d) \subseteq TableName \union IndexName \union ViewName
      /\ Used(d.pages[1]) <= Room
  BY <1>2, <1>0
<1>8. ASSUME AllSaved(T, I, c) PROVE AllSaved(U, I, d)
  <2>1. t \notin DOMAIN I
    BY <1>2, <1>4 DEF Maps
  <2> QED BY <1>1, <1>8, <2>1, <1>0 DEF AllSaved
<1> QED BY <1>3, <1>5, <1>6, <1>7, <1>8 DEF Agree, U

LEMMA IndexRemoved ==
    ASSUME NEW T, NEW I, NEW W, NEW c, NEW n \in Nat, Agree(T, I, W, c, n),
           NEW i \in IndexName, NEW d, OneLeaf(d, SchemaRow), RemovedAs(c, d, i)
    PROVE  /\ Agree(T, Except(I, i), W, d, n) /\ Agree(T, I, W, d, n)
           /\ AllSaved(T, I, c) => AllSaved(T, Except(I, i), d)
<1> DEFINE J == Except(I, i)
<1>1. DOMAIN J = DOMAIN I \ {i} /\ \A x \in DOMAIN J : J[x] = I[x]
  BY DEF Except
<1> HIDE DEF J
<1>0. /\ DOMAIN Stored(d) = DOMAIN Stored(c) \ {i}
      /\ \A x \in DOMAIN Stored(d) : Stored(d)[x] = Stored(c)[x]
      /\ SameLimits(c, d, i)
      /\ Used(d.pages[1]) = Used(c.pages[1])
  BY RemoveElsewhere
<1>2. /\ Maps(T, I, W, n) /\ StoredTables(T, c, n) /\ StoredIndexes(I, c) /\ StoredViews(W, c)
      /\ DOMAIN Stored(c) \subseteq TableName \union IndexName \union ViewName
      /\ Used(c.pages[1]) <= Room
  BY DEF Agree
<1>3. Maps(T, J, W, n)
  BY <1>1, <1>2 DEF Maps, OneEach
<1>4. \A k \in TableName \union ViewName : k # i
  BY TablesAssumption
<1>5. StoredTables(T, d, n)
  BY <1>2, <1>4, <1>0 DEF StoredTables, SameLimits
<1>6. StoredIndexes(I, d) /\ StoredIndexes(J, d) /\ StoredViews(W, d)
  BY <1>1, <1>2, <1>4, <1>0 DEF StoredIndexes, StoredViews
<1>7. /\ DOMAIN Stored(d) \subseteq TableName \union IndexName \union ViewName
      /\ Used(d.pages[1]) <= Room
  BY <1>2, <1>0
<1>8. ASSUME AllSaved(T, I, c) PROVE AllSaved(T, J, d)
  <2>1. i \notin DOMAIN T
    BY <1>2, <1>4 DEF Maps
  <2> QED BY <1>1, <1>8, <2>1, <1>0 DEF AllSaved
<1> QED BY <1>2, <1>3, <1>5, <1>6, <1>7, <1>8 DEF Agree, J

LEMMA ViewRemoved ==
    ASSUME NEW T, NEW I, NEW W, NEW c, NEW n \in Nat, Agree(T, I, W, c, n),
           NEW v \in ViewName, NEW d, OneLeaf(d, SchemaRow), RemovedAs(c, d, v)
    PROVE  /\ Agree(T, I, W \ {v}, d, n)
           /\ AllSaved(T, I, c) => AllSaved(T, I, d)
<1>0. /\ DOMAIN Stored(d) = DOMAIN Stored(c) \ {v}
      /\ \A x \in DOMAIN Stored(d) : Stored(d)[x] = Stored(c)[x]
      /\ SameLimits(c, d, v)
      /\ Used(d.pages[1]) = Used(c.pages[1])
  BY RemoveElsewhere
<1>2. /\ Maps(T, I, W, n) /\ StoredTables(T, c, n) /\ StoredIndexes(I, c) /\ StoredViews(W, c)
      /\ DOMAIN Stored(c) \subseteq TableName \union IndexName \union ViewName
      /\ Used(c.pages[1]) <= Room
  BY DEF Agree
<1>3. Maps(T, I, W \ {v}, n)
  BY <1>2 DEF Maps
<1>4. \A k \in TableName \union IndexName : k # v
  BY TablesAssumption
<1>5. StoredTables(T, d, n)
  BY <1>2, <1>4, <1>0 DEF StoredTables, SameLimits
<1>6. StoredIndexes(I, d) /\ StoredViews(W \ {v}, d)
  BY <1>2, <1>4, <1>0 DEF StoredIndexes, StoredViews
<1>7. /\ DOMAIN Stored(d) \subseteq TableName \union IndexName \union ViewName
      /\ Used(d.pages[1]) <= Room
  BY <1>2, <1>0
<1>8. ASSUME AllSaved(T, I, c) PROVE AllSaved(T, I, d)
  <2>1. v \notin DOMAIN T /\ v \notin DOMAIN I
    BY <1>2, <1>4 DEF Maps
  <2> QED BY <1>8, <2>1, <1>0 DEF AllSaved
<1> QED BY <1>3, <1>5, <1>6, <1>7, <1>8 DEF Agree

(* loadAll: memory has what is stored, which is no more than it had.       *)
LEMMA SchemaLoaded ==
    ASSUME NEW T, NEW I, NEW W, NEW c, NEW n \in Nat, Agree(T, I, W, c, n)
    PROVE  LET L == Stored(c)
               U == [t \in DOMAIN L \intersect TableName |-> L[t]]
               J == [i \in DOMAIN L \intersect IndexName |-> L[i]]
           IN  /\ Agree(U, J, DOMAIN L \intersect ViewName, Reopened(c), n)
               /\ AllSaved(U, J, Reopened(c))
<1> DEFINE L == Stored(c)
           U == [t \in DOMAIN L \intersect TableName |-> L[t]]
           J == [i \in DOMAIN L \intersect IndexName |-> L[i]]
           X == DOMAIN L \intersect ViewName
           d == Reopened(c)
<1>2. /\ Maps(T, I, W, n) /\ StoredTables(T, c, n) /\ StoredIndexes(I, c) /\ StoredViews(W, c)
      /\ DOMAIN Stored(c) \subseteq TableName \union IndexName \union ViewName
      /\ Used(c.pages[1]) <= Room /\ OneLeaf(c, SchemaRow)
  BY DEF Agree
<1>3. OneLeaf(d, SchemaRow) /\ d.pages[1] = c.pages[1] /\ Stored(d) = L
  BY <1>2, ReopenedLeaf
<1>4. ASSUME NEW t \in DOMAIN U
      PROVE  U[t] = L[t] /\ t \in DOMAIN T /\ IsTable(L[t], t, n) /\ L[t].tree = T[t].tree
  <2>1. t \in TableName /\ t \in DOMAIN L /\ U[t] = L[t]
    OBVIOUS
  <2> HIDE DEF U
  <2> QED BY <2>1, <1>2 DEF StoredTables
<1>5. \A i \in DOMAIN J : J[i] = L[i] /\ i \in DOMAIN I /\ L[i] = I[i]
  BY <1>2 DEF StoredIndexes
<1>6. DOMAIN U = DOMAIN L \intersect TableName /\ DOMAIN J = DOMAIN L \intersect IndexName
  OBVIOUS
<1> HIDE DEF U, J, d, L
<1>7. Maps(U, J, X, n)
  <2>1. OneEach(U)
    BY <1>2, <1>4 DEF Maps, OneEach
  <2>2. OneEach(J)
    BY <1>2, <1>5 DEF Maps, OneEach
  <2> QED BY <1>2, <1>4, <1>5, <1>6, <2>1, <2>2 DEF Maps
<1>8. StoredTables(U, d, n)
  BY <1>3, <1>4, <1>6 DEF StoredTables
<1>9. StoredIndexes(J, d)
  BY <1>3, <1>5, <1>6 DEF StoredIndexes
<1>10. StoredViews(X, d)
  <2>1. \A v \in ViewName : v \in DOMAIN L => L[v] = v
    BY <1>2 DEF StoredViews, L
  <2> QED BY <1>3, <2>1 DEF StoredViews
<1>11. AllSaved(U, J, d)
  BY <1>3, <1>4, <1>6 DEF AllSaved
<1> QED BY <1>2, <1>3, <1>7, <1>8, <1>9, <1>10, <1>11 DEF Agree, U, J, d, L

-----------------------------------------------------------------------------
(* Lengths are integers.                                                   *)
LEMMA DigitsCount ==
    ASSUME NEW n
    PROVE  Digits(n) \in 1..4
<1> DEFINE S == {p \in 1..3 : n >= <<Radix, Radix * Radix, Radix * Radix * Radix>>[p]}
<1>1. IsFiniteSet(1..3) /\ Cardinality(1..3) = 3
  <2> DEFINE a == 1
             b == 3
  <2>1. a \in Int /\ b \in Int /\ (IF a > b THEN 0 ELSE b - a + 1) = 3
    OBVIOUS
  <2>2. IsFiniteSet(a..b) /\ Cardinality(a..b) = IF a > b THEN 0 ELSE b - a + 1
    <3> HIDE DEF a, b
    <3> QED BY <2>1, FS_Interval
  <2> QED BY <2>1, <2>2
<1>2. IsFiniteSet(S) /\ Cardinality(S) <= Cardinality(1..3)
  BY <1>1, FS_Subset
<1>3. Cardinality(S) \in Nat
  BY <1>2, FS_CardinalityType
<1>4. Digits(n) = 1 + Cardinality(S)
  BY DEF Digits
<1> HIDE DEF S
<1> QED BY <1>1, <1>2, <1>3, <1>4

LEMMA WidthOfInteger ==
    ASSUME NEW n
    PROVE  Width(n) \in 1..5
BY DigitsCount DEF Width

LEMMA TableLenIsInt ==
    ASSUME NEW ts \in SchemaOf
    PROVE  TableLen(ts) \in Int
<1>1. Len(ts.cols) \in Nat /\ Len(ts.names) \in Nat
  BY DEF SchemaOf
<1>2. NamesLen(ts) \in Int
  BY <1>1 DEF NamesLen
<1>3. BaseLen \in Int /\ ColumnLen \in Int
  BY TablesAssumption
<1>4. ColumnLen * Len(ts.cols) \in Int
  BY <1>1, <1>3
<1> QED BY <1>2, <1>3, <1>4, WidthOfInteger DEF TableLen

-----------------------------------------------------------------------------
(* Put on the schema tree, and what MarksOfPut notes of it.                *)
LEMMA Putting ==
    ASSUME NEW c, OneLeaf(c, SchemaRow), NEW k \in Int, NEW v \in SchemaRow, NEW len \in Int,
           ~Splits(c, k, len)
    PROVE  /\ OneLeaf(Put(c, k, v, len).cat, SchemaRow)
           /\ PutAs(c, Put(c, k, v, len).cat, k, v, len)
           /\ Put(c, k, v, len).ok <=> CanStore(c, k, len)
BY PutInLeaf

LEMMA MarksRead ==
    ASSUME NEW c, OneLeaf(c, SchemaRow), NEW k, NEW v, NEW len
    PROVE  /\ "split" \notin MarksOfPut(c, k, v, len) => ~Splits(c, k, len)
           /\ "unsaved" \notin MarksOfPut(c, k, v, len) => Put(c, k, v, len).ok
           /\ "outgrown" \notin MarksOfPut(c, k, v, len) => ~OutgrownBy(c.pages[1], k, len)
BY OneLeafFacts DEF MarksOfPut, Mark

LEMMA NamesAreInts ==
    /\ TableName \union IndexName \union ViewName \subseteq Int
    /\ \A k \in TableName \union IndexName \union ViewName : k # NotSplit
BY TablesAssumption

LEMMA TableSaved ==
    ASSUME NEW T, NEW I, NEW W, NEW c, NEW n \in Nat, Agree(T, I, W, c, n),
           NEW m \in Nat, n <= m, NEW t \in TableName, NEW ts, IsTable(ts, t, m),
           t \in DOMAIN T => ts.tree = T[t].tree,
           t \notin DOMAIN T => ts.tree \notin 1..n,
           ~Splits(c, t, TableLen(ts))
    PROVE  LET d  == Put(c, t, ts, TableLen(ts)).cat
               ms == MarksOfPut(c, t, ts, TableLen(ts))
           IN  /\ Agree(Within(T, t, ts), I, W, d, m)
               /\ "unsaved" \notin ms /\ AllSaved(T, I, c) => AllSaved(Within(T, t, ts), I, d)
               /\ "outgrown" \notin ms /\ Whole(c.pages[1]) => Whole(d.pages[1])
               /\ PutAs(c, d, t, ts, TableLen(ts))
               /\ Put(c, t, ts, TableLen(ts)).ok <=> CanStore(c, t, TableLen(ts))
               /\ "unsaved" \notin ms => CanStore(c, t, TableLen(ts))
<1> DEFINE len == TableLen(ts)
           d   == Put(c, t, ts, len).cat
           ms  == MarksOfPut(c, t, ts, len)
<1>1. OneLeaf(c, SchemaRow)
  BY DEF Agree
<1>2. ts \in SchemaRow /\ ts \in SchemaOf /\ len \in Int /\ t \in Int
  BY TableLenIsInt, NamesAreInts DEF IsTable, SchemaRow
<1>3. ~Splits(c, t, len)
  OBVIOUS
<1> HIDE DEF len
<1>4. OneLeaf(d, SchemaRow) /\ PutAs(c, d, t, ts, len) /\ (Put(c, t, ts, len).ok <=> CanStore(c, t, len))
  BY <1>1, <1>2, <1>3, Putting
<1>5. /\ "unsaved" \notin ms => CanStore(c, t, len)
      /\ "outgrown" \notin ms => ~OutgrownBy(c.pages[1], t, len)
  BY <1>1, <1>4, MarksRead
<1> HIDE DEF d, ms
<1>6. /\ Agree(Within(T, t, ts), I, W, d, m)
      /\ AllSaved(T, I, c) /\ CanStore(c, t, len) => AllSaved(Within(T, t, ts), I, d)
  BY <1>4, TableStored
<1>7. "outgrown" \notin ms /\ Whole(c.pages[1]) => Whole(d.pages[1])
  BY <1>4, <1>5 DEF PutAs
<1> QED BY <1>4, <1>5, <1>6, <1>7 DEF d, ms, len

-----------------------------------------------------------------------------
(* What a step does to what is known of the tables: nothing new is known,  *)
(* or nothing new but ts of table t.                                       *)
Keeps ==
    DOMAIN tables' \subseteq DOMAIN tables /\ \A x \in DOMAIN tables' : Known(x)' \subseteq Known(x)

Changes(t, ts) ==
    /\ DOMAIN tables' \subseteq DOMAIN tables \union {t}
    /\ \A x \in DOMAIN tables' \ {t} : Known(x)' \subseteq Known(x)
    /\ t \in DOMAIN tables' => \A us \in Known(t)' : us = ts \/ (t \in DOMAIN tables /\ us \in Known(t))

LEMMA KnownTables ==
    ASSUME SchemaInv, NEW t \in DOMAIN tables, NEW ts \in Known(t)
    PROVE  IsTable(ts, t, Len(rows)) /\ ts.tree = tables[t].tree /\ t \in TableName /\ t \in DOMAIN Stored(cat)
BY DEF SchemaInv, Agree, Maps, StoredTables, Known

(* A table is saved, whether or not its row can be stored.                 *)
LEMMA SaveEffects ==
    ASSUME SchemaInv, NEW t \in TableName, NEW ts, IsTable(ts, t, Len(rows')),
           RowsTyped', Len(rows) <= Len(rows'),
           t \in DOMAIN tables => ts.tree = tables[t].tree,
           t \notin DOMAIN tables => ts.tree \notin 1..Len(rows),
           tables' = Within(tables, t, ts), cat' = Save(t, ts).cat, indexes' = indexes, views' = views,
           marks \subseteq marks', MarksOfSave(t, ts) \subseteq marks', "split" \notin marks'
    PROVE  /\ SchemaInv' /\ Changes(t, ts)
           /\ PutAs(cat, cat', t, ts, TableLen(ts))
           /\ Save(t, ts).ok <=> CanStore(cat, t, TableLen(ts))
           /\ Save(t, ts).ok => Known(t)' = {ts}
<1> DEFINE ms == MarksOfSave(t, ts)
<1>1. /\ Agree(tables, indexes, views, cat, Len(rows))
      /\ "unsaved" \notin marks => AllSaved(tables, indexes, cat)
      /\ "outgrown" \notin marks => Whole(cat.pages[1])
      /\ Len(rows) \in Nat /\ Len(rows') \in Nat
  BY DEF SchemaInv, RowsTyped
<1>2. OneLeaf(cat, SchemaRow)
  BY <1>1 DEF Agree
<1>3. ~Splits(cat, t, TableLen(ts))
  BY <1>2, MarksRead DEF MarksOfSave
<1>4. /\ Agree(Within(tables, t, ts), indexes, views, cat', Len(rows'))
      /\ "unsaved" \notin ms /\ AllSaved(tables, indexes, cat) => AllSaved(Within(tables, t, ts), indexes, cat')
      /\ "outgrown" \notin ms /\ Whole(cat.pages[1]) => Whole(cat'.pages[1])
      /\ PutAs(cat, cat', t, ts, TableLen(ts))
      /\ Save(t, ts).ok <=> CanStore(cat, t, TableLen(ts))
  BY <1>1, <1>3, TableSaved DEF Save, MarksOfSave
<1>5. SchemaInv'
  BY <1>1, <1>4 DEF SchemaInv
<1>6. /\ DOMAIN tables' = DOMAIN tables \union {t} /\ tables'[t] = ts
      /\ \A x \in DOMAIN tables \ {t} : tables'[x] = tables[x]
  BY DEF Within
<1>7. \A x \in DOMAIN tables : x \in DOMAIN Stored(cat)
  BY <1>1 DEF Agree, StoredTables, Maps
<1>8. ASSUME NEW x \in DOMAIN tables' \ {t} PROVE Known(x)' \subseteq Known(x)
  <2>1. x \in DOMAIN tables /\ x # t /\ x \in DOMAIN Stored(cat)
    BY <1>6, <1>7
  <2>2. Stored(cat')[x] = Stored(cat)[x] /\ tables'[x] = tables[x]
    BY <2>1, <1>4, <1>6, PutElsewhere
  <2> QED BY <2>2 DEF Known
<1>9. Save(t, ts).ok => Known(t)' = {ts}
  <2>1. Save(t, ts).ok => Stored(cat')[t] = ts
    BY <1>4, PutDone
  <2> QED BY <2>1, <1>6 DEF Known
<1>10. ASSUME NEW us \in Known(t)' PROVE us = ts \/ (t \in DOMAIN tables /\ us \in Known(t))
  <2>1. CASE Save(t, ts).ok
    BY <2>1, <1>9
  <2>2. CASE ~Save(t, ts).ok
    <3>1. Stored(cat') = Stored(cat) /\ t \in DOMAIN Stored(cat)
      <4>1. Stored(cat') = Stored(cat) /\ Limits(cat, t) # {}
        BY <2>2, <1>4, PutRefused
      <4> QED BY <4>1, StoredKeys
    <3>2. t \in DOMAIN tables
      BY <3>1, <1>1 DEF Agree, StoredTables
    <3> QED BY <3>1, <3>2, <1>6 DEF Known
  <2> QED BY <2>1, <2>2
<1> QED BY <1>4, <1>5, <1>6, <1>8, <1>9, <1>10 DEF Changes

(* A tree is allocated, and empty.                                         *)
LEMMA TreeAllocated ==
    ASSUME RowsTyped, NewTree \in Tree, rows' = Append(rows, << >>), entries' = Append(entries, {})
    PROVE  /\ RowsTyped' /\ NewTree = Len(rows) + 1 /\ Len(rows') = NewTree /\ Len(rows) \in Nat
           /\ \A e \in 1..Len(rows) : rows'[e] = rows[e] /\ entries'[e] = entries[e]
           /\ rows'[NewTree] = << >> /\ entries'[NewTree] = {}
           /\ Trees = 1..Len(rows)
<1>1. /\ rows \in Seq(Seq(CellOf(Row))) /\ Len(rows) \in Nat /\ DOMAIN rows = 1..Len(rows)
      /\ entries \in Seq(SUBSET (Int \X Int)) /\ Len(entries) = Len(rows)
  BY DEF RowsTyped
<1>2. NewTree = Len(rows) + 1
  <2>1. Cardinality(1..Len(rows)) = Len(rows)
    <3> DEFINE a == 1
               b == Len(rows)
    <3>1. a \in Int /\ b \in Int /\ (IF a > b THEN 0 ELSE b - a + 1) = b
      BY <1>1
    <3>2. Cardinality(a..b) = IF a > b THEN 0 ELSE b - a + 1
      <4> HIDE DEF a, b
      <4> QED BY <3>1, FS_Interval
    <3> QED BY <3>1, <3>2
  <2> QED BY <1>1, <2>1 DEF NewTree, Trees
<1>3. << >> \in Seq(CellOf(Row)) /\ {} \in SUBSET (Int \X Int) /\ Distinct(<< >>)
  <2>1. << >> \in Seq(CellOf(Row)) /\ DOMAIN << >> = {}
    OBVIOUS
  <2> QED BY <2>1 DEF Distinct
<1> DEFINE none == << >>
           nil == {}
<1>4. none \in Seq(CellOf(Row)) /\ nil \in SUBSET (Int \X Int) /\ Distinct(none)
  BY <1>3
<1>5. rows' = Append(rows, none) /\ entries' = Append(entries, nil)
  OBVIOUS
<1> HIDE DEF none, nil
<1>6. /\ rows' \in Seq(Seq(CellOf(Row))) /\ Len(rows') = Len(rows) + 1
      /\ \A e \in 1..Len(rows) : rows'[e] = rows[e]
      /\ rows'[Len(rows) + 1] = none /\ DOMAIN rows' = 1..Len(rows')
  BY <1>1, <1>4, <1>5
<1>7. /\ entries' \in Seq(SUBSET (Int \X Int)) /\ Len(entries') = Len(entries) + 1
      /\ \A e \in 1..Len(rows) : entries'[e] = entries[e]
      /\ entries'[Len(rows) + 1] = nil
  BY <1>1, <1>4, <1>5
<1>8. \A e \in DOMAIN rows' : Distinct(rows'[e])
  <2> SUFFICES ASSUME NEW e \in DOMAIN rows' PROVE Distinct(rows'[e])
    OBVIOUS
  <2>1. CASE e = Len(rows) + 1
    BY <2>1, <1>4, <1>6
  <2>2. CASE e \in DOMAIN rows
    BY <2>2, <1>1, <1>6 DEF RowsTyped
  <2> QED BY <2>1, <2>2, <1>1, <1>6
<1>9. Len(rows') <= MaxTree
  BY <1>1, <1>2, <1>6, TablesAssumption DEF Tree
<1> QED BY <1>1, <1>2, <1>6, <1>7, <1>8, <1>9 DEF RowsTyped, Trees, none, nil

LEMMA TreesAre ==
    ASSUME RowsTyped
    PROVE  Trees = 1..Len(rows) /\ Len(rows) \in Nat /\ DOMAIN entries = Trees /\ Trees \subseteq Tree
BY TablesAssumption DEF RowsTyped, Trees, Tree

(* The actions of SchemaManager.                                           *)
LEMMA CreateTableEffects ==
    ASSUME SchemaInv, NEW t \in TableName, NEW design \in Designs, CreateTable(t, design), "split" \notin marks'
    PROVE  LET ts == [name |-> t, cols |-> design, tree |-> NewTree, names |-> << >>,
                      noNames |-> TRUE, next |-> 1]
           IN  /\ SchemaInv' /\ Changes(t, ts) /\ t \notin DOMAIN tables
               /\ tables' = Within(tables, t, ts) /\ ts \in SchemaOf
               /\ PutAs(cat, cat', t, ts, TableLen(ts))
               /\ NewTree = Len(rows) + 1 /\ rows'[ts.tree] = << >>
               /\ \A e \in 1..Len(rows) : rows'[e] = rows[e] /\ entries'[e] = entries[e]
<1> DEFINE ts == [name |-> t, cols |-> design, tree |-> NewTree, names |-> << >>,
                  noNames |-> TRUE, next |-> 1]
<1>1. RowsTyped
  BY DEF SchemaInv
<1>2. /\ t \notin DOMAIN tables /\ NewTree \in Tree
      /\ tables' = Within(tables, t, ts) /\ cat' = Save(t, ts).cat
      /\ marks' = marks \union MarksOfSave(t, ts) \union {}
      /\ rows' = Append(rows, << >>) /\ entries' = Append(entries, {})
      /\ indexes' = indexes /\ views' = views
  BY DEF CreateTable, SetTable
<1>3. /\ RowsTyped' /\ NewTree = Len(rows) + 1 /\ Len(rows') = NewTree /\ Len(rows) \in Nat
      /\ \A e \in 1..Len(rows) : rows'[e] = rows[e] /\ entries'[e] = entries[e]
      /\ rows'[NewTree] = << >>
  BY <1>1, <1>2, TreeAllocated
<1>4. IsTable(ts, t, Len(rows')) /\ ts.tree = NewTree
  <2>1. design \in Seq(Columns) /\ Bounded(1)
    BY TablesAssumption DEF Bounded
  <2>2. << >> \in Seq(IndexName)
    OBVIOUS
  <2>3. ts \in SchemaOf
    BY <2>1, <2>2, <1>3 DEF SchemaOf
  <2>4. OneName(ts)
    BY TablesAssumption DEF OneName
  <2> QED BY <2>1, <2>3, <2>4, <1>3 DEF IsTable
<1> HIDE DEF ts
<1>5. SchemaInv' /\ Changes(t, ts) /\ PutAs(cat, cat', t, ts, TableLen(ts))
  <2>1. Len(rows) <= Len(rows') /\ ts.tree \notin 1..Len(rows)
    BY <1>3, <1>4
  <2> QED BY <1>2, <1>3, <1>4, <2>1, SaveEffects
<1>6. ts \in SchemaOf
  BY <1>4 DEF IsTable
<1> QED BY <1>2, <1>3, <1>4, <1>5, <1>6 DEF ts

LEMMA SetTableEffects ==
    ASSUME SchemaInv, NEW t \in DOMAIN tables, NEW ts \in SchemaOf, ts.name = t,
           ts.tree = tables[t].tree, Bounded(ts.next), OneName(ts), RowsTyped', Len(rows') = Len(rows),
           tables' = Within(tables, t, ts), cat' = Save(t, ts).cat, indexes' = indexes, views' = views,
           marks \subseteq marks', MarksOfSave(t, ts) \subseteq marks', "split" \notin marks'
    PROVE  /\ SchemaInv' /\ Changes(t, ts)
           /\ PutAs(cat, cat', t, ts, TableLen(ts))
           /\ Save(t, ts).ok <=> CanStore(cat, t, TableLen(ts))
           /\ Save(t, ts).ok => Known(t)' = {ts}
<1>1. IsTable(tables[t], t, Len(rows)) /\ t \in TableName /\ Len(rows) \in Nat
  BY DEF SchemaInv, Agree, Maps, RowsTyped
<1>2. IsTable(ts, t, Len(rows')) /\ Len(rows) <= Len(rows')
  BY <1>1 DEF IsTable
<1> QED BY <1>1, <1>2, SaveEffects

LEMMA DropTableEffects ==
    ASSUME SchemaInv, NEW t \in TableName, DropTable(t)
    PROVE  SchemaInv' /\ Keeps /\ OneLeaf(cat', SchemaRow) /\ RemovedAs(cat, cat', t)
<1>1. /\ Agree(tables, indexes, views, cat, Len(rows)) /\ OneLeaf(cat, SchemaRow) /\ RowsTyped
      /\ "unsaved" \notin marks => AllSaved(tables, indexes, cat)
      /\ "outgrown" \notin marks => Whole(cat.pages[1])
      /\ Len(rows) \in Nat
  BY DEF SchemaInv, Agree, RowsTyped
<1>2. /\ cat' = Removed(cat, t) /\ tables' = Except(tables, t)
      /\ UNCHANGED <<indexes, views, rows, entries, marks>>
  BY DEF DropTable
<1>3. OneLeaf(cat', SchemaRow) /\ RemovedAs(cat, cat', t)
  BY <1>1, <1>2, RemovedFromLeaf, NamesAreInts
<1>4. /\ Agree(tables', indexes, views, cat', Len(rows))
      /\ AllSaved(tables, indexes, cat) => AllSaved(tables', indexes, cat')
  BY <1>1, <1>2, <1>3, TableRemoved
<1>5. Whole(cat.pages[1]) => Whole(cat'.pages[1])
  BY <1>3 DEF RemovedAs
<1>6. RowsTyped'
  BY <1>1, <1>2 DEF RowsTyped
<1>7. SchemaInv'
  BY <1>1, <1>2, <1>4, <1>5, <1>6 DEF SchemaInv
<1>8. Keeps
  <2>1. DOMAIN tables' = DOMAIN tables \ {t} /\ \A x \in DOMAIN tables' : tables'[x] = tables[x]
    BY <1>2 DEF Except
  <2>2. \A x \in DOMAIN tables : x \in DOMAIN Stored(cat)
    BY <1>1 DEF Agree, StoredTables, Maps
  <2>3. \A x \in DOMAIN tables' : Stored(cat')[x] = Stored(cat)[x]
    BY <1>3, <2>1, <2>2 DEF RemovedAs, Except
  <2> QED BY <2>1, <2>3 DEF Keeps, Known
<1> QED BY <1>3, <1>7, <1>8

LEMMA AppendToSet ==
    ASSUME NEW S, NEW w \in Seq(S), NEW x \in S
    PROVE  Append(w, x) \in Seq(S) /\ ToSet(Append(w, x)) = ToSet(w) \union {x}
<1> DEFINE u == Append(w, x)
<1>1. /\ u \in Seq(S) /\ DOMAIN u = 1..(Len(w) + 1) /\ DOMAIN w = 1..Len(w)
      /\ Len(w) \in Nat /\ u[Len(w) + 1] = x
      /\ \A m \in 1..Len(w) : u[m] = w[m]
  OBVIOUS
<1> HIDE DEF u
<1>2. \A m : m \in 1..(Len(w) + 1) <=> m \in 1..Len(w) \/ m = Len(w) + 1
  BY <1>1
<1>3. ToSet(u) = ToSet(w) \union {x}
  BY <1>1, <1>2 DEF ToSet
<1> QED BY <1>1, <1>3 DEF u

(* The list of index names without one.                                    *)
LEMMA OthersProperties ==
    ASSUME NEW S, NEW names \in Seq(S), NEW i
    PROVE  /\ Others(names, i) \in Seq(S)
           /\ ToSet(Others(names, i)) = ToSet(names) \ {i}
<1> DEFINE skip == [p \in Seq(S) \X S |-> IF p[2] = i THEN p[1] ELSE Append(p[1], p[2])]
           upTo[n \in 0..Len(names)] ==
              IF n = 0 THEN << >>
              ELSE IF names[n] = i THEN upTo[n - 1] ELSE Append(upTo[n - 1], names[n])
           IsList(f) == f = [n \in 0..Len(names) |->
              IF n = 0 THEN << >>
              ELSE IF names[n] = i THEN f[n - 1] ELSE Append(f[n - 1], names[n])]
           none == << >>
<1>1. Len(names) \in Nat /\ DOMAIN names = 1..Len(names) /\ \A n \in 1..Len(names) : names[n] \in S
  OBVIOUS
<1>2. PICK f \in [0..Len(names) -> Seq(S)] :
         f[0] = none /\ \A n \in 1..Len(names) : f[n] = skip[<<f[n - 1], names[n]>>]
  <2>1. skip \in FoldsOf(Seq(S), S)
    <3>1. \A w \in Seq(S), x \in S : Append(w, x) \in Seq(S)
      OBVIOUS
    <3> DEFINE Q == Seq(S)
    <3>2. ASSUME NEW p \in Q \X S PROVE (IF p[2] = i THEN p[1] ELSE Append(p[1], p[2])) \in Q
      <4>1. p[1] \in Q /\ p[2] \in S
        OBVIOUS
      <4>2. Append(p[1], p[2]) \in Q
        BY <3>1, <4>1
      <4> QED BY <4>1, <4>2
    <3> HIDE DEF Q
    <3>3. [p \in Q \X S |-> IF p[2] = i THEN p[1] ELSE Append(p[1], p[2])] \in [Q \X S -> Q]
      BY <3>2
    <3> QED BY <3>3 DEF FoldsOf, Q
  <2>2. none \in Seq(S)
    OBVIOUS
  <2> DEFINE Q == Seq(S)
  <2>3. skip \in FoldsOf(Q, S) /\ none \in Q /\ names \in Seq(S)
    BY <2>1, <2>2
  <2>4. \E f \in [0..Len(names) -> Q] :
           f[0] = none /\ \A n \in 1..Len(names) : f[n] = skip[<<f[n - 1], names[n]>>]
    <3> HIDE DEF skip, none, Q
    <3> QED BY <2>3, FoldExists
  <2> QED BY <2>4
<1>3. \A n \in 1..Len(names) : f[n] = IF names[n] = i THEN f[n - 1] ELSE Append(f[n - 1], names[n])
  <2> SUFFICES ASSUME NEW n \in 1..Len(names)
               PROVE  f[n] = IF names[n] = i THEN f[n - 1] ELSE Append(f[n - 1], names[n])
    OBVIOUS
  <2>1. n - 1 \in 0..Len(names) /\ names[n] \in S
    BY <1>1
  <2>2. f[n - 1] \in Seq(S) /\ f[n] = skip[<<f[n - 1], names[n]>>]
    <3> HIDE DEF skip
    <3> QED BY <1>2, <2>1
  <2> DEFINE w == f[n - 1]
             x == names[n]
  <2>3. skip[<<w, x>>] = IF x = i THEN w ELSE Append(w, x)
    <3>1. w \in Seq(S) /\ x \in S
      BY <2>1, <2>2
    <3> HIDE DEF w, x
    <3> QED BY <3>1
  <2>4. f[n] = IF x = i THEN w ELSE Append(w, x)
    <3> HIDE DEF skip
    <3> QED BY <2>2, <2>3, Zenon
  <2> QED BY <2>4
<1>4. IsList(f)
  <2>1. DOMAIN f = 0..Len(names) /\ f = [n \in 0..Len(names) |-> f[n]]
    BY <1>2
  <2>2. \A n \in 0..Len(names) : f[n] =
           IF n = 0 THEN << >>
           ELSE IF names[n] = i THEN f[n - 1] ELSE Append(f[n - 1], names[n])
    <3> SUFFICES ASSUME NEW n \in 0..Len(names)
                 PROVE  f[n] = IF n = 0 THEN none
                               ELSE IF names[n] = i THEN f[n - 1] ELSE Append(f[n - 1], names[n])
      OBVIOUS
    <3>1. CASE n = 0
      BY <3>1, <1>2, Zenon
    <3>2. CASE n # 0
      <4>1. n \in 1..Len(names)
        BY <3>2, <1>1
      <4> QED BY <3>2, <4>1, <1>3, Zenon
    <3> QED BY <3>1, <3>2
  <2> QED BY <2>1, <2>2
<1>5. IsList(upTo)
  <2>1. upTo = CHOOSE g : IsList(g)
    BY DEF upTo
  <2> HIDE DEF upTo, IsList
  <2> QED BY <1>4, <2>1
<1>6. /\ upTo[0] = << >>
      /\ \A n \in 1..Len(names) : upTo[n] = IF names[n] = i THEN upTo[n - 1] ELSE Append(upTo[n - 1], names[n])
  <2> HIDE DEF upTo
  <2>1. \A n \in 0..Len(names) : upTo[n] =
           IF n = 0 THEN << >>
           ELSE IF names[n] = i THEN upTo[n - 1] ELSE Append(upTo[n - 1], names[n])
    BY <1>5
  <2> QED BY <2>1, <1>1
<1>7. Others(names, i) = upTo[Len(names)]
  BY DEF Others
<1> HIDE DEF upTo
<1> DEFINE Good == {n \in Nat : n <= Len(names) =>
              upTo[n] \in Seq(S) /\ ToSet(upTo[n]) = {names[m] : m \in 1..n} \ {i}}
<1>8. 0 \in Good
  <2>1. << >> \in Seq(S) /\ ToSet(<< >>) = {}
    BY DEF ToSet
  <2>2. \A m \in 1..0 : FALSE
    OBVIOUS
  <2> QED BY <1>6, <2>1, <2>2
<1>9. ASSUME NEW n \in Nat, n \in Good PROVE n + 1 \in Good
  <2> SUFFICES ASSUME n + 1 <= Len(names)
               PROVE  upTo[n + 1] \in Seq(S) /\ ToSet(upTo[n + 1]) = {names[m] : m \in 1..(n + 1)} \ {i}
    OBVIOUS
  <2>1. upTo[n] \in Seq(S) /\ ToSet(upTo[n]) = {names[m] : m \in 1..n} \ {i}
    BY <1>9, SMTT(30)
  <2>2. n + 1 \in 1..Len(names) /\ (n + 1) - 1 = n /\ names[n + 1] \in S
    BY <1>1
  <2>3. upTo[n + 1] = IF names[n + 1] = i THEN upTo[n] ELSE Append(upTo[n], names[n + 1])
    BY <1>6, <2>2
  <2>4. {names[m] : m \in 1..(n + 1)} = {names[m] : m \in 1..n} \union {names[n + 1]}
    <3>1. \A m : m \in 1..(n + 1) <=> m \in 1..n \/ m = n + 1
      OBVIOUS
    <3> QED BY <3>1
  <2>5. CASE names[n + 1] = i
    BY <2>1, <2>3, <2>4, <2>5
  <2>6. CASE names[n + 1] # i
    <3> DEFINE w == upTo[n]
               x == names[n + 1]
    <3>1. w \in Seq(S) /\ x \in S /\ x # i /\ upTo[n + 1] = Append(w, x)
      BY <2>1, <2>2, <2>3, <2>6
    <3> HIDE DEF w, x
    <3>2. Append(w, x) \in Seq(S) /\ ToSet(Append(w, x)) = ToSet(w) \union {x}
      BY <3>1, AppendToSet
    <3> QED BY <2>1, <2>4, <3>1, <3>2 DEF w, x
  <2> QED BY <2>5, <2>6
<1>10. Nat \subseteq Good
  <2> HIDE DEF Good
  <2> QED BY <1>8, <1>9, SetInduction
<1>11. upTo[Len(names)] \in Seq(S) /\ ToSet(upTo[Len(names)]) = {names[m] : m \in 1..Len(names)} \ {i}
  <2>1. Len(names) \in Nat /\ Len(names) <= Len(names)
    BY <1>1
  <2>2. Len(names) \in Good
    <3> HIDE DEF Good
    <3> QED BY <1>10, <2>1
  <2> QED BY <2>1, <2>2
<1>12. {names[m] : m \in 1..Len(names)} = ToSet(names)
  BY <1>1 DEF ToSet
<1> QED BY <1>7, <1>11, <1>12

(* What is stored of each table after one of them was saved in c.          *)
LEMMA StoredAfterPut ==
    ASSUME NEW c, NEW d, NEW t, NEW ts, NEW len, PutAs(c, d, t, ts, len)
    PROVE  /\ \A x \in DOMAIN Stored(c) : x # t => Stored(d)[x] = Stored(c)[x]
           /\ Stored(d)[t] = ts \/ (t \in DOMAIN Stored(c) /\ Stored(d)[t] = Stored(c)[t])
<1>1. CASE CanStore(c, t, len)
  BY <1>1, PutElsewhere
<1>2. CASE ~CanStore(c, t, len)
  <2>1. Stored(d) = Stored(c) /\ Limits(c, t) # {}
    BY <1>2, PutRefused
  <2>2. t \in DOMAIN Stored(c)
    BY <2>1, StoredKeys
  <2> QED BY <2>1, <2>2
<1> QED BY <1>1, <1>2

LEMMA CreateIndexEffects ==
    ASSUME SchemaInv, NEW i \in IndexName, NEW t \in TableName, NEW column \in ColumnName,
           CreateIndex(i, t, column), "split" \notin marks'
    PROVE  LET is == [name |-> i, table |-> t, column |-> column, tree |-> NewTree]
               ts == [tables[t] EXCEPT !.names = Append(@, i), !.noNames = FALSE]
               c1 == Put(cat, i, is, BaseLen).cat
           IN  /\ SchemaInv' /\ Changes(t, ts) /\ t \in DOMAIN tables
               /\ tables' = Within(tables, t, ts) /\ indexes' = Within(indexes, i, is)
               /\ ts \in SchemaOf /\ is \in IndexOf
               /\ i \notin DOMAIN indexes /\ i \notin DOMAIN Stored(cat)
               /\ PutAs(cat, c1, i, is, BaseLen) /\ PutAs(c1, cat', t, ts, TableLen(ts))
               /\ NewTree = Len(rows) + 1
               /\ \A e \in 1..Len(rows) : rows'[e] = rows[e] /\ entries'[e] = entries[e]
<1> DEFINE is == [name |-> i, table |-> t, column |-> column, tree |-> NewTree]
           ts == [tables[t] EXCEPT !.names = Append(@, i), !.noNames = FALSE]
           c1 == Put(cat, i, is, BaseLen).cat
           ms == MarksOfPut(c1, t, ts, TableLen(ts))
<1>1. /\ Agree(tables, indexes, views, cat, Len(rows)) /\ OneLeaf(cat, SchemaRow) /\ RowsTyped
      /\ "unsaved" \notin marks => AllSaved(tables, indexes, cat)
      /\ "outgrown" \notin marks => Whole(cat.pages[1])
      /\ Len(rows) \in Nat
  BY DEF SchemaInv, Agree, RowsTyped
<1>2. /\ i \notin DOMAIN indexes /\ t \in DOMAIN tables /\ NewTree \in Tree
      /\ cat' = Put(c1, t, ts, TableLen(ts)).cat
      /\ Mark("split", Splits(cat, i, BaseLen)) \subseteq marks' /\ ms \subseteq marks' /\ marks \subseteq marks'
      /\ indexes' = Within(indexes, i, is)
      /\ tables' = [tables EXCEPT ![t] = ts]
      /\ rows' = Append(rows, << >>) /\ entries' = Append(entries, {})
      /\ views' = views
  BY DEF CreateIndex
<1>3. /\ RowsTyped' /\ NewTree = Len(rows) + 1 /\ Len(rows') = NewTree
      /\ \A e \in 1..Len(rows) : rows'[e] = rows[e] /\ entries'[e] = entries[e]
  BY <1>1, <1>2, TreeAllocated
<1>4. is \in IndexOf /\ is.tree = NewTree /\ NewTree \in Nat
  BY <1>1, <1>3 DEF IndexOf
<1>5. IsTable(tables[t], t, Len(rows)) /\ tables[t] \in SchemaOf
  BY <1>1, <1>2 DEF Agree, Maps, IsTable
<1>6. /\ IsTable(ts, t, Len(rows')) /\ ts \in SchemaOf /\ ts.tree = tables[t].tree
  <2>1. tables[t].names \in Seq(IndexName)
    BY <1>5 DEF SchemaOf
  <2>2. Append(tables[t].names, i) \in Seq(IndexName)
    BY <2>1, AppendToSet
  <2>3. ts \in SchemaOf /\ ts.tree = tables[t].tree /\ ts.name = tables[t].name /\ ts.next = tables[t].next
        /\ ts.cols = tables[t].cols
    BY <1>5, <2>2 DEF SchemaOf
  <2> HIDE DEF ts
  <2> QED BY <1>1, <1>3, <1>5, <2>3 DEF IsTable, OneName
<1>7. tables' = Within(tables, t, ts)
  <2>1. DOMAIN tables \union {t} = DOMAIN tables
    BY <1>2
  <2> QED BY <1>2, <2>1 DEF Within
<1>8. ~Splits(cat, i, BaseLen)
  BY <1>2 DEF Mark
<1> HIDE DEF is, ts
<1>9. OneLeaf(c1, SchemaRow) /\ PutAs(cat, c1, i, is, BaseLen)
  <2>1. i \in Int /\ is \in SchemaRow /\ BaseLen \in Int
    BY <1>4, NamesAreInts, TablesAssumption DEF SchemaRow
  <2> QED BY <1>1, <1>8, <2>1, Putting
<1> HIDE DEF c1
<1>10. i \notin DOMAIN Stored(cat)
  BY <1>1, <1>2 DEF Agree, StoredIndexes
<1>11. /\ DOMAIN Stored(c1) = DOMAIN Stored(cat) \union {i}
       /\ \A x \in DOMAIN Stored(cat) : Stored(c1)[x] = Stored(cat)[x]
  BY <1>9, <1>10, NewKeyPut
<1>12. /\ Agree(tables, indexes', views, c1, Len(rows'))
       /\ AllSaved(tables, indexes, cat) => AllSaved(tables, indexes', c1)
  <2>1. /\ Len(rows') \in Nat /\ Len(rows) <= Len(rows')
        /\ is.tree \in 1..Len(rows') /\ is.tree \notin 1..Len(rows)
    BY <1>1, <1>3, <1>4
  <2> QED BY <1>1, <1>2, <1>4, <1>9, <2>1, IndexStored
<1>13. Whole(cat.pages[1]) => Whole(c1.pages[1])
  <2>1. ~OutgrownBy(cat.pages[1], i, BaseLen)
    BY <1>1, <1>10, OneLeafFacts, AtKeys DEF OutgrownBy
  <2> QED BY <1>9, <2>1 DEF PutAs
<1>14. ~Splits(c1, t, TableLen(ts))
  BY <1>2, <1>9, MarksRead
<1>15. /\ Agree(tables', indexes', views, cat', Len(rows'))
       /\ "unsaved" \notin ms /\ AllSaved(tables, indexes', c1) => AllSaved(tables', indexes', cat')
       /\ "outgrown" \notin ms /\ Whole(c1.pages[1]) => Whole(cat'.pages[1])
       /\ PutAs(c1, cat', t, ts, TableLen(ts))
  <2>1. Len(rows') \in Nat /\ Len(rows') <= Len(rows')
    BY <1>3, <1>4
  <2> DEFINE d == Put(c1, t, ts, TableLen(ts)).cat
             n == Len(rows')
             J == indexes'
  <2>2. Agree(tables, J, views, c1, n) /\ n \in Nat /\ n <= n /\ IsTable(ts, t, n)
    BY <1>6, <1>12, <2>1
  <2> HIDE DEF n, J
  <2>3. /\ Agree(Within(tables, t, ts), J, views, d, n)
        /\ "unsaved" \notin ms /\ AllSaved(tables, J, c1) => AllSaved(Within(tables, t, ts), J, d)
        /\ "outgrown" \notin ms /\ Whole(c1.pages[1]) => Whole(d.pages[1])
        /\ PutAs(c1, d, t, ts, TableLen(ts))
    BY <1>2, <1>6, <1>14, <2>2, TableSaved
  <2> QED BY <1>2, <1>7, <2>3 DEF n, J
<1>16. SchemaInv'
  BY <1>1, <1>2, <1>3, <1>12, <1>13, <1>15 DEF SchemaInv
<1>17. Changes(t, ts)
  <2>1. DOMAIN tables' = DOMAIN tables /\ \A x \in DOMAIN tables : tables'[x] = IF x = t THEN ts ELSE tables[x]
    BY <1>2
  <2>2. \A x \in DOMAIN tables : x \in DOMAIN Stored(cat)
    BY <1>1 DEF Agree, StoredTables, Maps
  <2>3. /\ \A x \in DOMAIN Stored(c1) : x # t => Stored(cat')[x] = Stored(c1)[x]
        /\ Stored(cat')[t] = ts \/ Stored(cat')[t] = Stored(c1)[t]
    BY <1>15, StoredAfterPut
  <2>4. /\ \A x \in DOMAIN tables : x # t => Stored(cat')[x] = Stored(cat)[x]
        /\ Stored(cat')[t] = ts \/ Stored(cat')[t] = Stored(cat)[t]
    BY <1>2, <1>11, <2>2, <2>3
  <2> QED BY <1>2, <2>1, <2>4 DEF Changes, Known
<1> QED BY <1>2, <1>3, <1>4, <1>6, <1>7, <1>9, <1>10, <1>15, <1>16, <1>17 DEF is, ts, c1

(* The parts of SchemaInv, and what is stored of every table.              *)
LEMMA SchemaParts ==
    ASSUME SchemaInv
    PROVE  /\ Agree(tables, indexes, views, cat, Len(rows)) /\ OneLeaf(cat, SchemaRow) /\ RowsTyped
           /\ "unsaved" \notin marks => AllSaved(tables, indexes, cat)
           /\ "outgrown" \notin marks => Whole(cat.pages[1])
           /\ Len(rows) \in Nat
           /\ \A x \in DOMAIN tables : x \in DOMAIN Stored(cat) /\ x \in TableName
BY DEF SchemaInv, Agree, RowsTyped, StoredTables, Maps

LEMMA DropIndexEffects ==
    ASSUME SchemaInv, NEW i \in IndexName, NEW t, t = indexes[i].table, DropIndex(i), "split" \notin marks'
    PROVE  LET c1 == Removed(cat, i)
               ts == [tables[t] EXCEPT !.names = Others(@, i), !.noNames = FALSE]
           IN  /\ SchemaInv' /\ RemovedAs(cat, c1, i) /\ OneLeaf(c1, SchemaRow)
               /\ \/ /\ t \in DOMAIN tables /\ ts \in SchemaOf
                     /\ tables' = Within(tables, t, ts) /\ Changes(t, ts)
                     /\ PutAs(c1, cat', t, ts, TableLen(ts))
                  \/ tables' = tables /\ cat' = c1 /\ Keeps
               /\ indexes' = indexes \/ indexes' = Except(indexes, i)
<1> DEFINE c1 == Removed(cat, i)
           ts == [tables[t] EXCEPT !.names = Others(@, i), !.noNames = FALSE]
           saved == Put(c1, t, ts, TableLen(ts))
           ms == MarksOfPut(c1, t, ts, TableLen(ts))
<1>1. /\ Agree(tables, indexes, views, cat, Len(rows)) /\ OneLeaf(cat, SchemaRow) /\ RowsTyped
      /\ "unsaved" \notin marks => AllSaved(tables, indexes, cat)
      /\ "outgrown" \notin marks => Whole(cat.pages[1])
      /\ Len(rows) \in Nat
      /\ \A x \in DOMAIN tables : x \in DOMAIN Stored(cat) /\ x \in TableName
  BY SchemaParts
<1>2. views' = views /\ rows' = rows /\ entries' = entries /\ marks \subseteq marks'
  BY DEF DropIndex
<1>3. OneLeaf(c1, SchemaRow) /\ RemovedAs(cat, c1, i)
  BY <1>1, RemovedFromLeaf, NamesAreInts
<1>4. /\ Agree(tables, Except(indexes, i), views, c1, Len(rows)) /\ Agree(tables, indexes, views, c1, Len(rows))
      /\ AllSaved(tables, indexes, cat) => AllSaved(tables, Except(indexes, i), c1)
      /\ Whole(cat.pages[1]) => Whole(c1.pages[1])
  <2> HIDE DEF c1
  <2> QED BY <1>1, <1>3, IndexRemoved DEF RemovedAs
<1>5. RowsTyped'
  BY <1>1, <1>2 DEF RowsTyped
<1>6. \A x \in DOMAIN tables : x \in DOMAIN Stored(c1) /\ Stored(c1)[x] = Stored(cat)[x]
  <2>1. \A x \in DOMAIN tables : x # i
    BY <1>1, TablesAssumption
  <2> HIDE DEF c1
  <2> QED BY <1>1, <1>3, <2>1 DEF RemovedAs, Except
<1>7. CASE t \in DOMAIN tables
  <2>1. /\ tables' = [tables EXCEPT ![t] = ts] /\ cat' = saved.cat
        /\ indexes' = IF saved.ok THEN Except(indexes, i) ELSE indexes
        /\ ms \subseteq marks'
    BY <1>7 DEF DropIndex
  <2>2. tables' = Within(tables, t, ts)
    <3>1. DOMAIN tables \union {t} = DOMAIN tables
      BY <1>7
    <3> HIDE DEF ts
    <3> QED BY <2>1, <3>1 DEF Within
  <2>3. IsTable(ts, t, Len(rows)) /\ ts \in SchemaOf /\ ts.tree = tables[t].tree
    <3>1. IsTable(tables[t], t, Len(rows)) /\ tables[t] \in SchemaOf
      BY <1>1, <1>7 DEF Agree, Maps, IsTable
    <3>2. Others(tables[t].names, i) \in Seq(IndexName)
      <4>1. tables[t].names \in Seq(IndexName)
        BY <3>1 DEF SchemaOf
      <4> QED BY <4>1, OthersProperties
    <3>3. ts \in SchemaOf /\ ts.tree = tables[t].tree /\ ts.name = tables[t].name /\ ts.next = tables[t].next
          /\ ts.cols = tables[t].cols
      BY <3>1, <3>2 DEF SchemaOf
    <3> HIDE DEF ts
    <3> QED BY <3>1, <3>3 DEF IsTable, OneName
  <2> HIDE DEF ts, c1
  <2>4. ~Splits(c1, t, TableLen(ts))
    BY <2>1, <1>3, MarksRead
  <2>5. ASSUME NEW J, Agree(tables, J, views, c1, Len(rows))
        PROVE  /\ Agree(Within(tables, t, ts), J, views, saved.cat, Len(rows))
               /\ "unsaved" \notin ms /\ AllSaved(tables, J, c1) => AllSaved(Within(tables, t, ts), J, saved.cat)
               /\ "outgrown" \notin ms /\ Whole(c1.pages[1]) => Whole(saved.cat.pages[1])
               /\ PutAs(c1, saved.cat, t, ts, TableLen(ts))
               /\ "unsaved" \notin ms => saved.ok
    <3>1. t \in TableName /\ Len(rows) <= Len(rows)
      BY <1>1, <1>7
    <3>2. "unsaved" \notin ms => saved.ok
      BY <1>3, MarksRead
    <3> QED BY <1>1, <1>7, <2>3, <2>4, <2>5, <3>1, <3>2, TableSaved
  <2>6. /\ Agree(tables', indexes', views, cat', Len(rows))
        /\ "unsaved" \notin ms /\ AllSaved(tables, indexes, cat) => AllSaved(tables', indexes', cat')
        /\ "outgrown" \notin ms /\ Whole(c1.pages[1]) => Whole(cat'.pages[1])
        /\ PutAs(c1, cat', t, ts, TableLen(ts))
    <3>1. CASE saved.ok
      <4> DEFINE J == Except(indexes, i)
      <4>1. indexes' = J /\ Agree(tables, J, views, c1, Len(rows))
        BY <2>1, <1>4, <3>1
      <4>2. AllSaved(tables, indexes, cat) => AllSaved(tables, J, c1)
        BY <1>4
      <4> HIDE DEF J
      <4>3. /\ Agree(Within(tables, t, ts), J, views, saved.cat, Len(rows))
            /\ "unsaved" \notin ms /\ AllSaved(tables, J, c1) => AllSaved(Within(tables, t, ts), J, saved.cat)
            /\ "outgrown" \notin ms /\ Whole(c1.pages[1]) => Whole(saved.cat.pages[1])
            /\ PutAs(c1, saved.cat, t, ts, TableLen(ts))
        BY <2>5, <4>1
      <4> HIDE DEF ms, saved
      <4> QED BY <2>1, <2>2, <4>1, <4>2, <4>3
    <3>2. CASE ~saved.ok
      <4>1. indexes' = indexes /\ Agree(tables, indexes, views, c1, Len(rows))
        BY <2>1, <1>4, <3>2
      <4>2. /\ Agree(Within(tables, t, ts), indexes, views, saved.cat, Len(rows))
            /\ "outgrown" \notin ms /\ Whole(c1.pages[1]) => Whole(saved.cat.pages[1])
            /\ PutAs(c1, saved.cat, t, ts, TableLen(ts))
            /\ "unsaved" \in ms
        BY <2>5, <3>2, <4>1
      <4> HIDE DEF ms, saved
      <4> QED BY <2>1, <2>2, <4>1, <4>2
    <3> QED BY <3>1, <3>2
  <2>7. SchemaInv'
    BY <1>1, <1>2, <1>4, <1>5, <2>1, <2>6 DEF SchemaInv
  <2>8. Changes(t, ts)
    <3>1. DOMAIN tables' = DOMAIN tables /\ \A x \in DOMAIN tables : tables'[x] = IF x = t THEN ts ELSE tables[x]
      BY <2>1
    <3>2. /\ \A x \in DOMAIN Stored(c1) : x # t => Stored(cat')[x] = Stored(c1)[x]
          /\ Stored(cat')[t] = ts \/ Stored(cat')[t] = Stored(c1)[t]
      BY <2>6, StoredAfterPut
    <3>3. /\ \A x \in DOMAIN tables : x # t => Stored(cat')[x] = Stored(cat)[x]
          /\ Stored(cat')[t] = ts \/ Stored(cat')[t] = Stored(cat)[t]
      <4>1. t \in DOMAIN tables /\ Stored(c1)[t] = Stored(cat)[t]
        BY <1>6, <1>7
      <4> QED BY <1>6, <3>2, <4>1
    <3> QED BY <1>7, <3>1, <3>3 DEF Changes, Known
  <2> QED BY <1>3, <1>7, <2>1, <2>2, <2>3, <2>6, <2>7, <2>8 DEF ts, c1
<1>8. CASE t \notin DOMAIN tables
  <2>1. cat' = c1 /\ indexes' = Except(indexes, i) /\ tables' = tables
    BY <1>8 DEF DropIndex
  <2> HIDE DEF c1
  <2>2. SchemaInv'
    BY <1>1, <1>2, <1>4, <1>5, <2>1 DEF SchemaInv
  <2>3. Keeps
    BY <1>6, <2>1 DEF Keeps, Known
  <2> QED BY <1>3, <2>1, <2>2, <2>3 DEF c1
<1> QED BY <1>7, <1>8

LEMMA ViewEffects ==
    ASSUME SchemaInv, NEW v \in ViewName, CreateView(v) \/ DropView(v), "split" \notin marks'
    PROVE  /\ SchemaInv' /\ Keeps /\ tables' = tables /\ indexes' = indexes
           /\ \A x \in DOMAIN Stored(cat) : x # v => x \in DOMAIN Stored(cat') /\ Stored(cat')[x] = Stored(cat)[x]
           /\ DOMAIN Stored(cat') \subseteq DOMAIN Stored(cat) \union {v}
           /\ \A x : x # v => Limits(cat', x) = Limits(cat, x)
<1>1. /\ Agree(tables, indexes, views, cat, Len(rows)) /\ OneLeaf(cat, SchemaRow) /\ RowsTyped
      /\ "unsaved" \notin marks => AllSaved(tables, indexes, cat)
      /\ "outgrown" \notin marks => Whole(cat.pages[1])
      /\ Len(rows) \in Nat
      /\ \A x \in DOMAIN tables : x \in DOMAIN Stored(cat) /\ x \in TableName
  BY SchemaParts
<1>2. \A x \in DOMAIN tables : x # v
  BY <1>1, TablesAssumption
<1>3. CASE CreateView(v)
  <2>1. /\ v \notin views /\ cat' = Put(cat, v, v, ViewLen).cat /\ views' = views \union {v}
        /\ Mark("split", Splits(cat, v, ViewLen)) \subseteq marks' /\ marks \subseteq marks'
        /\ UNCHANGED <<tables, indexes, rows, entries>>
    BY <1>3 DEF CreateView
  <2>2. v \in Int /\ v \in SchemaRow /\ ViewLen \in Int /\ ~Splits(cat, v, ViewLen)
    BY <2>1, NamesAreInts, TablesAssumption DEF SchemaRow, Mark
  <2>3. OneLeaf(cat', SchemaRow) /\ PutAs(cat, cat', v, v, ViewLen)
    BY <1>1, <2>1, <2>2, Putting
  <2>4. v \notin DOMAIN Stored(cat)
    BY <1>1, <2>1 DEF Agree, StoredViews
  <2>5. /\ Agree(tables, indexes, views', cat', Len(rows))
        /\ AllSaved(tables, indexes, cat) => AllSaved(tables, indexes, cat')
    BY <1>1, <2>1, <2>3, ViewStored
  <2>6. Whole(cat.pages[1]) => Whole(cat'.pages[1])
    <3>1. ~OutgrownBy(cat.pages[1], v, ViewLen)
      BY <1>1, <2>4, OneLeafFacts, AtKeys DEF OutgrownBy
    <3> QED BY <2>3, <3>1 DEF PutAs
  <2>7. SchemaInv'
    BY <1>1, <2>1, <2>5, <2>6 DEF SchemaInv, RowsTyped
  <2>8. /\ DOMAIN Stored(cat') = DOMAIN Stored(cat) \union {v}
        /\ \A x \in DOMAIN Stored(cat) : Stored(cat')[x] = Stored(cat)[x]
        /\ SameLimits(cat, cat', v)
    BY <2>3, <2>4, NewKeyPut
  <2>9. Keeps
    BY <1>1, <2>1, <2>8 DEF Keeps, Known
  <2> QED BY <2>1, <2>7, <2>8, <2>9 DEF SameLimits
<1>4. CASE DropView(v)
  <2>1. /\ cat' = Removed(cat, v) /\ views' = views \ {v}
        /\ UNCHANGED <<tables, indexes, rows, entries, marks>>
    BY <1>4 DEF DropView
  <2>2. OneLeaf(cat', SchemaRow) /\ RemovedAs(cat, cat', v)
    BY <1>1, <2>1, RemovedFromLeaf, NamesAreInts
  <2>3. /\ Agree(tables, indexes, views', cat', Len(rows))
        /\ AllSaved(tables, indexes, cat) => AllSaved(tables, indexes, cat')
    BY <1>1, <2>1, <2>2, ViewRemoved
  <2>4. Whole(cat.pages[1]) => Whole(cat'.pages[1])
    BY <2>2 DEF RemovedAs
  <2>5. SchemaInv'
    BY <1>1, <2>1, <2>3, <2>4 DEF SchemaInv, RowsTyped
  <2>6. /\ DOMAIN Stored(cat') = DOMAIN Stored(cat) \ {v}
        /\ \A x \in DOMAIN Stored(cat') : Stored(cat')[x] = Stored(cat)[x]
        /\ SameLimits(cat, cat', v)
    BY <2>2, RemoveElsewhere
  <2>7. Keeps
    BY <1>1, <1>2, <2>1, <2>6 DEF Keeps, Known
  <2> QED BY <2>1, <2>5, <2>6, <2>7 DEF SameLimits
<1> QED BY <1>3, <1>4

LEMMA RenameTableEffects ==
    ASSUME SchemaInv, NEW old \in TableName, NEW new \in TableName, RenameTable(old, new), "split" \notin marks'
    PROVE  LET ts == [tables[old] EXCEPT !.name = new]
               c1 == Removed(cat, old)
           IN  /\ SchemaInv' /\ Changes(new, ts) /\ old \in DOMAIN tables /\ new \notin DOMAIN tables
               /\ tables' = Within(Except(tables, old), new, ts) /\ ts \in SchemaOf
               /\ RemovedAs(cat, c1, old) /\ PutAs(c1, cat', new, ts, TableLen(ts))
               /\ Limits(c1, new) = {} /\ IsLaid(c1)
<1> DEFINE ts == [tables[old] EXCEPT !.name = new]
           c1 == Removed(cat, old)
           T1 == Except(tables, old)
<1>1. /\ Agree(tables, indexes, views, cat, Len(rows)) /\ OneLeaf(cat, SchemaRow) /\ RowsTyped
      /\ "unsaved" \notin marks => AllSaved(tables, indexes, cat)
      /\ "outgrown" \notin marks => Whole(cat.pages[1])
      /\ Len(rows) \in Nat
      /\ \A x \in DOMAIN tables : x \in DOMAIN Stored(cat) /\ x \in TableName
  BY SchemaParts
<1>2. /\ old \in DOMAIN tables /\ new \notin DOMAIN tables
      /\ tables' = Within(T1, new, ts) /\ cat' = Put(c1, new, ts, TableLen(ts)).cat
      /\ Mark("split", Splits(c1, new, TableLen(ts))) \subseteq marks' /\ marks \subseteq marks'
      /\ UNCHANGED <<indexes, views, rows, entries>>
  BY DEF RenameTable
<1>3. OneLeaf(c1, SchemaRow) /\ RemovedAs(cat, c1, old)
  BY <1>1, <1>2, RemovedFromLeaf, NamesAreInts
<1>4. IsTable(tables[old], old, Len(rows)) /\ tables[old] \in SchemaOf
  BY <1>1, <1>2 DEF Agree, Maps, IsTable
<1>5. /\ IsTable(ts, new, Len(rows)) /\ ts \in SchemaOf /\ ts.tree = tables[old].tree
  <2>1. ts \in SchemaOf /\ ts.tree = tables[old].tree /\ ts.name = new /\ ts.next = tables[old].next
        /\ ts.cols = tables[old].cols
    BY <1>4 DEF SchemaOf
  <2> HIDE DEF ts
  <2> QED BY <1>4, <2>1 DEF IsTable, OneName
<1> HIDE DEF ts, c1
<1>6. /\ Agree(T1, indexes, views, c1, Len(rows))
      /\ AllSaved(tables, indexes, cat) => AllSaved(T1, indexes, c1)
  BY <1>1, <1>3, TableRemoved
<1>7. DOMAIN T1 = DOMAIN tables \ {old} /\ \A x \in DOMAIN T1 : T1[x] = tables[x]
  BY DEF Except
<1> HIDE DEF T1
<1>8. new \notin DOMAIN T1 /\ new \notin DOMAIN Stored(c1) /\ new # old
  <2>1. new \notin DOMAIN T1 /\ new # old
    BY <1>2, <1>7
  <2> QED BY <1>6, <2>1 DEF Agree, StoredTables
<1>9. OneLeaf(cat', SchemaRow) /\ PutAs(c1, cat', new, ts, TableLen(ts))
  <2>1. ~Splits(c1, new, TableLen(ts))
    BY <1>2 DEF Mark
  <2>2. new \in Int /\ ts \in SchemaRow /\ TableLen(ts) \in Int
    BY <1>5, NamesAreInts, TableLenIsInt DEF SchemaRow
  <2> QED BY <1>2, <1>3, <2>1, <2>2, Putting
<1>10. CanStore(c1, new, TableLen(ts)) /\ Limits(c1, new) = {}
  BY <1>8, NewKey
<1>11. /\ DOMAIN Stored(cat') = DOMAIN Stored(c1) \union {new} /\ Stored(cat')[new] = ts
       /\ \A x \in DOMAIN Stored(c1) : Stored(cat')[x] = Stored(c1)[x]
       /\ SameLimits(c1, cat', new)
       /\ Used(c1.pages[1]) <= Room => Used(cat'.pages[1]) <= Room
  BY <1>8, <1>9, NewKeyPut
<1>12. SchemaInv'
  <2>1. Maps(tables', indexes, views, Len(rows))
    <3>1. /\ DOMAIN tables' = DOMAIN T1 \union {new} /\ tables'[new] = ts
          /\ \A x \in DOMAIN T1 : tables'[x] = tables[x] /\ x # old
      BY <1>2, <1>7, <1>8 DEF Within
    <3>2. OneEach(tables')
      <4>1. \A x, y \in DOMAIN tables : tables[x].tree = tables[y].tree => x = y
        BY <1>1 DEF Agree, Maps, OneEach
      <4> QED BY <1>2, <1>5, <1>7, <3>1, <4>1 DEF OneEach
    <3>3. \A x \in DOMAIN tables' : IsTable(tables'[x], x, Len(rows))
      BY <1>1, <1>5, <1>7, <3>1 DEF Agree, Maps
    <3> QED BY <1>1, <1>7, <3>1, <3>2, <3>3 DEF Agree, Maps
  <2>3. StoredTables(tables', cat', Len(rows))
    <3>1. /\ DOMAIN tables' = DOMAIN T1 \union {new} /\ tables'[new] = ts
          /\ \A x \in DOMAIN T1 : tables'[x] = T1[x]
      BY <1>2, <1>8 DEF Within
    <3>2. StoredTables(T1, c1, Len(rows))
      BY <1>6 DEF Agree
    <3> QED BY <1>5, <1>8, <1>11, <3>1, <3>2 DEF StoredTables, SameLimits
  <2>4. \A k \in IndexName \union ViewName : k # new
    BY TablesAssumption
  <2>5. StoredIndexes(indexes, cat') /\ StoredViews(views, cat')
    BY <1>6, <1>11, <2>4 DEF Agree, StoredIndexes, StoredViews
  <2>6. Agree(tables', indexes, views, cat', Len(rows))
    BY <1>6, <1>9, <2>1, <1>11, <2>3, <2>5 DEF Agree
  <2>7. AllSaved(T1, indexes, c1) => AllSaved(tables', indexes, cat')
    BY <1>2, <1>11 DEF AllSaved, Within
  <2>8. Whole(cat.pages[1]) => Whole(cat'.pages[1])
    <3>1. ~OutgrownBy(c1.pages[1], new, TableLen(ts))
      BY <1>3, <1>8, OneLeafFacts, AtKeys DEF OutgrownBy
    <3> QED BY <1>3, <1>9, <3>1 DEF PutAs, RemovedAs
  <2>9. RowsTyped'
    BY <1>1, <1>2 DEF RowsTyped
  <2> QED BY <1>1, <1>2, <1>6, <2>6, <2>7, <2>8, <2>9 DEF SchemaInv
<1>13. Changes(new, ts)
  <2>1. /\ DOMAIN tables' = DOMAIN T1 \union {new} /\ tables'[new] = ts
        /\ \A x \in DOMAIN T1 : tables'[x] = tables[x]
    BY <1>2, <1>7, <1>8 DEF Within
  <2>3. \A x \in DOMAIN T1 : x \in DOMAIN Stored(c1) /\ Stored(c1)[x] = Stored(cat)[x]
    BY <1>1, <1>3, <1>7 DEF RemovedAs, Except
  <2> QED BY <1>7, <2>1, <1>11, <2>3 DEF Changes, Known
<1>14. IsLaid(c1)
  BY <1>1, <1>2, <1>3, StoredKeys DEF RemovedAs
<1>15. tables' = Within(Except(tables, old), new, ts)
  BY <1>2 DEF T1
<1> QED BY <1>2, <1>3, <1>5, <1>9, <1>10, <1>12, <1>13, <1>14, <1>15 DEF ts, c1

LEMMA ReopenEffects ==
    ASSUME SchemaInv, Reopen
    PROVE  /\ SchemaInv' /\ Keeps /\ AllSaved(tables', indexes', cat')
           /\ cat' = Reopened(cat) /\ Stored(cat') = Stored(cat)
           /\ \A x : Limits(cat', x) = Limits(cat, x)
           /\ \A t \in DOMAIN tables' : t \in DOMAIN tables /\ tables'[t] = Stored(cat)[t]
           /\ \A i \in DOMAIN indexes' : i \in DOMAIN indexes /\ indexes'[i] = indexes[i]
<1>1. /\ Agree(tables, indexes, views, cat, Len(rows)) /\ OneLeaf(cat, SchemaRow) /\ RowsTyped
      /\ "unsaved" \notin marks => AllSaved(tables, indexes, cat)
      /\ "outgrown" \notin marks => Whole(cat.pages[1])
      /\ Len(rows) \in Nat
      /\ \A x \in DOMAIN tables : x \in DOMAIN Stored(cat) /\ x \in TableName
  BY SchemaParts
<1> DEFINE L == Stored(cat)
<1>2. /\ tables' = [t \in DOMAIN L \intersect TableName |-> L[t]]
      /\ indexes' = [i \in DOMAIN L \intersect IndexName |-> L[i]]
      /\ views' = DOMAIN L \intersect ViewName /\ cat' = Reopened(cat)
      /\ rows' = rows /\ entries' = entries /\ marks' = marks
  BY DEF Reopen
<1>3. Agree(tables', indexes', views', cat', Len(rows)) /\ AllSaved(tables', indexes', cat')
  BY <1>1, <1>2, SchemaLoaded
<1>4. Stored(cat') = L /\ cat'.pages[1] = cat.pages[1] /\ \A x : Limits(cat', x) = Limits(cat, x)
  BY <1>1, <1>2, ReopenedLeaf
<1>5. SchemaInv'
  BY <1>1, <1>2, <1>3, <1>4 DEF SchemaInv, RowsTyped
<1>6. \A t \in DOMAIN tables' : t \in DOMAIN tables /\ tables'[t] = L[t]
  BY <1>1, <1>2 DEF Agree, StoredTables
<1>7. \A i \in DOMAIN indexes' : i \in DOMAIN indexes /\ indexes'[i] = indexes[i]
  BY <1>1, <1>2 DEF Agree, StoredIndexes
<1>8. Keeps
  BY <1>4, <1>6 DEF Keeps, Known
<1> QED BY <1>2, <1>3, <1>4, <1>5, <1>6, <1>7, <1>8
-----------------------------------------------------------------------------
(* What NewRow, KeyedRow, Extended and UpdatedRow make of a row is a row.  *)
LEMMA ValuesTyped ==
    /\ \A v \in Values, type \in {"INTEGER", "TEXT"} :
          /\ v \in AnyValue /\ Coerce(v, type) \in AnyValue
          /\ v.type # "null" => Coerce(v, type).type # "null"
          /\ CanCoerce(v, type) /\ Coerce(v, type).type = "int" => Bounded(Coerce(v, type).n)
    /\ \A n \in Int : IntV(n) \in AnyValue /\ IntV(n).type = "int" /\ IntV(n).n = n
    /\ \A col \in Columns : /\ DefaultOf(col) \in AnyValue /\ DefaultOf(col).type # "int"
                            /\ col.def # NoDefault => DefaultOf(col).type # "null"
<1>1. \A v \in Values, type \in {"INTEGER", "TEXT"} :
          /\ v \in AnyValue /\ Coerce(v, type) \in AnyValue
          /\ v.type # "null" => Coerce(v, type).type # "null"
          /\ CanCoerce(v, type) /\ Coerce(v, type).type = "int" => Bounded(Coerce(v, type).n)
  <2> SUFFICES ASSUME NEW v \in Values, NEW type \in {"INTEGER", "TEXT"}
               PROVE  /\ v \in AnyValue /\ Coerce(v, type) \in AnyValue
                      /\ v.type # "null" => Coerce(v, type).type # "null"
                      /\ CanCoerce(v, type) /\ Coerce(v, type).type = "int" => Bounded(Coerce(v, type).n)
    OBVIOUS
  <2>1. v \in AnyValue /\ (v.type # "null" => Bounded(v.n) \/ v = TextV(Word))
    BY DEF Values, AnyValue
  <2>2. Coerce(v, type) \in AnyValue /\ (v.type # "null" => Coerce(v, type).type # "null")
    BY <2>1 DEF AnyValue, Coerce, IntV, TextV
  <2>3. ASSUME CanCoerce(v, type), Coerce(v, type).type = "int" PROVE Bounded(Coerce(v, type).n)
    <3>1. type = "INTEGER" /\ v.type # "null" /\ Coerce(v, type).n = v.n
      BY <2>3, <2>1 DEF Coerce, IntV, TextV, AnyValue
    <3>2. v # TextV(Word)
      BY <2>3, <3>1 DEF CanCoerce, TextV
    <3> QED BY <2>1, <3>1, <3>2
  <2> QED BY <2>1, <2>2, <2>3
<1>2. \A n \in Int : IntV(n) \in AnyValue /\ IntV(n).type = "int" /\ IntV(n).n = n
  BY DEF IntV, AnyValue
<1>3. \A col \in Columns : /\ DefaultOf(col) \in AnyValue /\ DefaultOf(col).type # "int"
                           /\ col.def # NoDefault => DefaultOf(col).type # "null"
  BY DEF DefaultOf, NullV, TextV, AnyValue, Columns
<1> QED BY <1>1, <1>2, <1>3

LEMMA RowOfFunction ==
    ASSUME NEW n \in Nat, NEW f, DOMAIN f = 1..n, f = [x \in DOMAIN f |-> f[x]],
           \A x \in 1..n : f[x] \in AnyValue
    PROVE  f \in Row /\ Len(f) = n
<1>1. f \in [1..n -> AnyValue]
  OBVIOUS
<1>2. f \in Seq(AnyValue)
  BY <1>1, IsASeq
<1>3. Len(f) = n
  BY <1>2, LenProperties
<1> QED BY <1>2, <1>3 DEF Row

LEMMA RowParts ==
    ASSUME NEW row \in Row
    PROVE  Len(row) \in Nat /\ DOMAIN row = 1..Len(row) /\ \A i \in 1..Len(row) : row[i] \in AnyValue
BY DEF Row

LEMMA ColumnParts ==
    ASSUME NEW ts \in SchemaOf
    PROVE  /\ Len(ts.cols) \in Nat /\ DOMAIN ts.cols = 1..Len(ts.cols)
           /\ \A i \in 1..Len(ts.cols) : ts.cols[i] \in Columns
<1>1. ts.cols \in Seq(Columns)
  BY DEF SchemaOf
<1> QED BY <1>1

LEMMA ColumnFound ==
    ASSUME NEW ts \in SchemaOf, NEW name, ColumnIndex(ts, name) # 0
    PROVE  ColumnIndex(ts, name) \in DOMAIN ts.cols /\ ts.cols[ColumnIndex(ts, name)].name = name
BY DEF ColumnIndex

LEMMA ColumnThere ==
    ASSUME NEW ts \in SchemaOf, NEW i \in DOMAIN ts.cols
    PROVE  ColumnIndex(ts, ts.cols[i].name) # 0
<1>1. DOMAIN ts.cols = 1..Len(ts.cols) /\ Len(ts.cols) \in Nat
  BY ColumnParts
<1>2. ColumnIndex(ts, ts.cols[i].name) \in DOMAIN ts.cols
  BY DEF ColumnIndex
<1> QED BY <1>1, <1>2

LEMMA ColumnKnown ==
    ASSUME NEW ts \in SchemaOf, OneName(ts), NEW i \in DOMAIN ts.cols
    PROVE  ColumnIndex(ts, ts.cols[i].name) = i
BY ColumnFound, ColumnThere DEF OneName

(* The primary key is the first of the columns that are declared so.       *)
LEMMA PrimaryKeyFound ==
    ASSUME NEW ts \in SchemaOf
    PROVE  LET pk == PrimaryKeyColumn(ts)
           IN  \/ pk = 0 /\ \A i \in DOMAIN ts.cols : ~ts.cols[i].pk
               \/ pk # 0 /\ pk \in DOMAIN ts.cols /\ ts.cols[pk].pk /\ \A j \in 1..(pk - 1) : ~ts.cols[j].pk
<1>1. DOMAIN ts.cols = 1..Len(ts.cols) /\ Len(ts.cols) \in Nat
  BY ColumnParts
<1>2. CASE \E i \in DOMAIN ts.cols : ts.cols[i].pk
  <2> DEFINE S == {i \in DOMAIN ts.cols : ts.cols[i].pk}
  <2>1. PICK x \in S : \A y \in S : x <= y
    <3>1. S \subseteq Nat /\ S # {}
      BY <1>1, <1>2
    <3> HIDE DEF S
    <3> QED BY <3>1, LeastNumber
  <2>2. ts.cols[x].pk /\ \A j \in 1..(x - 1) : ~ts.cols[j].pk
    <3> SUFFICES ASSUME NEW j \in 1..(x - 1), ts.cols[j].pk PROVE FALSE
      BY <2>1
    <3>1. x \in Nat /\ x \in 1..Len(ts.cols)
      BY <1>1
    <3>2. j \in DOMAIN ts.cols /\ ~(x <= j)
      BY <1>1, <3>1
    <3> QED BY <2>1, <3>2
  <2>3. \E i \in DOMAIN ts.cols : ts.cols[i].pk /\ \A j \in 1..(i - 1) : ~ts.cols[j].pk
    BY <2>1, <2>2
  <2>4. PrimaryKeyColumn(ts) = CHOOSE i \in DOMAIN ts.cols : ts.cols[i].pk /\ \A j \in 1..(i-1) : ~ts.cols[j].pk
    BY <1>2 DEF PrimaryKeyColumn
  <2> DEFINE IsFirst(i) == ts.cols[i].pk /\ \A j \in 1..(i-1) : ~ts.cols[j].pk
             pk == PrimaryKeyColumn(ts)
  <2>5. pk \in DOMAIN ts.cols /\ IsFirst(pk)
    <3>1. pk = CHOOSE i \in DOMAIN ts.cols : IsFirst(i)
      BY <2>4
    <3>2. \E i \in DOMAIN ts.cols : IsFirst(i)
      BY <2>3
    <3> HIDE DEF IsFirst, pk
    <3> QED BY <3>1, <3>2
  <2>6. pk # 0
    BY <1>1, <2>5
  <2> QED BY <2>5, <2>6
<1>3. CASE ~\E i \in DOMAIN ts.cols : ts.cols[i].pk
  BY <1>3 DEF PrimaryKeyColumn
<1> QED BY <1>2, <1>3

LEMMA SamePrimaryKey ==
    ASSUME NEW ts \in SchemaOf, NEW us \in SchemaOf, Len(ts.cols) <= Len(us.cols),
           \A i \in DOMAIN ts.cols : us.cols[i].pk = ts.cols[i].pk,
           PrimaryKeyColumn(ts) # 0 \/ \A i \in DOMAIN us.cols \ DOMAIN ts.cols : ~us.cols[i].pk
    PROVE  PrimaryKeyColumn(us) = PrimaryKeyColumn(ts)
<1>1. /\ DOMAIN ts.cols = 1..Len(ts.cols) /\ Len(ts.cols) \in Nat
      /\ DOMAIN us.cols = 1..Len(us.cols) /\ Len(us.cols) \in Nat
  BY ColumnParts
<1> DEFINE p == PrimaryKeyColumn(ts)
           q == PrimaryKeyColumn(us)
<1>2. \/ p = 0 /\ \A i \in DOMAIN ts.cols : ~ts.cols[i].pk
      \/ p # 0 /\ p \in DOMAIN ts.cols /\ ts.cols[p].pk /\ \A j \in 1..(p - 1) : ~ts.cols[j].pk
  BY PrimaryKeyFound
<1>3. \/ q = 0 /\ \A i \in DOMAIN us.cols : ~us.cols[i].pk
      \/ q # 0 /\ q \in DOMAIN us.cols /\ us.cols[q].pk /\ \A j \in 1..(q - 1) : ~us.cols[j].pk
  BY PrimaryKeyFound
<1> HIDE DEF p, q
<1>4. DOMAIN ts.cols \subseteq DOMAIN us.cols
  BY <1>1
<1>5. CASE p # 0
  <2>1. p \in DOMAIN us.cols /\ us.cols[p].pk
    BY <1>2, <1>4, <1>5
  <2>2. q # 0 /\ q \in DOMAIN us.cols /\ us.cols[q].pk /\ \A j \in 1..(q - 1) : ~us.cols[j].pk
    BY <1>3, <2>1
  <2>3. ~(p < q)
    BY <1>1, <2>1, <2>2
  <2>4. ~(q < p)
    <3> SUFFICES ASSUME q < p PROVE FALSE
      OBVIOUS
    <3>1. q \in DOMAIN ts.cols /\ q \in 1..(p - 1)
      BY <1>1, <1>2, <1>5, <2>2
    <3> QED BY <1>2, <1>5, <2>2, <3>1
  <2>5. p \in Int /\ q \in Int
    BY <1>1, <2>1, <2>2
  <2>6. p = q
    BY <2>3, <2>4, <2>5
  <2> QED BY <2>6 DEF p, q
<1>6. CASE p = 0
  <2>1. \A i \in DOMAIN us.cols : ~us.cols[i].pk
    BY <1>2, <1>6 DEF p
  <2> QED BY <1>3, <1>6, <2>1 DEF p, q
<1> QED BY <1>5, <1>6

LEMMA NewRowProperties ==
    ASSUME NEW ts \in SchemaOf, OneName(ts), NEW given \in Inserts, Acceptable(ts, given)
    PROVE  LET row == NewRow(ts, given)
           IN  /\ row \in Row /\ Len(row) = Len(ts.cols)
               /\ \A i \in DOMAIN ts.cols : /\ ts.cols[i].notNull /\ ~ts.cols[i].pk => row[i].type # "null"
                                            /\ row[i].type = "int" => Bounded(row[i].n)
<1> DEFINE row == NewRow(ts, given)
<1>1. /\ DOMAIN ts.cols = 1..Len(ts.cols) /\ Len(ts.cols) \in Nat
      /\ \A i \in 1..Len(ts.cols) : ts.cols[i] \in Columns
  BY ColumnParts
<1>2. row = [i \in DOMAIN ts.cols |->
                IF ts.cols[i].name \in DOMAIN given THEN Coerce(given[ts.cols[i].name], ts.cols[i].type)
                ELSE DefaultOf(ts.cols[i])]
  BY DEF NewRow
<1>3. \A i \in DOMAIN ts.cols : ts.cols[i].notNull /\ ~ts.cols[i].pk => row[i].type # "null"
  BY DEF Acceptable
<1>4. \A name \in DOMAIN given : /\ given[name] \in Values /\ ColumnIndex(ts, name) # 0
                                 /\ CanCoerce(given[name], ts.cols[ColumnIndex(ts, name)].type)
  BY TablesAssumption DEF Acceptable
<1> HIDE DEF row
<1>5. ASSUME NEW i \in 1..Len(ts.cols)
      PROVE  row[i] \in AnyValue /\ (row[i].type = "int" => Bounded(row[i].n))
  <2>1. ts.cols[i] \in Columns /\ ts.cols[i].type \in {"INTEGER", "TEXT"}
    BY <1>1 DEF Columns
  <2>2. CASE ts.cols[i].name \in DOMAIN given
    <3>1. row[i] = Coerce(given[ts.cols[i].name], ts.cols[i].type) /\ given[ts.cols[i].name] \in Values
      BY <1>1, <1>2, <1>4, <2>2
    <3>2. row[i] \in AnyValue
      BY <2>1, <3>1, ValuesTyped
    <3>3. ASSUME row[i].type = "int" PROVE Bounded(row[i].n)
      <4> DEFINE v == given[ts.cols[i].name]
      <4>1. CanCoerce(v, ts.cols[ColumnIndex(ts, ts.cols[i].name)].type)
        BY <1>4, <2>2
      <4>2. CanCoerce(v, ts.cols[i].type)
        BY <1>1, <4>1, ColumnKnown
      <4> HIDE DEF v
      <4> QED BY <4>2, <3>1, <3>3, <2>1, ValuesTyped DEF v
    <3> QED BY <3>2, <3>3
  <2>3. CASE ts.cols[i].name \notin DOMAIN given
    BY <1>1, <1>2, <2>1, <2>3, ValuesTyped
  <2> QED BY <2>2, <2>3
<1>6. row \in Row /\ Len(row) = Len(ts.cols)
  <2>1. DOMAIN row = 1..Len(ts.cols) /\ row = [x \in DOMAIN row |-> row[x]]
    BY <1>1, <1>2
  <2> QED BY <2>1, <1>1, <1>5, RowOfFunction
<1> QED BY <1>1, <1>3, <1>5, <1>6 DEF row

LEMMA ExtendedProperties ==
    ASSUME NEW ts \in SchemaOf, NEW row \in Row
    PROVE  LET x == Extended(row, ts)
           IN  /\ x \in Row /\ Len(x) = IF Len(row) >= Len(ts.cols) THEN Len(row) ELSE Len(ts.cols)
               /\ \A i \in DOMAIN row : x[i] = row[i]
               /\ \A i \in DOMAIN ts.cols \ DOMAIN row : x[i] = DefaultOf(ts.cols[i])
               /\ Len(row) >= Len(ts.cols) => x = row
<1> DEFINE x == Extended(row, ts)
           n == IF Len(row) >= Len(ts.cols) THEN Len(row) ELSE Len(ts.cols)
<1>1. /\ DOMAIN ts.cols = 1..Len(ts.cols) /\ Len(ts.cols) \in Nat
      /\ \A i \in 1..Len(ts.cols) : ts.cols[i] \in Columns
  BY ColumnParts
<1>2. DOMAIN row = 1..Len(row) /\ Len(row) \in Nat /\ \A i \in 1..Len(row) : row[i] \in AnyValue
  BY RowParts
<1>3. x = [i \in DOMAIN row \union DOMAIN ts.cols |-> IF i \in DOMAIN row THEN row[i] ELSE DefaultOf(ts.cols[i])]
  BY DEF Extended
<1>4. DOMAIN row \union DOMAIN ts.cols = 1..n /\ n \in Nat
  BY <1>1, <1>2
<1> HIDE DEF x
<1>5. /\ \A i \in DOMAIN row : x[i] = row[i]
      /\ \A i \in DOMAIN ts.cols \ DOMAIN row : x[i] = DefaultOf(ts.cols[i])
  BY <1>3
<1>6. DOMAIN x = 1..n /\ x = [i \in DOMAIN x |-> x[i]]
  BY <1>3, <1>4
<1>7. \A i \in 1..n : x[i] \in AnyValue
  BY <1>1, <1>2, <1>4, <1>5, ValuesTyped
<1>8. x \in Row /\ Len(x) = n
  <2> HIDE DEF n
  <2> QED BY <1>4, <1>6, <1>7, RowOfFunction
<1>9. ASSUME Len(row) >= Len(ts.cols) PROVE x = row
  <2>1. DOMAIN x = DOMAIN row
    BY <1>2, <1>6, <1>9
  <2>2. row = [i \in DOMAIN row |-> row[i]]
    BY DEF Row
  <2> QED BY <1>5, <1>6, <2>1, <2>2
<1> QED BY <1>5, <1>8, <1>9 DEF x

LEMMA UpdatedRowProperties ==
    ASSUME NEW ts \in SchemaOf, NEW row \in Row, NEW given \in Updates
    PROVE  LET x == UpdatedRow(ts, row, given)
           IN  /\ x \in Row /\ Len(x) = Len(row)
               /\ \A i \in DOMAIN row : i \notin DOMAIN ts.cols \/ ts.cols[i].name \notin DOMAIN given => x[i] = row[i]
               /\ \A i \in DOMAIN row \intersect DOMAIN ts.cols :
                     ts.cols[i].name \in DOMAIN given /\ given[ts.cols[i].name].type # "null" => x[i].type # "null"
<1> DEFINE x == UpdatedRow(ts, row, given)
<1>1. /\ DOMAIN ts.cols = 1..Len(ts.cols) /\ Len(ts.cols) \in Nat
      /\ \A i \in 1..Len(ts.cols) : ts.cols[i] \in Columns /\ ts.cols[i].type \in {"INTEGER", "TEXT"}
  BY ColumnParts DEF Columns
<1>2. DOMAIN row = 1..Len(row) /\ Len(row) \in Nat /\ \A i \in 1..Len(row) : row[i] \in AnyValue
  BY RowParts
<1>3. x = [i \in DOMAIN row |->
              IF i \in DOMAIN ts.cols /\ ts.cols[i].name \in DOMAIN given
              THEN Coerce(given[ts.cols[i].name], ts.cols[i].type) ELSE row[i]]
  BY DEF UpdatedRow
<1>4. \A name \in DOMAIN given : given[name] \in Values
  BY TablesAssumption
<1> HIDE DEF x
<1>5. \A i \in DOMAIN row \intersect DOMAIN ts.cols : ts.cols[i].name \in DOMAIN given =>
         /\ x[i] = Coerce(given[ts.cols[i].name], ts.cols[i].type)
         /\ given[ts.cols[i].name] \in Values /\ ts.cols[i].type \in {"INTEGER", "TEXT"}
  BY <1>1, <1>3, <1>4
<1>6. \A i \in DOMAIN row : i \notin DOMAIN ts.cols \/ ts.cols[i].name \notin DOMAIN given => x[i] = row[i]
  BY <1>3
<1>7. \A i \in DOMAIN row \intersect DOMAIN ts.cols : ts.cols[i].name \in DOMAIN given =>
         x[i] \in AnyValue /\ (given[ts.cols[i].name].type # "null" => x[i].type # "null")
  BY <1>5, ValuesTyped
<1>8. DOMAIN x = 1..Len(row) /\ x = [i \in DOMAIN x |-> x[i]]
  BY <1>2, <1>3
<1>9. \A i \in 1..Len(row) : x[i] \in AnyValue
  BY <1>2, <1>6, <1>7
<1>10. x \in Row /\ Len(x) = Len(row)
  BY <1>2, <1>8, <1>9, RowOfFunction
<1> QED BY <1>6, <1>7, <1>10 DEF x

LEMMA KeyedRowProperties ==
    ASSUME NEW ts \in SchemaOf, NEW row \in Row, Len(row) = Len(ts.cols), NEW id \in Int,
           GivenId(ts, row) # 0 => id = GivenId(ts, row)
    PROVE  LET x == KeyedRow(ts, row, id)
           IN  /\ x \in Row /\ Len(x) = Len(row)
               /\ \A i \in DOMAIN row : i # PrimaryKeyColumn(ts) => x[i] = row[i]
               /\ HoldsKey(ts, x, id)
<1> DEFINE x == KeyedRow(ts, row, id)
           pk == PrimaryKeyColumn(ts)
<1>1. DOMAIN ts.cols = 1..Len(ts.cols)
  BY ColumnParts
<1>2. DOMAIN row = 1..Len(row) /\ Len(row) \in Nat /\ \A i \in 1..Len(row) : row[i] \in AnyValue
  BY RowParts
<1>3. x = [i \in DOMAIN row |-> IF i = pk /\ GivenId(ts, row) = 0 THEN IntV(id) ELSE row[i]]
  BY DEF KeyedRow
<1>4. pk # 0 => pk \in DOMAIN row
  BY <1>1, <1>2, PrimaryKeyFound
<1>5. GivenId(ts, row) = IF pk # 0 /\ row[pk].type = "int" THEN row[pk].n ELSE 0
  BY DEF GivenId
<1> HIDE DEF x, pk
<1>6. DOMAIN x = 1..Len(row) /\ x = [i \in DOMAIN x |-> x[i]]
  BY <1>2, <1>3
<1>7. \A i \in 1..Len(row) : x[i] \in AnyValue
  BY <1>2, <1>3, ValuesTyped
<1>8. x \in Row /\ Len(x) = Len(row)
  BY <1>2, <1>6, <1>7, RowOfFunction
<1>9. ASSUME pk # 0 PROVE pk \in DOMAIN x /\ x[pk] = IntV(id)
  <2>1. CASE GivenId(ts, row) = 0
    BY <1>2, <1>3, <1>4, <1>6, <1>9, <2>1
  <2>2. CASE GivenId(ts, row) # 0
    <3>1. x[pk] = row[pk] /\ row[pk].type = "int" /\ row[pk].n = id
      BY <1>3, <1>4, <1>5, <1>9, <2>2
    <3>2. row[pk] \in AnyValue
      BY <1>2, <1>4, <1>9
    <3> QED BY <3>1, <3>2, <1>2, <1>4, <1>6, <1>9 DEF AnyValue, IntV
  <2> QED BY <2>1, <2>2
<1>10. \A i \in DOMAIN row : i # pk => x[i] = row[i]
  BY <1>3
<1> QED BY <1>8, <1>9, <1>10 DEF x, pk, HoldsKey

LEMMA RowLenIsInt ==
    ASSUME NEW row \in Row
    PROVE  RowLen(row) \in Int
<1> DEFINE w == [i \in DOMAIN row |-> ValueLen(row[i])]
<1>1. DOMAIN row = 1..Len(row) /\ Len(row) \in Nat /\ \A i \in 1..Len(row) : row[i] \in AnyValue
  BY RowParts
<1>2. \A v \in AnyValue : ValueLen(v) \in Int
  <2>1. \A n : Width(n) \in Int
    BY WidthOfInteger
  <2> QED BY <2>1 DEF ValueLen, AnyValue
<1>3. w \in [1..Len(row) -> Int]
  BY <1>1, <1>2
<1>4. w \in Seq(Int)
  BY <1>1, <1>3, IsASeq
<1> HIDE DEF w
<1>5. Total(w) \in Int
  BY <1>4, TotalProperties
<1> QED BY <1>5 DEF RowLen, w

LEMMA IndexKeyTyped ==
    ASSUME NEW ts \in SchemaOf, NEW i, NEW row \in Row, NEW id \in Int,
           ColumnIndex(ts, indexes[i].column) \in DOMAIN row
    PROVE  IndexKey(ts, i, row, id) \in Int \X Int /\ IndexKey(ts, i, row, id)[2] = id
<1>1. row[ColumnIndex(ts, indexes[i].column)] \in AnyValue
  BY RowParts
<1> QED BY <1>1 DEF IndexKey, AnyValue, NullWord, Word

-----------------------------------------------------------------------------
(* The pages of rows, and the actions of TableEngine.                      *)
RowSet(new, pg, id, row) ==
    /\ Keys(new) \subseteq Keys(pg) \union {id}
    /\ \A x \in Keys(new) : ValueAt(new, x) = IF x = id THEN row ELSE ValueAt(pg, x)

NewId(ts, given) ==
    IF GivenId(ts, NewRow(ts, given)) # 0 THEN GivenId(ts, NewRow(ts, given)) ELSE ts.next

InsertedRow(ts, given) == KeyedRow(ts, NewRow(ts, given), NewId(ts, given))

Counted(ts, given) == [ts EXCEPT !.next = NextAfter(ts, NewId(ts, given))]

LEMMA RowsReplaced ==
    ASSUME RowsTyped, NEW e \in Trees, NEW pg \in Seq(CellOf(Row)), Distinct(pg),
           rows' = [rows EXCEPT ![e] = pg], entries' \in [Trees -> SUBSET (Int \X Int)]
    PROVE  /\ RowsTyped' /\ Len(rows') = Len(rows) /\ rows'[e] = pg
           /\ \A x \in Trees \ {e} : rows'[x] = rows[x]
<1>1. /\ rows \in Seq(Seq(CellOf(Row))) /\ Len(rows) \in Nat /\ Len(rows) <= MaxTree
      /\ Trees = 1..Len(rows) /\ \A x \in DOMAIN rows : Distinct(rows[x])
      /\ Len(entries) = Len(rows)
  BY DEF RowsTyped, Trees
<1> DEFINE P == Seq(CellOf(Row))
           E == SUBSET (Int \X Int)
<1>2. rows \in Seq(P) /\ pg \in P /\ e \in 1..Len(rows) /\ entries' \in [1..Len(rows) -> E]
  <2>1. rows \in Seq(P) /\ pg \in P
    BY <1>1, Zenon
  <2>2. entries' \in [Trees -> E] /\ Trees = 1..Len(rows) /\ e \in Trees
    BY <1>1, Zenon
  <2> HIDE DEF P, E
  <2> QED BY <2>1, <2>2
<1> HIDE DEF P, E
<1>3. /\ rows' \in Seq(P) /\ Len(rows') = Len(rows) /\ rows'[e] = pg
      /\ \A x \in 1..Len(rows) \ {e} : rows'[x] = rows[x]
  BY <1>2
<1>4. entries' \in Seq(E) /\ Len(entries') = Len(rows)
  <2> DEFINE f == entries'
             n == Len(rows)
  <2>1. n \in Nat /\ f \in [1..n -> E]
    BY <1>1, <1>2
  <2> HIDE DEF f, n
  <2>2. f \in Seq(E) /\ DOMAIN f = 1..n
    BY <2>1, IsASeq
  <2>3. Len(f) = n
    BY <2>1, <2>2, LenProperties
  <2> QED BY <2>2, <2>3 DEF f, n
<1>5. \A x \in DOMAIN rows' : Distinct(rows'[x])
  <2> SUFFICES ASSUME NEW x \in 1..Len(rows) PROVE Distinct(rows'[x])
    BY <1>3
  <2>1. CASE x = e
    BY <2>1, <1>3
  <2>2. CASE x # e
    BY <2>2, <1>1, <1>3 DEF Trees
  <2> QED BY <2>1, <2>2
<1> QED BY <1>1, <1>3, <1>4, <1>5 DEF RowsTyped, P, E

LEMMA SetIsWithin ==
    ASSUME NEW f, NEW k \in DOMAIN f, NEW v
    PROVE  [f EXCEPT ![k] = v] = Within(f, k, v)
BY DEF Within

(* A table, and the page of its rows.                                      *)
LEMMA TablePages ==
    ASSUME RowsTyped, NEW t, IsTable(tables[t], t, Len(rows))
    PROVE  LET ts == tables[t]
               pg == rows[ts.tree]
           IN  /\ IsTable(ts, t, Len(rows)) /\ ts \in SchemaOf /\ OneName(ts) /\ Bounded(ts.next)
               /\ ts.tree \in Trees /\ Trees = 1..Len(rows) /\ Len(rows) \in Nat
               /\ pg \in Seq(CellOf(Row)) /\ Distinct(pg)
               /\ Keys(pg) \subseteq Int /\ \A id \in Keys(pg) : ValueAt(pg, id) \in Row
               /\ entries \in [Trees -> SUBSET (Int \X Int)]
<1> DEFINE ts == tables[t]
           pg == rows[ts.tree]
<1>3. ts \in SchemaOf /\ OneName(ts) /\ Bounded(ts.next) /\ ts.tree \in 1..Len(rows)
  BY DEF IsTable
<1>4. Trees = 1..Len(rows) /\ Len(rows) \in Nat
  BY TreesAre
<1>5. pg \in Seq(CellOf(Row)) /\ Distinct(pg)
  BY <1>3, <1>4 DEF RowsTyped, Trees
<1>6. ASSUME NEW id \in Keys(pg) PROVE id \in Int /\ ValueAt(pg, id) \in Row
  <2>1. PICK i \in At(pg, id) : TRUE
    BY AtKeys
  <2>2. i \in DOMAIN pg /\ pg[i].key = id
    BY <2>1 DEF At
  <2>3. pg[i] \in CellOf(Row)
    <3> HIDE DEF pg
    <3> QED BY <1>5, <2>2
  <2>4. ValueAt(pg, id) = pg[i].val
    BY <1>5, <2>1, ValueFound
  <2> QED BY <2>2, <2>3, <2>4 DEF CellOf
<1>7. entries \in [Trees -> SUBSET (Int \X Int)]
  <2> DEFINE E == SUBSET (Int \X Int)
  <2>1. entries \in Seq(E) /\ Len(entries) = Len(rows)
    BY DEF RowsTyped
  <2> HIDE DEF E
  <2>2. entries \in [1..Len(rows) -> E]
    BY <1>4, <2>1
  <2> QED BY <1>4, <2>2 DEF E
<1> QED BY <1>3, <1>4, <1>5, <1>6, <1>7

LEMMA TableParts ==
    ASSUME SchemaInv, NEW t \in DOMAIN tables
    PROVE  LET ts == tables[t]
               pg == rows[ts.tree]
           IN  /\ IsTable(ts, t, Len(rows)) /\ ts \in SchemaOf /\ OneName(ts) /\ Bounded(ts.next)
               /\ ts.tree \in Trees /\ Trees = 1..Len(rows) /\ Len(rows) \in Nat
               /\ pg \in Seq(CellOf(Row)) /\ Distinct(pg)
               /\ Keys(pg) \subseteq Int /\ \A id \in Keys(pg) : ValueAt(pg, id) \in Row
               /\ entries \in [Trees -> SUBSET (Int \X Int)]
<1>1. RowsTyped /\ IsTable(tables[t], t, Len(rows))
  BY DEF SchemaInv, Agree, Maps
<1> QED BY <1>1, TablePages

LEMMA AppendedTo ==
    ASSUME NEW old \in Seq(CellOf(Row)), Distinct(old), NEW id \in Int, NEW row \in Row, NEW n \in Int,
           NEW pg \in {old, Without(old, id)}, At(pg, id) = {}
    PROVE  LET new == Append(pg, NewCell(id, row, n))
           IN  new \in Seq(CellOf(Row)) /\ Distinct(new) /\ RowSet(new, old, id, row)
<1> DEFINE new == Append(pg, NewCell(id, row, n))
<1>1. /\ pg \in Seq(CellOf(Row)) /\ Distinct(pg) /\ Keys(pg) \subseteq Keys(old)
      /\ \A x \in Keys(pg) : ValueAt(pg, x) = ValueAt(old, x)
  BY WithoutPage
<1>2. id \notin Keys(pg)
  BY AtKeys
<1>3. /\ new \in Seq(CellOf(Row)) /\ Distinct(new)
      /\ Keys(new) = Keys(pg) \union {id} /\ ValueAt(new, id) = row
      /\ \A x \in Keys(pg) : ValueAt(new, x) = ValueAt(pg, x)
  BY <1>1, <1>2, AppendedPage
<1> HIDE DEF new
<1> QED BY <1>1, <1>3 DEF RowSet, new

LEMMA WrapsAround ==
    ASSUME NEW ts \in SchemaOf, Bounded(ts.next), NEW id, Bounded(id)
    PROVE  /\ Bounded(NextAfter(ts, id)) /\ NextAfter(ts, id) \in Int
           /\ id # MaxInt => id < NextAfter(ts, id) /\ ts.next <= NextAfter(ts, id)
<1>1. MaxInt \in Nat /\ MaxInt # 0
  BY TablesAssumption
<1> QED BY <1>1 DEF NextAfter, Wrap, Bounded

LEMMA InsertRows ==
    ASSUME RowsTyped, NEW t, IsTable(tables[t], t, Len(rows)), NEW given \in Inserts, NEW c, Insert(t, given, c)
    PROVE  LET ts  == tables[t]
               id  == NewId(ts, given)
               row == InsertedRow(ts, given)
               ts1 == Counted(ts, given)
           IN  /\ t \in DOMAIN tables /\ tables' = Within(tables, t, ts1)
               /\ cat' = Save(t, ts1).cat /\ CanFollow(t, ts1)
               /\ indexes' = indexes /\ views' = views
               /\ marks \subseteq marks' /\ MarksOfSave(t, ts1) \subseteq marks'
               /\ ts1 \in SchemaOf /\ ts1.name = t /\ ts1.tree = ts.tree /\ Bounded(ts1.next) /\ OneName(ts1)
               /\ RowsTyped' /\ Len(rows') = Len(rows)
               /\ id \in Int /\ Bounded(id) /\ ("wrapped" \notin marks' => id # MaxInt)
               /\ row \in Row /\ Len(row) = Len(ts.cols) /\ HoldsKey(ts, row, id)
               /\ \A i \in DOMAIN ts.cols : ts.cols[i].notNull /\ ~ts.cols[i].pk => row[i].type # "null"
               /\ \/ rows' = rows /\ entries' = entries
                  \/ /\ Save(t, ts1).ok
                     /\ RowSet(rows'[ts.tree], rows[ts.tree], id, row)
                     /\ \A e \in Trees \ {ts.tree} : rows'[e] = rows[e]
                     /\ \A e \in Trees : entries[e] \subseteq entries'[e]
                     /\ \A i \in Maintained(ts) : indexes[i].tree \in Trees =>
                           IndexKey(ts, i, row, id) \in entries'[indexes[i].tree]
<1> DEFINE ts   == tables[t]
           row0 == NewRow(ts, given)
           id   == NewId(ts, given)
           row  == InsertedRow(ts, given)
           ts1  == Counted(ts, given)
           old  == rows[ts.tree]
           page == IF c = "REPLACE" THEN Without(old, id) ELSE old
           done == Save(t, ts1).ok /\ At(page, id) = {}
<1>1. /\ t \in DOMAIN tables /\ Acceptable(ts, given) /\ CanFollow(t, ts1)
      /\ tables' = [tables EXCEPT ![t] = ts1] /\ cat' = Save(t, ts1).cat
      /\ marks' = marks \union MarksOfSave(t, ts1) \union Mark("wrapped", id = MaxInt)
      /\ indexes' = indexes /\ views' = views
      /\ done => /\ rows' = [rows EXCEPT ![ts.tree] = Append(page, NewCell(id, row, RowLen(row)))]
                 /\ entries' = [e \in Trees |-> entries[e] \union
                       {IndexKey(ts, i, row, id) : i \in {x \in Maintained(ts) : indexes[x].tree = e}}]
      /\ ~done => rows' = rows /\ entries' = entries
  BY DEF Insert, NewId, InsertedRow, Counted
<1>2. /\ IsTable(ts, t, Len(rows)) /\ ts \in SchemaOf /\ OneName(ts) /\ Bounded(ts.next)
      /\ ts.tree \in Trees /\ Trees = 1..Len(rows)
      /\ old \in Seq(CellOf(Row)) /\ Distinct(old)
      /\ entries \in [Trees -> SUBSET (Int \X Int)]
  BY <1>1, TablePages
<1> HIDE DEF ts, old
<1>4. /\ row0 \in Row /\ Len(row0) = Len(ts.cols)
      /\ \A i \in DOMAIN ts.cols : /\ ts.cols[i].notNull /\ ~ts.cols[i].pk => row0[i].type # "null"
                                   /\ row0[i].type = "int" => Bounded(row0[i].n)
  BY <1>1, <1>2, NewRowProperties
<1>5. Bounded(id) /\ id \in Int
  <2>1. GivenId(ts, row0) # 0 => Bounded(GivenId(ts, row0))
    <3>1. GivenId(ts, row0) # 0 => PrimaryKeyColumn(ts) # 0 /\ PrimaryKeyColumn(ts) \in DOMAIN ts.cols
      BY <1>2, PrimaryKeyFound DEF GivenId
    <3> QED BY <3>1, <1>4 DEF GivenId
  <2>2. Bounded(id)
    BY <1>2, <2>1 DEF NewId
  <2>3. MaxInt \in Int
    BY TablesAssumption
  <2> HIDE DEF id
  <2> QED BY <2>2, <2>3 DEF Bounded
<1>6. /\ row \in Row /\ Len(row) = Len(ts.cols) /\ HoldsKey(ts, row, id)
      /\ \A i \in DOMAIN row0 : i # PrimaryKeyColumn(ts) => row[i] = row0[i]
  <2>1. GivenId(ts, row0) # 0 => id = GivenId(ts, row0)
    BY DEF NewId
  <2>2. row = KeyedRow(ts, row0, id)
    BY DEF InsertedRow
  <2> HIDE DEF row, id, row0
  <2> QED BY <1>2, <1>4, <1>5, <2>1, <2>2, KeyedRowProperties
<1>7. \A i \in DOMAIN ts.cols : ts.cols[i].notNull /\ ~ts.cols[i].pk => row[i].type # "null"
  <2>1. DOMAIN ts.cols = DOMAIN row0
    BY <1>2, <1>4, ColumnParts, RowParts
  <2>2. \A i \in DOMAIN ts.cols : ~ts.cols[i].pk => i # PrimaryKeyColumn(ts)
    BY <1>2, PrimaryKeyFound, ColumnParts
  <2> HIDE DEF row, row0
  <2> SUFFICES ASSUME NEW i \in DOMAIN ts.cols, ts.cols[i].notNull, ~ts.cols[i].pk PROVE row[i].type # "null"
    OBVIOUS
  <2>3. row[i] = row0[i]
    BY <1>6, <2>1, <2>2
  <2> QED BY <1>4, <2>3
<1>8. /\ ts1 \in SchemaOf /\ ts1.name = t /\ ts1.tree = ts.tree /\ Bounded(ts1.next) /\ OneName(ts1)
      /\ ts1.cols = ts.cols /\ ts1.names = ts.names
  <2>1. Bounded(NextAfter(ts, id)) /\ NextAfter(ts, id) \in Int
    BY <1>2, <1>5, WrapsAround
  <2>2. ts.name = t
    BY <1>2 DEF IsTable
  <2> HIDE DEF id
  <2>3. ts1 = [ts EXCEPT !.next = NextAfter(ts, id)]
    BY DEF Counted, id
  <2> HIDE DEF ts1
  <2>4. /\ ts1 \in SchemaOf /\ ts1.name = t /\ ts1.tree = ts.tree /\ ts1.next = NextAfter(ts, id)
        /\ ts1.cols = ts.cols /\ ts1.names = ts.names
    BY <1>2, <2>1, <2>2, <2>3 DEF SchemaOf
  <2> QED BY <1>2, <2>1, <2>4 DEF OneName
<1> HIDE DEF id, row, ts1, row0, page
<1>9. ASSUME done
      PROVE  /\ RowsTyped' /\ Len(rows') = Len(rows)
             /\ RowSet(rows'[ts.tree], old, id, row)
             /\ \A e \in Trees \ {ts.tree} : rows'[e] = rows[e]
             /\ \A e \in Trees : entries[e] \subseteq entries'[e]
             /\ \A i \in Maintained(ts) : indexes[i].tree \in Trees =>
                   IndexKey(ts, i, row, id) \in entries'[indexes[i].tree]
  <2> DEFINE new == Append(page, NewCell(id, row, RowLen(row)))
  <2>1. new \in Seq(CellOf(Row)) /\ Distinct(new) /\ RowSet(new, old, id, row)
    <3>1. RowLen(row) \in Int /\ page \in {old, Without(old, id)} /\ At(page, id) = {}
      BY <1>6, <1>9, RowLenIsInt DEF page
    <3> QED BY <1>2, <1>5, <1>6, <3>1, AppendedTo
  <2> HIDE DEF new
  <2>2. \A i \in Maintained(ts) : IndexKey(ts, i, row, id) \in Int \X Int
    <3>1. \A i \in Maintained(ts) : ColumnIndex(ts, indexes[i].column) \in DOMAIN ts.cols
      BY <1>2, ColumnFound DEF Maintained
    <3>2. DOMAIN ts.cols = DOMAIN row
      BY <1>2, <1>6, ColumnParts, RowParts
    <3> QED BY <1>2, <1>5, <1>6, <3>1, <3>2, IndexKeyTyped
  <2>3. entries' = [e \in Trees |-> entries[e] \union
              {IndexKey(ts, i, row, id) : i \in {x \in Maintained(ts) : indexes[x].tree = e}}]
    BY <1>1, <1>9
  <2>4. entries' \in [Trees -> SUBSET (Int \X Int)]
    BY <1>2, <2>2, <2>3
  <2>5. rows' = [rows EXCEPT ![ts.tree] = new]
    BY <1>1, <1>9 DEF new
  <2>6. /\ RowsTyped' /\ Len(rows') = Len(rows) /\ rows'[ts.tree] = new
        /\ \A x \in Trees \ {ts.tree} : rows'[x] = rows[x]
    BY <1>2, <2>1, <2>4, <2>5, RowsReplaced
  <2> QED BY <2>1, <2>3, <2>6
<1>10. RowsTyped' /\ Len(rows') = Len(rows)
  <2>1. CASE done
    BY <2>1, <1>9
  <2>2. CASE ~done
    BY <2>2, <1>1 DEF RowsTyped
  <2> QED BY <2>1, <2>2
<1>11. tables' = Within(tables, t, ts1)
  BY <1>1, SetIsWithin
<1>12. marks \subseteq marks' /\ MarksOfSave(t, ts1) \subseteq marks'
  BY <1>1
<1>13. "wrapped" \notin marks' => id # MaxInt
  BY <1>1 DEF Mark
<1>14. \/ rows' = rows /\ entries' = entries
       \/ /\ Save(t, ts1).ok
          /\ RowSet(rows'[ts.tree], rows[ts.tree], id, row)
          /\ \A e \in Trees \ {ts.tree} : rows'[e] = rows[e]
          /\ \A e \in Trees : entries[e] \subseteq entries'[e]
          /\ \A i \in Maintained(ts) : indexes[i].tree \in Trees =>
                IndexKey(ts, i, row, id) \in entries'[indexes[i].tree]
  <2>1. CASE done
    BY <2>1, <1>9 DEF old
  <2>2. CASE ~done
    BY <2>2, <1>1
  <2> QED BY <2>1, <2>2
<1> QED BY <1>1, <1>5, <1>6, <1>7, <1>8, <1>10, <1>11, <1>12, <1>13, <1>14 DEF ts, id, row, ts1

LEMMA InsertEffects ==
    ASSUME SchemaInv, NEW t \in TableName, NEW given \in Inserts, NEW c, Insert(t, given, c), "split" \notin marks'
    PROVE  LET ts  == tables[t]
               id  == NewId(ts, given)
               row == InsertedRow(ts, given)
               ts1 == Counted(ts, given)
           IN  /\ t \in DOMAIN tables /\ SchemaInv' /\ Changes(t, ts1)
               /\ tables' = Within(tables, t, ts1) /\ indexes' = indexes /\ ts1 \in SchemaOf
               /\ PutAs(cat, cat', t, ts1, TableLen(ts1))
               /\ id \in Int /\ Bounded(id) /\ ("wrapped" \notin marks' => id # MaxInt)
               /\ row \in Row /\ Len(row) = Len(ts.cols) /\ HoldsKey(ts, row, id)
               /\ \A i \in DOMAIN ts.cols : ts.cols[i].notNull /\ ~ts.cols[i].pk => row[i].type # "null"
               /\ \/ rows' = rows /\ entries' = entries
                  \/ /\ Known(t)' = {ts1}
                     /\ RowSet(rows'[ts.tree], rows[ts.tree], id, row)
                     /\ \A e \in Trees \ {ts.tree} : rows'[e] = rows[e]
                     /\ \A e \in Trees : entries[e] \subseteq entries'[e]
                     /\ \A i \in Maintained(ts) : indexes[i].tree \in Trees =>
                           IndexKey(ts, i, row, id) \in entries'[indexes[i].tree]
<1> DEFINE ts   == tables[t]
           id   == NewId(ts, given)
           row  == InsertedRow(ts, given)
           ts1  == Counted(ts, given)
<1>1. RowsTyped /\ t \in DOMAIN tables /\ IsTable(tables[t], t, Len(rows))
  BY DEF SchemaInv, Agree, Maps, Insert
<1>2. /\ tables' = Within(tables, t, ts1) /\ cat' = Save(t, ts1).cat
      /\ indexes' = indexes /\ views' = views
      /\ marks \subseteq marks' /\ MarksOfSave(t, ts1) \subseteq marks'
      /\ ts1 \in SchemaOf /\ ts1.name = t /\ ts1.tree = ts.tree /\ Bounded(ts1.next) /\ OneName(ts1)
      /\ RowsTyped' /\ Len(rows') = Len(rows)
      /\ id \in Int /\ Bounded(id) /\ ("wrapped" \notin marks' => id # MaxInt)
      /\ row \in Row /\ Len(row) = Len(ts.cols) /\ HoldsKey(ts, row, id)
      /\ \A i \in DOMAIN ts.cols : ts.cols[i].notNull /\ ~ts.cols[i].pk => row[i].type # "null"
      /\ \/ rows' = rows /\ entries' = entries
         \/ /\ Save(t, ts1).ok
            /\ RowSet(rows'[ts.tree], rows[ts.tree], id, row)
            /\ \A e \in Trees \ {ts.tree} : rows'[e] = rows[e]
            /\ \A e \in Trees : entries[e] \subseteq entries'[e]
            /\ \A i \in Maintained(ts) : indexes[i].tree \in Trees =>
                  IndexKey(ts, i, row, id) \in entries'[indexes[i].tree]
  BY <1>1, InsertRows
<1> HIDE DEF id, row, ts1
<1>3. /\ SchemaInv' /\ Changes(t, ts1) /\ PutAs(cat, cat', t, ts1, TableLen(ts1))
      /\ Save(t, ts1).ok => Known(t)' = {ts1}
  BY <1>1, <1>2, SetTableEffects
<1> QED BY <1>1, <1>2, <1>3 DEF id, row, ts1

(* Steps that leave the schema alone.                                      *)
LEMMA SchemaKept ==
    ASSUME SchemaInv, tables' = tables, indexes' = indexes, views' = views, cat' = cat,
           RowsTyped', Len(rows') = Len(rows), marks \subseteq marks'
    PROVE  /\ SchemaInv' /\ Keeps
           /\ \A t \in DOMAIN tables : tables'[t] \in Known(t)' /\ \A ts \in Known(t)' : ts \in Known(t)
BY DEF SchemaInv, Keeps, Known

LEMMA DeleteRows ==
    ASSUME RowsTyped, NEW t, IsTable(tables[t], t, Len(rows)), NEW id, Delete(t, id)
    PROVE  LET ts == tables[t]
           IN  /\ t \in DOMAIN tables /\ RowsTyped' /\ Len(rows') = Len(rows) /\ UNCHANGED <<tables, indexes, views, cat, marks>>
               /\ id \notin Keys(rows'[ts.tree]) /\ Keys(rows'[ts.tree]) \subseteq Keys(rows[ts.tree])
               /\ \A x \in Keys(rows'[ts.tree]) : ValueAt(rows'[ts.tree], x) = ValueAt(rows[ts.tree], x)
               /\ \A e \in Trees \ {ts.tree} : rows'[e] = rows[e]
               /\ \A e \in Trees : \A key \in entries[e] :
                     key[2] # id \/ (\A i \in Maintained(ts) : indexes[i].tree # e) => key \in entries'[e]
<1> DEFINE ts  == tables[t]
           old == rows[ts.tree]
           row == ValueAt(old, id)
           covered == {i \in Maintained(ts) : ColumnIndex(ts, indexes[i].column) <= Len(row)}
           new == Without(old, id)
<1>1. /\ t \in DOMAIN tables /\ id \in Keys(old)
      /\ entries' = [e \in Trees |-> entries[e] \
            {IndexKey(ts, i, row, id) : i \in {x \in covered : indexes[x].tree = e}}]
      /\ rows' = [rows EXCEPT ![ts.tree] = Without(@, id)]
      /\ UNCHANGED <<tables, indexes, views, cat, marks>>
  BY DEF Delete
<1>2. /\ ts \in SchemaOf /\ ts.tree \in Trees /\ Trees = 1..Len(rows)
      /\ old \in Seq(CellOf(Row)) /\ Distinct(old)
      /\ Keys(old) \subseteq Int /\ \A x \in Keys(old) : ValueAt(old, x) \in Row
      /\ entries \in [Trees -> SUBSET (Int \X Int)]
  BY <1>1, TablePages
<1>4. rows' = [rows EXCEPT ![ts.tree] = new]
  <2>1. ts.tree \in DOMAIN rows
    BY <1>2 DEF Trees
  <2> QED BY <1>1, <2>1
<1> HIDE DEF ts, old, row
<1>5. /\ new \in Seq(CellOf(Row)) /\ Distinct(new)
      /\ Keys(new) = Keys(old) \ {id}
      /\ \A x \in Keys(new) : ValueAt(new, x) = ValueAt(old, x)
  BY <1>2, WithoutPage
<1> HIDE DEF new
<1>6. entries' \in [Trees -> SUBSET (Int \X Int)]
  BY <1>1, <1>2
<1>7. /\ RowsTyped' /\ Len(rows') = Len(rows) /\ rows'[ts.tree] = new
      /\ \A x \in Trees \ {ts.tree} : rows'[x] = rows[x]
  BY <1>2, <1>4, <1>5, <1>6, RowsReplaced
<1>9. ASSUME NEW e \in Trees, NEW key \in entries[e],
             key[2] # id \/ (\A i \in Maintained(ts) : indexes[i].tree # e)
      PROVE  key \in entries'[e]
  <2>1. \A i : IndexKey(ts, i, row, id)[2] = id
    BY DEF IndexKey
  <2> QED BY <1>1, <1>9, <2>1
<1> QED BY <1>1, <1>5, <1>7, <1>9 DEF ts, old

LEMMA DeleteEffects ==
    ASSUME SchemaInv, NEW t \in TableName, NEW id, Delete(t, id)
    PROVE  LET ts == tables[t]
           IN  /\ t \in DOMAIN tables /\ SchemaInv' /\ Keeps /\ UNCHANGED <<tables, indexes, views, cat, marks>>
               /\ id \notin Keys(rows'[ts.tree]) /\ Keys(rows'[ts.tree]) \subseteq Keys(rows[ts.tree])
               /\ \A x \in Keys(rows'[ts.tree]) : ValueAt(rows'[ts.tree], x) = ValueAt(rows[ts.tree], x)
               /\ \A e \in Trees \ {ts.tree} : rows'[e] = rows[e]
               /\ \A e \in Trees : \A key \in entries[e] :
                     key[2] # id \/ (\A i \in Maintained(ts) : indexes[i].tree # e) => key \in entries'[e]
<1>1. RowsTyped /\ t \in DOMAIN tables /\ IsTable(tables[t], t, Len(rows))
  BY DEF SchemaInv, Agree, Maps, Delete
<1>2. /\ RowsTyped' /\ Len(rows') = Len(rows)
      /\ UNCHANGED <<tables, indexes, views, cat>> /\ marks \subseteq marks'
  BY <1>1, DeleteRows
<1>3. SchemaInv' /\ Keeps
  BY <1>2, SchemaKept
<1> QED BY <1>1, <1>3, DeleteRows

LEMMA UpdateRows ==
    ASSUME RowsTyped, NEW t, IsTable(tables[t], t, Len(rows)), NEW id, NEW given \in Updates, Update(t, id, given)
    PROVE  LET ts  == tables[t]
               old == Extended(RowAt(t, id), ts)
               new == UpdatedRow(ts, old, given)
           IN  /\ t \in DOMAIN tables /\ RowsTyped' /\ Len(rows') = Len(rows) /\ UNCHANGED <<tables, indexes, views, cat>>
               /\ id \in RowKeys(t) /\ RowAt(t, id) \in Row /\ old \in Row /\ new \in Row
               /\ MayUpdate(ts, given) /\ marks \subseteq marks'
               /\ "keyed" \in marks' \/ \A i \in DOMAIN ts.cols : ts.cols[i].pk => ts.cols[i].name \notin DOMAIN given
               /\ \A e \in Trees \ {ts.tree} : rows'[e] = rows[e]
               /\ \/ rows' = rows /\ "refused" \in marks'
                  \/ /\ RowSet(rows'[ts.tree], rows[ts.tree], id, new)
                     /\ Keys(rows'[ts.tree]) \subseteq Keys(rows[ts.tree])
               /\ \A e \in Trees : \A key \in entries[e] :
                     key[2] # id \/ (\A i \in Maintained(ts) : indexes[i].column \in DOMAIN given => indexes[i].tree # e)
                         => key \in entries'[e]
               /\ \A i \in Maintained(ts) : OneEach(indexes) /\ indexes[i].column \in DOMAIN given /\ indexes[i].tree \in Trees
                     => IndexKey(ts, i, new, id) \in entries'[indexes[i].tree]
<1> DEFINE ts  == tables[t]
           pg  == rows[ts.tree]
           old == Extended(RowAt(t, id), ts)
           new == UpdatedRow(ts, old, given)
           moved == {i \in Maintained(ts) : indexes[i].column \in DOMAIN given}
           after == Rewritten(pg, id, new, RowLen(new))
<1>1. /\ t \in DOMAIN tables /\ id \in Keys(pg) /\ MayUpdate(ts, given)
      /\ entries' = [e \in Trees |->
              IF \E i \in moved : indexes[i].tree = e
              THEN LET i == CHOOSE x \in moved : indexes[x].tree = e
                   IN  Moved(entries[e], IndexKey(ts, i, old, id), IndexKey(ts, i, new, id))
              ELSE entries[e]]
      /\ rows' = IF CanRewrite(pg, id, RowLen(new))
                 THEN [rows EXCEPT ![ts.tree] = Rewritten(@, id, new, RowLen(new))] ELSE rows
      /\ marks' = marks \union Mark("refused", ~CanRewrite(pg, id, RowLen(new)))
            \union Mark("keyed", \E i \in DOMAIN ts.cols : ts.cols[i].pk /\ ts.cols[i].name \in DOMAIN given)
      /\ UNCHANGED <<tables, indexes, views, cat>>
  BY DEF Update, RowAt
<1>2. /\ ts \in SchemaOf /\ ts.tree \in Trees /\ Trees = 1..Len(rows)
      /\ pg \in Seq(CellOf(Row)) /\ Distinct(pg) /\ Keys(pg) \subseteq Int
      /\ \A x \in Keys(pg) : ValueAt(pg, x) \in Row
      /\ entries \in [Trees -> SUBSET (Int \X Int)]
  BY <1>1, TablePages
<1>3. ts.tree \in DOMAIN rows
  BY <1>2 DEF Trees
<1>4. RowAt(t, id) \in Row /\ id \in Int /\ id \in RowKeys(t)
  BY <1>1, <1>2 DEF RowAt, RowKeys
<1>5. old \in Row /\ new \in Row /\ DOMAIN ts.cols \subseteq DOMAIN old /\ DOMAIN ts.cols \subseteq DOMAIN new
  <2> HIDE DEF ts
  <2>1. old \in Row /\ Len(old) >= Len(ts.cols) /\ Len(ts.cols) \in Nat
    BY <1>2, <1>4, ExtendedProperties, ColumnParts, RowParts
  <2> HIDE DEF old
  <2>2. new \in Row /\ Len(new) = Len(old)
    BY <1>2, <2>1, UpdatedRowProperties
  <2> HIDE DEF new
  <2>3. DOMAIN ts.cols = 1..Len(ts.cols) /\ DOMAIN old = 1..Len(old) /\ DOMAIN new = 1..Len(new)
        /\ Len(old) \in Nat
    BY <1>2, <2>1, <2>2, ColumnParts, RowParts
  <2> QED BY <2>1, <2>2, <2>3
<1>6. CanRewrite(pg, id, RowLen(new)) => rows' = [rows EXCEPT ![ts.tree] = after]
  BY <1>1, <1>3
<1> HIDE DEF ts, old, new, pg
<1>7. /\ after \in Seq(CellOf(Row)) /\ Distinct(after)
      /\ Keys(after) = Keys(pg) /\ RowSet(after, pg, id, new)
  <2>1. RowLen(new) \in Int
    BY <1>5, RowLenIsInt
  <2>2. /\ after \in Seq(CellOf(Row)) /\ Distinct(after) /\ Keys(after) = Keys(pg) /\ ValueAt(after, id) = new
        /\ \A x \in Keys(pg) \ {id} : ValueAt(after, x) = ValueAt(pg, x)
    BY <1>1, <1>2, <1>5, <2>1, RewrittenPage
  <2> HIDE DEF after
  <2> QED BY <2>2 DEF RowSet
<1> HIDE DEF after
<1>8. \A i \in moved : /\ IndexKey(ts, i, new, id) \in Int \X Int
                       /\ IndexKey(ts, i, old, id)[2] = id
  <2>1. \A i \in moved : ColumnIndex(ts, indexes[i].column) \in DOMAIN ts.cols
    BY <1>2, ColumnFound DEF Maintained
  <2> QED BY <1>2, <1>4, <1>5, <2>1, IndexKeyTyped
<1>9. entries' \in [Trees -> SUBSET (Int \X Int)]
  <2> SUFFICES ASSUME NEW e \in Trees PROVE entries'[e] \in SUBSET (Int \X Int)
    BY <1>1
  <2>1. CASE \E i \in moved : indexes[i].tree = e
    <3> DEFINE i == CHOOSE x \in moved : indexes[x].tree = e
    <3>1. i \in moved
      BY <2>1
    <3>2. entries'[e] = Moved(entries[e], IndexKey(ts, i, old, id), IndexKey(ts, i, new, id))
      BY <1>1, <2>1
    <3> HIDE DEF i
    <3> QED BY <1>2, <1>8, <3>1, <3>2 DEF Moved
  <2>2. CASE ~\E i \in moved : indexes[i].tree = e
    BY <1>1, <1>2, <2>2
  <2> QED BY <2>1, <2>2
<1>10. /\ RowsTyped' /\ Len(rows') = Len(rows)
       /\ \A e \in Trees \ {ts.tree} : rows'[e] = rows[e]
       /\ \/ rows' = rows /\ "refused" \in marks'
          \/ rows'[ts.tree] = after
  <2>1. CASE CanRewrite(pg, id, RowLen(new))
    BY <1>2, <1>3, <1>6, <1>7, <1>9, <2>1, RowsReplaced
  <2>2. CASE ~CanRewrite(pg, id, RowLen(new))
    <3>1. rows' = rows /\ "refused" \in marks'
      BY <1>1, <2>2 DEF Mark
    <3>2. rows' = [rows EXCEPT ![ts.tree] = pg]
      BY <1>3, <3>1 DEF pg, RowsTyped
    <3> QED BY <1>2, <1>3, <1>9, <3>1, <3>2, RowsReplaced
  <2> QED BY <2>1, <2>2
<1>11. marks \subseteq marks'
  BY <1>1
<1>12. "keyed" \in marks' \/ \A i \in DOMAIN ts.cols : ts.cols[i].pk => ts.cols[i].name \notin DOMAIN given
  BY <1>1 DEF Mark
<1>13. ASSUME NEW e \in Trees, NEW key \in entries[e],
              key[2] # id \/ (\A i \in Maintained(ts) : indexes[i].column \in DOMAIN given => indexes[i].tree # e)
       PROVE  key \in entries'[e]
  <2>1. CASE \E i \in moved : indexes[i].tree = e
    <3> DEFINE i == CHOOSE x \in moved : indexes[x].tree = e
    <3>1. i \in moved
      BY <2>1
    <3>2. entries'[e] = Moved(entries[e], IndexKey(ts, i, old, id), IndexKey(ts, i, new, id))
      BY <1>1, <2>1
    <3> HIDE DEF i
    <3>3. IndexKey(ts, i, old, id)[2] = id /\ key[2] # id
      BY <1>8, <1>13, <2>1, <3>1
    <3> QED BY <1>13, <3>2, <3>3 DEF Moved
  <2>2. CASE ~\E i \in moved : indexes[i].tree = e
    BY <1>1, <2>2
  <2> QED BY <2>1, <2>2
<1>14. ASSUME NEW i \in Maintained(ts), OneEach(indexes), indexes[i].column \in DOMAIN given, indexes[i].tree \in Trees
       PROVE  IndexKey(ts, i, new, id) \in entries'[indexes[i].tree]
  <2> DEFINE e == indexes[i].tree
             x == CHOOSE y \in moved : indexes[y].tree = e
  <2>1. i \in moved
    BY <1>14
  <2>2. x \in moved /\ indexes[x].tree = e
    BY <2>1
  <2>3. entries'[e] = Moved(entries[e], IndexKey(ts, x, old, id), IndexKey(ts, x, new, id))
    BY <1>1, <1>14, <2>1
  <2> HIDE DEF x
  <2>4. x = i
    BY <1>14, <2>2 DEF OneEach, Maintained
  <2> QED BY <2>3, <2>4 DEF Moved
<1> QED BY <1>1, <1>4, <1>5, <1>7, <1>10, <1>11, <1>12, <1>13, <1>14 DEF ts, old, new, pg

LEMMA UpdateEffects ==
    ASSUME SchemaInv, NEW t \in TableName, NEW id, NEW given \in Updates, Update(t, id, given)
    PROVE  LET ts  == tables[t]
               old == Extended(RowAt(t, id), ts)
               new == UpdatedRow(ts, old, given)
           IN  /\ t \in DOMAIN tables /\ SchemaInv' /\ Keeps /\ UNCHANGED <<tables, indexes, views, cat>>
               /\ id \in RowKeys(t) /\ RowAt(t, id) \in Row /\ old \in Row /\ new \in Row
               /\ MayUpdate(ts, given) /\ marks \subseteq marks'
               /\ "keyed" \in marks' \/ \A i \in DOMAIN ts.cols : ts.cols[i].pk => ts.cols[i].name \notin DOMAIN given
               /\ \A e \in Trees \ {ts.tree} : rows'[e] = rows[e]
               /\ \/ rows' = rows /\ "refused" \in marks'
                  \/ /\ RowSet(rows'[ts.tree], rows[ts.tree], id, new)
                     /\ Keys(rows'[ts.tree]) \subseteq Keys(rows[ts.tree])
               /\ \A e \in Trees : \A key \in entries[e] :
                     key[2] # id \/ (\A i \in Maintained(ts) : indexes[i].column \in DOMAIN given => indexes[i].tree # e)
                         => key \in entries'[e]
               /\ \A i \in Maintained(ts) : OneEach(indexes) /\ indexes[i].column \in DOMAIN given /\ indexes[i].tree \in Trees
                     => IndexKey(ts, i, new, id) \in entries'[indexes[i].tree]
<1>1. RowsTyped /\ t \in DOMAIN tables /\ IsTable(tables[t], t, Len(rows))
  BY DEF SchemaInv, Agree, Maps, Update
<1>2. /\ RowsTyped' /\ Len(rows') = Len(rows)
      /\ UNCHANGED <<tables, indexes, views, cat>> /\ marks \subseteq marks'
  BY <1>1, UpdateRows
<1>3. SchemaInv' /\ Keeps
  BY <1>2, SchemaKept
<1> QED BY <1>1, <1>3, UpdateRows

(* The columns after ADD, RENAME and DROP COLUMN.                          *)
LEMMA ColumnAdded ==
    ASSUME NEW ts \in SchemaOf, OneName(ts), NEW col \in Columns, ColumnIndex(ts, col.name) = 0
    PROVE  LET ts1 == [ts EXCEPT !.cols = Append(@, col)]
           IN  /\ ts1 \in SchemaOf /\ OneName(ts1) /\ ts1.tree = ts.tree /\ ts1.next = ts.next
               /\ ts1.names = ts.names /\ ts1.name = ts.name
               /\ Len(ts1.cols) = Len(ts.cols) + 1 /\ ts1.cols[Len(ts.cols) + 1] = col
               /\ \A i \in DOMAIN ts.cols : ts1.cols[i] = ts.cols[i]
<1> DEFINE ts1 == [ts EXCEPT !.cols = Append(@, col)]
<1>4. /\ Append(ts.cols, col) \in Seq(Columns) /\ Len(Append(ts.cols, col)) = Len(ts.cols) + 1
      /\ Append(ts.cols, col)[Len(ts.cols) + 1] = col
      /\ \A i \in 1..Len(ts.cols) : Append(ts.cols, col)[i] = ts.cols[i]
      /\ DOMAIN ts.cols = 1..Len(ts.cols) /\ Len(ts.cols) \in Nat
  <2> DEFINE w == ts.cols
  <2>1. w \in Seq(Columns)
    BY DEF SchemaOf
  <2> HIDE DEF w
  <2>2. /\ Append(w, col) \in Seq(Columns) /\ Len(Append(w, col)) = Len(w) + 1
        /\ Append(w, col)[Len(w) + 1] = col
        /\ \A i \in 1..Len(w) : Append(w, col)[i] = w[i]
        /\ DOMAIN w = 1..Len(w) /\ Len(w) \in Nat
    BY <2>1
  <2> QED BY <2>2 DEF w
<1>5. /\ ts1 \in SchemaOf /\ ts1.tree = ts.tree /\ ts1.next = ts.next /\ ts1.names = ts.names /\ ts1.name = ts.name
      /\ ts1.cols = Append(ts.cols, col)
  BY <1>4 DEF SchemaOf
<1> HIDE DEF ts1
<1>6. /\ Len(ts1.cols) = Len(ts.cols) + 1 /\ ts1.cols[Len(ts.cols) + 1] = col
      /\ \A i \in DOMAIN ts.cols : ts1.cols[i] = ts.cols[i]
  BY <1>4, <1>5
<1>7. OneName(ts1)
  <2>1. DOMAIN ts1.cols = 1..(Len(ts.cols) + 1)
    BY <1>5, <1>6, ColumnParts
  <2>2. \A i \in DOMAIN ts.cols : ts.cols[i].name # col.name
    BY ColumnThere
  <2> SUFFICES ASSUME NEW i \in DOMAIN ts1.cols, NEW j \in DOMAIN ts1.cols, ts1.cols[i].name = ts1.cols[j].name
               PROVE  i = j
    BY DEF OneName
  <2>3. \A x \in DOMAIN ts1.cols : x \in DOMAIN ts.cols \/ x = Len(ts.cols) + 1
    BY <1>4, <2>1
  <2>4. CASE i \in DOMAIN ts.cols /\ j \in DOMAIN ts.cols
    BY <1>6, <2>4 DEF OneName
  <2>5. CASE ~(i \in DOMAIN ts.cols /\ j \in DOMAIN ts.cols)
    BY <1>6, <2>2, <2>3, <2>5
  <2> QED BY <2>4, <2>5
<1> QED BY <1>5, <1>6, <1>7 DEF ts1

LEMMA ColumnRenamed ==
    ASSUME NEW ts \in SchemaOf, OneName(ts), NEW i \in DOMAIN ts.cols, NEW new \in ColumnName,
           ColumnIndex(ts, new) = 0
    PROVE  LET ts1 == [ts EXCEPT !.cols[i].name = new]
           IN  /\ ts1 \in SchemaOf /\ OneName(ts1) /\ ts1.tree = ts.tree /\ ts1.next = ts.next /\ ts1.name = ts.name
               /\ Len(ts1.cols) = Len(ts.cols) /\ DOMAIN ts1.cols = DOMAIN ts.cols
               /\ \A j \in DOMAIN ts.cols : /\ ts1.cols[j].pk = ts.cols[j].pk
                                            /\ ts1.cols[j].notNull = ts.cols[j].notNull
                                            /\ ts1.cols[j].def = ts.cols[j].def
<1> DEFINE ts1 == [ts EXCEPT !.cols[i].name = new]
<1>4. ts.cols \in Seq(Columns)
  BY DEF SchemaOf
<1> DEFINE col1 == [ts.cols[i] EXCEPT !.name = new]
           w == ts.cols
<1>5. col1 \in Columns /\ col1.name = new /\ col1.pk = ts.cols[i].pk /\ col1.notNull = ts.cols[i].notNull
      /\ col1.def = ts.cols[i].def
  BY <1>4, ColumnParts, SMTT(30) DEF Columns
<1>6. ts1 = [ts EXCEPT !.cols = [w EXCEPT ![i] = col1]]
  BY <1>4 DEF SchemaOf
<1> HIDE DEF ts1
<1>7. /\ [w EXCEPT ![i] = col1] \in Seq(Columns) /\ Len([w EXCEPT ![i] = col1]) = Len(w)
      /\ \A j \in DOMAIN w : [w EXCEPT ![i] = col1][j] = IF j = i THEN col1 ELSE w[j]
      /\ DOMAIN [w EXCEPT ![i] = col1] = DOMAIN w
  <2>1. w \in Seq(Columns) /\ i \in DOMAIN w /\ col1 \in Columns
    BY <1>4, <1>5
  <2> HIDE DEF w, col1
  <2> QED BY <2>1
<1>8. /\ ts1 \in SchemaOf /\ ts1.tree = ts.tree /\ ts1.next = ts.next /\ ts1.name = ts.name
      /\ ts1.cols = [w EXCEPT ![i] = col1]
  <2> HIDE DEF col1
  <2> QED BY <1>6, <1>7 DEF SchemaOf
<1>9. /\ Len(ts1.cols) = Len(ts.cols) /\ DOMAIN ts1.cols = DOMAIN ts.cols
      /\ \A j \in DOMAIN ts.cols : ts1.cols[j] = IF j = i THEN col1 ELSE ts.cols[j]
  BY <1>7, <1>8
<1> HIDE DEF col1, w
<1>10. OneName(ts1)
  <2>2. \A j \in DOMAIN ts.cols : ts.cols[j].name # new
    BY ColumnThere
  <2> QED BY <1>5, <1>9, <2>2 DEF OneName
<1> QED BY <1>5, <1>8, <1>9, <1>10 DEF ts1

LEMMA ColumnDropped ==
    ASSUME NEW ts \in SchemaOf, OneName(ts), NEW i \in DOMAIN ts.cols
    PROVE  LET ts1 == [ts EXCEPT !.cols = RemoveAt(@, i)]
           IN  /\ ts1 \in SchemaOf /\ OneName(ts1) /\ ts1.tree = ts.tree /\ ts1.next = ts.next /\ ts1.name = ts.name
<1> DEFINE ts1 == [ts EXCEPT !.cols = RemoveAt(@, i)]
<1>4. i \in 1..Len(ts.cols) /\ ts.cols \in Seq(Columns) /\ Len(ts.cols) \in Nat /\ DOMAIN ts.cols = 1..Len(ts.cols)
  BY ColumnParts DEF SchemaOf
<1>5. RemoveAt(ts.cols, i) \in Seq(Columns) /\ ShiftedOut(RemoveAt(ts.cols, i), ts.cols, i)
  BY <1>4, RemoveAtProperties
<1>6. /\ ts1 \in SchemaOf /\ ts1.tree = ts.tree /\ ts1.next = ts.next /\ ts1.name = ts.name
      /\ ts1.cols = RemoveAt(ts.cols, i)
  BY <1>5 DEF SchemaOf
<1> HIDE DEF ts1
<1>7. OneName(ts1)
  <2>1. DOMAIN ts1.cols = 1..(Len(ts.cols) - 1)
    BY <1>4, <1>5, <1>6, ColumnParts DEF ShiftedOut
  <2>2. \A j \in DOMAIN ts1.cols : ts1.cols[j] = IF j < i THEN ts.cols[j] ELSE ts.cols[j + 1]
    BY <1>4, <1>5, <1>6, <2>1 DEF ShiftedOut
  <2> SUFFICES ASSUME NEW x \in DOMAIN ts1.cols, NEW y \in DOMAIN ts1.cols, ts1.cols[x].name = ts1.cols[y].name
               PROVE  x = y
    BY DEF OneName
  <2>3. x \in DOMAIN ts.cols /\ x + 1 \in DOMAIN ts.cols /\ y \in DOMAIN ts.cols /\ y + 1 \in DOMAIN ts.cols
    BY <1>4, <2>1
  <2> DEFINE a == IF x < i THEN x ELSE x + 1
             b == IF y < i THEN y ELSE y + 1
  <2>4. ts.cols[a].name = ts.cols[b].name /\ a \in DOMAIN ts.cols /\ b \in DOMAIN ts.cols
    BY <2>2, <2>3
  <2>5. a = b
    <3> HIDE DEF a, b
    <3> QED BY <2>4 DEF OneName
  <2> QED BY <1>4, <2>1, <2>5
<1> QED BY <1>6, <1>7 DEF ts1

LEMMA AddColumnEffects ==
    ASSUME SchemaInv, NEW t \in TableName, NEW col \in NewColumns, AddColumn(t, col), "split" \notin marks'
    PROVE  LET ts  == tables[t]
               ts1 == [ts EXCEPT !.cols = Append(@, col)]
           IN  /\ t \in DOMAIN tables /\ SchemaInv' /\ Changes(t, ts1) /\ marks \subseteq marks'
               /\ tables' = Within(tables, t, ts1) /\ UNCHANGED <<indexes, views, rows, entries>>
               /\ PutAs(cat, cat', t, ts1, TableLen(ts1))
               /\ ts1 \in SchemaOf /\ ts1.tree = ts.tree /\ ts1.next = ts.next /\ ts1.names = ts.names
               /\ (KeyedLate(t, col) => "keyed late" \in marks') /\ (col.notNull => DefaultOf(col).type # "null")
               /\ ColumnIndex(ts, col.name) = 0
               /\ Len(ts1.cols) = Len(ts.cols) + 1 /\ ts1.cols[Len(ts.cols) + 1] = col
               /\ \A i \in DOMAIN ts.cols : ts1.cols[i] = ts.cols[i]
<1> DEFINE ts  == tables[t]
           ts1 == [ts EXCEPT !.cols = Append(@, col)]
<1>1. /\ t \in DOMAIN tables /\ ColumnIndex(ts, col.name) = 0
      /\ col.notNull => col.def # NoDefault
      /\ tables' = Within(tables, t, ts1) /\ cat' = Save(t, ts1).cat
      /\ marks' = marks \union MarksOfSave(t, ts1) \union Mark("keyed late", KeyedLate(t, col))
      /\ UNCHANGED <<indexes, views, rows, entries>>
  BY DEF AddColumn, SetTable
<1>2. /\ col \in Columns /\ (col.notNull => DefaultOf(col).type # "null")
      /\ KeyedLate(t, col) => "keyed late" \in marks'
  BY <1>1, ValuesTyped, TablesAssumption DEF Mark
<1>3. IsTable(ts, t, Len(rows)) /\ ts \in SchemaOf /\ OneName(ts) /\ Bounded(ts.next) /\ ts.name = t
  BY <1>1, TableParts DEF IsTable
<1> HIDE DEF ts
<1>5. /\ ts1 \in SchemaOf /\ OneName(ts1) /\ ts1.tree = ts.tree /\ ts1.next = ts.next
      /\ ts1.names = ts.names /\ ts1.name = t
      /\ Len(ts1.cols) = Len(ts.cols) + 1 /\ ts1.cols[Len(ts.cols) + 1] = col
      /\ \A i \in DOMAIN ts.cols : ts1.cols[i] = ts.cols[i]
  BY <1>1, <1>2, <1>3, ColumnAdded
<1> HIDE DEF ts1
<1>8. SchemaInv' /\ Changes(t, ts1) /\ PutAs(cat, cat', t, ts1, TableLen(ts1))
  <2>1. RowsTyped' /\ Len(rows') = Len(rows)
    BY <1>1 DEF SchemaInv, RowsTyped
  <2>2. marks \subseteq marks' /\ MarksOfSave(t, ts1) \subseteq marks'
    BY <1>1
  <2> QED BY <1>1, <1>3, <1>5, <2>1, <2>2, SetTableEffects DEF ts
<1> QED BY <1>1, <1>2, <1>5, <1>8 DEF ts, ts1

LEMMA RenameColumnEffects ==
    ASSUME SchemaInv, NEW t \in TableName, NEW old \in ColumnName, NEW new \in ColumnName,
           RenameColumn(t, old, new), "split" \notin marks'
    PROVE  LET ts  == tables[t]
               ts1 == tables'[t]
           IN  /\ t \in DOMAIN tables /\ SchemaInv' /\ Changes(t, ts1) /\ marks \subseteq marks' /\ "renamed" \in marks'
               /\ tables' = Within(tables, t, ts1) /\ UNCHANGED <<indexes, views, rows, entries>>
               /\ ts1 \in SchemaOf /\ ts1.tree = ts.tree /\ ts1.next = ts.next
               /\ Len(ts1.cols) = Len(ts.cols)
               /\ \A i \in DOMAIN ts.cols : /\ ts1.cols[i].pk = ts.cols[i].pk /\ ts1.cols[i].notNull = ts.cols[i].notNull
                                            /\ ts1.cols[i].def = ts.cols[i].def
<1> DEFINE ts  == tables[t]
           i == ColumnIndex(ts, old)
           ts1 == [ts EXCEPT !.cols[i].name = new]
<1>1. /\ t \in DOMAIN tables /\ i # 0 /\ ColumnIndex(ts, new) = 0
      /\ tables' = [tables EXCEPT ![t].cols[i].name = new] /\ cat' = Save(t, tables'[t]).cat
      /\ marks' = marks \union MarksOfSave(t, tables'[t]) \union {"renamed"}
      /\ UNCHANGED <<indexes, views, rows, entries>>
  BY DEF RenameColumn
<1>2. tables' = [tables EXCEPT ![t] = ts1] /\ tables'[t] = ts1
  BY <1>1
<1>3. IsTable(ts, t, Len(rows)) /\ ts \in SchemaOf /\ OneName(ts) /\ Bounded(ts.next) /\ ts.name = t
  BY <1>1, TableParts DEF IsTable
<1> HIDE DEF ts
<1>4. i \in DOMAIN ts.cols
  BY <1>1, <1>3, ColumnFound
<1> HIDE DEF i
<1>5. /\ ts1 \in SchemaOf /\ OneName(ts1) /\ ts1.tree = ts.tree /\ ts1.next = ts.next /\ ts1.name = t
      /\ Len(ts1.cols) = Len(ts.cols)
      /\ \A j \in DOMAIN ts.cols : /\ ts1.cols[j].pk = ts.cols[j].pk
                                   /\ ts1.cols[j].notNull = ts.cols[j].notNull
                                   /\ ts1.cols[j].def = ts.cols[j].def
  <2>1. ColumnIndex(ts, new) = 0
    BY <1>1
  <2> QED BY <1>3, <1>4, <2>1, ColumnRenamed
<1> HIDE DEF ts1
<1>11. tables' = Within(tables, t, ts1)
  BY <1>1, <1>2, SetIsWithin
<1>12. SchemaInv' /\ Changes(t, ts1)
  <2>1. RowsTyped' /\ Len(rows') = Len(rows)
    BY <1>1 DEF SchemaInv, RowsTyped
  <2>2. marks \subseteq marks' /\ MarksOfSave(t, ts1) \subseteq marks' /\ cat' = Save(t, ts1).cat
    BY <1>1, <1>2
  <2> QED BY <1>1, <1>3, <1>5, <1>11, <2>1, <2>2, SetTableEffects DEF ts
<1> QED BY <1>1, <1>2, <1>5, <1>11, <1>12 DEF ts

LEMMA DropColumnEffects ==
    ASSUME SchemaInv, NEW t \in TableName, NEW column \in ColumnName, DropColumn(t, column), "split" \notin marks'
    PROVE  LET ts  == tables[t]
               ts1 == [ts EXCEPT !.cols = RemoveAt(@, ColumnIndex(ts, column))]
           IN  /\ t \in DOMAIN tables /\ SchemaInv' /\ Changes(t, ts1) /\ marks \subseteq marks' /\ "dropped" \in marks'
               /\ tables' = Within(tables, t, ts1) /\ UNCHANGED <<indexes, views, rows, entries>>
               /\ ts1.tree = ts.tree /\ ts1.next = ts.next
<1> DEFINE ts  == tables[t]
           i == ColumnIndex(ts, column)
           ts1 == [ts EXCEPT !.cols = RemoveAt(@, i)]
<1>1. /\ t \in DOMAIN tables /\ i # 0
      /\ tables' = [tables EXCEPT ![t] = ts1] /\ cat' = Save(t, ts1).cat
      /\ marks' = marks \union MarksOfSave(t, ts1) \union {"dropped"}
      /\ UNCHANGED <<indexes, views, rows, entries>>
  BY DEF DropColumn
<1>3. IsTable(ts, t, Len(rows)) /\ ts \in SchemaOf /\ OneName(ts) /\ Bounded(ts.next) /\ ts.name = t
  BY <1>1, TableParts DEF IsTable
<1> HIDE DEF ts
<1>4. i \in DOMAIN ts.cols
  BY <1>1, <1>3, ColumnFound
<1> HIDE DEF i
<1>6. /\ ts1 \in SchemaOf /\ OneName(ts1) /\ ts1.tree = ts.tree /\ ts1.next = ts.next /\ ts1.name = t
  BY <1>3, <1>4, ColumnDropped
<1> HIDE DEF ts1
<1>11. tables' = Within(tables, t, ts1)
  BY <1>1, SetIsWithin
<1>12. SchemaInv' /\ Changes(t, ts1)
  <2>1. RowsTyped' /\ Len(rows') = Len(rows)
    BY <1>1 DEF SchemaInv, RowsTyped
  <2>2. marks \subseteq marks' /\ MarksOfSave(t, ts1) \subseteq marks'
    BY <1>1
  <2> QED BY <1>1, <1>3, <1>6, <1>11, <2>1, <2>2, SetTableEffects DEF ts
<1> QED BY <1>1, <1>6, <1>11, <1>12 DEF ts, ts1, i

-----------------------------------------------------------------------------
(* The schema in memory and the schema tree stay together.                 *)
LEMMA MarksGrow ==
    ASSUME [Next]_vars
    PROVE  marks \subseteq marks'
<1>1. ASSUME NEW t \in TableName, NEW d \in Designs, CreateTable(t, d) PROVE marks \subseteq marks'
  BY <1>1 DEF CreateTable, SetTable
<1>2. ASSUME NEW t \in TableName, DropTable(t) PROVE marks \subseteq marks'
  BY <1>2 DEF DropTable
<1>3. ASSUME NEW t \in TableName, NEW new \in TableName, RenameTable(t, new) PROVE marks \subseteq marks'
  BY <1>3 DEF RenameTable
<1>4. ASSUME NEW t \in TableName, NEW col \in NewColumns, AddColumn(t, col) PROVE marks \subseteq marks'
  BY <1>4 DEF AddColumn, SetTable
<1>5. ASSUME NEW t \in TableName, NEW old \in ColumnName, NEW new \in ColumnName, RenameColumn(t, old, new)
      PROVE  marks \subseteq marks'
  BY <1>5 DEF RenameColumn
<1>6. ASSUME NEW t \in TableName, NEW column \in ColumnName, DropColumn(t, column) PROVE marks \subseteq marks'
  BY <1>6 DEF DropColumn
<1>7. ASSUME NEW t \in TableName, NEW given \in Inserts, NEW c \in {"ABORT", "IGNORE", "REPLACE"}, Insert(t, given, c)
      PROVE  marks \subseteq marks'
  BY <1>7 DEF Insert
<1>8. ASSUME NEW t \in TableName, NEW id \in (-MaxInt-1)..MaxInt, Delete(t, id) PROVE marks \subseteq marks'
  BY <1>8 DEF Delete
<1>9. ASSUME NEW t \in TableName, NEW id \in (-MaxInt-1)..MaxInt, NEW given \in Updates, Update(t, id, given)
      PROVE  marks \subseteq marks'
  BY <1>9 DEF Update
<1>10. ASSUME NEW i \in IndexName, NEW t \in TableName, NEW column \in ColumnName, CreateIndex(i, t, column)
       PROVE  marks \subseteq marks'
  BY <1>10 DEF CreateIndex
<1>11. ASSUME NEW i \in IndexName, DropIndex(i) PROVE marks \subseteq marks'
  BY <1>11 DEF DropIndex
<1>12. ASSUME NEW v \in ViewName, CreateView(v) \/ DropView(v) PROVE marks \subseteq marks'
  BY <1>12 DEF CreateView, DropView
<1>13. CASE Reopen
  BY <1>13 DEF Reopen
<1>14. CASE UNCHANGED vars
  BY <1>14 DEF vars
<1> QED BY <1>1, <1>2, <1>3, <1>4, <1>5, <1>6, <1>7, <1>8, <1>9, <1>10, <1>11, <1>12, <1>13, <1>14 DEF Next

LEMMA SchemaInit ==
    ASSUME Init
    PROVE  SchemaInv /\ DOMAIN tables = {}
<1>1. /\ tables = << >> /\ indexes = << >> /\ views = {} /\ cat = EmptyCatalog
      /\ rows = << >> /\ entries = << >> /\ marks = {}
  BY DEF Init
<1>2. DOMAIN << >> = {} /\ Len(<< >>) = 0
  OBVIOUS
<1>3. RowsTyped
  <2> DEFINE none == << >>
  <2>1. none \in Seq(Seq(CellOf(Row))) /\ none \in Seq(SUBSET (Int \X Int)) /\ Len(none) = 0 /\ DOMAIN none = {}
    OBVIOUS
  <2>2. rows = none /\ entries = none
    BY <1>1
  <2>3. 0 <= MaxTree
    BY TablesAssumption
  <2> HIDE DEF none
  <2> QED BY <2>1, <2>2, <2>3 DEF RowsTyped
<1>4. /\ OneLeaf(cat, SchemaRow) /\ cat.pages[1] = << >> /\ DOMAIN Stored(cat) = {}
      /\ Whole(cat.pages[1])
  BY <1>1, EmptyLeaf
<1>5. Used(cat.pages[1]) <= Room
  <2>1. Used(cat.pages[1]) = 0
    BY <1>4, OneLeafFacts, UsedBytes
  <2> QED BY <2>1, CatalogAssumption
<1>6. DOMAIN tables = {} /\ DOMAIN indexes = {} /\ views = {}
  BY <1>1, <1>2
<1>7. Agree(tables, indexes, views, cat, Len(rows))
  BY <1>4, <1>5, <1>6 DEF Agree, Maps, OneEach, StoredTables, StoredIndexes, StoredViews
<1>8. AllSaved(tables, indexes, cat)
  BY <1>6 DEF AllSaved
<1> QED BY <1>3, <1>4, <1>6, <1>7, <1>8 DEF SchemaInv

LEMMA SchemaStep ==
    ASSUME SchemaInv, [Next]_vars, "split" \notin marks'
    PROVE  SchemaInv'
<1>1. ASSUME NEW t \in TableName, NEW d \in Designs, CreateTable(t, d) PROVE SchemaInv'
  BY <1>1, CreateTableEffects
<1>2. ASSUME NEW t \in TableName, DropTable(t) PROVE SchemaInv'
  BY <1>2, DropTableEffects
<1>3. ASSUME NEW t \in TableName, NEW new \in TableName, RenameTable(t, new) PROVE SchemaInv'
  BY <1>3, RenameTableEffects
<1>4. ASSUME NEW t \in TableName, NEW col \in NewColumns, AddColumn(t, col) PROVE SchemaInv'
  BY <1>4, AddColumnEffects
<1>5. ASSUME NEW t \in TableName, NEW old \in ColumnName, NEW new \in ColumnName, RenameColumn(t, old, new)
      PROVE  SchemaInv'
  BY <1>5, RenameColumnEffects
<1>6. ASSUME NEW t \in TableName, NEW column \in ColumnName, DropColumn(t, column) PROVE SchemaInv'
  BY <1>6, DropColumnEffects
<1>7. ASSUME NEW t \in TableName, NEW given \in Inserts, NEW c \in {"ABORT", "IGNORE", "REPLACE"}, Insert(t, given, c)
      PROVE  SchemaInv'
  BY <1>7, InsertEffects
<1>8. ASSUME NEW t \in TableName, NEW id \in (-MaxInt-1)..MaxInt, Delete(t, id) PROVE SchemaInv'
  BY <1>8, DeleteEffects
<1>9. ASSUME NEW t \in TableName, NEW id \in (-MaxInt-1)..MaxInt, NEW given \in Updates, Update(t, id, given)
      PROVE  SchemaInv'
  BY <1>9, UpdateEffects
<1>10. ASSUME NEW i \in IndexName, NEW t \in TableName, NEW column \in ColumnName, CreateIndex(i, t, column)
       PROVE  SchemaInv'
  BY <1>10, CreateIndexEffects
<1>11. ASSUME NEW i \in IndexName, DropIndex(i) PROVE SchemaInv'
  BY <1>11, DropIndexEffects
<1>12. ASSUME NEW v \in ViewName, CreateView(v) \/ DropView(v) PROVE SchemaInv'
  BY <1>12, ViewEffects
<1>13. CASE Reopen
  BY <1>13, ReopenEffects
<1>14. CASE UNCHANGED vars
  BY <1>14 DEF vars, SchemaInv, RowsTyped
<1> QED BY <1>1, <1>2, <1>3, <1>4, <1>5, <1>6, <1>7, <1>8, <1>9, <1>10, <1>11, <1>12, <1>13, <1>14 DEF Next

LEMMA CatalogRead ==
    ASSUME SchemaInv
    PROVE  CatalogLoads /\ TypeOK
<1>1. /\ Agree(tables, indexes, views, cat, Len(rows)) /\ OneLeaf(cat, SchemaRow) /\ RowsTyped
      /\ "unsaved" \notin marks => AllSaved(tables, indexes, cat)
      /\ "outgrown" \notin marks => Whole(cat.pages[1])
      /\ Len(rows) \in Nat
  BY SchemaParts
<1>2. /\ Maps(tables, indexes, views, Len(rows)) /\ StoredTables(tables, cat, Len(rows))
      /\ StoredIndexes(indexes, cat) /\ StoredViews(views, cat)
      /\ DOMAIN Stored(cat) \subseteq TableName \union IndexName \union ViewName
      /\ Used(cat.pages[1]) <= Room
  BY <1>1 DEF Agree
<1>3. TypeOK
  <2>1. Trees = 1..Len(rows) /\ DOMAIN entries = Trees /\ Trees \subseteq Tree
    BY <1>1, TreesAre
  <2>2. \A t \in DOMAIN tables : tables[t].name = t /\ tables[t].tree \in Trees /\ Bounded(tables[t].next)
    BY <1>2, <2>1 DEF Maps, IsTable
  <2>3. \A i \in DOMAIN indexes : indexes[i].tree \in Trees
    BY <1>2, <2>1 DEF Maps
  <2> QED BY <1>2, <2>1, <2>2, <2>3 DEF TypeOK, Maps, Bounded
<1>4. ASSUME "unsaved" \notin marks PROVE Stored(cat) = InMemory
  <2>1. AllSaved(tables, indexes, cat)
    BY <1>1, <1>4
  <2>2. DOMAIN Stored(cat) = DOMAIN tables \union DOMAIN indexes \union views
    <3>1. \A k \in DOMAIN Stored(cat) : k \in DOMAIN tables \union DOMAIN indexes \union views
      BY <1>2 DEF StoredTables, StoredIndexes, StoredViews
    <3>2. \A k \in DOMAIN tables \union DOMAIN indexes \union views : k \in DOMAIN Stored(cat)
      BY <1>2, <2>1 DEF AllSaved, StoredViews, Maps
    <3> QED BY <3>1, <3>2
  <2>3. ASSUME NEW k \in DOMAIN Stored(cat) PROVE Stored(cat)[k] = InMemory[k]
    <3>1. CASE k \in DOMAIN tables
      BY <2>1, <2>2, <3>1 DEF AllSaved, InMemory
    <3>2. CASE k \in DOMAIN indexes
      <4>1. k \notin DOMAIN tables /\ k \in IndexName
        BY <1>2, <3>2, TablesAssumption DEF Maps
      <4>2. Stored(cat)[k] = indexes[k]
        BY <1>2, <4>1, <2>3 DEF StoredIndexes
      <4> QED BY <2>2, <3>2, <4>1, <4>2 DEF InMemory
    <3>3. CASE k \in views
      <4>1. k \notin DOMAIN tables /\ k \notin DOMAIN indexes /\ k \in ViewName
        BY <1>2, <3>3, TablesAssumption DEF Maps
      <4>2. Stored(cat)[k] = k
        BY <1>2, <3>3, <4>1 DEF StoredViews
      <4> QED BY <2>2, <3>3, <4>1, <4>2 DEF InMemory
    <3> QED BY <2>2, <3>1, <3>2, <3>3
  <2>4. /\ Stored(cat) = [k \in DOMAIN Stored(cat) |-> Stored(cat)[k]]
        /\ InMemory = [k \in DOMAIN InMemory |-> InMemory[k]]
        /\ DOMAIN InMemory = DOMAIN tables \union DOMAIN indexes \union views
    BY DEF Stored, InMemory
  <2> QED BY <2>2, <2>3, <2>4, Zenon
<1>5. ASSUME "outgrown" \notin marks PROVE Readable(cat)
  BY <1>1, <1>5 DEF Whole, Readable
<1> QED BY <1>3, <1>4, <1>5 DEF CatalogLoads

-----------------------------------------------------------------------------
(* The counter is ahead of every row.                                      *)
IsAhead(ts, R) == \A id \in Keys(R[ts.tree]) : id < ts.next

(* Whatever is known of a table after the step was so before, and the rows *)
(* are fewer, or it is ahead anyway.                                       *)
LEMMA CounterStays ==
    ASSUME CounterInv, marks \subseteq marks',
           "wrapped" \notin marks' => \A x \in DOMAIN tables' : \A us \in Known(x)' :
               \/ IsAhead(us, rows')
               \/ x \in DOMAIN tables /\ us \in Known(x) /\ Keys(rows'[us.tree]) \subseteq Keys(rows[us.tree])
    PROVE  CounterInv'
BY DEF CounterInv, IsAhead

(* Trees of different tables are different.                                *)
LEMMA TreesDiffer ==
    ASSUME SchemaInv, NEW t \in DOMAIN tables, NEW ts \in Known(t)
    PROVE  /\ ts.tree = tables[t].tree /\ ts.tree \in Trees /\ Trees = 1..Len(rows)
           /\ \A x \in DOMAIN tables \ {t} : \A us \in Known(x) : us.tree # ts.tree
<1>1. OneEach(tables) /\ RowsTyped
  BY DEF SchemaInv, Agree, Maps
<1>2. \A x \in DOMAIN tables : \A us \in Known(x) : us.tree = tables[x].tree /\ us.tree \in 1..Len(rows)
  BY KnownTables DEF IsTable
<1>3. Trees = 1..Len(rows)
  BY <1>1, TreesAre
<1> QED BY <1>1, <1>2, <1>3 DEF OneEach

(* Steps after which nothing new is known.                                 *)
LEMMA CounterKeeps ==
    ASSUME SchemaInv, CounterInv, Keeps, marks \subseteq marks',
           \A e \in Trees : Keys(rows'[e]) \subseteq Keys(rows[e])
    PROVE  CounterInv'
<1>1. \A x \in DOMAIN tables' : \A us \in Known(x)' : x \in DOMAIN tables /\ us \in Known(x)
  BY DEF Keeps
<1>2. \A x \in DOMAIN tables : \A us \in Known(x) : us.tree \in Trees
  BY TreesDiffer
<1> QED BY <1>1, <1>2, CounterStays

(* Steps that store a table, its rows being the same, or none yet.         *)
LEMMA CounterChanges ==
    ASSUME SchemaInv, CounterInv, NEW t, NEW ts, Changes(t, ts), marks \subseteq marks',
           \A e \in Trees : rows'[e] = rows[e],
           "wrapped" \notin marks' => IsAhead(ts, rows')
    PROVE  CounterInv'
<1>1. \A x \in DOMAIN tables' : \A us \in Known(x)' : us = ts \/ (x \in DOMAIN tables /\ us \in Known(x))
  BY DEF Changes
<1>2. \A x \in DOMAIN tables : \A us \in Known(x) : us.tree \in Trees
  BY TreesDiffer
<1> QED BY <1>1, <1>2, CounterStays

LEMMA AheadAlready ==
    ASSUME SchemaInv, CounterInv, "wrapped" \notin marks', marks \subseteq marks',
           NEW t \in DOMAIN tables, NEW ts, ts.tree = tables[t].tree, ts.next = tables[t].next,
           \A e \in Trees : rows'[e] = rows[e]
    PROVE  IsAhead(ts, rows')
<1>1. tables[t] \in Known(t)
  BY DEF Known
<1>2. \A id \in Keys(rows[ts.tree]) : id < ts.next
  BY <1>1 DEF CounterInv
<1>3. rows'[ts.tree] = rows[ts.tree]
  BY <1>1, TreesDiffer
<1> QED BY <1>2, <1>3 DEF IsAhead

LEMMA CounterStep ==
    ASSUME SchemaInv, CounterInv, [Next]_vars, "split" \notin marks'
    PROVE  CounterInv'
<1>0. marks \subseteq marks' /\ Trees = 1..Len(rows)
  BY MarksGrow, TreesAre DEF SchemaInv
<1>1. ASSUME NEW t \in TableName, NEW d \in Designs, CreateTable(t, d) PROVE CounterInv'
  <2> DEFINE ts == [name |-> t, cols |-> d, tree |-> NewTree, names |-> << >>, noNames |-> TRUE, next |-> 1]
  <2>1. Changes(t, ts) /\ rows'[ts.tree] = << >> /\ \A e \in Trees : rows'[e] = rows[e]
    BY <1>0, <1>1, CreateTableEffects
  <2>2. Keys(<< >>) = {}
    BY DEF Keys
  <2> HIDE DEF ts
  <2>3. IsAhead(ts, rows')
    BY <2>1, <2>2 DEF IsAhead
  <2> QED BY <1>0, <2>1, <2>3, CounterChanges
<1>2. ASSUME NEW t \in TableName, DropTable(t) PROVE CounterInv'
  <2>1. Keeps /\ rows' = rows
    BY <1>2, DropTableEffects DEF DropTable
  <2> QED BY <1>0, <2>1, CounterKeeps
<1>3. ASSUME NEW t \in TableName, NEW new \in TableName, RenameTable(t, new) PROVE CounterInv'
  <2> DEFINE ts == [tables[t] EXCEPT !.name = new]
  <2>1. Changes(new, ts) /\ t \in DOMAIN tables /\ ts \in SchemaOf /\ rows' = rows
    BY <1>3, RenameTableEffects DEF RenameTable
  <2>2. ts.tree = tables[t].tree /\ ts.next = tables[t].next
    BY <2>1, TableParts DEF SchemaOf
  <2> HIDE DEF ts
  <2>3. "wrapped" \notin marks' => IsAhead(ts, rows')
    BY <1>0, <2>1, <2>2, AheadAlready
  <2> QED BY <1>0, <2>1, <2>3, CounterChanges
<1>4. ASSUME NEW t \in TableName, NEW col \in NewColumns, AddColumn(t, col) PROVE CounterInv'
  <2> DEFINE ts == [tables[t] EXCEPT !.cols = Append(@, col)]
  <2>1. Changes(t, ts) /\ t \in DOMAIN tables /\ rows' = rows
        /\ ts.tree = tables[t].tree /\ ts.next = tables[t].next
    BY <1>4, AddColumnEffects
  <2> HIDE DEF ts
  <2>3. "wrapped" \notin marks' => IsAhead(ts, rows')
    BY <1>0, <2>1, AheadAlready
  <2> QED BY <1>0, <2>1, <2>3, CounterChanges
<1>5. ASSUME NEW t \in TableName, NEW old \in ColumnName, NEW new \in ColumnName, RenameColumn(t, old, new)
      PROVE  CounterInv'
  <2> DEFINE ts == tables'[t]
  <2>1. Changes(t, ts) /\ t \in DOMAIN tables /\ rows' = rows
        /\ ts.tree = tables[t].tree /\ ts.next = tables[t].next
    BY <1>5, RenameColumnEffects
  <2> HIDE DEF ts
  <2>3. "wrapped" \notin marks' => \A id \in Keys(rows'[ts.tree]) : id < ts.next
    <3>1. tables[t] \in Known(t) /\ rows'[ts.tree] = rows[tables[t].tree]
      BY <2>1 DEF Known
    <3> QED BY <1>0, <2>1, <3>1 DEF CounterInv
  <2>4. ASSUME NEW x \in DOMAIN tables', NEW us \in Known(x)'
        PROVE  us = ts \/ (x \in DOMAIN tables /\ us \in Known(x))
    BY <2>1 DEF Changes
  <2> QED BY <1>0, <2>1, <2>3, <2>4 DEF CounterInv
<1>6. ASSUME NEW t \in TableName, NEW column \in ColumnName, DropColumn(t, column) PROVE CounterInv'
  <2> DEFINE ts == [tables[t] EXCEPT !.cols = RemoveAt(@, ColumnIndex(tables[t], column))]
  <2>1. Changes(t, ts) /\ t \in DOMAIN tables /\ rows' = rows
        /\ ts.tree = tables[t].tree /\ ts.next = tables[t].next
    BY <1>6, DropColumnEffects
  <2> HIDE DEF ts
  <2>3. "wrapped" \notin marks' => IsAhead(ts, rows')
    BY <1>0, <2>1, AheadAlready
  <2> QED BY <1>0, <2>1, <2>3, CounterChanges
<1>7. ASSUME NEW t \in TableName, NEW given \in Inserts, NEW c \in {"ABORT", "IGNORE", "REPLACE"}, Insert(t, given, c)
      PROVE  CounterInv'
  <2> DEFINE ts  == tables[t]
             id  == NewId(ts, given)
             ts1 == Counted(ts, given)
  <2>1. /\ t \in DOMAIN tables /\ Changes(t, ts1)
        /\ id \in Int /\ Bounded(id) /\ ("wrapped" \notin marks' => id # MaxInt)
        /\ \/ rows' = rows
           \/ /\ Known(t)' = {ts1}
              /\ Keys(rows'[ts.tree]) \subseteq Keys(rows[ts.tree]) \union {id}
              /\ \A e \in Trees \ {ts.tree} : rows'[e] = rows[e]
    BY <1>7, InsertEffects DEF RowSet
  <2>2. ts \in SchemaOf /\ Bounded(ts.next) /\ ts \in Known(t) /\ Keys(rows[ts.tree]) \subseteq Int /\ ts.next \in Int
    BY <2>1, TableParts DEF Known, SchemaOf
  <2>3. ts1.tree = ts.tree /\ ts1.next = NextAfter(ts, id)
    BY <2>2 DEF Counted, SchemaOf
  <2>4. id # MaxInt => id < ts1.next /\ ts.next <= ts1.next
    BY <2>1, <2>2, <2>3, WrapsAround
  <2>5. NextAfter(ts, id) \in Int
    BY <2>1, <2>2, WrapsAround
  <2> HIDE DEF ts, id, ts1
  <2>6. "wrapped" \notin marks' => \A x \in Keys(rows[ts.tree]) : x < ts.next
    BY <1>0, <2>1, <2>2 DEF CounterInv
  <2>7. "wrapped" \notin marks' => \A x \in Keys(rows[ts.tree]) \union {id} : x < ts1.next
    BY <2>1, <2>2, <2>3, <2>4, <2>5, <2>6
  <2>8. CASE rows' = rows
    <3>1. "wrapped" \notin marks' => IsAhead(ts1, rows')
      BY <2>3, <2>7, <2>8 DEF IsAhead
    <3> QED BY <1>0, <2>1, <2>8, <3>1, CounterChanges
  <2>9. CASE /\ Known(t)' = {ts1}
             /\ Keys(rows'[ts.tree]) \subseteq Keys(rows[ts.tree]) \union {id}
             /\ \A e \in Trees \ {ts.tree} : rows'[e] = rows[e]
    <3>1. "wrapped" \notin marks' => IsAhead(ts1, rows')
      BY <2>3, <2>7, <2>9 DEF IsAhead
    <3>2. ASSUME NEW x \in DOMAIN tables', NEW us \in Known(x)', x # t
          PROVE  x \in DOMAIN tables /\ us \in Known(x) /\ rows'[us.tree] = rows[us.tree]
      <4>1. x \in DOMAIN tables /\ us \in Known(x)
        BY <2>1, <3>2 DEF Changes
      <4>2. us.tree # ts.tree /\ us.tree \in Trees
        BY <2>1, <2>2, <3>2, <4>1, TreesDiffer
      <4> QED BY <2>9, <4>1, <4>2
    <3>3. \A us \in Known(t)' : us = ts1
      BY <2>9
    <3> QED BY <1>0, <3>1, <3>2, <3>3, CounterStays
  <2> QED BY <2>1, <2>8, <2>9
<1>8. ASSUME NEW t \in TableName, NEW id \in (-MaxInt-1)..MaxInt, Delete(t, id) PROVE CounterInv'
  <2>1. Keeps /\ \A e \in Trees : Keys(rows'[e]) \subseteq Keys(rows[e])
    BY <1>8, DeleteEffects
  <2> QED BY <1>0, <2>1, CounterKeeps
<1>9. ASSUME NEW t \in TableName, NEW id \in (-MaxInt-1)..MaxInt, NEW given \in Updates, Update(t, id, given)
      PROVE  CounterInv'
  <2>1. Keeps /\ \A e \in Trees : Keys(rows'[e]) \subseteq Keys(rows[e])
    BY <1>9, UpdateEffects
  <2> QED BY <1>0, <2>1, CounterKeeps
<1>10. ASSUME NEW i \in IndexName, NEW t \in TableName, NEW column \in ColumnName, CreateIndex(i, t, column)
       PROVE  CounterInv'
  <2> DEFINE ts == [tables[t] EXCEPT !.names = Append(@, i), !.noNames = FALSE]
  <2>1. Changes(t, ts) /\ t \in DOMAIN tables /\ \A e \in Trees : rows'[e] = rows[e]
    BY <1>0, <1>10, CreateIndexEffects
  <2>2. ts.tree = tables[t].tree /\ ts.next = tables[t].next
    BY <2>1, TableParts DEF SchemaOf
  <2> HIDE DEF ts
  <2>3. "wrapped" \notin marks' => IsAhead(ts, rows')
    BY <1>0, <2>1, <2>2, AheadAlready
  <2> QED BY <1>0, <2>1, <2>3, CounterChanges
<1>11. ASSUME NEW i \in IndexName, DropIndex(i) PROVE CounterInv'
  <2> SUFFICES ASSUME NEW t, t = indexes[i].table PROVE CounterInv'
    OBVIOUS
  <2> DEFINE ts == [tables[t] EXCEPT !.names = Others(@, i), !.noNames = FALSE]
  <2>1. rows' = rows /\ (Keeps \/ (t \in DOMAIN tables /\ ts \in SchemaOf /\ Changes(t, ts)))
    BY <1>11, DropIndexEffects DEF DropIndex
  <2>2. CASE Keeps
    BY <1>0, <2>1, <2>2, CounterKeeps
  <2>3. CASE t \in DOMAIN tables /\ ts \in SchemaOf /\ Changes(t, ts)
    <3>1. ts.tree = tables[t].tree /\ ts.next = tables[t].next
      BY <2>3, TableParts DEF SchemaOf
    <3> HIDE DEF ts
    <3>2. "wrapped" \notin marks' => IsAhead(ts, rows')
      BY <1>0, <2>1, <2>3, <3>1, AheadAlready
    <3> QED BY <1>0, <2>1, <2>3, <3>2, CounterChanges
  <2> QED BY <2>1, <2>2, <2>3
<1>12. ASSUME NEW v \in ViewName, CreateView(v) \/ DropView(v) PROVE CounterInv'
  <2>1. Keeps /\ rows' = rows
    BY <1>12, ViewEffects DEF CreateView, DropView
  <2> QED BY <1>0, <2>1, CounterKeeps
<1>13. CASE Reopen
  <2>1. Keeps /\ rows' = rows
    BY <1>13, ReopenEffects DEF Reopen
  <2> QED BY <1>0, <2>1, CounterKeeps
<1>14. CASE UNCHANGED vars
  BY <1>14 DEF vars, CounterInv, Known
<1> QED BY <1>1, <1>2, <1>3, <1>4, <1>5, <1>6, <1>7, <1>8, <1>9, <1>10, <1>11, <1>12, <1>13, <1>14 DEF Next

LEMMA CounterRead ==
    ASSUME SchemaInv, CounterInv
    PROVE  CounterAhead
<1>1. ASSUME NEW t \in DOMAIN Stored(cat) \intersect TableName PROVE t \in DOMAIN tables
  BY <1>1 DEF SchemaInv, Agree, StoredTables
<1> QED BY <1>1 DEF CounterInv, CounterAhead, Known

-----------------------------------------------------------------------------
(* The primary key column holds the key of the row.                        *)
Fewer(new, pg) == Keys(new) \subseteq Keys(pg) /\ \A x \in Keys(new) : ValueAt(new, x) = ValueAt(pg, x)

LEMMA KeyMarks ==
    ASSUME marks \subseteq marks'
    PROVE  /\ KeyKept' => KeyKept
           /\ KeysHeld' => KeysHeld
           /\ KeysHeld => KeyKept
           /\ KeysHeld' => KeyKept'
           /\ "keyed" \in marks' => ~KeysHeld'
           /\ "keyed late" \in marks' => ~KeyKept'
           /\ "dropped" \in marks' => ~KeyKept'
BY DEF KeyKept, KeysHeld

LEMMA KeyKeeps ==
    ASSUME SchemaInv, KeyInv, Keeps, marks \subseteq marks', \A e \in Trees : Fewer(rows'[e], rows[e])
    PROVE  KeyInv'
<1>1. \A x \in DOMAIN tables' : \A us \in Known(x)' : x \in DOMAIN tables /\ us \in Known(x)
  BY DEF Keeps
<1>2. \A x \in DOMAIN tables : \A us \in Known(x) : us.tree \in Trees
  BY TreesDiffer
<1>3. ASSUME NEW x \in DOMAIN tables', NEW us \in Known(x)', HoldsKeys(us, rows[us.tree])
      PROVE  HoldsKeys(us, rows'[us.tree])
  <2>1. Fewer(rows'[us.tree], rows[us.tree])
    BY <1>1, <1>2
  <2> QED BY <1>3, <2>1 DEF Fewer, HoldsKeys
<1>4. ASSUME NEW x \in DOMAIN tables', RowKeys(x)' # {} PROVE x \in DOMAIN tables /\ RowKeys(x) # {}
  <2>1. x \in DOMAIN tables /\ tables'[x] \in Known(x)
    BY <1>1, <1>4 DEF Known
  <2>2. tables'[x].tree = tables[x].tree /\ tables[x].tree \in Trees
    BY <2>1, TreesDiffer
  <2>3. Fewer(rows'[tables[x].tree], rows[tables[x].tree])
    BY <2>2
  <2> QED BY <1>4, <2>1, <2>2, <2>3 DEF Fewer, RowKeys
<1> QED BY <1>1, <1>3, <1>4, KeyMarks DEF KeyInv

LEMMA KeyChanges ==
    ASSUME SchemaInv, KeyInv, NEW t, NEW ts, Changes(t, ts), marks \subseteq marks',
           \A e \in Trees : rows'[e] = rows[e],
           t \in DOMAIN tables => ts.tree = tables[t].tree,
           t \in DOMAIN tables /\ KeyKept' /\ RowKeys(t) # {} =>
               PrimaryKeyColumn(ts) = PrimaryKeyColumn(tables[t]),
           t \notin DOMAIN tables /\ KeysHeld' => HoldsKeys(ts, rows'[ts.tree])
    PROVE  KeyInv'
<1>1. \A x \in DOMAIN tables' : \A us \in Known(x)' : (x = t /\ us = ts) \/ (x \in DOMAIN tables /\ us \in Known(x))
  BY DEF Changes
<1>2. \A x \in DOMAIN tables : tables[x] \in Known(x) /\ \A us \in Known(x) : us.tree \in Trees
  BY TreesDiffer DEF Known
<1>5. \A e \in Trees : rows'[e] = rows[e]
  OBVIOUS
<1>0. ASSUME NEW x \in DOMAIN tables', x \in DOMAIN tables PROVE RowKeys(x)' = RowKeys(x)
  <2>1. tables'[x] \in Known(x)'
    BY DEF Known
  <2>2. tables'[x].tree = tables[x].tree /\ tables[x].tree \in Trees
    BY <1>0, <1>1, <1>2, <2>1, TreesDiffer
  <2>3. rows'[tables'[x].tree] = rows[tables[x].tree]
    BY <1>5, <2>2
  <2> QED BY <2>3 DEF RowKeys
<1>3. ASSUME KeyKept', NEW x \in DOMAIN tables', RowKeys(x)' # {},
             NEW us \in Known(x)', NEW ws \in Known(x)'
      PROVE  PrimaryKeyColumn(us) = PrimaryKeyColumn(ws)
  <2>0. x \in DOMAIN tables => RowKeys(x) # {}
    BY <1>0, <1>3
  <2>1. \A vs \in Known(x)' : (x = t /\ vs = ts) \/ (x \in DOMAIN tables /\ PrimaryKeyColumn(vs) = PrimaryKeyColumn(tables[x]))
    BY <1>1, <1>2, <1>3, <2>0, KeyMarks DEF KeyInv
  <2>3. CASE x \in DOMAIN tables
    BY <1>3, <2>0, <2>1, <2>3
  <2>4. CASE x \notin DOMAIN tables
    BY <2>1, <2>4
  <2> QED BY <2>3, <2>4
<1>4. ASSUME KeysHeld', NEW x \in DOMAIN tables', NEW us \in Known(x)'
      PROVE  HoldsKeys(us, rows'[us.tree])
  <2>0. KeysHeld /\ KeyKept'
    BY <1>4, KeyMarks
  <2>1. CASE x \in DOMAIN tables /\ us \in Known(x)
    BY <1>2, <2>0, <2>1 DEF KeyInv
  <2>2. CASE x = t /\ us = ts /\ t \in DOMAIN tables
    <3>1. ts.tree = tables[t].tree /\ (RowKeys(t) # {} => PrimaryKeyColumn(ts) = PrimaryKeyColumn(tables[t]))
      BY <2>0, <2>2
    <3>2. HoldsKeys(tables[t], rows[tables[t].tree]) /\ tables[t].tree \in Trees
      BY <1>2, <2>0, <2>2 DEF KeyInv
    <3>3. rows'[ts.tree] = rows[tables[t].tree]
      BY <1>5, <3>1, <3>2
    <3>4. CASE RowKeys(t) = {}
      BY <2>2, <3>3, <3>4 DEF HoldsKeys, RowKeys
    <3>5. CASE RowKeys(t) # {}
      BY <2>2, <3>1, <3>2, <3>3, <3>5 DEF HoldsKeys, HoldsKey
    <3> QED BY <3>4, <3>5
  <2>3. CASE x = t /\ us = ts /\ t \notin DOMAIN tables
    BY <1>4, <2>3
  <2> QED BY <1>1, <2>1, <2>2, <2>3
<1> QED BY <1>3, <1>4 DEF KeyInv

LEMMA SameColumns ==
    ASSUME NEW ts, NEW us, ts.cols = us.cols
    PROVE  PrimaryKeyColumn(ts) = PrimaryKeyColumn(us) /\ \A name : ColumnIndex(ts, name) = ColumnIndex(us, name)
BY DEF PrimaryKeyColumn, ColumnIndex

LEMMA KeyStep ==
    ASSUME SchemaInv, KeyInv, [Next]_vars, "split" \notin marks'
    PROVE  KeyInv'
<1>0. marks \subseteq marks' /\ Trees = 1..Len(rows) /\ \A pg : Fewer(pg, pg)
  BY MarksGrow, TreesAre DEF SchemaInv, Fewer
<1>15. /\ KeyKept' => KeyKept
       /\ KeysHeld' => KeysHeld /\ KeyKept'
       /\ KeysHeld => KeyKept
       /\ "keyed" \in marks' => ~KeysHeld'
       /\ "keyed late" \in marks' => ~KeyKept'
       /\ "dropped" \in marks' => ~KeyKept'
  BY <1>0, KeyMarks
<1>1. ASSUME NEW t \in TableName, NEW d \in Designs, CreateTable(t, d) PROVE KeyInv'
  <2> DEFINE ts == [name |-> t, cols |-> d, tree |-> NewTree, names |-> << >>, noNames |-> TRUE, next |-> 1]
  <2>1. Changes(t, ts) /\ t \notin DOMAIN tables /\ rows'[ts.tree] = << >> /\ \A e \in Trees : rows'[e] = rows[e]
    BY <1>0, <1>1, CreateTableEffects
  <2>2. Keys(<< >>) = {}
    BY DEF Keys
  <2> HIDE DEF ts
  <2>3. HoldsKeys(ts, rows'[ts.tree])
    BY <2>1, <2>2 DEF HoldsKeys
  <2> QED BY <1>0, <2>1, <2>3, KeyChanges
<1>2. ASSUME NEW t \in TableName, DropTable(t) PROVE KeyInv'
  <2>1. Keeps /\ rows' = rows
    BY <1>2, DropTableEffects DEF DropTable
  <2> QED BY <1>0, <2>1, KeyKeeps
<1>3. ASSUME NEW t \in TableName, NEW new \in TableName, RenameTable(t, new) PROVE KeyInv'
  <2> DEFINE ts == [tables[t] EXCEPT !.name = new]
  <2>1. Changes(new, ts) /\ t \in DOMAIN tables /\ new \notin DOMAIN tables /\ rows' = rows
    BY <1>3, RenameTableEffects DEF RenameTable
  <2>2. ts.tree = tables[t].tree /\ ts.cols = tables[t].cols /\ tables[t] \in Known(t)
    BY <2>1, TableParts DEF SchemaOf, Known
  <2> HIDE DEF ts
  <2>3. ASSUME KeysHeld' PROVE HoldsKeys(ts, rows'[ts.tree])
    <3>1. HoldsKeys(tables[t], rows[tables[t].tree])
      BY <1>15, <2>1, <2>2, <2>3 DEF KeyInv
    <3>2. PrimaryKeyColumn(ts) = PrimaryKeyColumn(tables[t])
      BY <2>2, SameColumns
    <3> QED BY <2>1, <2>2, <3>1, <3>2 DEF HoldsKeys, HoldsKey
  <2> QED BY <1>0, <2>1, <2>3, KeyChanges
<1>4. ASSUME NEW t \in TableName, NEW col \in NewColumns, AddColumn(t, col) PROVE KeyInv'
  <2> DEFINE ts == [tables[t] EXCEPT !.cols = Append(@, col)]
  <2>1. /\ Changes(t, ts) /\ t \in DOMAIN tables /\ rows' = rows
        /\ ts.tree = tables[t].tree /\ ts \in SchemaOf
        /\ Len(ts.cols) = Len(tables[t].cols) + 1 /\ ts.cols[Len(tables[t].cols) + 1] = col
        /\ \A i \in DOMAIN tables[t].cols : ts.cols[i] = tables[t].cols[i]
    BY <1>4, AddColumnEffects
  <2>0. KeyedLate(t, col) => "keyed late" \in marks'
    BY <1>4, AddColumnEffects
  <2> HIDE DEF ts
  <2>2. tables[t] \in SchemaOf
    BY <2>1, TableParts
  <2>3. ASSUME ~col.pk \/ PrimaryKeyColumn(tables[t]) # 0
        PROVE  PrimaryKeyColumn(ts) = PrimaryKeyColumn(tables[t])
    <3>1. /\ DOMAIN ts.cols = 1..Len(ts.cols) /\ DOMAIN tables[t].cols = 1..Len(tables[t].cols)
          /\ Len(tables[t].cols) \in Nat
      BY <2>1, <2>2, ColumnParts
    <3>2. PrimaryKeyColumn(tables[t]) # 0 \/ \A i \in DOMAIN ts.cols \ DOMAIN tables[t].cols : ~ts.cols[i].pk
      <4> SUFFICES ASSUME ~col.pk, NEW i \in DOMAIN ts.cols \ DOMAIN tables[t].cols PROVE ~ts.cols[i].pk
        BY <2>3
      <4>1. i = Len(tables[t].cols) + 1
        BY <2>1, <3>1
      <4> QED BY <2>1, <4>1
    <3> QED BY <2>1, <2>2, <3>1, <3>2, SamePrimaryKey
  <2>4. ASSUME KeyKept', RowKeys(t) # {}
        PROVE  PrimaryKeyColumn(ts) = PrimaryKeyColumn(tables[t])
    <3>1. ~col.pk \/ PrimaryKeyColumn(tables[t]) # 0
      BY <1>15, <2>0, <2>4 DEF KeyedLate, RowKeys
    <3> QED BY <2>3, <3>1
  <2> QED BY <1>0, <2>1, <2>4, KeyChanges
<1>5. ASSUME NEW t \in TableName, NEW old \in ColumnName, NEW new \in ColumnName, RenameColumn(t, old, new)
      PROVE  KeyInv'
  <2> SUFFICES ASSUME NEW ts, ts = tables'[t] PROVE KeyInv'
    OBVIOUS
  <2>1. /\ Changes(t, ts) /\ t \in DOMAIN tables /\ rows' = rows
        /\ ts.tree = tables[t].tree /\ ts \in SchemaOf
        /\ Len(ts.cols) = Len(tables[t].cols)
        /\ \A i \in DOMAIN tables[t].cols : ts.cols[i].pk = tables[t].cols[i].pk
    BY <1>5, RenameColumnEffects
  <2>2. tables[t] \in SchemaOf
    BY <2>1, TableParts
  <2>3. PrimaryKeyColumn(ts) = PrimaryKeyColumn(tables[t])
    BY <2>1, <2>2, SamePrimaryKey, ColumnParts
  <2> QED BY <1>0, <2>1, <2>3, KeyChanges
<1>6. ASSUME NEW t \in TableName, NEW column \in ColumnName, DropColumn(t, column) PROVE KeyInv'
  BY <1>6, <1>15, DropColumnEffects DEF KeyInv
<1>7. ASSUME NEW t \in TableName, NEW given \in Inserts, NEW c \in {"ABORT", "IGNORE", "REPLACE"}, Insert(t, given, c)
      PROVE  KeyInv'
  <2> DEFINE ts  == tables[t]
             id  == NewId(ts, given)
             row == InsertedRow(ts, given)
             ts1 == Counted(ts, given)
  <2>1. /\ t \in DOMAIN tables /\ Changes(t, ts1) /\ HoldsKey(ts, row, id)
        /\ \/ rows' = rows
           \/ /\ Known(t)' = {ts1}
              /\ RowSet(rows'[ts.tree], rows[ts.tree], id, row)
              /\ \A e \in Trees \ {ts.tree} : rows'[e] = rows[e]
    BY <1>7, InsertEffects
  <2>2. ts \in SchemaOf /\ ts \in Known(t)
    BY <2>1, TableParts DEF Known
  <2>3. ts1.tree = ts.tree /\ ts1.cols = ts.cols
    BY <2>2 DEF Counted, SchemaOf
  <2> HIDE DEF ts, id, ts1, row
  <2>4. PrimaryKeyColumn(ts1) = PrimaryKeyColumn(ts)
    BY <2>3, SameColumns
  <2>8. CASE rows' = rows
    BY <1>0, <2>1, <2>3, <2>4, <2>8, KeyChanges DEF ts
  <2>9. CASE /\ Known(t)' = {ts1}
             /\ RowSet(rows'[ts.tree], rows[ts.tree], id, row)
             /\ \A e \in Trees \ {ts.tree} : rows'[e] = rows[e]
    <3>1. ASSUME NEW x \in DOMAIN tables', x # t, NEW us \in Known(x)'
          PROVE  x \in DOMAIN tables /\ us \in Known(x) /\ rows'[us.tree] = rows[us.tree]
      <4>1. x \in DOMAIN tables /\ us \in Known(x)
        BY <2>1, <3>1 DEF Changes
      <4>2. us.tree # ts.tree /\ us.tree \in Trees
        BY <2>1, <2>2, <3>1, <4>1, TreesDiffer
      <4> QED BY <2>9, <4>1, <4>2
    <3>2. ASSUME KeysHeld' PROVE HoldsKeys(ts1, rows'[ts1.tree])
      <4>1. HoldsKeys(ts, rows[ts.tree])
        BY <1>15, <2>1, <2>2, <3>2 DEF KeyInv
      <4> QED BY <2>1, <2>3, <2>4, <2>9, <4>1 DEF HoldsKeys, HoldsKey, RowSet
    <3>3. \A us \in Known(t)' : us = ts1
      BY <2>9
    <3>4. ASSUME KeyKept', NEW x \in DOMAIN tables', RowKeys(x)' # {},
                 NEW us \in Known(x)', NEW ws \in Known(x)'
          PROVE  PrimaryKeyColumn(us) = PrimaryKeyColumn(ws)
      <4>1. CASE x = t
        BY <3>3, <3>4, <4>1
      <4>2. CASE x # t
        <5>1. x \in DOMAIN tables /\ us \in Known(x) /\ ws \in Known(x)
          BY <3>1, <3>4, <4>2
        <5>2. tables'[x] \in Known(x)'
          BY DEF Known
        <5>3. tables'[x].tree = tables[x].tree /\ rows'[tables[x].tree] = rows[tables[x].tree]
          BY <3>1, <3>4, <4>2, <5>1, <5>2, TreesDiffer
        <5>4. RowKeys(x) # {}
          BY <3>4, <5>3 DEF RowKeys
        <5> QED BY <1>15, <3>4, <5>1, <5>4 DEF KeyInv
      <4> QED BY <4>1, <4>2
    <3>5. ASSUME KeysHeld', NEW x \in DOMAIN tables', NEW us \in Known(x)'
          PROVE  HoldsKeys(us, rows'[us.tree])
      BY <1>15, <3>1, <3>2, <3>3, <3>5 DEF KeyInv
    <3> QED BY <3>4, <3>5 DEF KeyInv
  <2> QED BY <2>1, <2>8, <2>9
<1>8. ASSUME NEW t \in TableName, NEW id \in (-MaxInt-1)..MaxInt, Delete(t, id) PROVE KeyInv'
  <2>1. Keeps /\ \A e \in Trees : Fewer(rows'[e], rows[e])
    BY <1>0, <1>8, DeleteEffects DEF Fewer
  <2> QED BY <1>0, <2>1, KeyKeeps
<1>9. ASSUME NEW t \in TableName, NEW id \in (-MaxInt-1)..MaxInt, NEW given \in Updates, Update(t, id, given)
      PROVE  KeyInv'
  <2> DEFINE ts  == tables[t]
             old == Extended(RowAt(t, id), ts)
             new == UpdatedRow(ts, old, given)
  <2>1. /\ t \in DOMAIN tables /\ Keeps /\ id \in Keys(rows[ts.tree]) /\ RowAt(t, id) \in Row /\ old \in Row
        /\ RowAt(t, id) = ValueAt(rows[ts.tree], id)
        /\ "keyed" \in marks' \/ \A i \in DOMAIN ts.cols : ts.cols[i].pk => ts.cols[i].name \notin DOMAIN given
        /\ \A e \in Trees \ {ts.tree} : rows'[e] = rows[e]
        /\ \/ rows' = rows
           \/ /\ RowSet(rows'[ts.tree], rows[ts.tree], id, new)
              /\ Keys(rows'[ts.tree]) \subseteq Keys(rows[ts.tree])
    BY <1>9, UpdateEffects DEF RowKeys, RowAt
  <2>2. ts \in SchemaOf /\ ts \in Known(t) /\ ts.tree \in Trees
    BY <2>1, TableParts DEF Known
  <2> HIDE DEF ts
  <2>3. \A x \in DOMAIN tables' : \A us \in Known(x)' : x \in DOMAIN tables /\ us \in Known(x)
    BY <2>1 DEF Keeps
  <2>4. ASSUME KeysHeld', HoldsKey(ts, RowAt(t, id), id) PROVE HoldsKey(ts, new, id)
    <3> DEFINE pk == PrimaryKeyColumn(ts)
    <3>1. SUFFICES ASSUME pk # 0 PROVE pk \in DOMAIN new /\ new[pk] = IntV(id)
      BY DEF HoldsKey
    <3>2. pk \in DOMAIN ts.cols /\ ts.cols[pk].pk
      BY <2>2, <3>1, PrimaryKeyFound
    <3>3. pk \in DOMAIN RowAt(t, id) /\ RowAt(t, id)[pk] = IntV(id)
      BY <2>4, <3>1 DEF HoldsKey
    <3>4. pk \in DOMAIN old /\ old[pk] = IntV(id)
      <4> HIDE DEF pk
      <4>1. old[pk] = RowAt(t, id)[pk]
        BY <2>1, <2>2, <3>3, ExtendedProperties
      <4>2. DOMAIN old = DOMAIN RowAt(t, id) \union DOMAIN ts.cols
        BY DEF Extended
      <4> QED BY <3>3, <4>1, <4>2
    <3>5. DOMAIN new = DOMAIN old /\ new[pk] = old[pk]
      <4> HIDE DEF pk, old
      <4>1. DOMAIN new = DOMAIN old
        BY DEF UpdatedRow
      <4>2. ts.cols[pk].name \notin DOMAIN given
        BY <1>15, <2>1, <2>4, <3>2
      <4> QED BY <2>1, <2>2, <3>4, <4>1, <4>2, UpdatedRowProperties
    <3> QED BY <3>4, <3>5
  <2> HIDE DEF new, old
  <2>5. ASSUME KeysHeld', NEW x \in DOMAIN tables', NEW us \in Known(x)'
        PROVE  HoldsKeys(us, rows'[us.tree])
    <3>0. KeysHeld /\ KeyKept
      BY <1>15, <2>5
    <3>1. x \in DOMAIN tables /\ us \in Known(x) /\ HoldsKeys(us, rows[us.tree])
      BY <2>3, <2>5, <3>0 DEF KeyInv
    <3>2. CASE x # t
      <4>1. us.tree # ts.tree /\ us.tree \in Trees
        BY <2>1, <2>2, <3>1, <3>2, TreesDiffer
      <4> QED BY <2>1, <3>1, <4>1
    <3>3. CASE x = t
      <4>0. RowKeys(t) # {}
        BY <2>1 DEF RowKeys, ts
      <4>1. PrimaryKeyColumn(us) = PrimaryKeyColumn(ts) /\ us.tree = ts.tree
        BY <2>1, <2>2, <3>0, <3>1, <3>3, <4>0, TreesDiffer DEF KeyInv, ts
      <4>2. HoldsKey(ts, RowAt(t, id), id)
        BY <2>1, <3>1, <4>1 DEF HoldsKeys, HoldsKey
      <4>3. HoldsKey(us, new, id)
        BY <2>4, <2>5, <4>1, <4>2 DEF HoldsKey
      <4> QED BY <2>1, <3>1, <4>1, <4>3 DEF HoldsKeys, RowSet
    <3> QED BY <3>2, <3>3
  <2>6. ASSUME KeyKept', NEW x \in DOMAIN tables', RowKeys(x)' # {},
               NEW us \in Known(x)', NEW ws \in Known(x)'
        PROVE  PrimaryKeyColumn(us) = PrimaryKeyColumn(ws)
    <3>1. x \in DOMAIN tables /\ us \in Known(x) /\ ws \in Known(x) /\ tables'[x] \in Known(x)
      BY <2>3, <2>6 DEF Known
    <3>2. tables'[x].tree = tables[x].tree /\ tables[x] \in Known(x)
      BY <3>1, TreesDiffer DEF Known
    <3>3. CASE x = t
      BY <1>15, <2>1, <2>6, <3>1, <3>3 DEF KeyInv, RowKeys, ts
    <3>4. CASE x # t
      <4>1. tables[x].tree # ts.tree /\ tables[x].tree \in Trees
        BY <2>1, <2>2, <3>1, <3>2, <3>4, TreesDiffer
      <4>2. RowKeys(x) # {}
        BY <2>1, <2>6, <3>2, <4>1 DEF RowKeys
      <4> QED BY <1>15, <2>6, <3>1, <4>2 DEF KeyInv
    <3> QED BY <3>3, <3>4
  <2> QED BY <2>5, <2>6 DEF KeyInv
<1>10. ASSUME NEW i \in IndexName, NEW t \in TableName, NEW column \in ColumnName, CreateIndex(i, t, column)
       PROVE  KeyInv'
  <2> DEFINE ts == [tables[t] EXCEPT !.names = Append(@, i), !.noNames = FALSE]
  <2>1. Changes(t, ts) /\ t \in DOMAIN tables /\ \A e \in Trees : rows'[e] = rows[e]
    BY <1>0, <1>10, CreateIndexEffects
  <2>2. ts.tree = tables[t].tree /\ ts.cols = tables[t].cols
    BY <2>1, TableParts DEF SchemaOf
  <2> HIDE DEF ts
  <2>3. PrimaryKeyColumn(ts) = PrimaryKeyColumn(tables[t])
    BY <2>2, SameColumns
  <2> QED BY <1>0, <2>1, <2>2, <2>3, KeyChanges
<1>11. ASSUME NEW i \in IndexName, DropIndex(i) PROVE KeyInv'
  <2> SUFFICES ASSUME NEW t, t = indexes[i].table PROVE KeyInv'
    OBVIOUS
  <2> DEFINE ts == [tables[t] EXCEPT !.names = Others(@, i), !.noNames = FALSE]
  <2>1. rows' = rows /\ (Keeps \/ (t \in DOMAIN tables /\ ts \in SchemaOf /\ Changes(t, ts)))
    BY <1>11, DropIndexEffects DEF DropIndex
  <2>2. CASE Keeps
    BY <1>0, <2>1, <2>2, KeyKeeps
  <2>3. CASE t \in DOMAIN tables /\ ts \in SchemaOf /\ Changes(t, ts)
    <3>1. ts.tree = tables[t].tree /\ ts.cols = tables[t].cols
      BY <2>3, TableParts DEF SchemaOf
    <3> HIDE DEF ts
    <3>2. PrimaryKeyColumn(ts) = PrimaryKeyColumn(tables[t])
      BY <3>1, SameColumns
    <3> QED BY <1>0, <2>1, <2>3, <3>1, <3>2, KeyChanges
  <2> QED BY <2>1, <2>2, <2>3
<1>12. ASSUME NEW v \in ViewName, CreateView(v) \/ DropView(v) PROVE KeyInv'
  <2>1. Keeps /\ rows' = rows
    BY <1>12, ViewEffects DEF CreateView, DropView
  <2> QED BY <1>0, <2>1, KeyKeeps
<1>13. CASE Reopen
  <2>1. Keeps /\ rows' = rows
    BY <1>13, ReopenEffects DEF Reopen
  <2> QED BY <1>0, <2>1, KeyKeeps
<1>14. CASE UNCHANGED vars
  <2>1. Keeps /\ rows' = rows
    BY <1>14 DEF vars, Keeps, Known
  <2> QED BY <1>0, <2>1, KeyKeeps
<1> QED BY <1>1, <1>2, <1>3, <1>4, <1>5, <1>6, <1>7, <1>8, <1>9, <1>10, <1>11, <1>12, <1>13, <1>14 DEF Next

LEMMA KeyRead ==
    ASSUME SchemaInv, KeyInv
    PROVE  PkIsRowid
BY DEF KeyInv, KeysHeld, PkIsRowid, HoldsKeys, HoldsKey, Known

-----------------------------------------------------------------------------
(* No row lacks a value that its table demands.                            *)
Untouched(x) ==
    /\ x \in DOMAIN tables /\ tables'[x] = tables[x]
    /\ Fewer(rows'[tables[x].tree], rows[tables[x].tree])

LEMMA NullStays ==
    ASSUME NullInv, marks \subseteq marks',
           marks' \intersect {"dropped", "unsaved"} = {} => \A x \in DOMAIN tables' :
               \/ Untouched(x)
               \/ \A id \in Keys(rows'[tables'[x].tree]) : NoNulls(tables'[x], ValueAt(rows'[tables'[x].tree], id))
    PROVE  NullInv'
<1> SUFFICES ASSUME marks' \intersect {"dropped", "unsaved"} = {}, NEW x \in DOMAIN tables',
                    NEW id \in Keys(rows'[tables'[x].tree])
             PROVE  NoNulls(tables'[x], ValueAt(rows'[tables'[x].tree], id))
  BY DEF NullInv, RowKeys, RowAt
<1>1. CASE Untouched(x)
  <2>1. /\ x \in DOMAIN tables /\ tables'[x] = tables[x] /\ id \in Keys(rows[tables[x].tree])
        /\ ValueAt(rows'[tables[x].tree], id) = ValueAt(rows[tables[x].tree], id)
    BY <1>1 DEF Untouched, Fewer
  <2>2. marks \intersect {"dropped", "unsaved"} = {}
    OBVIOUS
  <2> QED BY <2>1, <2>2 DEF NullInv, RowKeys, RowAt
<1> QED BY <1>1

(* The columns of us are those of ts and perhaps later ones.               *)
Extends(us, ts) ==
    /\ Len(ts.cols) <= Len(us.cols)
    /\ \A i \in DOMAIN ts.cols : /\ us.cols[i].pk = ts.cols[i].pk /\ us.cols[i].notNull = ts.cols[i].notNull
                                 /\ us.cols[i].def = ts.cols[i].def
    /\ \A i \in DOMAIN us.cols \ DOMAIN ts.cols :
          us.cols[i].notNull => DefaultOf(us.cols[i]).type # "null"

LEMMA GuardedAlike ==
    ASSUME NEW ts \in SchemaOf, NEW us \in SchemaOf, Extends(us, ts), NEW i \in DOMAIN ts.cols, Guarded(us, i)
    PROVE  Guarded(ts, i)
<1>1. /\ DOMAIN ts.cols = 1..Len(ts.cols) /\ DOMAIN us.cols = 1..Len(us.cols)
      /\ Len(ts.cols) \in Nat /\ Len(us.cols) \in Nat /\ Len(ts.cols) <= Len(us.cols)
  BY ColumnParts DEF Extends
<1>2. /\ \A j \in DOMAIN ts.cols : us.cols[j].pk = ts.cols[j].pk
      /\ us.cols[i].notNull = ts.cols[i].notNull
  BY DEF Extends
<1> SUFFICES ASSUME ts.cols[i].pk PROVE i = PrimaryKeyColumn(ts)
  BY <1>2 DEF Guarded
<1>3. i = PrimaryKeyColumn(us) /\ us.cols[i].pk /\ i # 0
  BY <1>1, <1>2 DEF Guarded
<1>4. \A j \in 1..(i - 1) : ~us.cols[j].pk
  BY <1>3, PrimaryKeyFound
<1> DEFINE p == PrimaryKeyColumn(ts)
<1>5. p # 0 /\ p \in DOMAIN ts.cols /\ ts.cols[p].pk /\ \A j \in 1..(p - 1) : ~ts.cols[j].pk
  BY PrimaryKeyFound
<1> HIDE DEF p
<1>6. ~(i < p)
  BY <1>1, <1>5
<1>7. ~(p < i)
  BY <1>1, <1>2, <1>4, <1>5
<1>8. i \in Int /\ p \in Int
  BY <1>1, <1>5
<1>9. i = p
  BY <1>6, <1>7, <1>8
<1> QED BY <1>9 DEF p

LEMMA NoNullsAlike ==
    ASSUME NEW ts \in SchemaOf, NEW us \in SchemaOf, Extends(us, ts), NEW row \in Row, NoNulls(ts, row)
    PROVE  NoNulls(us, row)
<1>1. /\ DOMAIN ts.cols = 1..Len(ts.cols) /\ DOMAIN us.cols = 1..Len(us.cols) /\ DOMAIN row = 1..Len(row)
      /\ Len(ts.cols) \in Nat /\ Len(us.cols) \in Nat /\ Len(row) \in Nat
      /\ Len(ts.cols) <= Len(us.cols) /\ Len(row) <= Len(ts.cols)
  BY ColumnParts, RowParts DEF Extends, NoNulls
<1>2. Len(row) <= Len(us.cols)
  BY <1>1
<1>3. \A i \in DOMAIN ts.cols : Guarded(us, i) => Guarded(ts, i)
  BY GuardedAlike
<1>4. ASSUME NEW i \in DOMAIN us.cols, Guarded(us, i) PROVE Extended(row, us)[i].type # "null"
  <2>1. CASE i \in DOMAIN row
    <3>1. i \in DOMAIN ts.cols
      BY <1>1, <2>1
    <3>2. Guarded(ts, i)
      BY <1>3, <1>4, <3>1
    <3>3. Extended(row, us)[i] = row[i] /\ Extended(row, ts)[i] = row[i]
      BY <2>1, ExtendedProperties
    <3> QED BY <3>1, <3>2, <3>3 DEF NoNulls
  <2>2. CASE i \in DOMAIN ts.cols \ DOMAIN row
    <3>1. Guarded(ts, i)
      BY <1>3, <1>4, <2>2
    <3>2. Extended(row, us)[i] = DefaultOf(us.cols[i]) /\ Extended(row, ts)[i] = DefaultOf(ts.cols[i])
      BY <1>4, <2>2, ExtendedProperties
    <3>3. DefaultOf(us.cols[i]) = DefaultOf(ts.cols[i])
      BY <2>2 DEF Extends, DefaultOf
    <3> QED BY <2>2, <3>1, <3>2, <3>3 DEF NoNulls
  <2>3. CASE i \notin DOMAIN ts.cols
    <3>1. i \notin DOMAIN row
      BY <1>1, <2>3
    <3>2. Extended(row, us)[i] = DefaultOf(us.cols[i])
      BY <1>4, <3>1, ExtendedProperties
    <3> QED BY <1>4, <2>3, <3>2 DEF Guarded, Extends
  <2> QED BY <2>1, <2>2, <2>3
<1> QED BY <1>2, <1>4 DEF NoNulls

(* A table that is changed while its rows stay.                            *)
LEMMA NullExtended ==
    ASSUME SchemaInv, NullInv, marks \subseteq marks', NEW t \in DOMAIN tables, NEW x,
           NEW ts \in SchemaOf, Extends(ts, tables[t]), ts.tree = tables[t].tree,
           tables' = Within(tables, t, ts) \/ tables' = Within(Except(tables, t), x, ts),
           \A e \in Trees : rows'[e] = rows[e]
    PROVE  NullInv'
<1>1. \A pg : Fewer(pg, pg)
  BY DEF Fewer
<1>2. ts.tree \in Trees /\ \A y \in DOMAIN tables : tables[y].tree \in Trees
  BY TableParts
<1> SUFFICES ASSUME marks' \intersect {"dropped", "unsaved"} = {}, NEW y \in DOMAIN tables'
             PROVE  \/ Untouched(y)
                    \/ \A id \in Keys(rows'[tables'[y].tree]) :
                          NoNulls(tables'[y], ValueAt(rows'[tables'[y].tree], id))
  BY NullStays
<1>3. \/ tables'[y] = ts
      \/ y \in DOMAIN tables /\ tables'[y] = tables[y]
  BY DEF Within, Except
<1>4. CASE tables'[y] = ts
  <2> SUFFICES ASSUME NEW id \in Keys(rows[ts.tree]) PROVE NoNulls(ts, ValueAt(rows[ts.tree], id))
    BY <1>2, <1>4
  <2>1. ValueAt(rows[ts.tree], id) \in Row /\ tables[t] \in SchemaOf
    BY TableParts
  <2>2. NoNulls(tables[t], ValueAt(rows[ts.tree], id))
    BY DEF NullInv, RowKeys, RowAt
  <2> QED BY <2>1, <2>2, NoNullsAlike
<1>5. CASE y \in DOMAIN tables /\ tables'[y] = tables[y]
  BY <1>1, <1>2, <1>5 DEF Untouched
<1> QED BY <1>3, <1>4, <1>5

LEMMA SameExtends ==
    ASSUME NEW ts, NEW us, ts.cols = us.cols, NEW n \in Nat, Len(ts.cols) = n
    PROVE  Extends(us, ts)
BY DEF Extends

LEMMA RowAccepted ==
    ASSUME SchemaInv, NEW t \in DOMAIN tables, NEW row \in Row, Len(row) = Len(tables[t].cols), NEW id \in Int,
           HoldsKey(tables[t], row, id),
           \A i \in DOMAIN tables[t].cols : tables[t].cols[i].notNull /\ ~tables[t].cols[i].pk => row[i].type # "null"
    PROVE  NoNulls(tables[t], row)
<1> DEFINE ts == tables[t]
<1>1. ts \in SchemaOf /\ Len(row) = Len(ts.cols) /\ Len(row) \in Nat
  BY TableParts, RowParts
<1> SUFFICES ASSUME NEW i \in DOMAIN ts.cols, Guarded(ts, i) PROVE Extended(row, ts)[i].type # "null"
  BY <1>1 DEF NoNulls
<1>2. Extended(row, ts)[i] = row[i]
  BY <1>1, ExtendedProperties
<1>3. CASE ts.cols[i].pk
  <2>1. i = PrimaryKeyColumn(ts) /\ i # 0
    BY <1>1, <1>3, ColumnParts DEF Guarded
  <2>2. row[i] = IntV(id)
    BY <2>1 DEF HoldsKey
  <2> QED BY <1>2, <2>2 DEF IntV
<1>4. CASE ~ts.cols[i].pk
  BY <1>2, <1>4 DEF Guarded
<1> QED BY <1>3, <1>4

LEMMA RowUpdated ==
    ASSUME SchemaInv, NEW t \in DOMAIN tables, NEW row \in Row, NoNulls(tables[t], row), NEW given \in Updates,
           MayUpdate(tables[t], given)
    PROVE  NoNulls(tables[t], UpdatedRow(tables[t], Extended(row, tables[t]), given))
<1> DEFINE ts  == tables[t]
           old == Extended(row, ts)
           new == UpdatedRow(ts, old, given)
<1>1. /\ ts \in SchemaOf /\ OneName(ts) /\ Len(row) <= Len(ts.cols) /\ Len(row) \in Nat
      /\ Len(ts.cols) \in Nat /\ DOMAIN ts.cols = 1..Len(ts.cols)
  BY TableParts, RowParts, ColumnParts DEF NoNulls
<1> HIDE DEF ts
<1>2. old \in Row /\ Len(old) = Len(ts.cols)
  BY <1>1, ExtendedProperties
<1>3. DOMAIN old = DOMAIN ts.cols
  BY <1>1, <1>2, RowParts
<1>10. \A i \in DOMAIN ts.cols : Guarded(ts, i) => old[i].type # "null"
  BY DEF NoNulls, ts
<1> HIDE DEF old
<1>4. /\ new \in Row /\ Len(new) = Len(old)
      /\ \A i \in DOMAIN old : ts.cols[i].name \notin DOMAIN given => new[i] = old[i]
      /\ \A i \in DOMAIN old : ts.cols[i].name \in DOMAIN given /\ given[ts.cols[i].name].type # "null"
                                  => new[i].type # "null"
  BY <1>1, <1>2, <1>3, UpdatedRowProperties
<1> HIDE DEF new
<1> SUFFICES ASSUME NEW i \in DOMAIN ts.cols, Guarded(ts, i) PROVE Extended(new, ts)[i].type # "null"
  BY <1>1, <1>2, <1>4 DEF NoNulls, new, old, ts
<1>5. Extended(new, ts)[i] = new[i]
  BY <1>1, <1>2, <1>4, ExtendedProperties
<1>6. CASE ts.cols[i].name \in DOMAIN given
  <2>1. ColumnIndex(ts, ts.cols[i].name) = i
    BY <1>1, ColumnKnown
  <2>2. given[ts.cols[i].name].type # "null"
    BY <1>6, <2>1 DEF MayUpdate, Guarded, ts
  <2> QED BY <1>3, <1>4, <1>5, <1>6, <2>2
<1>7. CASE ts.cols[i].name \notin DOMAIN given
  BY <1>3, <1>4, <1>5, <1>7, <1>10
<1> QED BY <1>6, <1>7

LEMMA NullStep ==
    ASSUME SchemaInv, NullInv, [Next]_vars, "split" \notin marks'
    PROVE  NullInv'
<1>0. /\ marks \subseteq marks' /\ Trees = 1..Len(rows) /\ (\A pg : Fewer(pg, pg))
      /\ \A x \in DOMAIN tables : tables[x].tree \in Trees
  BY MarksGrow, TreesAre, TableParts DEF SchemaInv, Fewer
<1>1. ASSUME NEW t \in TableName, NEW d \in Designs, CreateTable(t, d) PROVE NullInv'
  <2> DEFINE ts == [name |-> t, cols |-> d, tree |-> NewTree, names |-> << >>, noNames |-> TRUE, next |-> 1]
  <2>1. tables' = Within(tables, t, ts) /\ rows'[ts.tree] = << >> /\ \A e \in Trees : rows'[e] = rows[e]
    BY <1>0, <1>1, CreateTableEffects
  <2>2. Keys(<< >>) = {}
    BY DEF Keys
  <2> HIDE DEF ts
  <2>3. \A x \in DOMAIN tables' : Untouched(x) \/ (x = t /\ tables'[x] = ts)
    BY <1>0, <2>1 DEF Within, Untouched
  <2> QED BY <1>0, <2>1, <2>2, <2>3, NullStays
<1>2. ASSUME NEW t \in TableName, DropTable(t) PROVE NullInv'
  <2>1. \A x \in DOMAIN tables' : Untouched(x)
    BY <1>0, <1>2 DEF DropTable, Except, Untouched
  <2> QED BY <1>0, <2>1, NullStays
<1>3. ASSUME NEW t \in TableName, NEW new \in TableName, RenameTable(t, new) PROVE NullInv'
  <2> DEFINE ts == [tables[t] EXCEPT !.name = new]
  <2>1. /\ tables' = Within(Except(tables, t), new, ts) /\ t \in DOMAIN tables /\ ts \in SchemaOf
        /\ \A e \in Trees : rows'[e] = rows[e]
    BY <1>3, RenameTableEffects DEF RenameTable
  <2>2. tables[t] \in SchemaOf
    BY <2>1, TableParts
  <2>3. ts.tree = tables[t].tree /\ ts.cols = tables[t].cols /\ Len(tables[t].cols) \in Nat
    BY <2>2, ColumnParts DEF SchemaOf
  <2> HIDE DEF ts
  <2>4. Extends(ts, tables[t])
    BY <2>3, SameExtends
  <2> QED BY <1>0, <2>1, <2>3, <2>4, NullExtended
<1>4. ASSUME NEW t \in TableName, NEW col \in NewColumns, AddColumn(t, col) PROVE NullInv'
  <2> DEFINE ts == [tables[t] EXCEPT !.cols = Append(@, col)]
  <2>1. /\ t \in DOMAIN tables /\ tables' = Within(tables, t, ts) /\ rows' = rows
        /\ ts.tree = tables[t].tree /\ ts \in SchemaOf /\ (col.notNull => DefaultOf(col).type # "null")
        /\ Len(ts.cols) = Len(tables[t].cols) + 1 /\ ts.cols[Len(tables[t].cols) + 1] = col
        /\ \A i \in DOMAIN tables[t].cols : ts.cols[i] = tables[t].cols[i]
    BY <1>4, AddColumnEffects
  <2> HIDE DEF ts
  <2>2. tables[t] \in SchemaOf
    BY <2>1, TableParts
  <2>3. /\ DOMAIN ts.cols = 1..Len(ts.cols) /\ DOMAIN tables[t].cols = 1..Len(tables[t].cols)
        /\ Len(tables[t].cols) \in Nat
    BY <2>1, <2>2, ColumnParts
  <2>4. \A i \in DOMAIN ts.cols \ DOMAIN tables[t].cols : ts.cols[i] = col
    <3> SUFFICES ASSUME NEW i \in DOMAIN ts.cols \ DOMAIN tables[t].cols PROVE ts.cols[i] = col
      OBVIOUS
    <3>1. i = Len(tables[t].cols) + 1
      BY <2>1, <2>3
    <3> QED BY <2>1, <3>1
  <2>5. Extends(ts, tables[t])
    BY <2>1, <2>3, <2>4 DEF Extends
  <2> QED BY <1>0, <2>1, <2>5, NullExtended
<1>5. ASSUME NEW t \in TableName, NEW old \in ColumnName, NEW new \in ColumnName, RenameColumn(t, old, new)
      PROVE  NullInv'
  <2> SUFFICES ASSUME NEW ts, ts = tables'[t] PROVE NullInv'
    OBVIOUS
  <2>1. /\ t \in DOMAIN tables /\ tables' = Within(tables, t, ts) /\ rows' = rows
        /\ ts.tree = tables[t].tree /\ ts \in SchemaOf
        /\ Len(ts.cols) = Len(tables[t].cols)
        /\ \A i \in DOMAIN tables[t].cols : /\ ts.cols[i].pk = tables[t].cols[i].pk
                                            /\ ts.cols[i].notNull = tables[t].cols[i].notNull
                                            /\ ts.cols[i].def = tables[t].cols[i].def
    BY <1>5, RenameColumnEffects
  <2>2. DOMAIN ts.cols = DOMAIN tables[t].cols /\ Len(tables[t].cols) \in Nat
    BY <2>1, TableParts, ColumnParts
  <2>3. Extends(ts, tables[t])
    BY <2>1, <2>2 DEF Extends
  <2> QED BY <1>0, <2>1, <2>3, NullExtended
<1>6. ASSUME NEW t \in TableName, NEW column \in ColumnName, DropColumn(t, column) PROVE NullInv'
  BY <1>6, DropColumnEffects DEF NullInv
<1>7. ASSUME NEW t \in TableName, NEW given \in Inserts, NEW c \in {"ABORT", "IGNORE", "REPLACE"}, Insert(t, given, c)
      PROVE  NullInv'
  <2> DEFINE ts  == tables[t]
             id  == NewId(ts, given)
             row == InsertedRow(ts, given)
             ts1 == Counted(ts, given)
  <2>1. /\ t \in DOMAIN tables /\ tables' = Within(tables, t, ts1) /\ ts1 \in SchemaOf
        /\ id \in Int /\ row \in Row /\ Len(row) = Len(ts.cols) /\ HoldsKey(ts, row, id)
        /\ \A i \in DOMAIN ts.cols : ts.cols[i].notNull /\ ~ts.cols[i].pk => row[i].type # "null"
        /\ \/ rows' = rows
           \/ /\ RowSet(rows'[ts.tree], rows[ts.tree], id, row)
              /\ \A e \in Trees \ {ts.tree} : rows'[e] = rows[e]
    BY <1>7, InsertEffects
  <2>2. ts \in SchemaOf /\ Len(ts.cols) \in Nat /\ ts.tree \in Trees
    BY <2>1, TableParts, ColumnParts
  <2>3. ts1.tree = ts.tree /\ ts1.cols = ts.cols
    BY <2>2 DEF Counted, SchemaOf
  <2>4. NoNulls(ts, row)
    BY <2>1, RowAccepted
  <2>5. Extends(ts1, ts)
    BY <2>2, <2>3, SameExtends
  <2> HIDE DEF id, row, ts1
  <2>8. CASE rows' = rows
    BY <1>0, <2>1, <2>3, <2>5, <2>8, NullExtended
  <2>9. CASE /\ RowSet(rows'[ts.tree], rows[ts.tree], id, row)
             /\ \A e \in Trees \ {ts.tree} : rows'[e] = rows[e]
    <3>1. ASSUME NEW x \in DOMAIN tables', x # t PROVE Untouched(x)
      <4>1. x \in DOMAIN tables /\ tables'[x] = tables[x]
        BY <2>1, <3>1 DEF Within
      <4>2. tables[x].tree # ts.tree /\ tables[x].tree \in Trees
        BY <2>1, <3>1, <4>1, TreesDiffer DEF Known
      <4> QED BY <1>0, <2>9, <4>1, <4>2 DEF Untouched
    <3>2. ASSUME marks' \intersect {"dropped", "unsaved"} = {}, NEW x \in Keys(rows'[ts.tree])
          PROVE  NoNulls(ts1, ValueAt(rows'[ts.tree], x))
      <4>1. \/ ValueAt(rows'[ts.tree], x) = row
            \/ x \in Keys(rows[ts.tree]) /\ ValueAt(rows'[ts.tree], x) = ValueAt(rows[ts.tree], x)
        BY <2>9, <3>2 DEF RowSet
      <4>2. marks \intersect {"dropped", "unsaved"} = {}
        BY <1>0, <3>2
      <4>3. \A y \in Keys(rows[ts.tree]) : NoNulls(ts, ValueAt(rows[ts.tree], y)) /\ ValueAt(rows[ts.tree], y) \in Row
        BY <2>1, <4>2, TableParts DEF NullInv, RowKeys, RowAt
      <4>4. ValueAt(rows'[ts.tree], x) \in Row /\ NoNulls(ts, ValueAt(rows'[ts.tree], x))
        BY <2>1, <2>4, <4>1, <4>3
      <4> HIDE DEF ts
      <4> QED BY <2>1, <2>2, <2>5, <4>4, NoNullsAlike
    <3>3. \A x \in DOMAIN tables' : x # t \/ tables'[x] = ts1
      BY <2>1 DEF Within
    <3> HIDE DEF ts
    <3> QED BY <1>0, <2>3, <3>1, <3>2, <3>3, NullStays
  <2> QED BY <2>1, <2>8, <2>9
<1>8. ASSUME NEW t \in TableName, NEW id \in (-MaxInt-1)..MaxInt, Delete(t, id) PROVE NullInv'
  <2>1. tables' = tables /\ \A e \in Trees : Fewer(rows'[e], rows[e])
    BY <1>0, <1>8, DeleteEffects DEF Fewer
  <2>2. \A x \in DOMAIN tables' : Untouched(x)
    BY <1>0, <2>1 DEF Untouched
  <2> QED BY <1>0, <2>2, NullStays
<1>9. ASSUME NEW t \in TableName, NEW id \in (-MaxInt-1)..MaxInt, NEW given \in Updates, Update(t, id, given)
      PROVE  NullInv'
  <2> DEFINE ts  == tables[t]
             old == Extended(RowAt(t, id), ts)
             new == UpdatedRow(ts, old, given)
  <2>1. /\ t \in DOMAIN tables /\ tables' = tables /\ id \in RowKeys(t) /\ RowAt(t, id) \in Row
        /\ MayUpdate(ts, given)
        /\ \A e \in Trees \ {ts.tree} : rows'[e] = rows[e]
        /\ \/ rows' = rows
           \/ /\ RowSet(rows'[ts.tree], rows[ts.tree], id, new)
              /\ Keys(rows'[ts.tree]) \subseteq Keys(rows[ts.tree])
    BY <1>9, UpdateEffects
  <2>2. CASE rows' = rows
    BY <1>0, <2>1, <2>2, NullStays DEF Untouched
  <2>3. CASE /\ RowSet(rows'[ts.tree], rows[ts.tree], id, new)
             /\ Keys(rows'[ts.tree]) \subseteq Keys(rows[ts.tree])
    <3>1. ASSUME NEW x \in DOMAIN tables', x # t PROVE Untouched(x)
      <4>1. x \in DOMAIN tables /\ tables'[x] = tables[x]
        BY <2>1, <3>1
      <4>2. tables[x].tree # ts.tree /\ tables[x].tree \in Trees
        BY <2>1, <3>1, <4>1, TreesDiffer DEF Known
      <4> QED BY <1>0, <2>1, <4>1, <4>2 DEF Untouched
    <3>2. ASSUME marks' \intersect {"dropped", "unsaved"} = {}, NEW x \in Keys(rows'[ts.tree])
          PROVE  NoNulls(ts, ValueAt(rows'[ts.tree], x))
      <4>1. marks \intersect {"dropped", "unsaved"} = {}
        BY <1>0, <3>2
      <4>2. \A y \in RowKeys(t) : NoNulls(ts, RowAt(t, y))
        BY <2>1, <4>1 DEF NullInv
      <4>3. NoNulls(ts, new)
        BY <2>1, <4>2, RowUpdated
      <4> HIDE DEF new
      <4> QED BY <2>3, <3>2, <4>2, <4>3 DEF RowSet, RowKeys, RowAt
    <3> HIDE DEF new
    <3> QED BY <1>0, <2>1, <3>1, <3>2, NullStays
  <2> QED BY <2>1, <2>2, <2>3
<1>10. ASSUME NEW i \in IndexName, NEW t \in TableName, NEW column \in ColumnName, CreateIndex(i, t, column)
       PROVE  NullInv'
  <2> DEFINE ts == [tables[t] EXCEPT !.names = Append(@, i), !.noNames = FALSE]
  <2>1. /\ t \in DOMAIN tables /\ tables' = Within(tables, t, ts) /\ ts \in SchemaOf
        /\ \A e \in Trees : rows'[e] = rows[e]
    BY <1>0, <1>10, CreateIndexEffects
  <2>2. ts.tree = tables[t].tree /\ ts.cols = tables[t].cols /\ Len(tables[t].cols) \in Nat
    BY <2>1, TableParts, ColumnParts DEF SchemaOf
  <2> HIDE DEF ts
  <2>3. Extends(ts, tables[t])
    BY <2>2, SameExtends
  <2> QED BY <1>0, <2>1, <2>2, <2>3, NullExtended
<1>11. ASSUME NEW i \in IndexName, DropIndex(i) PROVE NullInv'
  <2> SUFFICES ASSUME NEW t, t = indexes[i].table PROVE NullInv'
    OBVIOUS
  <2> DEFINE ts == [tables[t] EXCEPT !.names = Others(@, i), !.noNames = FALSE]
  <2>1. /\ rows' = rows
        /\ \/ tables' = tables
           \/ t \in DOMAIN tables /\ ts \in SchemaOf /\ tables' = Within(tables, t, ts)
    BY <1>11, DropIndexEffects DEF DropIndex
  <2>2. CASE tables' = tables
    BY <1>0, <2>1, <2>2, NullStays DEF Untouched
  <2>3. CASE t \in DOMAIN tables /\ ts \in SchemaOf /\ tables' = Within(tables, t, ts)
    <3>1. ts.tree = tables[t].tree /\ ts.cols = tables[t].cols /\ Len(tables[t].cols) \in Nat
      BY <2>3, TableParts, ColumnParts DEF SchemaOf
    <3> HIDE DEF ts
    <3>2. Extends(ts, tables[t])
      BY <3>1, SameExtends
    <3> QED BY <1>0, <2>1, <2>3, <3>1, <3>2, NullExtended
  <2> QED BY <2>1, <2>2, <2>3
<1>12. ASSUME NEW v \in ViewName, CreateView(v) \/ DropView(v) PROVE NullInv'
  <2>1. tables' = tables /\ rows' = rows
    BY <1>12 DEF CreateView, DropView
  <2> QED BY <1>0, <2>1, NullStays DEF Untouched
<1>13. CASE Reopen
  <2>1. rows' = rows /\ marks' = marks
    BY <1>13 DEF Reopen
  <2>2. ASSUME "unsaved" \notin marks', NEW x \in DOMAIN tables' PROVE Untouched(x)
    <3>1. x \in DOMAIN tables /\ tables'[x] = Stored(cat)[x]
      BY <1>13, ReopenEffects
    <3>2. Stored(cat)[x] = tables[x]
      BY <2>1, <2>2, <3>1 DEF SchemaInv, AllSaved
    <3> QED BY <1>0, <2>1, <3>1, <3>2 DEF Untouched
  <2> QED BY <1>0, <2>2, NullStays
<1>14. CASE UNCHANGED vars
  BY <1>14 DEF vars, NullInv, RowKeys, RowAt
<1> QED BY <1>1, <1>2, <1>3, <1>4, <1>5, <1>6, <1>7, <1>8, <1>9, <1>10, <1>11, <1>12, <1>13, <1>14 DEF Next

LEMMA NullRead ==
    ASSUME NullInv
    PROVE  NotNullHolds
BY DEF NullInv, NotNullHolds, NoNulls, Guarded, RowKeys, RowAt

-----------------------------------------------------------------------------
(* A row that was stored without the name of an index has no room for one. *)
LEMMA WidthOfOne == Width(1) = 1
<1> DEFINE S == {p \in 1..3 : 1 >= <<Radix, Radix * Radix, Radix * Radix * Radix>>[p]}
<1>1. Radix \in Nat /\ Radix >= 2
  BY TablesAssumption
<1>2. Radix * Radix \in Nat /\ Radix * Radix >= 2
  <2>1. Radix * 2 <= Radix * Radix
    BY <1>1, TimesGrows
  <2> QED BY <1>1, <2>1
<1>3. Radix * Radix * Radix \in Nat /\ Radix * Radix * Radix >= 2
  <2> DEFINE q == Radix * Radix
  <2>1. q \in Nat /\ q >= 2
    BY <1>2
  <2> HIDE DEF q
  <2>2. q * 2 <= q * Radix /\ q * Radix \in Nat
    BY <1>1, <2>1, TimesGrows
  <2>3. q * Radix >= 2
    BY <1>1, <2>1, <2>2
  <2> QED BY <2>2, <2>3 DEF q
<1>4. S = {}
  <2> DEFINE q == Radix * Radix
             r == Radix * Radix * Radix
  <2>1. q \in Nat /\ q >= 2 /\ r \in Nat /\ r >= 2
    BY <1>2, <1>3
  <2> HIDE DEF q, r
  <2>2. \A p \in 1..3 : ~(1 >= <<Radix, q, r>>[p])
    BY <1>1, <2>1
  <2> QED BY <2>2 DEF q, r
<1>5. Cardinality(S) = 0
  BY <1>4, FS_EmptySet
<1> QED BY <1>5 DEF Width, Digits

LEMMA LenOfNames ==
    ASSUME NEW ts \in SchemaOf
    PROVE  /\ NamesLen(ts) \in Nat
           /\ ts.names # << >> => NamesLen(ts) >= 5
           /\ ts.names = << >> /\ ts.noNames => NamesLen(ts) = 4
<1>1. Len(ts.names) \in Nat /\ (ts.names # << >> => Len(ts.names) >= 1)
  <2>1. ts.names \in Seq(IndexName)
    BY DEF SchemaOf
  <2>2. Len(ts.names) \in Nat /\ (Len(ts.names) = 0 => ts.names = << >>)
    BY <2>1, EmptySeq
  <2> QED BY <2>2
<1> QED BY <1>1 DEF NamesLen

LEMMA FreshLen ==
    ASSUME NEW ts \in SchemaOf, ts.names = << >>, ts.noNames, ts.next = 1
    PROVE  TableLen(ts) = BaseLen + ColumnLen * Len(ts.cols) + 5
<1>1. NamesLen(ts) = 4 /\ Width(ts.next) = 1
  BY LenOfNames, WidthOfOne
<1>2. BaseLen \in Int /\ ColumnLen * Len(ts.cols) \in Int
  BY TablesAssumption DEF SchemaOf
<1> QED BY <1>1, <1>2 DEF TableLen

LEMMA ListedLen ==
    ASSUME NEW ts \in SchemaOf, NEW n \in Nat, n <= Len(ts.cols),
           TableLen(ts) <= BaseLen + ColumnLen * n + 5
    PROVE  ts.names = << >>
<1> SUFFICES ASSUME ts.names # << >> PROVE FALSE
  OBVIOUS
<1> DEFINE m == Len(ts.cols)
           p == ColumnLen * n
           q == ColumnLen * m
           w == Width(ts.next)
<1>1. NamesLen(ts) \in Nat /\ NamesLen(ts) >= 5 /\ w \in 1..5
  BY LenOfNames, WidthOfInteger
<1>2. BaseLen \in Nat /\ ColumnLen \in Nat /\ m \in Nat
  BY TablesAssumption DEF SchemaOf
<1>3. p \in Nat /\ q \in Nat /\ p <= q
  BY <1>2, TimesGrows
<1>4. BaseLen + q + w + NamesLen(ts) <= BaseLen + p + 5
  BY DEF TableLen
<1> HIDE DEF p, q, w
<1> QED BY <1>1, <1>2, <1>3, <1>4

-----------------------------------------------------------------------------
(* What ties the names a table lists to the schema tree.                   *)
LEMMA ListingKeeps ==
    ASSUME NEW T, NEW I, NEW c, Listing(T, I, c), NEW U, NEW J, NEW d,
           \A t \in DOMAIN U : /\ t \in DOMAIN T /\ U[t].cols = T[t].cols /\ ToSet(U[t].names) \subseteq ToSet(T[t].names)
                               /\ Stored(d)[t] = Stored(c)[t] /\ Limits(d, t) \subseteq Limits(c, t),
           \A t \in DOMAIN U : \A i \in ToSet(U[t].names) :
               i \in DOMAIN Stored(c) => i \in DOMAIN Stored(d) /\ J[i] = I[i]
    PROVE  Listing(U, J, d)
<1>1. ASSUME NEW t \in DOMAIN U, NEW i \in ToSet(U[t].names)
      PROVE  i \in DOMAIN Stored(d) /\ ColumnIndex(U[t], J[i].column) # 0
  <2>1. t \in DOMAIN T /\ i \in ToSet(T[t].names) /\ U[t].cols = T[t].cols
    OBVIOUS
  <2>2. i \in DOMAIN Stored(c) /\ ColumnIndex(T[t], I[i].column) # 0
    BY <2>1 DEF Listing
  <2> QED BY <2>1, <2>2, SameColumns
<1>2. \A t, u \in DOMAIN U : ToSet(U[t].names) \intersect ToSet(U[u].names) # {} => t = u
  <2> SUFFICES ASSUME NEW t \in DOMAIN U, NEW u \in DOMAIN U, NEW i \in ToSet(U[t].names), i \in ToSet(U[u].names)
               PROVE  t = u
    OBVIOUS
  <2>1. i \in ToSet(T[t].names) /\ i \in ToSet(T[u].names) /\ t \in DOMAIN T /\ u \in DOMAIN T
    OBVIOUS
  <2> QED BY <2>1 DEF Listing
<1>3. \A t \in DOMAIN U : \A s \in Limits(d, t) :
         /\ Stored(d)[t].names = << >>
         /\ s <= BaseLen + ColumnLen * Len(Stored(d)[t].cols) + 5
         /\ Len(Stored(d)[t].cols) <= Len(U[t].cols)
  BY DEF Listing
<1> QED BY <1>1, <1>2, <1>3 DEF Listing

LEMMA LimitsAreInts ==
    ASSUME NEW c, OneLeaf(c, SchemaRow), NEW k, NEW s \in Limits(c, k)
    PROVE  s \in Int
<1>1. c.pages[1] \in Seq(CellOf(SchemaRow))
  BY OneLeafFacts
<1>2. PICK i \in At(c.pages[1], k) : s = c.pages[1][i].space
  BY DEF Limits
<1>3. c.pages[1][i] \in CellOf(SchemaRow)
  BY <1>1, <1>2 DEF At
<1> QED BY <1>2, <1>3 DEF CellOf

(* A table is stored, with its old columns and perhaps more.               *)
LEMMA ListingStored ==
    ASSUME NEW T, NEW I, NEW c, Listing(T, I, c), OneLeaf(c, SchemaRow), NEW d, NEW t, NEW ts \in SchemaOf,
           PutAs(c, d, t, ts, TableLen(ts)),
           t \in DOMAIN T => /\ t \in DOMAIN Stored(c) /\ T[t] \in SchemaOf /\ Stored(c)[t] \in SchemaOf
                             /\ Len(T[t].cols) <= Len(ts.cols),
           t \notin DOMAIN T => /\ t \notin DOMAIN Stored(c)
                                /\ IsLaid(c) \/ (ts.names = << >> /\ ts.noNames /\ ts.next = 1),
           \A x \in DOMAIN T : x \in DOMAIN Stored(c),
           \A i \in ToSet(ts.names) : i \in DOMAIN Stored(c) /\ ColumnIndex(ts, I[i].column) # 0,
           \A x \in DOMAIN T \ {t} : ToSet(ts.names) \intersect ToSet(T[x].names) = {}
    PROVE  Listing(Within(T, t, ts), I, d)
<1> DEFINE U == Within(T, t, ts)
<1>1. DOMAIN U = DOMAIN T \union {t} /\ \A x \in DOMAIN U : U[x] = IF x = t THEN ts ELSE T[x]
  BY DEF Within
<1>2. /\ SameLimits(c, d, t) /\ DOMAIN Stored(c) \subseteq DOMAIN Stored(d)
      /\ \A x \in DOMAIN Stored(c) \ {t} : Stored(d)[x] = Stored(c)[x]
      /\ (CanStore(c, t, TableLen(ts)) => Stored(d)[t] = ts)
      /\ (~CanStore(c, t, TableLen(ts)) => Stored(d) = Stored(c))
  BY PutElsewhere
<1> HIDE DEF U
<1>3. \A x \in DOMAIN U : \A i \in ToSet(U[x].names) :
         i \in DOMAIN Stored(d) /\ ColumnIndex(U[x], I[i].column) # 0
  BY <1>1, <1>2 DEF Listing
<1>4. \A x, u \in DOMAIN U : ToSet(U[x].names) \intersect ToSet(U[u].names) # {} => x = u
  <2> SUFFICES ASSUME NEW x \in DOMAIN U, NEW u \in DOMAIN U, ToSet(U[x].names) \intersect ToSet(U[u].names) # {}, x # u
               PROVE  FALSE
    OBVIOUS
  <2>1. CASE x # t /\ u # t
    BY <1>1, <2>1 DEF Listing
  <2>2. CASE x = t
    <3>1. u \in DOMAIN T \ {t} /\ U[x] = ts /\ U[u] = T[u]
      BY <1>1, <2>2
    <3> QED BY <3>1
  <2>3. CASE u = t
    <3>1. x \in DOMAIN T \ {t} /\ U[u] = ts /\ U[x] = T[x]
      BY <1>1, <2>3
    <3>2. ToSet(U[u].names) \intersect ToSet(U[x].names) # {}
      OBVIOUS
    <3> QED BY <3>1, <3>2
  <2> QED BY <2>1, <2>2, <2>3
<1>5. ASSUME NEW x \in DOMAIN U, NEW s \in Limits(d, x)
      PROVE  /\ Stored(d)[x].names = << >>
             /\ s <= BaseLen + ColumnLen * Len(Stored(d)[x].cols) + 5
             /\ Len(Stored(d)[x].cols) <= Len(U[x].cols)
  <2>1. CASE x # t
    <3>1. x \in DOMAIN T /\ U[x] = T[x] /\ Stored(d)[x] = Stored(c)[x] /\ s \in Limits(c, x)
      BY <1>1, <1>2, <1>5, <2>1 DEF SameLimits
    <3> QED BY <3>1 DEF Listing
  <2>2. CASE x = t /\ t \in DOMAIN T
    <3>1. s \in Limits(c, t)
      <4>1. IsLaid(c)
        BY <2>2, StoredKeys
      <4> QED BY <1>5, <2>2, <4>1 DEF PutAs
    <3> DEFINE us == Stored(c)[t]
    <3>2. /\ us.names = << >> /\ s <= BaseLen + ColumnLen * Len(us.cols) + 5 /\ Len(us.cols) <= Len(T[t].cols)
          /\ us \in SchemaOf /\ T[t] \in SchemaOf /\ Len(T[t].cols) <= Len(ts.cols)
      BY <2>2, <3>1 DEF Listing
    <3> HIDE DEF us
    <3>3. Len(us.cols) \in Nat /\ Len(T[t].cols) \in Nat /\ Len(ts.cols) \in Nat
      BY <3>2, ColumnParts
    <3>4. Len(us.cols) <= Len(ts.cols)
      BY <3>2, <3>3
    <3>5. U[x] = ts
      BY <1>1, <2>2
    <3>6. CASE ~CanStore(c, t, TableLen(ts))
      BY <1>2, <2>2, <3>2, <3>4, <3>5, <3>6 DEF us
    <3>7. CASE CanStore(c, t, TableLen(ts))
      <4>1. TableLen(ts) <= s
        BY <3>1, <3>7 DEF CanStore
      <4>2. s \in Int
        BY <3>1, LimitsAreInts
      <4> DEFINE a == ColumnLen * Len(us.cols)
                 b == ColumnLen * Len(ts.cols)
      <4>3. a \in Nat /\ b \in Nat /\ a <= b /\ BaseLen \in Nat
        BY <3>3, <3>4, TimesGrows, TablesAssumption
      <4>4. TableLen(ts) \in Int
        BY TableLenIsInt
      <4>5. s <= BaseLen + a + 5
        BY <3>2
      <4>6. TableLen(ts) <= BaseLen + a + 5
        <5> HIDE DEF a, b
        <5> QED BY <4>1, <4>2, <4>3, <4>4, <4>5
      <4>7. ts.names = << >>
        BY <3>3, <3>4, <4>6, ListedLen
      <4>8. s <= BaseLen + b + 5
        <5> HIDE DEF a, b
        <5> QED BY <4>2, <4>3, <4>5
      <4>9. Stored(d)[x] = ts
        BY <1>2, <2>2, <3>7
      <4> QED BY <3>3, <3>5, <4>7, <4>8, <4>9
    <3> QED BY <3>6, <3>7
  <2>3. CASE x = t /\ t \notin DOMAIN T
    <3>1. CanStore(c, t, TableLen(ts)) /\ Limits(c, t) = {}
      BY <2>3, NewKey
    <3>2. s = TableLen(ts) /\ ~IsLaid(c)
      BY <1>5, <2>3, <3>1 DEF PutAs
    <3>3. Stored(d)[x] = ts /\ U[x] = ts /\ Len(ts.cols) \in Nat
      BY <1>1, <1>2, <2>3, <3>1, ColumnParts
    <3>4. TableLen(ts) = BaseLen + ColumnLen * Len(ts.cols) + 5 /\ ts.names = << >>
      BY <2>3, <3>2, FreshLen
    <3>5. BaseLen + ColumnLen * Len(ts.cols) + 5 \in Int
      BY <3>4, TableLenIsInt
    <3> QED BY <3>2, <3>3, <3>4, <3>5
  <2> QED BY <2>1, <2>2, <2>3
<1> QED BY <1>3, <1>4, <1>5 DEF Listing, U

LEMMA ListedIndex ==
    ASSUME SchemaInv, Listing(tables, indexes, cat), NEW t \in DOMAIN tables, NEW i \in ToSet(tables[t].names)
    PROVE  /\ i \in DOMAIN Stored(cat) /\ i \in DOMAIN indexes /\ i \in IndexName \ TableName
           /\ indexes[i].tree \in Trees /\ i \in Maintained(tables[t])
           /\ ColumnIndex(tables[t], indexes[i].column) \in DOMAIN tables[t].cols
           /\ \A j \in DOMAIN indexes \ {i} : indexes[j].tree # indexes[i].tree
           /\ \A x \in DOMAIN tables \ {t} : i \notin ToSet(tables[x].names)
           /\ OneEach(indexes)
<1>1. tables[t] \in SchemaOf /\ Trees = 1..Len(rows)
  BY TableParts
<1>2. tables[t].names \in Seq(IndexName)
  BY <1>1 DEF SchemaOf
<1>3. i \in IndexName \ TableName
  BY <1>2, TablesAssumption DEF ToSet
<1>4. i \in DOMAIN Stored(cat) /\ ColumnIndex(tables[t], indexes[i].column) # 0
  BY DEF Listing
<1>5. i \in DOMAIN indexes
  BY <1>3, <1>4 DEF SchemaInv, Agree, StoredIndexes
<1>6. OneEach(indexes) /\ indexes[i].tree \in Trees
  BY <1>1, <1>5 DEF SchemaInv, Agree, Maps
<1>7. \A x \in DOMAIN tables \ {t} : i \notin ToSet(tables[x].names)
  BY DEF Listing
<1>8. \A j \in DOMAIN indexes \ {i} : indexes[j].tree # indexes[i].tree
  BY <1>5, <1>6 DEF OneEach
<1>9. ColumnIndex(tables[t], indexes[i].column) \in DOMAIN tables[t].cols
  BY <1>1, <1>4, ColumnFound
<1> QED BY <1>3, <1>4, <1>5, <1>6, <1>7, <1>8, <1>9 DEF Maintained

(* The first columns of us are those of ts.                                *)
Widened(us, ts) == \A i \in DOMAIN ts.cols : i \in DOMAIN us.cols /\ us.cols[i] = ts.cols[i]

LEMMA ColumnStays ==
    ASSUME NEW ts \in SchemaOf, NEW us \in SchemaOf, OneName(us), Widened(us, ts),
           NEW name, ColumnIndex(ts, name) # 0
    PROVE  ColumnIndex(us, name) = ColumnIndex(ts, name)
<1>1. ColumnIndex(ts, name) \in DOMAIN ts.cols /\ ts.cols[ColumnIndex(ts, name)].name = name
  BY ColumnFound
<1>2. ColumnIndex(ts, name) \in DOMAIN us.cols /\ us.cols[ColumnIndex(ts, name)].name = name
  BY <1>1 DEF Widened
<1> QED BY <1>2, ColumnKnown

LEMMA EntryStays ==
    ASSUME NEW ts \in SchemaOf, NEW us \in SchemaOf, OneName(us), Widened(us, ts),
           NEW is, ColumnIndex(ts, is.column) # 0, NEW row \in Row, NEW id
    PROVE  Entry(us, is, Extended(row, us), id) = Entry(ts, is, Extended(row, ts), id)
<1> DEFINE k == ColumnIndex(ts, is.column)
<1>1. k \in DOMAIN ts.cols /\ k \in DOMAIN us.cols /\ us.cols[k] = ts.cols[k] /\ ColumnIndex(us, is.column) = k
  BY ColumnFound, ColumnStays DEF Widened
<1>2. Extended(row, us)[k] = Extended(row, ts)[k]
  BY <1>1 DEF Extended
<1> QED BY <1>1, <1>2 DEF Entry

(* The rows of a table stay or become fewer, and keep their entries.       *)
LEMMA CoversKeeps ==
    ASSUME NEW ts \in SchemaOf, NEW us \in SchemaOf, OneName(us), Widened(us, ts), us.tree = ts.tree,
           ToSet(us.names) \subseteq ToSet(ts.names),
           NEW I, NEW J, NEW R, NEW S, NEW E, NEW F, Covers(ts, I, R, E),
           Fewer(S[ts.tree], R[ts.tree]), \A id \in Keys(R[ts.tree]) : ValueAt(R[ts.tree], id) \in Row,
           \A i \in ToSet(us.names) :
               /\ J[i] = I[i] /\ ColumnIndex(ts, I[i].column) # 0
               /\ \A key \in E[I[i].tree] : key[2] \in Keys(S[ts.tree]) => key \in F[I[i].tree]
    PROVE  Covers(us, J, S, F)
<1> SUFFICES ASSUME NEW i \in ToSet(us.names), NEW id \in Keys(S[us.tree])
             PROVE  Entry(us, J[i], Extended(ValueAt(S[us.tree], id), us), id) \in F[J[i].tree]
  BY DEF Covers
<1>1. id \in Keys(R[ts.tree]) /\ ValueAt(S[us.tree], id) = ValueAt(R[ts.tree], id) /\ id \in Keys(S[ts.tree])
  BY DEF Fewer
<1> DEFINE row == ValueAt(R[ts.tree], id)
           key == Entry(ts, I[i], Extended(row, ts), id)
<1>2. row \in Row /\ ColumnIndex(ts, I[i].column) # 0 /\ J[i] = I[i] /\ i \in ToSet(ts.names)
  BY <1>1
<1>3. key \in E[I[i].tree]
  BY <1>1, <1>2 DEF Covers
<1>4. key[2] = id
  BY DEF Entry
<1>5. Entry(us, I[i], Extended(row, us), id) = key
  BY <1>2, EntryStays
<1> HIDE DEF key, row
<1>6. key \in F[I[i].tree]
  BY <1>1, <1>3, <1>4
<1> QED BY <1>1, <1>2, <1>5, <1>6 DEF row

LEMMA IndexStays ==
    ASSUME IndexInv, marks \subseteq marks',
           Listing(tables, indexes, cat) /\ (\A x \in DOMAIN tables : Covers(tables[x], indexes, rows, entries))
               /\ marks' \intersect {"late", "renamed", "dropped", "refused", "listed"} = {} =>
                   /\ Listing(tables', indexes', cat')
                   /\ \A x \in DOMAIN tables' : Covers(tables'[x], indexes', rows', entries')
    PROVE  IndexInv'
<1>1. marks' \intersect {"late", "renamed", "dropped", "refused", "listed"} = {}
         => marks \intersect {"late", "renamed", "dropped", "refused", "listed"} = {}
  OBVIOUS
<1> QED BY <1>1 DEF IndexInv

(* A table the step leaves alone.                                          *)
LEMMA CoversStays ==
    ASSUME SchemaInv, Listing(tables, indexes, cat), NEW x \in DOMAIN tables, Covers(tables[x], indexes, rows, entries),
           NEW us \in SchemaOf, OneName(us), Widened(us, tables[x]), us.tree = tables[x].tree,
           ToSet(us.names) \subseteq ToSet(tables[x].names),
           NEW J, NEW S, NEW F, Fewer(S[us.tree], rows[us.tree]),
           \A i \in ToSet(us.names) : J[i] = indexes[i],
           \A i \in ToSet(us.names) : \A key \in entries[indexes[i].tree] :
               key[2] \in Keys(S[us.tree]) => key \in F[indexes[i].tree]
    PROVE  Covers(us, J, S, F)
<1> DEFINE ts == tables[x]
<1>1. ts \in SchemaOf /\ \A id \in Keys(rows[ts.tree]) : ValueAt(rows[ts.tree], id) \in Row
  BY TableParts
<1>2. \A i \in ToSet(us.names) : ColumnIndex(ts, indexes[i].column) # 0
  BY DEF Listing
<1> HIDE DEF ts
<1> QED BY <1>1, <1>2, CoversKeeps DEF ts

LEMMA SameWidened ==
    ASSUME NEW ts, NEW us, ts.cols = us.cols
    PROVE  Widened(us, ts)
BY DEF Widened

AllCover == \A x \in DOMAIN tables : Covers(tables[x], indexes, rows, entries)

LEMMA TablesAfter ==
    ASSUME SchemaInv'
    PROVE  \A x \in DOMAIN tables' : tables'[x] \in SchemaOf /\ OneName(tables'[x])
BY DEF SchemaInv, Agree, Maps, IsTable

(* No row is new, no entry is gone.                                        *)
LEMMA TableCovers ==
    ASSUME SchemaInv, SchemaInv', Listing(tables, indexes, cat), AllCover,
           NEW x \in DOMAIN tables, NEW y \in DOMAIN tables', Widened(tables'[y], tables[x]),
           tables'[y].tree = tables[x].tree, ToSet(tables'[y].names) \subseteq ToSet(tables[x].names),
           \A i \in ToSet(tables'[y].names) : indexes'[i] = indexes[i],
           \A e \in Trees : rows'[e] = rows[e] /\ entries[e] \subseteq entries'[e]
    PROVE  Covers(tables'[y], indexes', rows', entries')
<1>1. tables'[y] \in SchemaOf /\ OneName(tables'[y])
  BY TablesAfter
<1>2. tables[x].tree \in Trees
  BY TableParts
<1>3. Fewer(rows'[tables'[y].tree], rows[tables'[y].tree])
  BY <1>2 DEF Fewer
<1>4. \A i \in ToSet(tables'[y].names) : entries[indexes[i].tree] \subseteq entries'[indexes[i].tree]
  BY ListedIndex
<1>5. Covers(tables[x], indexes, rows, entries)
  BY DEF AllCover
<1> DEFINE us == tables'[y]
           J == indexes'
           S == rows'
           F == entries'
<1>6. /\ us \in SchemaOf /\ OneName(us) /\ Widened(us, tables[x]) /\ us.tree = tables[x].tree
      /\ ToSet(us.names) \subseteq ToSet(tables[x].names)
      /\ Fewer(S[us.tree], rows[us.tree])
      /\ \A i \in ToSet(us.names) : J[i] = indexes[i]
      /\ \A i \in ToSet(us.names) : \A key \in entries[indexes[i].tree] :
            key[2] \in Keys(S[us.tree]) => key \in F[indexes[i].tree]
  BY <1>1, <1>3, <1>4
<1> HIDE DEF us, J, S, F
<1>7. Covers(us, J, S, F)
  BY <1>5, <1>6, CoversStays
<1> QED BY <1>7 DEF us, J, S, F

LEMMA NothingListed == ToSet(<< >>) = {}
BY DEF ToSet

LEMMA IndexCreateTable ==
    ASSUME SchemaInv, IndexInv, NEW t \in TableName, NEW d \in Designs, CreateTable(t, d), "split" \notin marks'
    PROVE  IndexInv'
<1> DEFINE ts == [name |-> t, cols |-> d, tree |-> NewTree, names |-> << >>, noNames |-> TRUE, next |-> 1]
<1>1. /\ SchemaInv' /\ tables' = Within(tables, t, ts) /\ t \notin DOMAIN tables /\ ts \in SchemaOf
      /\ rows'[ts.tree] = << >> /\ PutAs(cat, cat', t, ts, TableLen(ts))
      /\ \A e \in 1..Len(rows) : rows'[e] = rows[e] /\ entries'[e] = entries[e]
  BY CreateTableEffects
<1>2. marks \subseteq marks' /\ indexes' = indexes /\ Trees = 1..Len(rows)
  BY TreesAre DEF CreateTable, SetTable, SchemaInv
<1>3. ts.names = << >> /\ ts.noNames /\ ts.next = 1
  OBVIOUS
<1> HIDE DEF ts
<1> SUFFICES ASSUME Listing(tables, indexes, cat), AllCover
             PROVE  /\ Listing(tables', indexes', cat')
                    /\ \A x \in DOMAIN tables' : Covers(tables'[x], indexes', rows', entries')
  BY <1>2, IndexStays DEF AllCover
<1>4. t \notin DOMAIN Stored(cat) /\ OneLeaf(cat, SchemaRow) /\ \A x \in DOMAIN tables : x \in DOMAIN Stored(cat)
  BY <1>1 DEF SchemaInv, Agree, StoredTables, Maps
<1>5. Listing(tables', indexes', cat')
  BY <1>1, <1>2, <1>3, <1>4, NothingListed, ListingStored
<1>6. ASSUME NEW x \in DOMAIN tables' PROVE Covers(tables'[x], indexes', rows', entries')
  <2>1. CASE x = t
    <3>1. tables'[x] = ts
      BY <1>1, <2>1 DEF Within
    <3> QED BY <1>3, <3>1, NothingListed DEF Covers
  <2>2. CASE x # t
    <3>1. x \in DOMAIN tables /\ tables'[x] = tables[x]
      BY <1>1, <2>2 DEF Within
    <3>2. Widened(tables'[x], tables[x])
      BY <3>1, SameWidened
    <3> QED BY <1>1, <1>2, <3>1, <3>2, TableCovers
  <2> QED BY <2>1, <2>2
<1> QED BY <1>5, <1>6

LEMMA RemoveKeeps ==
    ASSUME NEW c, NEW d, NEW k, RemovedAs(c, d, k)
    PROVE  /\ \A x \in DOMAIN Stored(c) \ {k} : x \in DOMAIN Stored(d) /\ Stored(d)[x] = Stored(c)[x]
           /\ DOMAIN Stored(d) \subseteq DOMAIN Stored(c)
           /\ \A x : x # k => Limits(d, x) = Limits(c, x)
<1>1. DOMAIN Stored(d) = DOMAIN Stored(c) \ {k} /\ \A x \in DOMAIN Stored(d) : Stored(d)[x] = Stored(c)[x]
  BY RemoveElsewhere
<1>2. \A x : x # k => Limits(d, x) = Limits(c, x)
  BY DEF RemovedAs
<1> QED BY <1>1, <1>2

LEMMA IndexDropTable ==
    ASSUME SchemaInv, IndexInv, NEW t \in TableName, DropTable(t)
    PROVE  IndexInv'
<1>1. SchemaInv' /\ RemovedAs(cat, cat', t)
  BY DropTableEffects
<1>2. /\ tables' = Except(tables, t) /\ indexes' = indexes /\ rows' = rows /\ entries' = entries /\ marks' = marks
  BY DEF DropTable
<1> SUFFICES ASSUME Listing(tables, indexes, cat), AllCover
             PROVE  /\ Listing(tables', indexes', cat')
                    /\ \A x \in DOMAIN tables' : Covers(tables'[x], indexes', rows', entries')
  BY <1>2, IndexStays DEF AllCover
<1>3. \A x \in DOMAIN tables' : x # t /\ x \in DOMAIN tables /\ tables'[x] = tables[x] /\ x \in DOMAIN Stored(cat)
  BY <1>2 DEF Except, SchemaInv, Agree, StoredTables, Maps
<1>4. /\ \A k \in DOMAIN Stored(cat) \ {t} : k \in DOMAIN Stored(cat') /\ Stored(cat')[k] = Stored(cat)[k]
      /\ \A k : k # t => Limits(cat', k) = Limits(cat, k)
  BY <1>1, RemoveKeeps
<1>5. \A x \in DOMAIN tables' : \A i \in ToSet(tables'[x].names) : i # t
  BY <1>3, ListedIndex
<1>6. Listing(tables', indexes', cat')
  BY <1>2, <1>3, <1>4, <1>5, ListingKeeps
<1>7. ASSUME NEW x \in DOMAIN tables' PROVE Covers(tables'[x], indexes', rows', entries')
  <2>1. Widened(tables'[x], tables[x])
    BY <1>3, SameWidened
  <2> QED BY <1>1, <1>2, <1>3, <2>1, TableCovers
<1> QED BY <1>6, <1>7

LEMMA IndexRenameTable ==
    ASSUME SchemaInv, IndexInv, NEW old \in TableName, NEW new \in TableName, RenameTable(old, new), "split" \notin marks'
    PROVE  IndexInv'
<1> DEFINE ts == [tables[old] EXCEPT !.name = new]
           c1 == Removed(cat, old)
           U == Except(tables, old)
<1>1. /\ SchemaInv' /\ old \in DOMAIN tables /\ new \notin DOMAIN tables
      /\ tables' = Within(U, new, ts) /\ ts \in SchemaOf
      /\ RemovedAs(cat, c1, old) /\ PutAs(c1, cat', new, ts, TableLen(ts)) /\ IsLaid(c1)
  BY RenameTableEffects
<1>2. indexes' = indexes /\ rows' = rows /\ entries' = entries /\ marks \subseteq marks'
  BY DEF RenameTable
<1>3. tables[old] \in SchemaOf
  BY <1>1, TableParts
<1>4. ts.cols = tables[old].cols /\ ts.names = tables[old].names /\ ts.tree = tables[old].tree
  BY <1>3 DEF SchemaOf
<1>5. OneLeaf(c1, SchemaRow)
  BY <1>1, RemovedFromLeaf, NamesAreInts DEF SchemaInv, Agree
<1> HIDE DEF ts, c1
<1> SUFFICES ASSUME Listing(tables, indexes, cat), AllCover
             PROVE  /\ Listing(tables', indexes', cat')
                    /\ \A x \in DOMAIN tables' : Covers(tables'[x], indexes', rows', entries')
  BY <1>2, IndexStays DEF AllCover
<1>6. \A x \in DOMAIN U : x # old /\ x \in DOMAIN tables /\ U[x] = tables[x] /\ x \in DOMAIN Stored(cat)
  BY DEF Except, SchemaInv, Agree, StoredTables, Maps
<1>7. /\ \A k \in DOMAIN Stored(cat) \ {old} : k \in DOMAIN Stored(c1) /\ Stored(c1)[k] = Stored(cat)[k]
      /\ DOMAIN Stored(c1) \subseteq DOMAIN Stored(cat)
      /\ \A k : k # old => Limits(c1, k) = Limits(cat, k)
  BY <1>1, RemoveKeeps
<1>8. \A x \in DOMAIN tables : \A i \in ToSet(tables[x].names) : i # old
  BY ListedIndex
<1>9. Listing(U, indexes, c1)
  <2> HIDE DEF U
  <2> QED BY <1>6, <1>7, <1>8, ListingKeeps
<1>10. new \notin DOMAIN U /\ new \notin DOMAIN Stored(c1)
  BY <1>1, <1>6, <1>7 DEF SchemaInv, Agree, StoredTables
<1>11. \A i \in ToSet(ts.names) : i \in DOMAIN Stored(c1) /\ ColumnIndex(ts, indexes[i].column) # 0
  <2> SUFFICES ASSUME NEW i \in ToSet(ts.names)
               PROVE  i \in DOMAIN Stored(c1) /\ ColumnIndex(ts, indexes[i].column) # 0
    OBVIOUS
  <2>1. i \in ToSet(tables[old].names)
    BY <1>4
  <2>2. i \in DOMAIN Stored(cat) /\ ColumnIndex(tables[old], indexes[i].column) # 0
    BY <1>1, <2>1 DEF Listing
  <2> QED BY <1>1, <1>4, <1>7, <1>8, <2>1, <2>2, SameColumns
<1>12. \A x \in DOMAIN U : ToSet(ts.names) \intersect ToSet(U[x].names) = {}
  BY <1>1, <1>4, <1>6 DEF Listing
<1>13. Listing(tables', indexes', cat')
  <2>1. \A x \in DOMAIN U : x \in DOMAIN Stored(c1)
    BY <1>6, <1>7
  <2> HIDE DEF U
  <2>2. Listing(Within(U, new, ts), indexes, cat')
    BY <1>1, <1>5, <1>9, <1>10, <1>11, <1>12, <2>1, ListingStored
  <2> QED BY <1>1, <1>2, <2>2
<1>14. ASSUME NEW y \in DOMAIN tables' PROVE Covers(tables'[y], indexes', rows', entries')
  <2>1. CASE y = new
    <3>1. tables'[y] = ts
      BY <1>1, <2>1 DEF Within
    <3>2. Widened(tables'[y], tables[old])
      BY <1>4, <3>1, SameWidened
    <3> QED BY <1>1, <1>2, <1>4, <3>1, <3>2, TableCovers
  <2>2. CASE y # new
    <3>1. y \in DOMAIN tables /\ tables'[y] = tables[y]
      BY <1>1, <1>6, <2>2 DEF Within
    <3>2. Widened(tables'[y], tables[y])
      BY <3>1, SameWidened
    <3> QED BY <1>1, <1>2, <3>1, <3>2, TableCovers
  <2> QED BY <2>1, <2>2
<1> QED BY <1>13, <1>14

(* The table keeps its names, and its columns come first.                  *)
LEMMA ListingSaved ==
    ASSUME SchemaInv, Listing(tables, indexes, cat), NEW t \in DOMAIN tables, NEW ts \in SchemaOf, OneName(ts),
           Widened(ts, tables[t]), ts.names = tables[t].names, NEW d, PutAs(cat, d, t, ts, TableLen(ts))
    PROVE  Listing(Within(tables, t, ts), indexes, d)
<1>1. /\ OneLeaf(cat, SchemaRow) /\ tables[t] \in SchemaOf /\ t \in DOMAIN Stored(cat) /\ Stored(cat)[t] \in SchemaOf
      /\ \A x \in DOMAIN tables : x \in DOMAIN Stored(cat)
  BY DEF SchemaInv, Agree, StoredTables, Maps, IsTable
<1>2. Len(tables[t].cols) <= Len(ts.cols)
  <2>1. /\ DOMAIN tables[t].cols = 1..Len(tables[t].cols) /\ DOMAIN ts.cols = 1..Len(ts.cols)
        /\ Len(tables[t].cols) \in Nat /\ Len(ts.cols) \in Nat
    BY <1>1, ColumnParts
  <2>2. Len(tables[t].cols) \in 1..Len(tables[t].cols) => Len(tables[t].cols) \in 1..Len(ts.cols)
    BY <2>1 DEF Widened
  <2> QED BY <2>1, <2>2
<1>3. ASSUME NEW i \in ToSet(ts.names) PROVE i \in DOMAIN Stored(cat) /\ ColumnIndex(ts, indexes[i].column) # 0
  <2>1. i \in DOMAIN Stored(cat) /\ ColumnIndex(tables[t], indexes[i].column) # 0
    BY <1>3 DEF Listing
  <2> QED BY <1>1, <2>1, ColumnStays
<1>4. \A x \in DOMAIN tables \ {t} : ToSet(ts.names) \intersect ToSet(tables[x].names) = {}
  BY DEF Listing
<1> QED BY <1>1, <1>2, <1>3, <1>4, ListingStored

LEMMA IndexAddColumn ==
    ASSUME SchemaInv, IndexInv, NEW t \in TableName, NEW col \in NewColumns, AddColumn(t, col), "split" \notin marks'
    PROVE  IndexInv'
<1> DEFINE ts == [tables[t] EXCEPT !.cols = Append(@, col)]
<1>1. /\ t \in DOMAIN tables /\ SchemaInv' /\ marks \subseteq marks'
      /\ tables' = Within(tables, t, ts) /\ indexes' = indexes /\ rows' = rows /\ entries' = entries
      /\ PutAs(cat, cat', t, ts, TableLen(ts))
      /\ ts \in SchemaOf /\ ts.tree = tables[t].tree /\ ts.names = tables[t].names
      /\ Len(ts.cols) = Len(tables[t].cols) + 1
      /\ \A i \in DOMAIN tables[t].cols : ts.cols[i] = tables[t].cols[i]
  BY AddColumnEffects
<1> HIDE DEF ts
<1>2. DOMAIN tables' = DOMAIN tables /\ \A x \in DOMAIN tables : tables'[x] = IF x = t THEN ts ELSE tables[x]
  BY <1>1 DEF Within
<1>3. Widened(ts, tables[t]) /\ OneName(ts)
  <2>1. /\ DOMAIN tables[t].cols = 1..Len(tables[t].cols) /\ DOMAIN ts.cols = 1..Len(ts.cols)
        /\ Len(tables[t].cols) \in Nat
    BY <1>1, TableParts, ColumnParts
  <2>2. \A i \in DOMAIN tables[t].cols : i \in DOMAIN ts.cols
    BY <1>1, <2>1
  <2>3. OneName(ts)
    BY <1>1, <1>2, TablesAfter
  <2> QED BY <1>1, <2>2, <2>3 DEF Widened
<1> SUFFICES ASSUME Listing(tables, indexes, cat), AllCover
             PROVE  /\ Listing(tables', indexes', cat')
                    /\ \A x \in DOMAIN tables' : Covers(tables'[x], indexes', rows', entries')
  BY <1>1, IndexStays DEF AllCover
<1>4. Listing(tables', indexes', cat')
  BY <1>1, <1>3, ListingSaved
<1>5. ASSUME NEW x \in DOMAIN tables' PROVE Covers(tables'[x], indexes', rows', entries')
  <2>1. Widened(tables'[x], tables[x]) /\ tables'[x].tree = tables[x].tree /\ tables'[x].names = tables[x].names
    BY <1>1, <1>2, <1>3, SameWidened
  <2> QED BY <1>1, <1>2, <2>1, TableCovers
<1> QED BY <1>4, <1>5

LEMMA MaintainedKey ==
    ASSUME NEW ts, NEW i, NEW row, NEW id
    PROVE  IndexKey(ts, i, row, id) = Entry(ts, indexes[i], row, id)
BY DEF IndexKey, Entry

LEMMA IndexInsert ==
    ASSUME SchemaInv, IndexInv, NEW t \in TableName, NEW given \in Inserts, NEW c, Insert(t, given, c),
           "split" \notin marks'
    PROVE  IndexInv'
<1> DEFINE ts  == tables[t]
           id  == NewId(ts, given)
           row == InsertedRow(ts, given)
           ts1 == Counted(ts, given)
<1>1. /\ t \in DOMAIN tables /\ SchemaInv' /\ tables' = Within(tables, t, ts1) /\ indexes' = indexes
      /\ ts1 \in SchemaOf /\ PutAs(cat, cat', t, ts1, TableLen(ts1))
      /\ id \in Int /\ row \in Row /\ Len(row) = Len(ts.cols)
      /\ \/ rows' = rows /\ entries' = entries
         \/ /\ RowSet(rows'[ts.tree], rows[ts.tree], id, row)
            /\ \A e \in Trees \ {ts.tree} : rows'[e] = rows[e]
            /\ \A e \in Trees : entries[e] \subseteq entries'[e]
            /\ \A i \in Maintained(ts) : indexes[i].tree \in Trees =>
                  IndexKey(ts, i, row, id) \in entries'[indexes[i].tree]
  BY InsertEffects
<1>2. marks \subseteq marks'
  BY DEF Insert
<1>3. ts \in SchemaOf /\ OneName(ts) /\ ts.tree \in Trees
  BY <1>1, TableParts
<1>4. ts1.cols = ts.cols /\ ts1.names = ts.names /\ ts1.tree = ts.tree
  BY <1>3 DEF Counted, SchemaOf
<1>5. Widened(ts1, ts) /\ OneName(ts1)
  BY <1>3, <1>4, SameWidened DEF OneName
<1> HIDE DEF id, row, ts1
<1>6. DOMAIN tables' = DOMAIN tables /\ \A x \in DOMAIN tables : tables'[x] = IF x = t THEN ts1 ELSE tables[x]
  BY <1>1 DEF Within
<1> SUFFICES ASSUME Listing(tables, indexes, cat), AllCover
             PROVE  /\ Listing(tables', indexes', cat')
                    /\ \A x \in DOMAIN tables' : Covers(tables'[x], indexes', rows', entries')
  BY <1>2, IndexStays DEF AllCover
<1>7. Listing(tables', indexes', cat')
  BY <1>1, <1>4, <1>5, ListingSaved
<1>8. ASSUME NEW x \in DOMAIN tables', rows' = rows, entries' = entries
      PROVE  Covers(tables'[x], indexes', rows', entries')
  <2>1. Widened(tables'[x], tables[x]) /\ tables'[x].tree = tables[x].tree /\ tables'[x].names = tables[x].names
    BY <1>4, <1>5, <1>6, SameWidened
  <2> QED BY <1>1, <1>6, <1>8, <2>1, TableCovers
<1>9. ASSUME NEW x \in DOMAIN tables',
             RowSet(rows'[ts.tree], rows[ts.tree], id, row),
             \A e \in Trees \ {ts.tree} : rows'[e] = rows[e],
             \A e \in Trees : entries[e] \subseteq entries'[e],
             \A i \in Maintained(ts) : indexes[i].tree \in Trees =>
                IndexKey(ts, i, row, id) \in entries'[indexes[i].tree]
      PROVE  Covers(tables'[x], indexes', rows', entries')
  <2>1. CASE x # t
    <3> DEFINE us == tables[x]
               S == rows'
               F == entries'
    <3>1. x \in DOMAIN tables /\ tables'[x] = us
      BY <1>6, <2>1
    <3>2. us \in SchemaOf /\ OneName(us) /\ us.tree # ts.tree /\ us.tree \in Trees
      BY <1>1, <2>1, <3>1, TableParts, TreesDiffer DEF Known
    <3>3. Fewer(S[us.tree], rows[us.tree])
      BY <1>9, <3>2 DEF Fewer
    <3>4. \A i \in ToSet(us.names) : entries[indexes[i].tree] \subseteq F[indexes[i].tree]
      BY <1>9, <3>1, ListedIndex
    <3>5. Covers(tables[x], indexes, rows, entries) /\ Widened(us, us)
      BY <3>1, SameWidened DEF AllCover
    <3>6. Covers(us, indexes, S, F)
      <4> HIDE DEF S, F
      <4> QED BY <3>1, <3>2, <3>3, <3>4, <3>5, CoversStays
    <3> QED BY <1>1, <3>1, <3>6
  <2>2. CASE x = t
    <3>1. tables'[x] = ts1
      BY <1>1, <1>6, <2>2
    <3>2. SUFFICES ASSUME NEW i \in ToSet(ts.names), NEW n \in Keys(rows'[ts.tree])
                   PROVE  Entry(ts1, indexes[i], Extended(ValueAt(rows'[ts.tree], n), ts1), n)
                             \in entries'[indexes[i].tree]
      BY <1>1, <1>4, <3>1 DEF Covers
    <3>3. /\ indexes[i].tree \in Trees /\ i \in Maintained(ts)
          /\ ColumnIndex(ts, indexes[i].column) # 0
      BY <1>1, ListedIndex DEF Maintained
    <3>4. CASE n = id
      <4>1. ValueAt(rows'[ts.tree], n) = row
        BY <1>9, <3>4 DEF RowSet
      <4>2. Entry(ts1, indexes[i], Extended(row, ts1), n) = Entry(ts, indexes[i], Extended(row, ts), n)
        BY <1>1, <1>3, <1>5, <3>3, EntryStays
      <4>3. Extended(row, ts) = row
        <5>1. Len(row) \in Nat /\ Len(row) >= Len(ts.cols)
          BY <1>1, RowParts
        <5> QED BY <1>1, <1>3, <5>1, ExtendedProperties
      <4>4. Entry(ts, indexes[i], row, id) \in entries'[indexes[i].tree]
        BY <1>9, <3>3, MaintainedKey
      <4> QED BY <3>4, <4>1, <4>2, <4>3, <4>4
    <3>5. CASE n # id
      <4> DEFINE old == ValueAt(rows[ts.tree], n)
      <4>1. n \in Keys(rows[ts.tree]) /\ ValueAt(rows'[ts.tree], n) = old
        BY <1>9, <3>2, <3>5 DEF RowSet
      <4>2. old \in Row
        BY <1>1, <4>1, TableParts
      <4>3. Entry(ts, indexes[i], Extended(old, ts), n) \in entries[indexes[i].tree]
        BY <1>1, <4>1 DEF AllCover, Covers
      <4> HIDE DEF old
      <4>4. Entry(ts1, indexes[i], Extended(old, ts1), n) = Entry(ts, indexes[i], Extended(old, ts), n)
        BY <1>1, <1>3, <1>5, <3>3, <4>2, EntryStays
      <4> QED BY <1>9, <3>3, <4>1, <4>3, <4>4
    <3> QED BY <3>4, <3>5
  <2> QED BY <2>1, <2>2
<1> QED BY <1>1, <1>7, <1>8, <1>9

LEMMA IndexDelete ==
    ASSUME SchemaInv, IndexInv, NEW t \in TableName, NEW id, Delete(t, id)
    PROVE  IndexInv'
<1> DEFINE ts == tables[t]
<1>1. /\ t \in DOMAIN tables /\ SchemaInv' /\ UNCHANGED <<tables, indexes, cat, marks>>
      /\ id \notin Keys(rows'[ts.tree]) /\ Fewer(rows'[ts.tree], rows[ts.tree])
      /\ \A e \in Trees \ {ts.tree} : rows'[e] = rows[e]
      /\ \A e \in Trees : \A key \in entries[e] :
            key[2] # id \/ (\A i \in Maintained(ts) : indexes[i].tree # e) => key \in entries'[e]
  BY DeleteEffects DEF Fewer
<1>2. Maintained(ts) \subseteq ToSet(ts.names) \intersect DOMAIN indexes
  BY DEF Maintained
<1> SUFFICES ASSUME Listing(tables, indexes, cat), AllCover, NEW x \in DOMAIN tables
             PROVE  Covers(tables[x], indexes, rows', entries')
  BY <1>1, IndexStays DEF AllCover
<1> DEFINE us == tables[x]
           S == rows'
           F == entries'
<1>3. us \in SchemaOf /\ OneName(us) /\ Widened(us, us) /\ Covers(us, indexes, rows, entries) /\ us.tree \in Trees
  BY TableParts, SameWidened DEF AllCover
<1>4. CASE x = t
  <2>1. \A i \in ToSet(us.names) : \A key \in entries[indexes[i].tree] :
           key[2] \in Keys(S[us.tree]) => key \in F[indexes[i].tree]
    BY <1>1, <1>4, ListedIndex
  <2>2. Fewer(S[us.tree], rows[us.tree])
    BY <1>1, <1>4
  <2> HIDE DEF S, F
  <2>3. Covers(us, indexes, S, F)
    BY <1>3, <2>1, <2>2, CoversStays
  <2> QED BY <2>3 DEF S, F
<1>5. CASE x # t
  <2>1. \A i \in ToSet(us.names) : \A key \in entries[indexes[i].tree] : key \in F[indexes[i].tree]
    <3> SUFFICES ASSUME NEW i \in ToSet(us.names), NEW key \in entries[indexes[i].tree]
                 PROVE  key \in F[indexes[i].tree]
      OBVIOUS
    <3>1. /\ indexes[i].tree \in Trees /\ i \notin ToSet(ts.names)
          /\ \A j \in DOMAIN indexes \ {i} : indexes[j].tree # indexes[i].tree
      BY <1>1, <1>5, ListedIndex
    <3>2. \A j \in Maintained(ts) : indexes[j].tree # indexes[i].tree
      BY <1>2, <3>1
    <3> QED BY <1>1, <3>1, <3>2
  <2>2. us.tree # ts.tree
    BY <1>1, <1>5, TreesDiffer DEF Known
  <2>3. Fewer(S[us.tree], rows[us.tree])
    BY <1>1, <1>3, <2>2 DEF Fewer
  <2> HIDE DEF S, F
  <2>4. Covers(us, indexes, S, F)
    BY <1>3, <2>1, <2>3, CoversStays
  <2> QED BY <2>4 DEF S, F
<1> QED BY <1>4, <1>5

LEMMA IndexUpdate ==
    ASSUME SchemaInv, IndexInv, NEW t \in TableName, NEW id, NEW given \in Updates, Update(t, id, given)
    PROVE  IndexInv'
<1> DEFINE ts  == tables[t]
           old == Extended(RowAt(t, id), ts)
           new == UpdatedRow(ts, old, given)
<1>1. /\ t \in DOMAIN tables /\ SchemaInv' /\ UNCHANGED <<tables, indexes, cat>> /\ marks \subseteq marks'
      /\ id \in RowKeys(t) /\ RowAt(t, id) \in Row /\ old \in Row /\ new \in Row
      /\ \A e \in Trees \ {ts.tree} : rows'[e] = rows[e]
      /\ "refused" \in marks' \/ (/\ RowSet(rows'[ts.tree], rows[ts.tree], id, new)
                                  /\ Keys(rows'[ts.tree]) \subseteq Keys(rows[ts.tree]))
      /\ \A e \in Trees : \A key \in entries[e] :
            key[2] # id \/ (\A i \in Maintained(ts) : indexes[i].column \in DOMAIN given => indexes[i].tree # e)
               => key \in entries'[e]
      /\ \A i \in Maintained(ts) : OneEach(indexes) /\ indexes[i].column \in DOMAIN given /\ indexes[i].tree \in Trees
            => IndexKey(ts, i, new, id) \in entries'[indexes[i].tree]
  BY UpdateEffects
<1>2. Maintained(ts) \subseteq ToSet(ts.names) \intersect DOMAIN indexes
  BY DEF Maintained
<1>3. ts \in SchemaOf /\ OneName(ts)
  BY <1>1, TableParts
<1>4. Len(new) = Len(old) /\ Extended(new, ts) = new /\ DOMAIN ts.cols \subseteq DOMAIN old
      /\ \A i \in DOMAIN ts.cols : ts.cols[i].name \notin DOMAIN given => new[i] = old[i]
  <2>1. Len(old) >= Len(ts.cols) /\ Len(ts.cols) \in Nat /\ Len(RowAt(t, id)) \in Nat /\ Len(old) \in Nat
    BY <1>1, <1>3, ExtendedProperties, RowParts, ColumnParts
  <2> HIDE DEF old, ts
  <2>2. /\ Len(new) = Len(old)
        /\ \A i \in DOMAIN old : ts.cols[i].name \notin DOMAIN given => new[i] = old[i]
    BY <1>1, <1>3, UpdatedRowProperties
  <2>3. DOMAIN ts.cols \subseteq DOMAIN old
    BY <1>1, <1>3, <2>1, RowParts, ColumnParts
  <2> HIDE DEF new
  <2>4. Extended(new, ts) = new
    BY <1>1, <1>3, <2>1, <2>2, ExtendedProperties
  <2> QED BY <2>2, <2>3, <2>4 DEF old, ts, new
<1> HIDE DEF new, old
<1> SUFFICES ASSUME Listing(tables, indexes, cat), AllCover, "refused" \notin marks', NEW x \in DOMAIN tables
             PROVE  Covers(tables[x], indexes, rows', entries')
  BY <1>1, IndexStays DEF AllCover
<1>5. RowSet(rows'[ts.tree], rows[ts.tree], id, new) /\ Keys(rows'[ts.tree]) \subseteq Keys(rows[ts.tree])
  BY <1>1
<1>6. CASE x # t
  <2> DEFINE us == tables[x]
             S == rows'
             F == entries'
  <2>1. us \in SchemaOf /\ OneName(us) /\ Widened(us, us) /\ Covers(us, indexes, rows, entries) /\ us.tree \in Trees
    BY TableParts, SameWidened DEF AllCover
  <2>2. \A i \in ToSet(us.names) : \A key \in entries[indexes[i].tree] : key \in F[indexes[i].tree]
    <3> SUFFICES ASSUME NEW i \in ToSet(us.names), NEW key \in entries[indexes[i].tree]
                 PROVE  key \in F[indexes[i].tree]
      OBVIOUS
    <3>1. /\ indexes[i].tree \in Trees /\ i \notin ToSet(ts.names)
          /\ \A j \in DOMAIN indexes \ {i} : indexes[j].tree # indexes[i].tree
      BY <1>1, <1>6, ListedIndex
    <3>2. \A j \in Maintained(ts) : indexes[j].tree # indexes[i].tree
      BY <1>2, <3>1
    <3> QED BY <1>1, <3>1, <3>2
  <2>3. us.tree # ts.tree
    BY <1>1, <1>6, TreesDiffer DEF Known
  <2>4. Fewer(S[us.tree], rows[us.tree])
    BY <1>1, <2>1, <2>3 DEF Fewer
  <2> HIDE DEF S, F
  <2>5. Covers(us, indexes, S, F)
    BY <2>1, <2>2, <2>4, CoversStays
  <2> QED BY <2>5 DEF S, F
<1>7. CASE x = t
  <2> SUFFICES ASSUME NEW i \in ToSet(ts.names), NEW n \in Keys(rows'[ts.tree])
               PROVE  Entry(ts, indexes[i], Extended(ValueAt(rows'[ts.tree], n), ts), n) \in entries'[indexes[i].tree]
    BY <1>7 DEF Covers
  <2>1. /\ indexes[i].tree \in Trees /\ i \in Maintained(ts) /\ OneEach(indexes)
        /\ ColumnIndex(ts, indexes[i].column) # 0
        /\ \A j \in DOMAIN indexes \ {i} : indexes[j].tree # indexes[i].tree
    BY <1>1, ListedIndex DEF Maintained
  <2> DEFINE was == Extended(ValueAt(rows[ts.tree], n), ts)
  <2>2. n \in Keys(rows[ts.tree]) /\ Entry(ts, indexes[i], was, n) \in entries[indexes[i].tree]
    BY <1>1, <1>5 DEF AllCover, Covers
  <2>3. Entry(ts, indexes[i], was, n)[2] = n
    BY DEF Entry
  <2>4. CASE n # id
    <3>1. ValueAt(rows'[ts.tree], n) = ValueAt(rows[ts.tree], n)
      BY <1>5, <2>4 DEF RowSet
    <3> HIDE DEF was
    <3>2. Entry(ts, indexes[i], was, n) \in entries'[indexes[i].tree]
      BY <1>1, <2>1, <2>2, <2>3, <2>4
    <3> QED BY <3>1, <3>2 DEF was
  <2>5. CASE n = id /\ indexes[i].column \in DOMAIN given
    <3>1. ValueAt(rows'[ts.tree], n) = new
      BY <1>5, <2>5 DEF RowSet
    <3> QED BY <1>1, <1>4, <2>1, <2>5, <3>1, MaintainedKey
  <2>6. CASE n = id /\ indexes[i].column \notin DOMAIN given
    <3>1. ValueAt(rows'[ts.tree], n) = new /\ was = old
      BY <1>5, <2>6 DEF RowSet, old, RowAt
    <3>2. \A j \in Maintained(ts) : indexes[j].column \in DOMAIN given => indexes[j].tree # indexes[i].tree
      BY <1>2, <2>1, <2>6
    <3>3. Entry(ts, indexes[i], was, n) \in entries'[indexes[i].tree]
      BY <1>1, <2>1, <2>2, <3>2
    <3> DEFINE k == ColumnIndex(ts, indexes[i].column)
    <3>4. k \in DOMAIN ts.cols /\ ts.cols[k].name = indexes[i].column
      BY <1>3, <2>1, ColumnFound
    <3>5. new[k] = old[k]
      BY <1>4, <2>6, <3>4
    <3>6. Entry(ts, indexes[i], new, n) = Entry(ts, indexes[i], was, n)
      BY <3>1, <3>5 DEF Entry
    <3> QED BY <1>4, <3>1, <3>3, <3>6
  <2> QED BY <2>4, <2>5, <2>6
<1> QED BY <1>6, <1>7

LEMMA IndexView ==
    ASSUME SchemaInv, IndexInv, NEW v \in ViewName, CreateView(v) \/ DropView(v), "split" \notin marks'
    PROVE  IndexInv'
<1>1. /\ SchemaInv' /\ tables' = tables /\ indexes' = indexes
      /\ \A x \in DOMAIN Stored(cat) : x # v => x \in DOMAIN Stored(cat') /\ Stored(cat')[x] = Stored(cat)[x]
      /\ \A x : x # v => Limits(cat', x) = Limits(cat, x)
  BY ViewEffects
<1>2. rows' = rows /\ entries' = entries /\ marks \subseteq marks'
  BY DEF CreateView, DropView
<1> SUFFICES ASSUME Listing(tables, indexes, cat), AllCover
             PROVE  /\ Listing(tables', indexes', cat')
                    /\ \A x \in DOMAIN tables' : Covers(tables'[x], indexes', rows', entries')
  BY <1>2, IndexStays DEF AllCover
<1>3. \A x \in DOMAIN tables : x \in DOMAIN Stored(cat) /\ x # v
  BY TablesAssumption DEF SchemaInv, Agree, StoredTables, Maps
<1>4. \A x \in DOMAIN tables : \A i \in ToSet(tables[x].names) : i # v
  <2> SUFFICES ASSUME NEW x \in DOMAIN tables, NEW i \in ToSet(tables[x].names) PROVE i # v
    OBVIOUS
  <2>1. i \in IndexName
    BY ListedIndex
  <2> QED BY <2>1, TablesAssumption
<1>5. Listing(tables, indexes, cat')
  BY <1>1, <1>3, <1>4, ListingKeeps
<1> QED BY <1>1, <1>2, <1>5 DEF AllCover

LEMMA PutKeeps ==
    ASSUME NEW c, NEW d, NEW k, NEW v, NEW n, PutAs(c, d, k, v, n)
    PROVE  /\ \A x \in DOMAIN Stored(c) \ {k} : x \in DOMAIN Stored(d) /\ Stored(d)[x] = Stored(c)[x]
           /\ DOMAIN Stored(c) \subseteq DOMAIN Stored(d)
           /\ \A x : x # k => Limits(d, x) = Limits(c, x)
           /\ k \notin DOMAIN Stored(c) => k \in DOMAIN Stored(d)
<1>1. SameLimits(c, d, k)
  BY PutElsewhere
<1>2. \A x : x # k => Limits(d, x) = Limits(c, x)
  BY <1>1 DEF SameLimits
<1>3. k \notin DOMAIN Stored(c) => CanStore(c, k, n)
  BY NewKey
<1> QED BY <1>2, <1>3, PutElsewhere

LEMMA IndexCreateIndex ==
    ASSUME SchemaInv, IndexInv, NEW i \in IndexName, NEW t \in TableName, NEW column \in ColumnName,
           CreateIndex(i, t, column), "split" \notin marks'
    PROVE  IndexInv'
<1> DEFINE is == [name |-> i, table |-> t, column |-> column, tree |-> NewTree]
           ts == [tables[t] EXCEPT !.names = Append(@, i), !.noNames = FALSE]
           c1 == Put(cat, i, is, BaseLen).cat
           J  == Within(indexes, i, is)
<1>1. /\ SchemaInv' /\ t \in DOMAIN tables /\ tables' = Within(tables, t, ts) /\ indexes' = J
      /\ ts \in SchemaOf /\ is \in IndexOf /\ i \notin DOMAIN indexes /\ i \notin DOMAIN Stored(cat)
      /\ PutAs(cat, c1, i, is, BaseLen) /\ PutAs(c1, cat', t, ts, TableLen(ts))
      /\ \A e \in 1..Len(rows) : rows'[e] = rows[e] /\ entries'[e] = entries[e]
  BY CreateIndexEffects
<1>2. /\ marks \subseteq marks' /\ ~Splits(cat, i, BaseLen)
      /\ ColumnIndex(tables[t], column) # 0
      /\ "late" \notin marks' => Keys(rows[ts.tree]) = {}
  BY DEF CreateIndex, Mark
<1>3. /\ OneLeaf(cat, SchemaRow) /\ tables[t] \in SchemaOf /\ OneName(tables[t]) /\ tables[t].tree \in Trees
      /\ Trees = 1..Len(rows)
      /\ (\A x \in DOMAIN tables : x \in TableName /\ x \in DOMAIN Stored(cat) /\ Stored(cat)[x] \in SchemaOf)
  BY <1>1, TableParts DEF SchemaInv, Agree, StoredTables, Maps, IsTable
<1>4. /\ ts.cols = tables[t].cols /\ ts.tree = tables[t].tree /\ ts.names = Append(tables[t].names, i)
      /\ ToSet(ts.names) = ToSet(tables[t].names) \union {i}
  BY <1>3, AppendToSet DEF SchemaOf
<1>5. OneLeaf(c1, SchemaRow)
  <2>1. i \in Int /\ BaseLen \in Int /\ is \in SchemaRow
    BY <1>1, NamesAreInts, TablesAssumption DEF SchemaRow
  <2> HIDE DEF is
  <2> QED BY <1>2, <1>3, <2>1, Putting
<1>6. is.column = column
  OBVIOUS
<1> HIDE DEF ts, c1, is
<1>7. DOMAIN tables' = DOMAIN tables /\ \A x \in DOMAIN tables : tables'[x] = IF x = t THEN ts ELSE tables[x]
  BY <1>1 DEF Within
<1>8. J[i] = is /\ \A k \in DOMAIN indexes \ {i} : J[k] = indexes[k]
  BY DEF Within
<1> HIDE DEF J
<1> SUFFICES ASSUME Listing(tables, indexes, cat), AllCover, "late" \notin marks'
             PROVE  /\ Listing(tables', indexes', cat')
                    /\ \A x \in DOMAIN tables' : Covers(tables'[x], indexes', rows', entries')
  BY <1>2, IndexStays DEF AllCover
<1>9. \A x \in DOMAIN tables : \A k \in ToSet(tables[x].names) : k # i /\ J[k] = indexes[k] /\ k \in DOMAIN Stored(cat)
  BY <1>1, <1>8, ListedIndex
<1>10. /\ \A x \in DOMAIN Stored(cat) : x \in DOMAIN Stored(c1) /\ Stored(c1)[x] = Stored(cat)[x]
       /\ i \in DOMAIN Stored(c1)
       /\ \A x \in DOMAIN tables : Limits(c1, x) = Limits(cat, x)
  <2>1. \A x \in DOMAIN tables : x # i
    BY <1>3, TablesAssumption
  <2> QED BY <1>1, <2>1, PutKeeps
<1>11. Listing(tables, J, c1)
  BY <1>3, <1>9, <1>10, ListingKeeps
<1>12. \A k \in ToSet(ts.names) : k \in DOMAIN Stored(c1) /\ ColumnIndex(ts, J[k].column) # 0
  <2> SUFFICES ASSUME NEW k \in ToSet(ts.names) PROVE k \in DOMAIN Stored(c1) /\ ColumnIndex(ts, J[k].column) # 0
    OBVIOUS
  <2>1. ColumnIndex(tables[t], J[k].column) # 0 /\ k \in DOMAIN Stored(c1)
    <3>1. CASE k = i
      BY <1>2, <1>6, <1>8, <1>10, <3>1
    <3>2. CASE k \in ToSet(tables[t].names)
      BY <1>1, <1>11, <3>2 DEF Listing
    <3> QED BY <1>4, <3>1, <3>2
  <2> QED BY <1>4, <2>1, SameColumns
<1>13. \A x \in DOMAIN tables \ {t} : ToSet(ts.names) \intersect ToSet(tables[x].names) = {}
  <2> SUFFICES ASSUME NEW x \in DOMAIN tables \ {t}, NEW k \in ToSet(ts.names), k \in ToSet(tables[x].names)
               PROVE  FALSE
    OBVIOUS
  <2>1. k \in ToSet(tables[t].names)
    BY <1>4, <1>9
  <2> QED BY <1>1, <2>1 DEF Listing
<1>14. Listing(tables', indexes', cat')
  <2>1. Len(tables[t].cols) <= Len(ts.cols)
    BY <1>3, <1>4, ColumnParts
  <2>2. /\ t \in DOMAIN Stored(c1) /\ Stored(c1)[t] \in SchemaOf
        /\ \A x \in DOMAIN tables : x \in DOMAIN Stored(c1)
    BY <1>1, <1>3, <1>10
  <2>3. Listing(Within(tables, t, ts), J, cat')
    BY <1>1, <1>3, <1>5, <1>11, <1>12, <1>13, <2>1, <2>2, ListingStored
  <2> QED BY <1>1, <2>3
<1>15. ASSUME NEW x \in DOMAIN tables' PROVE Covers(tables'[x], indexes', rows', entries')
  <2>1. CASE x = t
    <3>1. Keys(rows'[ts.tree]) = {}
      BY <1>1, <1>2, <1>3, <1>4
    <3> QED BY <1>1, <1>7, <2>1, <3>1 DEF Covers
  <2>2. CASE x # t
    <3>1. x \in DOMAIN tables /\ tables'[x] = tables[x]
      BY <1>7, <2>2
    <3>2. Widened(tables'[x], tables[x]) /\ \A k \in ToSet(tables'[x].names) : indexes'[k] = indexes[k]
      BY <1>1, <1>9, <3>1, SameWidened
    <3> QED BY <1>1, <1>3, <3>1, <3>2, TableCovers
  <2> QED BY <2>1, <2>2
<1> QED BY <1>14, <1>15

LEMMA IndexDropIndex ==
    ASSUME SchemaInv, IndexInv, NEW i \in IndexName, NEW t, t = indexes[i].table, DropIndex(i), "split" \notin marks'
    PROVE  IndexInv'
<1> DEFINE ts == [tables[t] EXCEPT !.names = Others(@, i), !.noNames = FALSE]
           c1 == Removed(cat, i)
           J  == indexes'
<1>1. /\ SchemaInv' /\ RemovedAs(cat, c1, i) /\ OneLeaf(c1, SchemaRow)
      /\ \/ /\ t \in DOMAIN tables /\ ts \in SchemaOf
            /\ tables' = Within(tables, t, ts)
            /\ PutAs(c1, cat', t, ts, TableLen(ts))
         \/ tables' = tables /\ cat' = c1
      /\ indexes' = indexes \/ indexes' = Except(indexes, i)
  BY DropIndexEffects
<1>2. /\ marks \subseteq marks' /\ rows' = rows /\ entries' = entries
      /\ "listed" \notin marks' => ~Listed(i, tables')
  <2>1. CASE t \in DOMAIN tables
    BY <2>1 DEF DropIndex, Mark
  <2>2. CASE t \notin DOMAIN tables
    BY <2>2 DEF DropIndex, Mark
  <2> QED BY <2>1, <2>2
<1>3. \A x \in DOMAIN tables : x \in TableName /\ x \in DOMAIN Stored(cat) /\ Stored(cat)[x] \in SchemaOf /\ x # i
  BY TablesAssumption DEF SchemaInv, Agree, StoredTables, Maps, IsTable
<1> HIDE DEF c1, ts
<1>4. \A k \in DOMAIN indexes \ {i} : J[k] = indexes[k]
  BY <1>1 DEF Except
<1> HIDE DEF J
<1>5. /\ \A x \in DOMAIN Stored(cat) \ {i} : x \in DOMAIN Stored(c1) /\ Stored(c1)[x] = Stored(cat)[x]
      /\ \A x : x # i => Limits(c1, x) = Limits(cat, x)
  BY <1>1, RemoveKeeps
<1> SUFFICES ASSUME Listing(tables, indexes, cat), AllCover, ~Listed(i, tables')
             PROVE  /\ Listing(tables', indexes', cat')
                    /\ \A x \in DOMAIN tables' : Covers(tables'[x], indexes', rows', entries')
  BY <1>2, IndexStays DEF AllCover
<1>6. \A x \in DOMAIN tables' : i \notin ToSet(tables'[x].names)
  BY DEF Listed
<1>7. CASE tables' = tables /\ cat' = c1
  <2>1. \A x \in DOMAIN tables : \A k \in ToSet(tables[x].names) : k # i /\ k \in DOMAIN indexes /\ J[k] = indexes[k]
    BY <1>4, <1>6, <1>7, ListedIndex
  <2>2. Listing(tables, J, c1)
    BY <1>3, <1>5, <2>1, ListingKeeps
  <2>3. ASSUME NEW x \in DOMAIN tables PROVE Covers(tables'[x], indexes', rows', entries')
    <3>1. Widened(tables'[x], tables[x])
      BY <1>7, SameWidened
    <3> QED BY <1>1, <1>2, <1>7, <2>1, <2>3, <3>1, TableCovers DEF J
  <2> QED BY <1>7, <2>2, <2>3 DEF J
<1>8. CASE t \in DOMAIN tables /\ ts \in SchemaOf /\ tables' = Within(tables, t, ts)
           /\ PutAs(c1, cat', t, ts, TableLen(ts))
  <2>1. DOMAIN tables' = DOMAIN tables /\ \A x \in DOMAIN tables : tables'[x] = IF x = t THEN ts ELSE tables[x]
    BY <1>8 DEF Within
  <2>2. ts.cols = tables[t].cols /\ ts.tree = tables[t].tree /\ ToSet(ts.names) = ToSet(tables[t].names) \ {i}
        /\ tables[t] \in SchemaOf
    <3>1. tables[t] \in SchemaOf
      BY <1>8, TableParts
    <3>2. tables[t].names \in Seq(IndexName)
      BY <3>1 DEF SchemaOf
    <3>3. ToSet(Others(tables[t].names, i)) = ToSet(tables[t].names) \ {i}
      BY <3>2, OthersProperties
    <3> QED BY <3>1, <3>3 DEF ts, SchemaOf
  <2> DEFINE U == Within(tables, t, ts)
  <2>3. DOMAIN U = DOMAIN tables /\ \A x \in DOMAIN tables : U[x] = tables'[x]
    BY <1>8, <2>1
  <2>4. \A x \in DOMAIN tables : /\ tables'[x].cols = tables[x].cols /\ tables'[x].tree = tables[x].tree
                                 /\ ToSet(tables'[x].names) \subseteq ToSet(tables[x].names)
    BY <2>1, <2>2
  <2>5. \A x \in DOMAIN tables : \A k \in ToSet(tables'[x].names) : k # i /\ k \in DOMAIN indexes /\ J[k] = indexes[k]
    BY <1>4, <1>6, <2>1, <2>4, ListedIndex
  <2> HIDE DEF U
  <2>6. Listing(U, J, c1)
    BY <1>3, <1>5, <2>3, <2>4, <2>5, ListingKeeps
  <2>7. U[t] = ts /\ t \in DOMAIN U
    BY <1>8, <2>1, <2>3
  <2>8. /\ t \in DOMAIN Stored(c1) /\ Stored(c1)[t] \in SchemaOf /\ Len(U[t].cols) <= Len(ts.cols)
        /\ \A x \in DOMAIN U : x \in DOMAIN Stored(c1)
    BY <1>3, <1>5, <1>8, <2>2, <2>3, <2>7, ColumnParts
  <2>9. \A k \in ToSet(ts.names) : k \in DOMAIN Stored(c1) /\ ColumnIndex(ts, J[k].column) # 0
    BY <2>6, <2>7 DEF Listing
  <2>10. \A x \in DOMAIN U \ {t} : ToSet(ts.names) \intersect ToSet(U[x].names) = {}
    BY <2>6, <2>7 DEF Listing
  <2>11. Listing(Within(U, t, ts), J, cat')
    BY <1>1, <1>8, <2>6, <2>7, <2>8, <2>9, <2>10, ListingStored
  <2>12. Within(U, t, ts) = tables'
    BY <1>8, <2>1, <2>3, <2>7 DEF Within, U
  <2>13. ASSUME NEW x \in DOMAIN tables' PROVE Covers(tables'[x], indexes', rows', entries')
    <3>1. x \in DOMAIN tables /\ Widened(tables'[x], tables[x])
      BY <2>1, <2>4, SameWidened
    <3> QED BY <1>1, <1>2, <2>4, <2>5, <3>1, TableCovers DEF J
  <2> QED BY <2>11, <2>12, <2>13 DEF J
<1> QED BY <1>1, <1>7, <1>8

LEMMA IndexReopen ==
    ASSUME SchemaInv, IndexInv, Reopen
    PROVE  IndexInv'
<1>1. /\ SchemaInv' /\ Stored(cat') = Stored(cat)
      /\ \A x : Limits(cat', x) = Limits(cat, x)
      /\ \A t \in DOMAIN tables' : t \in DOMAIN tables /\ tables'[t] = Stored(cat)[t]
      /\ \A i \in DOMAIN indexes' : indexes'[i] = indexes[i]
  BY ReopenEffects
<1>2. /\ rows' = rows /\ entries' = entries /\ marks' = marks
      /\ DOMAIN indexes' = DOMAIN Stored(cat) \intersect IndexName
  BY DEF Reopen
<1> SUFFICES ASSUME Listing(tables, indexes, cat), AllCover
             PROVE  /\ Listing(tables', indexes', cat')
                    /\ \A x \in DOMAIN tables' : Covers(tables'[x], indexes', rows', entries')
  BY <1>2, IndexStays DEF AllCover
<1>3. ASSUME NEW t \in DOMAIN tables'
      PROVE  /\ t \in DOMAIN tables
             /\ tables'[t] = tables[t] \/ tables'[t].names = << >>
             /\ tables'[t] \in SchemaOf /\ tables'[t].tree = tables[t].tree
  <2>1. /\ t \in DOMAIN tables /\ tables'[t] = Stored(cat)[t] /\ tables'[t] \in SchemaOf
        /\ Stored(cat)[t].tree = tables[t].tree
        /\ Limits(cat, t) = {} => Stored(cat)[t] = tables[t]
    BY <1>1, <1>3 DEF SchemaInv, Agree, StoredTables, Maps, IsTable
  <2>2. Limits(cat, t) # {} => Stored(cat)[t].names = << >>
    BY <2>1 DEF Listing
  <2> QED BY <2>1, <2>2
<1>4. ASSUME NEW t \in DOMAIN tables', NEW i \in ToSet(tables'[t].names)
      PROVE  /\ tables'[t] = tables[t] /\ i \in DOMAIN Stored(cat) /\ indexes'[i] = indexes[i]
             /\ ColumnIndex(tables[t], indexes[i].column) # 0
  <2>1. tables'[t] = tables[t] /\ t \in DOMAIN tables
    BY <1>3, <1>4, NothingListed
  <2>2. i \in DOMAIN Stored(cat) /\ i \in IndexName /\ ColumnIndex(tables[t], indexes[i].column) # 0
    BY <1>4, <2>1, ListedIndex DEF Listing
  <2> QED BY <1>1, <1>2, <2>1, <2>2
<1>5. Listing(tables', indexes', cat')
  <2>1. \A t \in DOMAIN tables' : \A i \in ToSet(tables'[t].names) :
           i \in DOMAIN Stored(cat') /\ ColumnIndex(tables'[t], indexes'[i].column) # 0
    BY <1>1, <1>4
  <2>2. \A t, u \in DOMAIN tables' : ToSet(tables'[t].names) \intersect ToSet(tables'[u].names) # {} => t = u
    <3> SUFFICES ASSUME NEW t \in DOMAIN tables', NEW u \in DOMAIN tables',
                        NEW i \in ToSet(tables'[t].names), i \in ToSet(tables'[u].names)
                 PROVE  t = u
      OBVIOUS
    <3>1. i \in ToSet(tables[t].names) /\ i \in ToSet(tables[u].names) /\ t \in DOMAIN tables /\ u \in DOMAIN tables
      BY <1>3, <1>4
    <3> QED BY <3>1 DEF Listing
  <2>3. \A t \in DOMAIN tables' : \A s \in Limits(cat', t) :
           /\ Stored(cat')[t].names = << >>
           /\ s <= BaseLen + ColumnLen * Len(Stored(cat')[t].cols) + 5
           /\ Len(Stored(cat')[t].cols) <= Len(tables'[t].cols)
    <3>1. \A t \in DOMAIN tables' : Len(tables'[t].cols) \in Nat /\ Stored(cat')[t] = tables'[t]
      BY <1>1, <1>3, ColumnParts
    <3> QED BY <1>1, <3>1 DEF Listing
  <2> QED BY <2>1, <2>2, <2>3 DEF Listing
<1>6. ASSUME NEW x \in DOMAIN tables' PROVE Covers(tables'[x], indexes', rows', entries')
  <2>1. CASE tables'[x].names = << >>
    BY <2>1, NothingListed DEF Covers
  <2>2. CASE tables'[x] = tables[x]
    <3>1. Widened(tables'[x], tables[x]) /\ x \in DOMAIN tables
      BY <1>3, <2>2, SameWidened
    <3> QED BY <1>1, <1>2, <1>4, <2>2, <3>1, TableCovers
  <2> QED BY <1>3, <2>1, <2>2
<1> QED BY <1>5, <1>6

LEMMA IndexStep ==
    ASSUME SchemaInv, IndexInv, [Next]_vars, "split" \notin marks'
    PROVE  IndexInv'
<1>1. ASSUME NEW t \in TableName, NEW old \in ColumnName, NEW new \in ColumnName, RenameColumn(t, old, new)
      PROVE  IndexInv'
  BY <1>1, RenameColumnEffects DEF IndexInv
<1>2. ASSUME NEW t \in TableName, NEW column \in ColumnName, DropColumn(t, column) PROVE IndexInv'
  BY <1>2, DropColumnEffects DEF IndexInv
<1>3. ASSUME NEW t \in TableName,
             \/ \E d \in Designs : CreateTable(t, d)
             \/ DropTable(t)
             \/ \E new \in TableName : RenameTable(t, new)
             \/ \E col \in NewColumns : AddColumn(t, col)
      PROVE  IndexInv'
  BY <1>3, IndexCreateTable, IndexDropTable, IndexRenameTable, IndexAddColumn
<1>4. ASSUME NEW t \in TableName,
             \/ \E given \in Inserts, c \in {"ABORT", "IGNORE", "REPLACE"} : Insert(t, given, c)
             \/ \E id \in (-MaxInt-1)..MaxInt : Delete(t, id)
             \/ \E id \in (-MaxInt-1)..MaxInt, given \in Updates : Update(t, id, given)
      PROVE  IndexInv'
  BY <1>4, IndexInsert, IndexDelete, IndexUpdate
<1>5. ASSUME NEW i \in IndexName, \/ \E t \in TableName, column \in ColumnName : CreateIndex(i, t, column)
                                  \/ DropIndex(i)
      PROVE  IndexInv'
  <2>1. CASE \E t \in TableName, column \in ColumnName : CreateIndex(i, t, column)
    BY <2>1, IndexCreateIndex
  <2>2. CASE DropIndex(i)
    <3> SUFFICES ASSUME NEW t, t = indexes[i].table PROVE IndexInv'
      OBVIOUS
    <3> QED BY <2>2, IndexDropIndex
  <2> QED BY <1>5, <2>1, <2>2
<1>6. ASSUME NEW v \in ViewName, CreateView(v) \/ DropView(v) PROVE IndexInv'
  BY <1>6, IndexView
<1>7. CASE Reopen
  BY <1>7, IndexReopen
<1>8. CASE UNCHANGED vars
  BY <1>8 DEF vars, IndexInv, Covers
<1> QED BY <1>1, <1>2, <1>3, <1>4, <1>5, <1>6, <1>7, <1>8 DEF Next

LEMMA IndexRead ==
    ASSUME SchemaInv, IndexInv
    PROVE  IndexCovers
<1> SUFFICES ASSUME \A t \in DOMAIN tables : Covers(tables[t], indexes, rows, entries),
                    NEW t \in DOMAIN tables, NEW i \in Maintained(tables[t]), NEW id \in Keys(rows[tables[t].tree])
             PROVE  IndexKey(tables[t], i, Extended(ValueAt(rows[tables[t].tree], id), tables[t]), id)
                       \in entries[indexes[i].tree]
  BY DEF IndexInv, IndexCovers
<1>1. i \in ToSet(tables[t].names)
  BY DEF Maintained
<1> QED BY <1>1, MaintainedKey DEF Covers

-----------------------------------------------------------------------------
LEMMA Starts == Init => IInv
<1> SUFFICES ASSUME Init PROVE SchemaInv /\ CounterInv /\ KeyInv /\ NullInv /\ IndexInv
  BY DEF IInv
<1>1. SchemaInv /\ DOMAIN tables = {}
  BY SchemaInit
<1> QED BY <1>1 DEF CounterInv, KeyInv, NullInv, IndexInv, Listing

LEMMA Stays == IInv /\ [Next]_vars => IInv'
<1> SUFFICES ASSUME IInv, [Next]_vars, "split" \notin marks'
             PROVE  SchemaInv' /\ CounterInv' /\ KeyInv' /\ NullInv' /\ IndexInv'
  BY DEF IInv
<1>1. "split" \notin marks
  BY MarksGrow
<1>2. SchemaInv /\ CounterInv /\ KeyInv /\ NullInv /\ IndexInv
  BY <1>1 DEF IInv
<1> QED BY <1>2, SchemaStep, CounterStep, KeyStep, NullStep, IndexStep

LEMMA TablesInvariant == Spec => []IInv
  BY Starts, Stays, PTL DEF Spec

-----------------------------------------------------------------------------
(* Types, which the schema tree keeps when it has split and loses rows:    *)
(* what is left in its leaves was stored under a key of its own kind.      *)
Storable(n) ==
    {p \in Int \X SchemaRow : /\ p[1] \in TableName => IsTable(p[2], p[1], n)
                              /\ p[1] \in IndexName => p[2] \in IndexOf /\ p[2].tree \in 1..n}

Typed(T, I, W, c, n) ==
    /\ DOMAIN T \subseteq TableName /\ \A t \in DOMAIN T : IsTable(T[t], t, n)
    /\ DOMAIN I \subseteq IndexName /\ \A i \in DOMAIN I : I[i] \in IndexOf /\ I[i].tree \in 1..n
    /\ W \subseteq ViewName
    /\ Leaves(c, SchemaRow, Storable(n))

TypeInv == RowsTyped /\ Typed(tables, indexes, views, cat, Len(rows))

LEMMA TypedGrows ==
    ASSUME NEW T, NEW I, NEW W, NEW c, NEW m \in Nat, NEW n \in Nat, m <= n, Typed(T, I, W, c, m)
    PROVE  Typed(T, I, W, c, n)
<1>1. \A x \in 1..m : x \in 1..n
  OBVIOUS
<1>2. \A ts, t : IsTable(ts, t, m) => IsTable(ts, t, n)
  BY <1>1 DEF IsTable
<1>3. Storable(m) \subseteq Storable(n)
  BY <1>1, <1>2 DEF Storable
<1>4. Leaves(c, SchemaRow, Storable(n))
  BY <1>3, LeavesGrow DEF Typed
<1> QED BY <1>1, <1>2, <1>4 DEF Typed

LEMMA TableTyped ==
    ASSUME NEW T, NEW I, NEW W, NEW c, NEW n \in Nat, Typed(T, I, W, c, n),
           NEW t \in TableName, NEW ts, IsTable(ts, t, n), Followed(c, t, TableLen(ts))
    PROVE  Typed(Within(T, t, ts), I, W, Put(c, t, ts, TableLen(ts)).cat, n)
<1>1. ts \in SchemaOf /\ ts \in SchemaRow /\ TableLen(ts) \in Int /\ t \in Int
  BY TableLenIsInt, NamesAreInts DEF IsTable, SchemaRow
<1>2. <<t, ts>> \in Storable(n)
  <2>1. t \notin IndexName
    BY TablesAssumption
  <2> QED BY <1>1, <2>1 DEF Storable
<1>3. Leaves(Put(c, t, ts, TableLen(ts)).cat, SchemaRow, Storable(n))
  BY <1>1, <1>2, PutInLeaves DEF Typed
<1> QED BY <1>3 DEF Typed, Within

LEMMA IndexTyped ==
    ASSUME NEW T, NEW I, NEW W, NEW c, NEW n \in Nat, Typed(T, I, W, c, n),
           NEW i \in IndexName, NEW is \in IndexOf, is.tree \in 1..n, Followed(c, i, BaseLen)
    PROVE  Typed(T, Within(I, i, is), W, Put(c, i, is, BaseLen).cat, n)
<1>1. i \in Int /\ is \in SchemaRow /\ BaseLen \in Int /\ i \notin TableName
  BY NamesAreInts, TablesAssumption DEF SchemaRow
<1>2. <<i, is>> \in Storable(n)
  BY <1>1 DEF Storable
<1>3. Leaves(Put(c, i, is, BaseLen).cat, SchemaRow, Storable(n))
  BY <1>1, <1>2, PutInLeaves DEF Typed
<1> QED BY <1>3 DEF Typed, Within

LEMMA ViewTyped ==
    ASSUME NEW T, NEW I, NEW W, NEW c, NEW n \in Nat, Typed(T, I, W, c, n),
           NEW v \in ViewName, Followed(c, v, ViewLen)
    PROVE  Typed(T, I, W \union {v}, Put(c, v, v, ViewLen).cat, n)
<1>1. v \in Int /\ v \in SchemaRow /\ ViewLen \in Int /\ v \notin TableName /\ v \notin IndexName
  BY NamesAreInts, TablesAssumption DEF SchemaRow
<1>2. <<v, v>> \in Storable(n)
  BY <1>1 DEF Storable
<1>3. Leaves(Put(c, v, v, ViewLen).cat, SchemaRow, Storable(n))
  BY <1>1, <1>2, PutInLeaves DEF Typed
<1> QED BY <1>3 DEF Typed

LEMMA RemovedTyped ==
    ASSUME NEW T, NEW I, NEW W, NEW c, NEW n, Typed(T, I, W, c, n), NEW k
    PROVE  /\ Typed(T, I, W, Removed(c, k), n)
           /\ Typed(Except(T, k), I, W, Removed(c, k), n)
           /\ Typed(T, Except(I, k), W, Removed(c, k), n)
           /\ Typed(T, I, W \ {k}, Removed(c, k), n)
<1>1. Leaves(Removed(c, k), SchemaRow, Storable(n))
  BY RemovedFromLeaves DEF Typed
<1> QED BY <1>1 DEF Typed, Except

(* The tables that the operations make of a table.                         *)
LEMMA TableNew ==
    ASSUME NEW t \in TableName, NEW design \in Designs, NEW n \in Nat, NEW k \in 1..n
    PROVE  IsTable([name |-> t, cols |-> design, tree |-> k, names |-> << >>,
                    noNames |-> TRUE, next |-> 1], t, n)
<1> DEFINE ts == [name |-> t, cols |-> design, tree |-> k, names |-> << >>,
                  noNames |-> TRUE, next |-> 1]
<1>1. design \in Seq(Columns) /\ Bounded(1)
  BY TablesAssumption DEF Bounded
<1>2. << >> \in Seq(IndexName)
  OBVIOUS
<1>3. ts \in SchemaOf
  BY <1>1, <1>2 DEF SchemaOf
<1>4. OneName(ts)
  BY TablesAssumption DEF OneName
<1> QED BY <1>1, <1>3, <1>4 DEF IsTable

LEMMA TableListing ==
    ASSUME NEW ts, NEW t, NEW n, IsTable(ts, t, n), NEW names \in Seq(IndexName)
    PROVE  IsTable([ts EXCEPT !.names = names, !.noNames = FALSE], t, n)
<1> DEFINE us == [ts EXCEPT !.names = names, !.noNames = FALSE]
<1>1. us \in SchemaOf /\ us.tree = ts.tree /\ us.name = ts.name /\ us.next = ts.next /\ us.cols = ts.cols
  BY DEF SchemaOf, IsTable
<1> HIDE DEF us
<1>2. IsTable(us, t, n)
  BY <1>1 DEF IsTable, OneName
<1> QED BY <1>2 DEF us

LEMMA TableNamed ==
    ASSUME NEW ts, NEW t, NEW n, IsTable(ts, t, n), NEW new \in TableName
    PROVE  IsTable([ts EXCEPT !.name = new], new, n)
<1> DEFINE us == [ts EXCEPT !.name = new]
<1>1. us \in SchemaOf /\ us.tree = ts.tree /\ us.name = new /\ us.next = ts.next /\ us.cols = ts.cols
  BY DEF SchemaOf, IsTable
<1> HIDE DEF us
<1>2. IsTable(us, new, n)
  BY <1>1 DEF IsTable, OneName
<1> QED BY <1>2 DEF us

LEMMA TypeParts ==
    ASSUME TypeInv
    PROVE  /\ RowsTyped /\ Typed(tables, indexes, views, cat, Len(rows)) /\ Len(rows) \in Nat
           /\ \A t \in DOMAIN tables : t \in TableName /\ IsTable(tables[t], t, Len(rows))
BY DEF TypeInv, Typed, RowsTyped

LEMMA CreateTableTyped ==
    ASSUME TypeInv, NEW t \in TableName, NEW design \in Designs, CreateTable(t, design)
    PROVE  TypeInv'
<1> DEFINE ts == [name |-> t, cols |-> design, tree |-> NewTree, names |-> << >>,
                  noNames |-> TRUE, next |-> 1]
           n == Len(rows')
<1>1. /\ NewTree \in Tree /\ CanFollow(t, ts)
      /\ tables' = Within(tables, t, ts) /\ cat' = Save(t, ts).cat
      /\ rows' = Append(rows, << >>) /\ entries' = Append(entries, {})
      /\ indexes' = indexes /\ views' = views
  BY DEF CreateTable, SetTable
<1>2. RowsTyped' /\ NewTree = Len(rows) + 1 /\ n = NewTree /\ Len(rows) \in Nat
  BY <1>1, TypeParts, TreeAllocated
<1>3. n \in Nat /\ NewTree \in 1..n /\ Len(rows) <= n
  BY <1>2
<1> HIDE DEF n
<1>4. IsTable(ts, t, n)
  BY <1>3, TableNew
<1> HIDE DEF ts
<1>5. Typed(tables, indexes, views, cat, n)
  BY <1>2, <1>3, TypeParts, TypedGrows
<1>6. Typed(Within(tables, t, ts), indexes, views, Save(t, ts).cat, n)
  BY <1>1, <1>3, <1>4, <1>5, TableTyped DEF Save, CanFollow
<1> QED BY <1>1, <1>2, <1>6 DEF TypeInv, n

(* A table is set that is there already.                                   *)
LEMMA SetTableTyped ==
    ASSUME TypeInv, NEW t \in TableName, NEW ts, IsTable(ts, t, Len(rows)), CanFollow(t, ts),
           tables' = Within(tables, t, ts), cat' = Save(t, ts).cat, indexes' = indexes, views' = views,
           RowsTyped', Len(rows') = Len(rows)
    PROVE  TypeInv'
<1>1. Typed(Within(tables, t, ts), indexes, views, Save(t, ts).cat, Len(rows))
  BY TypeParts, TableTyped DEF Save, CanFollow
<1> QED BY <1>1 DEF TypeInv

LEMMA RowsUnchanged ==
    ASSUME RowsTyped, rows' = rows, entries' = entries
    PROVE  RowsTyped' /\ Len(rows') = Len(rows)
BY DEF RowsTyped

LEMMA DropTableTyped ==
    ASSUME TypeInv, NEW t \in TableName, DropTable(t)
    PROVE  TypeInv'
<1>1. /\ cat' = Removed(cat, t) /\ tables' = Except(tables, t)
      /\ UNCHANGED <<indexes, views, rows, entries>>
  BY DEF DropTable
<1>2. Typed(Except(tables, t), indexes, views, Removed(cat, t), Len(rows))
  BY TypeParts, RemovedTyped
<1> QED BY <1>1, <1>2, TypeParts, RowsUnchanged DEF TypeInv

LEMMA CreateIndexTyped ==
    ASSUME TypeInv, NEW i \in IndexName, NEW t \in TableName, NEW column \in ColumnName, CreateIndex(i, t, column)
    PROVE  TypeInv'
<1> DEFINE is == [name |-> i, table |-> t, column |-> column, tree |-> NewTree]
           ts == [tables[t] EXCEPT !.names = Append(@, i), !.noNames = FALSE]
           c1 == Put(cat, i, is, BaseLen).cat
           J == Within(indexes, i, is)
           n == Len(rows')
<1>1. /\ t \in DOMAIN tables /\ NewTree \in Tree
      /\ Followed(cat, i, BaseLen) /\ Followed(c1, t, TableLen(ts))
      /\ cat' = Put(c1, t, ts, TableLen(ts)).cat
      /\ indexes' = J /\ tables' = [tables EXCEPT ![t] = ts]
      /\ rows' = Append(rows, << >>) /\ entries' = Append(entries, {})
      /\ views' = views
  BY DEF CreateIndex
<1>2. RowsTyped' /\ NewTree = Len(rows) + 1 /\ n = NewTree /\ Len(rows) \in Nat
  BY <1>1, TypeParts, TreeAllocated
<1>3. n \in Nat /\ NewTree \in 1..n /\ Len(rows) <= n
  BY <1>2
<1> HIDE DEF n
<1>4. is \in IndexOf /\ is.tree \in 1..n
  BY <1>3 DEF IndexOf
<1>5. Typed(tables, indexes, views, cat, n)
  BY <1>2, <1>3, TypeParts, TypedGrows
<1>6. IsTable(ts, t, n)
  <2>1. IsTable(tables[t], t, n)
    BY <1>1, <1>5 DEF Typed
  <2>2. Append(tables[t].names, i) \in Seq(IndexName)
    BY <2>1, AppendToSet DEF IsTable, SchemaOf
  <2> QED BY <2>1, <2>2, TableListing
<1>7. tables' = Within(tables, t, ts)
  BY <1>1, SetIsWithin
<1> HIDE DEF is, ts
<1>8. Typed(tables, J, views, c1, n)
  BY <1>1, <1>3, <1>4, <1>5, IndexTyped
<1> HIDE DEF c1, J
<1>9. Typed(Within(tables, t, ts), J, views, Put(c1, t, ts, TableLen(ts)).cat, n)
  BY <1>1, <1>3, <1>6, <1>8, TableTyped
<1> QED BY <1>1, <1>2, <1>7, <1>9 DEF TypeInv, n

LEMMA DropIndexTyped ==
    ASSUME TypeInv, NEW i \in IndexName, DropIndex(i)
    PROVE  TypeInv'
<1> DEFINE t == indexes[i].table
           c1 == Removed(cat, i)
           J == Except(indexes, i)
           n == Len(rows)
<1>1. views' = views /\ rows' = rows /\ entries' = entries
  BY DEF DropIndex
<1>2. /\ n \in Nat /\ RowsTyped' /\ Len(rows') = n
      /\ Typed(tables, indexes, views, c1, n) /\ Typed(tables, J, views, c1, n)
  BY <1>1, TypeParts, RemovedTyped, RowsUnchanged
<1>3. CASE t \in DOMAIN tables
  <2> DEFINE ts == [tables[t] EXCEPT !.names = Others(@, i), !.noNames = FALSE]
             saved == Put(c1, t, ts, TableLen(ts))
  <2>1. /\ Followed(c1, t, TableLen(ts))
        /\ tables' = [tables EXCEPT ![t] = ts] /\ cat' = saved.cat
        /\ indexes' = IF saved.ok THEN J ELSE indexes
    BY <1>3 DEF DropIndex
  <2>2. tables' = Within(tables, t, ts)
    <3>1. DOMAIN tables \union {t} = DOMAIN tables
      BY <1>3
    <3> HIDE DEF ts, t
    <3> QED BY <2>1, <3>1 DEF Within
  <2>3. t \in TableName /\ IsTable(ts, t, n)
    <3>1. t \in TableName /\ IsTable(tables[t], t, n)
      BY <1>3, TypeParts
    <3>2. Others(tables[t].names, i) \in Seq(IndexName)
      BY <3>1, OthersProperties DEF IsTable, SchemaOf
    <3> QED BY <3>1, <3>2, TableListing
  <2> HIDE DEF ts, c1, J, t
  <2>4. ASSUME NEW K, Typed(tables, K, views, c1, n)
        PROVE  Typed(Within(tables, t, ts), K, views, saved.cat, n)
    BY <1>2, <2>1, <2>3, <2>4, TableTyped
  <2>5. Typed(Within(tables, t, ts), indexes', views, saved.cat, n)
    <3>1. indexes' = J \/ indexes' = indexes
      BY <2>1
    <3> QED BY <1>2, <2>4, <3>1
  <2> QED BY <1>1, <1>2, <2>1, <2>2, <2>5 DEF TypeInv
<1>4. CASE t \notin DOMAIN tables
  <2>1. cat' = c1 /\ indexes' = J /\ tables' = tables
    BY <1>4 DEF DropIndex
  <2> QED BY <1>1, <1>2, <2>1 DEF TypeInv
<1> QED BY <1>3, <1>4

LEMMA ViewsTyped ==
    ASSUME TypeInv, NEW v \in ViewName, CreateView(v) \/ DropView(v)
    PROVE  TypeInv'
<1>1. RowsTyped /\ Typed(tables, indexes, views, cat, Len(rows)) /\ Len(rows) \in Nat
  BY TypeParts
<1>2. UNCHANGED <<tables, indexes, rows, entries>>
  BY DEF CreateView, DropView
<1>3. CASE CreateView(v)
  <2>1. Followed(cat, v, ViewLen) /\ cat' = Put(cat, v, v, ViewLen).cat /\ views' = views \union {v}
    BY <1>3 DEF CreateView
  <2>2. Typed(tables, indexes, views \union {v}, Put(cat, v, v, ViewLen).cat, Len(rows))
    BY <1>1, <2>1, ViewTyped
  <2> QED BY <1>1, <1>2, <2>1, <2>2, RowsUnchanged DEF TypeInv
<1>4. CASE DropView(v)
  <2>1. cat' = Removed(cat, v) /\ views' = views \ {v}
    BY <1>4 DEF DropView
  <2>2. Typed(tables, indexes, views \ {v}, Removed(cat, v), Len(rows))
    BY <1>1, RemovedTyped
  <2> QED BY <1>1, <1>2, <2>1, <2>2, RowsUnchanged DEF TypeInv
<1> QED BY <1>3, <1>4

LEMMA RenameTableTyped ==
    ASSUME TypeInv, NEW old \in TableName, NEW new \in TableName, RenameTable(old, new)
    PROVE  TypeInv'
<1> DEFINE ts == [tables[old] EXCEPT !.name = new]
           c1 == Removed(cat, old)
           T1 == Except(tables, old)
           n == Len(rows)
<1>1. /\ old \in DOMAIN tables /\ Followed(c1, new, TableLen(ts))
      /\ tables' = Within(T1, new, ts) /\ cat' = Put(c1, new, ts, TableLen(ts)).cat
      /\ UNCHANGED <<indexes, views, rows, entries>>
  BY DEF RenameTable
<1>2. n \in Nat /\ RowsTyped /\ Typed(T1, indexes, views, c1, n)
  BY TypeParts, RemovedTyped
<1>3. IsTable(ts, new, n)
  BY <1>1, TypeParts, TableNamed
<1> HIDE DEF ts, c1, T1
<1>4. Typed(Within(T1, new, ts), indexes, views, Put(c1, new, ts, TableLen(ts)).cat, n)
  BY <1>1, <1>2, <1>3, TableTyped
<1> QED BY <1>1, <1>2, <1>4, RowsUnchanged DEF TypeInv

LEMMA ColumnsTyped ==
    ASSUME TypeInv, NEW t \in TableName,
           \/ \E col \in NewColumns : AddColumn(t, col)
           \/ \E old, new \in ColumnName : RenameColumn(t, old, new)
           \/ \E column \in ColumnName : DropColumn(t, column)
    PROVE  TypeInv'
<1> DEFINE ts == tables[t]
<1>1. t \in DOMAIN tables /\ IsTable(ts, t, Len(rows)) /\ UNCHANGED <<indexes, views, rows, entries>>
  BY TypeParts DEF AddColumn, RenameColumn, DropColumn
<1>2. ts \in SchemaOf /\ OneName(ts) /\ ts.name = t /\ ts.tree \in 1..Len(rows) /\ Bounded(ts.next)
  BY <1>1 DEF IsTable
<1>3. RowsTyped' /\ Len(rows') = Len(rows)
  BY <1>1, TypeParts, RowsUnchanged
<1>4. ASSUME NEW us, us \in SchemaOf, OneName(us), us.tree = ts.tree, us.next = ts.next, us.name = ts.name,
             CanFollow(t, us), tables' = Within(tables, t, us), cat' = Save(t, us).cat
      PROVE  TypeInv'
  <2>1. IsTable(us, t, Len(rows))
    BY <1>2, <1>4 DEF IsTable
  <2> QED BY <1>1, <1>3, <1>4, <2>1, SetTableTyped
<1>5. ASSUME NEW col \in NewColumns, AddColumn(t, col) PROVE TypeInv'
  <2> DEFINE us == [ts EXCEPT !.cols = Append(@, col)]
  <2>1. /\ ColumnIndex(ts, col.name) = 0 /\ CanFollow(t, us)
        /\ tables' = Within(tables, t, us) /\ cat' = Save(t, us).cat
    BY <1>5 DEF AddColumn, SetTable
  <2>2. col \in Columns
    BY TablesAssumption
  <2> HIDE DEF ts
  <2>3. us \in SchemaOf /\ OneName(us) /\ us.tree = ts.tree /\ us.next = ts.next /\ us.name = ts.name
    BY <1>2, <2>1, <2>2, ColumnAdded
  <2> HIDE DEF us
  <2> QED BY <1>4, <2>1, <2>3
<1>6. ASSUME NEW old \in ColumnName, NEW new \in ColumnName, RenameColumn(t, old, new) PROVE TypeInv'
  <2> DEFINE i == ColumnIndex(ts, old)
             us == [ts EXCEPT !.cols[i].name = new]
  <2>1. /\ i # 0 /\ ColumnIndex(ts, new) = 0 /\ CanFollow(t, ts)
        /\ tables' = [tables EXCEPT ![t].cols[i].name = new] /\ cat' = Save(t, tables'[t]).cat
    BY <1>6 DEF RenameColumn
  <2>2. tables' = [tables EXCEPT ![t] = us] /\ tables'[t] = us
    BY <1>1, <2>1
  <2> HIDE DEF ts
  <2>3. i \in DOMAIN ts.cols
    BY <1>2, <2>1, ColumnFound
  <2> HIDE DEF i
  <2>4. /\ us \in SchemaOf /\ OneName(us) /\ us.tree = ts.tree /\ us.next = ts.next /\ us.name = ts.name
        /\ Len(us.cols) = Len(ts.cols)
    BY <1>2, <2>1, <2>3, ColumnRenamed
  <2> HIDE DEF us
  <2>5. tables' = Within(tables, t, us)
    BY <1>1, <2>2, SetIsWithin
  <2>6. CanFollow(t, us)
    <3>1. us.names = ts.names /\ us.noNames = ts.noNames
      BY <1>2 DEF us, SchemaOf
    <3>2. TableLen(us) = TableLen(ts)
      BY <2>4, <3>1 DEF TableLen, NamesLen
    <3> QED BY <2>1, <3>2 DEF CanFollow
  <2> QED BY <1>4, <2>1, <2>2, <2>4, <2>5, <2>6
<1>7. ASSUME NEW column \in ColumnName, DropColumn(t, column) PROVE TypeInv'
  <2> DEFINE i == ColumnIndex(ts, column)
             us == [ts EXCEPT !.cols = RemoveAt(@, i)]
  <2>1. /\ i # 0 /\ CanFollow(t, us)
        /\ tables' = [tables EXCEPT ![t] = us] /\ cat' = Save(t, us).cat
    BY <1>7 DEF DropColumn
  <2> HIDE DEF ts
  <2>2. i \in DOMAIN ts.cols
    BY <1>2, <2>1, ColumnFound
  <2> HIDE DEF i
  <2>3. us \in SchemaOf /\ OneName(us) /\ us.tree = ts.tree /\ us.next = ts.next /\ us.name = ts.name
    BY <1>2, <2>2, ColumnDropped
  <2> HIDE DEF us
  <2>4. tables' = Within(tables, t, us)
    BY <1>1, <2>1, SetIsWithin
  <2> QED BY <1>4, <2>1, <2>3, <2>4
<1> QED BY <1>5, <1>6, <1>7

LEMMA RowsChangeTyped ==
    ASSUME TypeInv, NEW t \in TableName,
           \/ \E given \in Inserts, c \in {"ABORT", "IGNORE", "REPLACE"} : Insert(t, given, c)
           \/ \E id \in (-MaxInt-1)..MaxInt : Delete(t, id)
           \/ \E id \in (-MaxInt-1)..MaxInt, given \in Updates : Update(t, id, given)
    PROVE  TypeInv'
<1>1. RowsTyped /\ t \in DOMAIN tables /\ IsTable(tables[t], t, Len(rows))
  BY TypeParts DEF Insert, Delete, Update
<1>2. ASSUME NEW given \in Inserts, NEW c, Insert(t, given, c) PROVE TypeInv'
  <2> DEFINE ts1 == Counted(tables[t], given)
  <2>1. /\ tables' = Within(tables, t, ts1) /\ cat' = Save(t, ts1).cat /\ CanFollow(t, ts1)
        /\ indexes' = indexes /\ views' = views /\ RowsTyped' /\ Len(rows') = Len(rows)
        /\ ts1 \in SchemaOf /\ ts1.name = t /\ ts1.tree = tables[t].tree /\ Bounded(ts1.next) /\ OneName(ts1)
    BY <1>1, <1>2, InsertRows
  <2> HIDE DEF ts1
  <2>2. IsTable(ts1, t, Len(rows))
    BY <1>1, <2>1 DEF IsTable
  <2> QED BY <2>1, <2>2, SetTableTyped
<1>3. ASSUME NEW id, Delete(t, id) PROVE TypeInv'
  <2>1. RowsTyped' /\ Len(rows') = Len(rows) /\ UNCHANGED <<tables, indexes, views, cat>>
    BY <1>1, <1>3, DeleteRows
  <2> QED BY <2>1, TypeParts DEF TypeInv
<1>4. ASSUME NEW id, NEW given \in Updates, Update(t, id, given) PROVE TypeInv'
  <2>1. RowsTyped' /\ Len(rows') = Len(rows) /\ UNCHANGED <<tables, indexes, views, cat>>
    BY <1>1, <1>4, UpdateRows
  <2> QED BY <2>1, TypeParts DEF TypeInv
<1> QED BY <1>2, <1>3, <1>4

LEMMA ReopenTyped ==
    ASSUME TypeInv, Reopen
    PROVE  TypeInv'
<1> DEFINE L == Stored(cat)
           n == Len(rows)
<1>1. /\ tables' = [t \in DOMAIN L \intersect TableName |-> L[t]]
      /\ indexes' = [i \in DOMAIN L \intersect IndexName |-> L[i]]
      /\ views' = DOMAIN L \intersect ViewName /\ cat' = Reopened(cat)
      /\ rows' = rows /\ entries' = entries
  BY DEF Reopen
<1>2. Leaves(cat, SchemaRow, Storable(n))
  BY TypeParts DEF Typed
<1>3. \A k \in DOMAIN L : <<k, L[k]>> \in Storable(n)
  BY <1>2, LeavesRead
<1>4. Leaves(cat', SchemaRow, Storable(n))
  BY <1>1, <1>2, LeavesReopened
<1> HIDE DEF L
<1>5. \A t \in DOMAIN tables' : IsTable(tables'[t], t, n)
  BY <1>1, <1>3 DEF Storable
<1>6. \A i \in DOMAIN indexes' : indexes'[i] \in IndexOf /\ indexes'[i].tree \in 1..n
  BY <1>1, <1>3 DEF Storable
<1>7. Typed(tables', indexes', views', cat', n)
  BY <1>1, <1>4, <1>5, <1>6 DEF Typed
<1> QED BY <1>1, <1>7, TypeParts, RowsUnchanged DEF TypeInv

LEMMA TypeStarts == Init => TypeInv
<1> SUFFICES ASSUME Init PROVE TypeInv
  OBVIOUS
<1>1. RowsTyped
  BY SchemaInit DEF SchemaInv
<1>2. DOMAIN tables = {} /\ DOMAIN indexes = {} /\ views = {} /\ cat = EmptyCatalog
  BY DEF Init
<1>3. Leaves(cat, SchemaRow, Storable(Len(rows)))
  BY <1>2, LeavesEmpty
<1> QED BY <1>1, <1>2, <1>3 DEF TypeInv, Typed

LEMMA TypeStays == TypeInv /\ [Next]_vars => TypeInv'
<1> SUFFICES ASSUME TypeInv, [Next]_vars PROVE TypeInv'
  OBVIOUS
<1>1. ASSUME NEW t \in TableName, NEW d \in Designs, CreateTable(t, d) PROVE TypeInv'
  BY <1>1, CreateTableTyped
<1>2. ASSUME NEW t \in TableName, DropTable(t) PROVE TypeInv'
  BY <1>2, DropTableTyped
<1>3. ASSUME NEW t \in TableName, NEW new \in TableName, RenameTable(t, new) PROVE TypeInv'
  BY <1>3, RenameTableTyped
<1>4. ASSUME NEW t \in TableName,
             \/ \E col \in NewColumns : AddColumn(t, col)
             \/ \E old, new \in ColumnName : RenameColumn(t, old, new)
             \/ \E column \in ColumnName : DropColumn(t, column)
      PROVE  TypeInv'
  BY <1>4, ColumnsTyped
<1>5. ASSUME NEW t \in TableName,
             \/ \E given \in Inserts, c \in {"ABORT", "IGNORE", "REPLACE"} : Insert(t, given, c)
             \/ \E id \in (-MaxInt-1)..MaxInt : Delete(t, id)
             \/ \E id \in (-MaxInt-1)..MaxInt, given \in Updates : Update(t, id, given)
      PROVE  TypeInv'
  BY <1>5, RowsChangeTyped
<1>6. ASSUME NEW i \in IndexName, NEW t \in TableName, NEW column \in ColumnName, CreateIndex(i, t, column)
      PROVE  TypeInv'
  BY <1>6, CreateIndexTyped
<1>7. ASSUME NEW i \in IndexName, DropIndex(i) PROVE TypeInv'
  BY <1>7, DropIndexTyped
<1>8. ASSUME NEW v \in ViewName, CreateView(v) \/ DropView(v) PROVE TypeInv'
  BY <1>8, ViewsTyped
<1>9. CASE Reopen
  BY <1>9, ReopenTyped
<1>10. CASE UNCHANGED vars
  BY <1>10, TypeParts, RowsUnchanged DEF vars, TypeInv
<1> QED BY <1>1, <1>2, <1>3, <1>4, <1>5, <1>6, <1>7, <1>8, <1>9, <1>10 DEF Next

LEMMA TypesInvariant == Spec => []TypeInv
  BY TypeStarts, TypeStays, PTL DEF Spec

LEMMA TypesRead ==
    ASSUME TypeInv, IInv
    PROVE  TypeOK
<1>1. Trees = 1..Len(rows) /\ DOMAIN entries = Trees /\ Trees \subseteq Tree
  BY TypeParts, TreesAre
<1>2. Typed(tables, indexes, views, cat, Len(rows))
  BY TypeParts
<1>3. \A t \in DOMAIN tables : tables[t].name = t /\ tables[t].tree \in Trees /\ Bounded(tables[t].next)
  BY <1>1, <1>2 DEF Typed, IsTable
<1>4. \A i \in DOMAIN indexes : indexes[i].tree \in Trees
  BY <1>1, <1>2 DEF Typed
<1>5. "split" \notin marks => Used(cat.pages[1]) <= Room
  BY SchemaParts DEF IInv, Agree
<1> QED BY <1>1, <1>2, <1>3, <1>4, <1>5 DEF TypeOK, Typed, Bounded

-----------------------------------------------------------------------------
(* The maps, the trees, the counters and the schema page are what the      *)
(* operations of schema.go and table.go take them for, also of what is     *)
(* left after the schema tree has split and the database was opened again. *)
THEOREM TablesTyped == Spec => []TypeOK
<1>1. TypeInv /\ IInv => TypeOK
  BY TypesRead
<1> QED BY <1>1, TypesInvariant, TablesInvariant, PTL

(* Whatever the statements: what loadAll finds is what the maps hold, when *)
(* every schema row has been stored; and it finds all of it when none has  *)
(* outgrown its cell (schema.go loadAll, updateTableSchema).               *)
THEOREM SchemaSurvives == Spec => []CatalogLoads
<1>1. IInv => CatalogLoads
  <2> SUFFICES ASSUME IInv PROVE CatalogLoads
    OBVIOUS
  <2>1. CASE "split" \in marks
    BY <2>1 DEF CatalogLoads
  <2>2. CASE "split" \notin marks
    BY <2>2, CatalogRead DEF IInv
  <2> QED BY <2>1, <2>2
<1> QED BY <1>1, TablesInvariant, PTL

(* NextAutoInc is above every row id, in memory and on disk, whichever     *)
(* insertions were refused (InsertWithConflict, updateTableSchema).        *)
THEOREM CounterStaysAhead == Spec => []CounterAhead
<1>1. IInv => CounterAhead
  <2> SUFFICES ASSUME IInv PROVE CounterAhead
    OBVIOUS
  <2>1. CASE "split" \in marks
    BY <2>1 DEF CounterAhead
  <2>2. CASE "split" \notin marks
    BY <2>2, CounterRead DEF IInv
  <2> QED BY <2>1, <2>2
<1> QED BY <1>1, TablesInvariant, PTL

(* The value in the primary key column and the key of the row in the tree  *)
(* are one number (table.go InsertWithConflict).                           *)
THEOREM RowsHoldTheirKeys == Spec => []PkIsRowid
<1>1. IInv => PkIsRowid
  <2> SUFFICES ASSUME IInv PROVE PkIsRowid
    OBVIOUS
  <2>1. CASE "split" \in marks
    BY <2>1 DEF PkIsRowid
  <2>2. CASE "split" \notin marks
    BY <2>2, KeyRead DEF IInv
  <2> QED BY <2>1, <2>2
<1> QED BY <1>1, TablesInvariant, PTL

(* NOT NULL holds of every row as Scan returns it, over INSERT, UPDATE,    *)
(* ADD COLUMN and opening again (InsertWithConflict, Update, Scan).        *)
THEOREM NoNullsAreStored == Spec => []NotNullHolds
<1>1. IInv => NotNullHolds
  <2> SUFFICES ASSUME IInv PROVE NotNullHolds
    OBVIOUS
  <2>1. CASE "split" \in marks
    BY <2>1 DEF NotNullHolds
  <2>2. CASE "split" \notin marks
    BY <2>2, NullRead DEF IInv
  <2> QED BY <2>1, <2>2
<1> QED BY <1>1, TablesInvariant, PTL

(* Every row is found through each index its table maintains (table.go     *)
(* InsertWithConflict, Update, Delete; schema.go CreateIndex, DropIndex).  *)
THEOREM IndexesCover == Spec => []IndexCovers
<1>1. IInv => IndexCovers
  <2> SUFFICES ASSUME IInv PROVE IndexCovers
    OBVIOUS
  <2>1. CASE "split" \in marks
    BY <2>1 DEF IndexCovers
  <2>2. CASE "split" \notin marks
    BY <2>2, IndexRead DEF IInv
  <2> QED BY <2>1, <2>2
<1> QED BY <1>1, TablesInvariant, PTL
=============================================================================
