---------------------------- MODULE BTreeProofs -----------------------------
(***************************************************************************)
(* Proofs about BTree.                                                     *)
(***************************************************************************)
EXTENDS BTree, ListLemmas, FiniteSetTheorems, FunctionTheorems

CellSet == [key : Key, val : Val, left : Nat]
Page == [leaf : BOOLEAN, cells : Seq(CellSet), right : Nat, laid : Nat]

SlotsOf(pg) == IF pg.leaf THEN {} ELSE 0..Len(pg.cells)
KidsOf(pg) == {Child(pg, i) : i \in SlotsOf(pg)}
OwnKids(pg) == \A i, j \in SlotsOf(pg) : Child(pg, i) = Child(pg, j) => i = j

Fits(pg) == Len(pg.cells) <= pg.laid /\ PtrSize * Len(pg.cells) + CellSize * pg.laid <= Room

(* A page of a tree whose pages are 1..n.                                  *)
LeafOK(pg) ==
    /\ pg.right = NoPage
    /\ \A i \in 1..Len(pg.cells) : pg.cells[i].left = NoPage
    /\ Ascends(Keys(pg))

InternalOK(pg, n) ==
    /\ KidsOf(pg) \subseteq 1..n
    /\ pg.laid = Len(pg.cells) /\ pg.cells # << >>

PageOK(pg, n) ==
    /\ pg \in Page /\ Fits(pg)
    /\ pg.leaf => LeafOK(pg)
    /\ ~pg.leaf => InternalOK(pg, n)

(* No two places lead to the same page.                                    *)
Apart(ps) ==
    /\ \A p \in 1..Len(ps) : OwnKids(ps[p])
    /\ \A p, q \in 1..Len(ps) : p # q => KidsOf(ps[p]) \cap KidsOf(ps[q]) = {}

(* The height of each page above the leaves.                               *)
Ranked(ps, h) ==
    /\ h \in [1..Len(ps) -> Nat]
    /\ \A p \in 1..Len(ps) : ps[p].leaf => h[p] = 0
    /\ \A p \in 1..Len(ps) : \A c \in KidsOf(ps[p]) : h[p] = h[c] + 1

Good(ps, h) ==
    /\ ps \in Seq(Page)
    /\ \A p \in 1..Len(ps) : PageOK(ps[p], Len(ps))
    /\ Apart(ps) /\ Ranked(ps, h)

Free(ps, r) == \A p \in 1..Len(ps) : r \notin KidsOf(ps[p])

-----------------------------------------------------------------------------
LEMMA GoodPage ==
    ASSUME NEW ps, NEW h, Good(ps, h), NEW p \in 1..Len(ps)
    PROVE  /\ Len(ps) \in Nat /\ PageOK(ps[p], Len(ps)) /\ ps[p] \in Page
           /\ ps[p].cells \in Seq(CellSet) /\ Len(ps[p].cells) \in Nat
           /\ ps[p].leaf \in BOOLEAN /\ ps[p].right \in Nat /\ ps[p].laid \in Nat
           /\ h \in [1..Len(ps) -> Nat] /\ h[p] \in Nat
<1>1. ps \in Seq(Page) /\ Len(ps) \in Nat /\ ps[p] \in Page
  BY DEF Good
<1>2. ps[p].cells \in Seq(CellSet) /\ ps[p].leaf \in BOOLEAN /\ ps[p].right \in Nat /\ ps[p].laid \in Nat
  BY <1>1 DEF Page
<1>3. Len(ps[p].cells) \in Nat
  BY <1>2
<1>4. h \in [1..Len(ps) -> Nat] /\ h[p] \in Nat
  BY DEF Good, Ranked
<1>5. PageOK(ps[p], Len(ps))
  BY DEF Good
<1> QED BY <1>1, <1>2, <1>3, <1>4, <1>5

LEMMA KeysOfPage ==
    ASSUME NEW pg \in Page
    PROVE  /\ Keys(pg) \in Seq(Int) /\ Len(Keys(pg)) = Len(pg.cells)
           /\ \A i \in 1..Len(pg.cells) : Keys(pg)[i] = pg.cells[i].key /\ pg.cells[i] \in CellSet
<1>1. pg.cells \in Seq(CellSet)
  BY DEF Page
<1>2. Len(pg.cells) \in Nat /\ DOMAIN pg.cells = 1..Len(pg.cells)
      /\ \A i \in 1..Len(pg.cells) : pg.cells[i] \in CellSet
  BY <1>1
<1>3. \A i \in 1..Len(pg.cells) : pg.cells[i].key \in Int
  BY <1>2, TreeAssumption DEF CellSet
<1>4. Keys(pg) = [i \in 1..Len(pg.cells) |-> pg.cells[i].key]
  BY <1>2 DEF Keys
<1> QED BY <1>2, <1>3, <1>4

(* A page of an inner node is one of its own children's parents only.      *)
LEMMA KidIsPage ==
    ASSUME NEW ps, NEW h, Good(ps, h), NEW p \in 1..Len(ps), NEW c \in KidsOf(ps[p])
    PROVE  c \in 1..Len(ps) /\ ~ps[p].leaf /\ h[p] = h[c] + 1 /\ h[c] < h[p]
<1>1. ~ps[p].leaf
  BY DEF KidsOf, SlotsOf
<1>2. c \in 1..Len(ps)
  BY <1>1, GoodPage DEF PageOK, InternalOK
<1>3. h[p] = h[c] + 1 /\ h[c] \in Nat
  BY <1>2 DEF Good, Ranked
<1> QED BY <1>1, <1>2, <1>3

(* The search of an internal page leads to one of its children.            *)
LEMMA SearchLeadsDown ==
    ASSUME NEW ps, NEW h, Good(ps, h), NEW p \in 1..Len(ps), ~ps[p].leaf, NEW k \in Key
    PROVE  /\ Search(Keys(ps[p]), k).idx \in SlotsOf(ps[p])
           /\ Child(ps[p], Search(Keys(ps[p]), k).idx) \in KidsOf(ps[p])
<1>1. Keys(ps[p]) \in Seq(Int) /\ Len(Keys(ps[p])) = Len(ps[p].cells)
  BY GoodPage, KeysOfPage
<1>2. k \in Int
  BY TreeAssumption
<1>3. Search(Keys(ps[p]), k).idx \in 0..Len(ps[p].cells)
  BY <1>1, <1>2, SearchAnswers DEF IsAnswer
<1> QED BY <1>3 DEF SlotsOf, KidsOf

-----------------------------------------------------------------------------
(* The pages t are ps with pg as page p.                                   *)
Swapped(ps, h, p, pg, t) ==
    /\ Good(t, h) /\ t \in Seq(Page) /\ Len(t) = Len(ps)
    /\ \A q \in 1..Len(ps) : t[q] = IF q = p THEN pg ELSE ps[q]
    /\ \A r : r \notin KidsOf(pg) /\ (Free(ps, r) \/ r \in KidsOf(ps[p])) => Free(t, r)

(* A page is rewritten; its children are its own or were free.             *)
LEMMA Replaced ==
    ASSUME NEW ps, NEW h, Good(ps, h), NEW p \in 1..Len(ps), NEW pg, PageOK(pg, Len(ps)),
           pg.leaf = ps[p].leaf, OwnKids(pg), NEW F,
           \A f \in F : Free(ps, f) /\ h[p] = h[f] + 1,
           KidsOf(pg) \subseteq KidsOf(ps[p]) \union F
    PROVE  Swapped(ps, h, p, pg, [ps EXCEPT ![p] = pg])
<1> DEFINE t == [ps EXCEPT ![p] = pg]
<1>1. ps \in Seq(Page) /\ pg \in Page /\ Len(ps) \in Nat
  BY DEF Good, PageOK
<1>2. t \in Seq(Page) /\ Len(t) = Len(ps) /\ \A q \in 1..Len(ps) : t[q] = IF q = p THEN pg ELSE ps[q]
  BY <1>1, ExceptSeq
<1> HIDE DEF t
<1>3. \A q \in 1..Len(t) : PageOK(t[q], Len(t))
  BY <1>2 DEF Good
<1>4. Apart(t)
  <2>1. \A q \in 1..Len(t) : OwnKids(t[q])
    BY <1>2 DEF Good, Apart
  <2>2. \A q \in 1..Len(ps) : q # p => KidsOf(pg) \cap KidsOf(ps[q]) = {}
    BY DEF Good, Apart, Free
  <2>3. \A q, r \in 1..Len(t) : q # r => KidsOf(t[q]) \cap KidsOf(t[r]) = {}
    BY <1>2, <2>2 DEF Good, Apart
  <2> QED BY <2>1, <2>3 DEF Apart
<1>5. Ranked(t, h)
  <2>1. \A c \in KidsOf(pg) : h[p] = h[c] + 1
    BY DEF Good, Ranked
  <2> QED BY <1>2, <2>1 DEF Good, Ranked
<1>6. ASSUME NEW r, r \notin KidsOf(pg), Free(ps, r) \/ r \in KidsOf(ps[p])
      PROVE  Free(t, r)
  <2>1. \A q \in 1..Len(ps) : q # p => r \notin KidsOf(ps[q])
    BY <1>6 DEF Good, Apart, Free
  <2> QED BY <1>2, <1>6, <2>1 DEF Free
<1>7. Good(t, h)
  BY <1>2, <1>3, <1>4, <1>5 DEF Good
<1>8. Swapped(ps, h, p, pg, t)
  BY <1>2, <1>6, <1>7 DEF Swapped
<1> QED BY <1>8 DEF t

(* A page is added; its children, if any, were free.                       *)
Extends(g, h, n, height) ==
    g[n + 1] = height /\ \A q \in 1..n : g[q] = h[q]

(* The pages t are ps with pg at the end.                                  *)
Longer(ps, h, pg, n, t, g) ==
    /\ Good(t, g) /\ Extends(g, h, Len(ps), n) /\ Len(t) = Len(ps) + 1
    /\ \A q \in 1..Len(ps) : t[q] = ps[q]
    /\ Free(t, Len(ps) + 1) /\ \A r : r \notin KidsOf(pg) /\ Free(ps, r) => Free(t, r)

LEMMA Added ==
    ASSUME NEW ps, NEW h, Good(ps, h), NEW pg, PageOK(pg, Len(ps)), OwnKids(pg),
           \A c \in KidsOf(pg) : Free(ps, c),
           NEW n \in Nat, pg.leaf => n = 0, \A c \in KidsOf(pg) : n = h[c] + 1
    PROVE  \E g : Longer(ps, h, pg, n, Append(ps, pg), g)
<1> DEFINE t == Append(ps, pg)
           N == Len(ps) + 1
           g == [q \in 1..N |-> IF q = N THEN n ELSE h[q]]
<1>1. ps \in Seq(Page) /\ pg \in Page /\ Len(ps) \in Nat /\ h \in [1..Len(ps) -> Nat]
  BY DEF Good, PageOK, Ranked
<1>2. t \in Seq(Page) /\ Len(t) = N /\ t[N] = pg /\ \A q \in 1..Len(ps) : t[q] = ps[q]
  BY <1>1, AppendProperties
<1>3. g \in [1..N -> Nat] /\ g[N] = n /\ \A q \in 1..Len(ps) : g[q] = h[q]
  BY <1>1
<1>4. \A q \in 1..N : q = N \/ q \in 1..Len(ps)
  BY <1>1
<1>5. N \in 1..N /\ \A q \in 1..Len(ps) : q \in 1..N /\ q # N
  BY <1>1
<1> HIDE DEF t, g, N
<1>6. KidsOf(pg) \subseteq 1..Len(ps)
  BY DEF PageOK, InternalOK, KidsOf, SlotsOf
<1>7. \A q \in 1..Len(ps) : KidsOf(ps[q]) \subseteq 1..Len(ps)
  BY KidIsPage
<1>8. \A q \in 1..N : PageOK(t[q], N)
  <2>1. \A x : PageOK(x, Len(ps)) => PageOK(x, N)
    BY <1>5 DEF PageOK, InternalOK
  <2> QED BY <1>2, <1>4, <2>1 DEF Good
<1>9. Apart(t)
  <2>1. \A q \in 1..N : OwnKids(t[q])
    BY <1>2, <1>4 DEF Good, Apart
  <2>2. \A q \in 1..Len(ps) : KidsOf(pg) \cap KidsOf(ps[q]) = {}
    BY DEF Free
  <2>3. \A q, r \in 1..N : q # r => KidsOf(t[q]) \cap KidsOf(t[r]) = {}
    BY <1>2, <1>4, <2>2 DEF Good, Apart
  <2> QED BY <1>2, <2>1, <2>3 DEF Apart
<1>10. Ranked(t, g)
  <2>1. \A q \in 1..N : t[q].leaf => g[q] = 0
    BY <1>2, <1>3, <1>4 DEF Good, Ranked
  <2>2. \A c \in KidsOf(pg) : g[N] = g[c] + 1
    BY <1>3, <1>6
  <2>3. \A q \in 1..Len(ps) : \A c \in KidsOf(ps[q]) : g[q] = g[c] + 1
    BY <1>3, <1>7 DEF Good, Ranked
  <2> QED BY <1>2, <1>3, <1>4, <2>1, <2>2, <2>3 DEF Ranked
<1>11. Free(t, N)
  BY <1>2, <1>4, <1>5, <1>6, <1>7 DEF Free
<1>12. \A r : r \notin KidsOf(pg) /\ Free(ps, r) => Free(t, r)
  BY <1>2, <1>4 DEF Free
<1>13. Good(t, g)
  BY <1>2, <1>8, <1>9, <1>10 DEF Good
<1>14. Extends(g, h, Len(ps), n)
  BY <1>3 DEF Extends, N
<1>15. Longer(ps, h, pg, n, t, g)
  BY <1>2, <1>11, <1>12, <1>13, <1>14 DEF Longer, N
<1> QED BY <1>15 DEF t

-----------------------------------------------------------------------------
(* The descent: from each page to a child, and to a leaf in the end.       *)
NextDown(ps, q, k) == Child(ps[q], Search(Keys(ps[q]), k).idx)

IsPath(ps, k, q, path) ==
    /\ path \in Seq(1..Len(ps)) /\ path # << >> /\ path[1] = q
    /\ ps[path[Len(path)]].leaf
    /\ \A i \in 1..(Len(path) - 1) :
         ~ps[path[i]].leaf /\ path[i + 1] = NextDown(ps, path[i], k)

LEMMA DescentsExist ==
    ASSUME NEW ps, NEW h, Good(ps, h), NEW k \in Key
    PROVE  \E f : f = [q \in 1..Len(ps) |->
                        IF ps[q].leaf THEN <<q>> ELSE <<q>> \o f[NextDown(ps, q, k)]]
<1> DEFINE D == 1..Len(ps)
           R == Seq(D)
           base == << >>
           Value(q, f) == IF ps[q].leaf THEN <<q>> ELSE <<q>> \o f[NextDown(ps, q, k)]
           step == [x \in D \X [D -> R] |-> Value(x[1], x[2])]
<1>1. \A q \in D : ~ps[q].leaf => NextDown(ps, q, k) \in D /\ h[NextDown(ps, q, k)] < h[q]
  BY SearchLeadsDown, KidIsPage DEF NextDown
<1>2. h \in [D -> Nat] /\ base \in R
  BY DEF Good, Ranked
<1>3. step \in MeasuredSteps(D, R)
  <2>1. ASSUME NEW q \in D, NEW f \in [D -> R] PROVE Value(q, f) \in R
    <3>1. <<q>> \in R
      OBVIOUS
    <3>2. ASSUME ~ps[q].leaf PROVE <<q>> \o f[NextDown(ps, q, k)] \in R
      <4>1. f[NextDown(ps, q, k)] \in R
        <5> HIDE DEF R, D
        <5> QED BY <1>1, <3>2
      <4> QED BY <3>1, <4>1, ConcatProperties
    <3> QED BY <3>1, <3>2
  <2> HIDE DEF Value, R, D
  <2> QED BY <2>1 DEF MeasuredSteps
<1>4. LooksBelow(D, R, h, step)
  <2>1. ASSUME NEW q \in D, NEW f \in [D -> R], NEW g \in [D -> R],
               \A e \in D : h[e] < h[q] => f[e] = g[e]
        PROVE  Value(q, f) = Value(q, g)
    <3> HIDE DEF R, D
    <3> QED BY <1>1, <2>1
  <2> HIDE DEF Value, R, D
  <2> QED BY <2>1 DEF LooksBelow
<1>5. PICK f \in [D -> R] : \A q \in D : f[q] = step[<<q, f>>]
  <2> HIDE DEF D, R, base, step
  <2> QED BY <1>2, <1>3, <1>4, MeasuredRecursion
<1>6. \A q \in D : f[q] = Value(q, f)
  <2> HIDE DEF Value, R, D
  <2> QED BY <1>5
<1>7. f = [q \in D |-> Value(q, f)]
  <2> HIDE DEF Value, R, D
  <2> QED BY <1>6
<1> QED BY <1>7

LEMMA PathFound ==
    ASSUME NEW ps, NEW h, Good(ps, h), NEW k \in Key, NEW p \in 1..Len(ps)
    PROVE  IsPath(ps, k, p, PathTo(ps, p, k))
<1> DEFINE Descent(f) == f = [q \in 1..Len(ps) |->
                        IF ps[q].leaf THEN <<q>> ELSE <<q>> \o f[NextDown(ps, q, k)]]
           from == CHOOSE f : Descent(f)
           D == 1..Len(ps)
           Done == {n \in Nat : \A q \in D : h[q] < n => IsPath(ps, k, q, from[q])}
<1>1. Descent(from)
  <2>1. \E f : Descent(f)
    BY DescentsExist
  <2> HIDE DEF Descent
  <2> QED BY <2>1
<1>2. PathTo(ps, p, k) = from[p]
  BY DEF PathTo, NextDown
<1>3. \A q \in D : from[q] = IF ps[q].leaf THEN <<q>> ELSE <<q>> \o from[NextDown(ps, q, k)]
  <2> HIDE DEF from
  <2> QED BY <1>1
<1> HIDE DEF from
<1>4. h \in [D -> Nat]
  BY DEF Good, Ranked
<1>5. 0 \in Done
  BY <1>4
<1>6. ASSUME NEW n \in Nat, n \in Done PROVE n + 1 \in Done
  <2> SUFFICES ASSUME NEW q \in D, h[q] < n + 1 PROVE IsPath(ps, k, q, from[q])
    OBVIOUS
  <2>1. CASE ps[q].leaf
    <3>1. from[q] = <<q>>
      BY <1>3, <2>1
    <3> QED BY <2>1, <3>1 DEF IsPath
  <2>2. CASE ~ps[q].leaf
    <3> DEFINE c == NextDown(ps, q, k)
               path == <<q>> \o from[c]
    <3>1. c \in D /\ h[c] < h[q]
      BY <2>2, SearchLeadsDown, KidIsPage DEF NextDown
    <3>2. IsPath(ps, k, c, from[c])
      <4> HIDE DEF c, D
      <4> QED BY <1>4, <1>6, <3>1
    <3>3. from[c] \in Seq(D) /\ from[c] # << >> /\ Len(from[c]) \in Nat \ {0}
      BY <3>2, EmptySeq DEF IsPath
    <3>4. /\ path \in Seq(D) /\ Len(path) = Len(from[c]) + 1
          /\ path[1] = q /\ \A i \in 1..Len(from[c]) : path[i + 1] = from[c][i]
      <4>1. <<q>> \in Seq(D) /\ Len(<<q>>) = 1 /\ <<q>>[1] = q
        OBVIOUS
      <4>2. /\ path \in Seq(D) /\ Len(path) = 1 + Len(from[c])
            /\ \A i \in 1..(1 + Len(from[c])) : path[i] = IF i <= 1 THEN <<q>>[i] ELSE from[c][i - 1]
        <5> DEFINE S == D
        <5>1. <<q>> \in Seq(S) /\ from[c] \in Seq(S)
          BY <3>3, <4>1
        <5> HIDE DEF c, S
        <5> QED BY <4>1, <5>1, ConcatProperties DEF S
      <4> HIDE DEF path, c
      <4>3. path[1] = q
        <5>1. 1 \in 1..(1 + Len(from[c]))
          BY <3>3
        <5>2. path[1] = <<q>>[1]
          <6> HIDE DEF D
          <6> QED BY <4>2, <5>1
        <5> QED BY <4>1, <5>2
      <4>4. ASSUME NEW i \in 1..Len(from[c]) PROVE path[i + 1] = from[c][i]
        <5>1. i + 1 \in 1..(1 + Len(from[c])) /\ ~(i + 1 <= 1) /\ (i + 1) - 1 = i
          BY <3>3
        <5> QED BY <4>2, <5>1
      <4> QED BY <3>3, <4>2, <4>3, <4>4
    <3>5. from[q] = path
      BY <1>3, <2>2
    <3> HIDE DEF path
    <3>6. path # << >>
      <4>1. Len(path) # 0 /\ Len(<< >>) = 0
        BY <3>3, <3>4
      <4> QED BY <4>1
    <3>7. ps[path[Len(path)]].leaf
      <4>1. Len(from[c]) \in 1..Len(from[c])
        BY <3>3
      <4> HIDE DEF c
      <4> QED BY <3>2, <3>4, <4>1 DEF IsPath
    <3>8. ASSUME NEW i \in 1..(Len(path) - 1)
          PROVE  ~ps[path[i]].leaf /\ path[i + 1] = NextDown(ps, path[i], k)
      <4>1. CASE i = 1
        <5>1. path[2] = from[c][1] /\ from[c][1] = c
          <6>1. 1 \in 1..Len(from[c]) /\ 1 + 1 = 2
            BY <3>3
          <6> HIDE DEF c
          <6>2. path[1 + 1] = from[c][1]
            BY <3>4, <6>1
          <6>3. from[c][1] = c
            BY <3>2 DEF IsPath
          <6> QED BY <6>1, <6>2, <6>3
        <5> QED BY <2>2, <3>4, <4>1, <5>1
      <4>2. CASE i # 1
        <5> HIDE DEF c
        <5>1. i - 1 \in 1..(Len(from[c]) - 1) /\ i - 1 \in 1..Len(from[c]) /\ i \in 1..Len(from[c])
              /\ (i - 1) + 1 = i
          BY <3>3, <3>4, <4>2
        <5>2. path[i] = from[c][i - 1] /\ path[i + 1] = from[c][i]
          BY <3>4, <5>1
        <5> QED BY <3>2, <5>1, <5>2 DEF IsPath
      <4> QED BY <4>1, <4>2
    <3> QED BY <3>4, <3>5, <3>6, <3>7, <3>8 DEF IsPath
  <2> QED BY <2>1, <2>2
<1>7. Nat \subseteq Done
  <2> HIDE DEF Done
  <2> QED BY <1>5, <1>6, SetInduction
<1>8. h[p] \in Nat /\ h[p] + 1 \in Nat /\ h[p] < h[p] + 1
  BY <1>4
<1> QED BY <1>2, <1>7, <1>8

(* The leftmost leaf below a page.                                         *)
LEMMA LeftmostIsLeaf ==
    ASSUME NEW ps, NEW h, Good(ps, h), NEW p \in 1..Len(ps)
    PROVE  /\ Leftmost(ps, p) \in 1..Len(ps) /\ ps[Leftmost(ps, p)].leaf
           /\ ps[p].leaf => Leftmost(ps, p) = p
           /\ ~ps[p].leaf => Leftmost(ps, p) = Leftmost(ps, ps[p].cells[1].left)
<1> DEFINE D == 1..Len(ps)
           Value(q, f) == IF ps[q].leaf THEN q ELSE f[ps[q].cells[1].left]
           step == [x \in D \X [D -> D] |-> Value(x[1], x[2])]
           Dives(f) == f = [q \in D |-> Value(q, f)]
           down == CHOOSE f : Dives(f)
           Done == {n \in Nat : \A q \in D : h[q] < n => down[q] \in D /\ ps[down[q]].leaf}
<1>1. \A q \in D : ~ps[q].leaf => ps[q].cells[1].left \in D /\ h[ps[q].cells[1].left] < h[q]
  <2> SUFFICES ASSUME NEW q \in D, ~ps[q].leaf
               PROVE  ps[q].cells[1].left \in D /\ h[ps[q].cells[1].left] < h[q]
    OBVIOUS
  <2>1. Len(ps[q].cells) \in Nat \ {0}
    BY GoodPage, EmptySeq DEF PageOK, InternalOK
  <2>2. 0 \in SlotsOf(ps[q]) /\ Child(ps[q], 0) = ps[q].cells[1].left
    BY <2>1 DEF SlotsOf, Child
  <2>3. ps[q].cells[1].left \in KidsOf(ps[q])
    BY <2>2 DEF KidsOf
  <2> QED BY <2>3, KidIsPage
<1>2. h \in [D -> Nat] /\ p \in D
  BY DEF Good, Ranked
<1>3. step \in MeasuredSteps(D, D)
  <2>1. ASSUME NEW q \in D, NEW f \in [D -> D] PROVE Value(q, f) \in D
    <3> HIDE DEF D
    <3> QED BY <1>1
  <2> HIDE DEF Value, D
  <2> QED BY <2>1 DEF MeasuredSteps
<1>4. LooksBelow(D, D, h, step)
  <2>1. ASSUME NEW q \in D, NEW f \in [D -> D], NEW g \in [D -> D],
               \A e \in D : h[e] < h[q] => f[e] = g[e]
        PROVE  Value(q, f) = Value(q, g)
    <3> HIDE DEF D
    <3> QED BY <1>1, <2>1
  <2> HIDE DEF Value, D
  <2> QED BY <2>1 DEF LooksBelow
<1>5. PICK f \in [D -> D] : \A q \in D : f[q] = step[<<q, f>>]
  <2> HIDE DEF D, step
  <2> QED BY <1>2, <1>3, <1>4, MeasuredRecursion
<1>6. Dives(down)
  <2>1. Dives(f)
    <3> HIDE DEF Value, D
    <3> QED BY <1>5
  <2> HIDE DEF Dives
  <2> QED BY <2>1
<1>7. \A q \in D : Leftmost(ps, q) = down[q]
  BY DEF Leftmost
<1>8. \A q \in D : down[q] = Value(q, down)
  <2> HIDE DEF down, Value
  <2> QED BY <1>6
<1> HIDE DEF down, D
<1>9. 0 \in Done
  BY <1>2
<1>10. ASSUME NEW n \in Nat, n \in Done PROVE n + 1 \in Done
  <2> SUFFICES ASSUME NEW q \in D, h[q] < n + 1 PROVE down[q] \in D /\ ps[down[q]].leaf
    OBVIOUS
  <2>1. CASE ps[q].leaf
    BY <1>8, <2>1
  <2>2. CASE ~ps[q].leaf
    <3>1. down[q] = down[ps[q].cells[1].left]
      BY <1>8, <2>2
    <3> DEFINE c == ps[q].cells[1].left
    <3>2. c \in D /\ h[c] < h[q]
      BY <1>1, <2>2
    <3> HIDE DEF c
    <3>3. h[c] < n
      BY <1>2, <3>2
    <3>4. down[c] \in D /\ ps[down[c]].leaf
      BY <1>10, <3>2, <3>3
    <3> QED BY <3>1, <3>4 DEF c
  <2> QED BY <2>1, <2>2
<1>11. Nat \subseteq Done
  <2> HIDE DEF Done
  <2> QED BY <1>9, <1>10, SetInduction
<1>12. h[p] \in Nat /\ h[p] + 1 \in Nat /\ h[p] < h[p] + 1
  BY <1>2
<1>13. Leftmost(ps, p) \in D /\ ps[Leftmost(ps, p)].leaf
  BY <1>2, <1>7, <1>11, <1>12
<1>14. ps[p].leaf => Leftmost(ps, p) = p
  BY <1>2, <1>7, <1>8
<1>15. ~ps[p].leaf => Leftmost(ps, p) = Leftmost(ps, ps[p].cells[1].left)
  BY <1>1, <1>2, <1>7, <1>8
<1> QED BY <1>13, <1>14, <1>15 DEF D

-----------------------------------------------------------------------------
(* Room on a page. *)

LEMMA RewrittenIs ==
    ASSUME NEW pg \in Page, NEW cells
    PROVE  [pg EXCEPT !.cells = cells] = [leaf |-> pg.leaf, cells |-> cells, right |-> pg.right, laid |-> pg.laid]
BY DEF Page

LEMMA PlacedIs ==
    ASSUME NEW pg \in Page, NEW idx, NEW c
    PROVE  Placed(pg, idx, c) = [leaf |-> pg.leaf, cells |-> InsertAt(pg.cells, idx + 1, c),
                                 right |-> pg.right, laid |-> pg.laid + 1]
<1> DEFINE cells == InsertAt(pg.cells, idx + 1, c)
           laid == pg.laid + 1
           b == [leaf |-> pg.leaf, cells |-> cells, right |-> pg.right, laid |-> pg.laid]
<1>1. Placed(pg, idx, c) = [[pg EXCEPT !.cells = cells] EXCEPT !.laid = laid]
  BY DEF Placed, Page
<1> HIDE DEF cells, laid
<1>2. [pg EXCEPT !.cells = cells] = b
  BY DEF Page
<1>3. [b EXCEPT !.laid = laid] = [leaf |-> pg.leaf, cells |-> cells, right |-> pg.right, laid |-> laid]
  OBVIOUS
<1> HIDE DEF b
<1> QED BY <1>1, <1>2, <1>3 DEF cells, laid

LEMMA RefilledIs ==
    ASSUME NEW pg \in Page, NEW cells
    PROVE  Refilled(pg, cells) = [leaf |-> pg.leaf, cells |-> cells, right |-> pg.right, laid |-> Len(cells)]
<1> DEFINE laid == Len(cells)
           b == [leaf |-> pg.leaf, cells |-> cells, right |-> pg.right, laid |-> pg.laid]
<1>1. Refilled(pg, cells) = [[pg EXCEPT !.cells = cells] EXCEPT !.laid = laid]
  BY DEF Refilled, Page
<1> HIDE DEF laid
<1>2. [pg EXCEPT !.cells = cells] = b
  BY DEF Page
<1>3. [b EXCEPT !.laid = laid] = [leaf |-> pg.leaf, cells |-> cells, right |-> pg.right, laid |-> laid]
  OBVIOUS
<1> HIDE DEF b
<1> QED BY <1>1, <1>2, <1>3 DEF laid

LEMMA RoomForOne ==
    ASSUME NEW pg \in Page, Fits(pg), ~Full(pg)
    PROVE  PtrSize * (Len(pg.cells) + 1) + CellSize * (pg.laid + 1) <= Room
<1> DEFINE n == Len(pg.cells)
           m == pg.laid
<1>1. n \in Nat /\ m \in Nat /\ PtrSize \in Nat /\ CellSize \in Nat /\ Room \in Nat
  BY TreeAssumption DEF Page
<1>2. Room - CellSize * m - PtrSize * n >= CellSize + PtrSize
  <2>1. Room - CellSize * m - PtrSize * n \in Int
    BY <1>1
  <2>2. ~(Room - CellSize * m - PtrSize * n < CellSize + PtrSize)
    BY DEF Full
  <2> HIDE DEF n, m
  <2> QED BY <1>1, <2>1, <2>2
<1> HIDE DEF n, m
<1>3. PtrSize * (n + 1) = PtrSize * n + PtrSize /\ CellSize * (m + 1) = CellSize * m + CellSize
  BY <1>1
<1>4. PtrSize * n \in Nat /\ CellSize * m \in Nat
  BY <1>1
<1>5. PtrSize * (n + 1) + CellSize * (m + 1) <= Room
  BY <1>1, <1>2, <1>3, <1>4
<1> QED BY <1>5 DEF n, m

(* No more cells than before fit a page that has been cleared.             *)
LEMMA RoomForFewer ==
    ASSUME NEW pg \in Page, Fits(pg), NEW i \in Nat, i <= Len(pg.cells) \/ i <= 1
    PROVE  PtrSize * i + CellSize * i <= Room
<1> DEFINE n == Len(pg.cells)
           m == pg.laid
<1>1. n \in Nat /\ m \in Nat /\ PtrSize \in Nat /\ CellSize \in Nat /\ Room \in Nat
      /\ n <= m /\ PtrSize * n + CellSize * m <= Room
      /\ PtrSize * n \in Nat /\ CellSize * m \in Nat /\ PtrSize * i \in Nat /\ CellSize * i \in Nat
  BY TreeAssumption DEF Page, Fits
<1>2. i <= n \/ i <= 1
  OBVIOUS
<1> HIDE DEF n, m
<1>3. CASE i <= n
  <2>1. i <= m
    BY <1>1, <1>3
  <2>2. PtrSize * i <= PtrSize * n /\ CellSize * i <= CellSize * m
    BY <1>1, <1>3, <2>1, TimesGrows
  <2> QED BY <1>1, <2>2
<1>4. CASE i <= 1
  <2>1. PtrSize * i <= PtrSize * 1 /\ CellSize * i <= CellSize * 1
    BY <1>1, <1>4, TimesGrows
  <2>2. 4 * (CellSize + PtrSize) <= Room
    BY TreeAssumption
  <2> QED BY <1>1, <2>1, <2>2
<1> QED BY <1>2, <1>3, <1>4

(* A page that is full without a hole has four cells.                      *)
LEMMA FullHasFour ==
    ASSUME NEW pg \in Page, pg.laid = Len(pg.cells), Full(pg)
    PROVE  Len(pg.cells) >= 4
<1> DEFINE n == Len(pg.cells)
<1>1. n \in Nat /\ PtrSize \in Nat /\ CellSize \in Nat /\ Room \in Nat
      /\ 4 * (CellSize + PtrSize) <= Room
      /\ PtrSize * n \in Nat /\ CellSize * n \in Nat
  BY TreeAssumption DEF Page
<1>2. Room - CellSize * n - PtrSize * n < CellSize + PtrSize
  BY DEF Full
<1> HIDE DEF n
<1>3. SUFFICES ASSUME n <= 3 PROVE FALSE
  BY <1>1 DEF n
<1>4. PtrSize * n <= PtrSize * 3 /\ CellSize * n <= CellSize * 3
  BY <1>1, <1>3, TimesGrows
<1> QED BY <1>1, <1>2, <1>4

-----------------------------------------------------------------------------
(* Cells in order. *)
CellsAscend(s) == \A i, j \in 1..Len(s) : i < j => s[i].key < s[j].key

LEMMA KeysAscend ==
    ASSUME NEW pg \in Page
    PROVE  Ascends(Keys(pg)) <=> CellsAscend(pg.cells)
BY KeysOfPage DEF Ascends, CellsAscend

(* insertSorted puts the cell in somewhere; into cells in order that do not *)
(* have its key, in order.                                                  *)
LEMMA SortedInsertion ==
    ASSUME NEW s \in Seq(CellSet), NEW c \in CellSet
    PROVE  \E j \in 1..(Len(s) + 1) :
              /\ InsertSorted(s, c) \in Seq(CellSet) /\ ShiftedIn(InsertSorted(s, c), s, j, c)
              /\ \A i \in 1..Len(s) : i < j => ~(c.key < s[i].key)
              /\ j <= Len(s) => c.key < s[j].key
<1> DEFINE greater == {i \in DOMAIN s : c.key < s[i].key}
           first == CHOOSE i \in greater : \A x \in greater : i <= x
<1>1. Len(s) \in Nat /\ DOMAIN s = 1..Len(s)
  OBVIOUS
<1>2. CASE greater = {}
  <2>1. InsertSorted(s, c) = Append(s, c)
    BY <1>2 DEF InsertSorted
  <2>2. /\ Append(s, c) \in Seq(CellSet) /\ Len(Append(s, c)) = Len(s) + 1
        /\ \A i \in 1..Len(s) : Append(s, c)[i] = s[i]
        /\ Append(s, c)[Len(s) + 1] = c
    BY AppendProperties
  <2>3. ShiftedIn(Append(s, c), s, Len(s) + 1, c)
    <3>1. \A i \in 1..(Len(s) + 1) : (i \in 1..Len(s) /\ i < Len(s) + 1) \/ i = Len(s) + 1
      BY <1>1
    <3> QED BY <2>2, <3>1 DEF ShiftedIn
  <2>4. \A i \in 1..Len(s) : ~(c.key < s[i].key)
    BY <1>1, <1>2
  <2>5. Len(s) + 1 \in 1..(Len(s) + 1) /\ ~(Len(s) + 1 <= Len(s))
    BY <1>1
  <2> QED BY <2>1, <2>2, <2>3, <2>4, <2>5
<1>3. CASE greater # {}
  <2>1. first \in greater /\ \A x \in greater : first <= x
    <3>1. greater \subseteq Nat
      BY <1>1
    <3>2. \E i \in greater : \A x \in greater : i <= x
      <4> HIDE DEF greater
      <4> QED BY <1>3, <3>1, LeastNumber
    <3> HIDE DEF greater
    <3> QED BY <3>2
  <2>2. InsertSorted(s, c) = InsertAt(s, first, c)
    BY <1>3 DEF InsertSorted
  <2>3. first \in 1..Len(s) /\ c.key < s[first].key /\ \A i \in 1..Len(s) : c.key < s[i].key => first <= i
    <3> HIDE DEF first
    <3> QED BY <1>1, <2>1
  <2> HIDE DEF first
  <2>4. first \in 1..(Len(s) + 1) /\ \A i \in 1..Len(s) : i < first => ~(first <= i)
    BY <1>1, <2>3
  <2>5. InsertAt(s, first, c) \in Seq(CellSet) /\ ShiftedIn(InsertAt(s, first, c), s, first, c)
    BY <2>4, InsertAtProperties
  <2> QED BY <2>2, <2>3, <2>4, <2>5
<1> QED BY <1>2, <1>3

LEMMA InsertionAscends ==
    ASSUME NEW s \in Seq(CellSet), NEW c \in CellSet, NEW j \in 1..(Len(s) + 1),
           NEW t \in Seq(CellSet), ShiftedIn(t, s, j, c), CellsAscend(s),
           \A i \in 1..Len(s) : (i < j => s[i].key < c.key) /\ (i >= j => c.key < s[i].key)
    PROVE  CellsAscend(t)
<1>1. Len(s) \in Nat /\ c.key \in Int /\ Len(t) = Len(s) + 1
      /\ \A i \in 1..Len(s) : s[i].key \in Int
  <2>1. Len(s) \in Nat /\ \A i \in 1..Len(s) : s[i] \in CellSet
    OBVIOUS
  <2>2. \A x \in CellSet : x.key \in Int
    BY TreeAssumption DEF CellSet
  <2>3. Len(t) = Len(s) + 1
    BY DEF ShiftedIn
  <2> QED BY <2>1, <2>2, <2>3
<1> SUFFICES ASSUME NEW a \in 1..Len(t), NEW b \in 1..Len(t), a < b PROVE t[a].key < t[b].key
  BY DEF CellsAscend
<1>2. \A i \in 1..Len(t) : t[i] = IF i < j THEN s[i] ELSE IF i = j THEN c ELSE s[i - 1]
  BY <1>1 DEF ShiftedIn
<1>3. CASE b < j
  BY <1>1, <1>2, <1>3 DEF CellsAscend
<1>4. CASE b = j
  BY <1>1, <1>2, <1>4
<1>5. CASE a < j /\ b > j
  <2>1. a \in 1..Len(s) /\ b - 1 \in 1..Len(s) /\ (a < b - 1 \/ a = b - 1)
    BY <1>1, <1>5
  <2>2. t[a] = s[a] /\ t[b] = s[b - 1]
    BY <1>1, <1>2, <1>5
  <2>3. a \in 1..Len(s) /\ b - 1 \in 1..Len(s) /\ a < b - 1
    BY <1>1, <1>5
  <2> QED BY <2>2, <2>3 DEF CellsAscend
<1>6. CASE a = j
  <2>1. t[a] = c /\ t[b] = s[b - 1]
    BY <1>1, <1>2, <1>6
  <2>2. b - 1 \in 1..Len(s) /\ b - 1 >= j
    BY <1>1, <1>6
  <2> QED BY <2>1, <2>2
<1>7. CASE a > j
  <2>1. t[a] = s[a - 1] /\ t[b] = s[b - 1]
    BY <1>1, <1>2, <1>7
  <2>2. a - 1 \in 1..Len(s) /\ b - 1 \in 1..Len(s) /\ a - 1 < b - 1
    BY <1>1, <1>7
  <2> QED BY <2>1, <2>2 DEF CellsAscend
<1> QED BY <1>1, <1>3, <1>4, <1>5, <1>6, <1>7

(* A part of cells in order is in order.                                   *)
LEMMA PartOfCells ==
    ASSUME NEW s \in Seq(CellSet), NEW m \in 1..(Len(s) + 1), NEW n \in 0..Len(s)
    PROVE  /\ SubSeq(s, m, n) \in Seq(CellSet)
           /\ Len(SubSeq(s, m, n)) = IF m <= n THEN n - m + 1 ELSE 0
           /\ \A i \in 1..(n - m + 1) : SubSeq(s, m, n)[i] = s[m + i - 1]
           /\ CellsAscend(s) => CellsAscend(SubSeq(s, m, n))
<1>1. Len(s) \in Nat /\ m \in Int /\ n \in Int
  OBVIOUS
<1>2. \A i \in m..n : s[i] \in CellSet
  <2>1. \A i \in m..n : i \in 1..Len(s)
    BY <1>1
  <2> QED BY <2>1
<1>3. /\ SubSeq(s, m, n) \in Seq(CellSet)
      /\ Len(SubSeq(s, m, n)) = IF m <= n THEN n - m + 1 ELSE 0
      /\ \A i \in 1..(n - m + 1) : SubSeq(s, m, n)[i] = s[m + i - 1]
  BY <1>1, <1>2, SubSeqProperties
<1>4. ASSUME CellsAscend(s) PROVE CellsAscend(SubSeq(s, m, n))
  <2> DEFINE t == SubSeq(s, m, n)
  <2> SUFFICES ASSUME NEW i \in 1..Len(t), NEW j \in 1..Len(t), i < j PROVE t[i].key < t[j].key
    BY DEF CellsAscend
  <2>1. i \in 1..(n - m + 1) /\ j \in 1..(n - m + 1)
    BY <1>1, <1>3
  <2>2. t[i] = s[m + i - 1] /\ t[j] = s[m + j - 1]
    BY <1>3, <2>1
  <2>3. m + i - 1 \in 1..Len(s) /\ m + j - 1 \in 1..Len(s) /\ m + i - 1 < m + j - 1
    BY <1>1, <2>1
  <2> QED BY <1>4, <2>2, <2>3 DEF CellsAscend
<1> QED BY <1>3, <1>4

-----------------------------------------------------------------------------
(* The rows of the leaves: which pages hold a row of key x, and with which *)
(* values.                                                                 *)
Has(s, x, w) == \E i \in 1..Len(s) : s[i].key = x /\ s[i].val = w
On(pg, x, w) == pg.leaf /\ Has(pg.cells, x, w)
Holds(pg, x) == \E w : On(pg, x, w)

Holders(ps, x) == {p \in 1..Len(ps) : Holds(ps[p], x)}
Count(ps, x) == Cardinality(Holders(ps, x))
ValsOf(ps, x) == {w \in Val : \E p \in 1..Len(ps) : On(ps[p], x, w)}

SameRows(ps, t, x) == Count(t, x) = Count(ps, x) /\ ValsOf(t, x) = ValsOf(ps, x)

(* The pages t are ps with a row of k more, or with another value in one.  *)
RowPut(ps, t, k, v) ==
    /\ \A x : x # k => SameRows(ps, t, x)
    /\ Count(t, k) - Count(ps, k) \in {0, 1} /\ v \in ValsOf(t, k)

(* The pages t are ps with a row of k less.                                *)
RowTaken(ps, t, k) ==
    /\ \A x : x # k => SameRows(ps, t, x)
    /\ Count(t, k) - Count(ps, k) = -1

LEMMA CountIsNumber ==
    ASSUME NEW ps, Len(ps) \in Nat, NEW x
    PROVE  IsFiniteSet(Holders(ps, x)) /\ Count(ps, x) \in Nat
<1>1. IsFiniteSet(1..Len(ps))
  <2>1. 1 \in Int /\ Len(ps) \in Int
    OBVIOUS
  <2> QED BY <2>1, FS_Interval
<1>2. Holders(ps, x) \in SUBSET (1..Len(ps))
  BY DEF Holders
<1> QED BY <1>1, <1>2, FS_Subset, FS_CardinalityType DEF Count

(* One page of t differs from that of ps.                                  *)
Differs(ps, t, p) ==
    /\ Len(t) = Len(ps) /\ p \in 1..Len(ps)
    /\ \A q \in 1..Len(ps) : q # p => t[q] = ps[q]

LEMMA OthersSame ==
    ASSUME NEW ps, NEW t, NEW p, Differs(ps, t, p),
           NEW x, \A w : On(t[p], x, w) <=> On(ps[p], x, w)
    PROVE  SameRows(ps, t, x)
<1>1. \A q \in 1..Len(ps) : \A w : On(t[q], x, w) <=> On(ps[q], x, w)
  BY DEF Differs
<1>2. Holders(t, x) = Holders(ps, x)
  BY <1>1 DEF Differs, Holders, Holds
<1>3. ValsOf(t, x) = ValsOf(ps, x)
  BY <1>1 DEF Differs, ValsOf
<1> QED BY <1>2, <1>3 DEF SameRows, Count

LEMMA PageTakesRow ==
    ASSUME NEW ps, Len(ps) \in Nat, NEW t, NEW p, Differs(ps, t, p), NEW k, NEW v \in Val,
           \A x, w : x # k => (On(t[p], x, w) <=> On(ps[p], x, w)), On(t[p], k, v)
    PROVE  RowPut(ps, t, k, v)
<1>1. \A x : x # k => SameRows(ps, t, x)
  BY OthersSame
<1>2. v \in ValsOf(t, k)
  BY DEF ValsOf, Differs
<1>3. Holders(t, k) = Holders(ps, k) \union {p}
  BY DEF Holders, Holds, Differs
<1>4. IsFiniteSet(Holders(ps, k)) /\ Count(ps, k) \in Nat
  BY CountIsNumber
<1>5. Count(t, k) = Count(ps, k) \/ Count(t, k) = Count(ps, k) + 1
  BY <1>3, <1>4, FS_AddElement DEF Count
<1> QED BY <1>1, <1>2, <1>4, <1>5 DEF RowPut

LEMMA PageGivesRow ==
    ASSUME NEW ps, Len(ps) \in Nat, NEW t, NEW p, Differs(ps, t, p), NEW k,
           \A x, w : x # k => (On(t[p], x, w) <=> On(ps[p], x, w)),
           Holds(ps[p], k), ~Holds(t[p], k)
    PROVE  RowTaken(ps, t, k)
<1>1. \A x : x # k => SameRows(ps, t, x)
  BY OthersSame
<1>2. Holders(t, k) = Holders(ps, k) \ {p} /\ p \in Holders(ps, k)
  BY DEF Holders, Differs
<1>3. IsFiniteSet(Holders(ps, k)) /\ Count(ps, k) \in Nat
  BY CountIsNumber
<1>4. Count(t, k) = Count(ps, k) - 1
  BY <1>2, <1>3, FS_RemoveElement DEF Count
<1> QED BY <1>1, <1>3, <1>4 DEF RowTaken

(* Page p has been dealt out to itself and a new page n, with a row more.  *)
Dealt(ps, t, p, n, k, v) ==
    /\ p \in 1..Len(ps) /\ n = Len(ps) + 1 /\ Len(t) = n
    /\ \A q \in 1..Len(ps) : q # p => t[q] = ps[q]
    /\ \A x, w : On(t[p], x, w) \/ On(t[n], x, w) <=> On(ps[p], x, w) \/ (x = k /\ w = v)
    /\ \A x : ~Holds(t[p], x) \/ ~Holds(t[n], x)
    /\ ~Holds(ps[p], k)

LEMMA PagesTakeRow ==
    ASSUME NEW ps, Len(ps) \in Nat, NEW t, NEW p, NEW n, NEW k, NEW v \in Val, Dealt(ps, t, p, n, k, v)
    PROVE  RowPut(ps, t, k, v)
<1>1. /\ \A q \in 1..Len(t) : q \in 1..Len(ps) \/ q = n
      /\ n \in 1..Len(t) /\ n \notin 1..Len(ps) /\ \A q \in 1..Len(ps) : q \in 1..Len(t)
  BY DEF Dealt
<1>2. ASSUME NEW x, NEW w
      PROVE  /\ (\E q \in 1..Len(t) : On(t[q], x, w)) <=> (\E q \in 1..Len(ps) : On(ps[q], x, w)) \/ (x = k /\ w = v)
  BY <1>1 DEF Dealt
<1>3. \A x : x # k => ValsOf(t, x) = ValsOf(ps, x)
  BY <1>2 DEF ValsOf
<1>4. v \in ValsOf(t, k)
  BY <1>2 DEF ValsOf
<1>5. \A x : IsFiniteSet(Holders(ps, x)) /\ Count(ps, x) \in Nat
  BY CountIsNumber
<1>6. \A x : Holds(t[p], x) \/ Holds(t[n], x) <=> Holds(ps[p], x) \/ x = k
  BY DEF Holds, Dealt
<1>7. \A x : Holders(t, x) \ {p, n} = Holders(ps, x) \ {p}
  BY <1>1 DEF Holders, Dealt
<1>8. ASSUME NEW x, x # k PROVE Count(t, x) = Count(ps, x)
  <2>1. CASE ~Holds(ps[p], x)
    <3>1. ~Holds(t[p], x) /\ ~Holds(t[n], x)
      BY <1>6, <1>8, <2>1
    <3>2. Holders(t, x) = Holders(ps, x)
      BY <1>7, <2>1, <3>1 DEF Holders
    <3> QED BY <3>2 DEF Count
  <2>2. CASE Holds(ps[p], x) /\ Holds(t[p], x)
    <3>1. ~Holds(t[n], x) /\ p \in Holders(ps, x) /\ p \in Holders(t, x)
      BY <1>1, <2>2 DEF Dealt, Holders
    <3>2. Holders(t, x) = Holders(ps, x)
      BY <1>7, <3>1 DEF Holders
    <3> QED BY <3>2 DEF Count
  <2>3. CASE Holds(ps[p], x) /\ ~Holds(t[p], x)
    <3>1. Holds(t[n], x) /\ p \in Holders(ps, x) /\ n \in Holders(t, x) /\ p \notin Holders(t, x)
      BY <1>1, <1>6, <2>3 DEF Dealt, Holders
    <3> DEFINE rest == Holders(ps, x) \ {p}
    <3>2. Holders(t, x) = rest \union {n} /\ n \notin rest
      BY <1>1, <1>7, <3>1 DEF Holders
    <3>3. IsFiniteSet(rest) /\ Cardinality(rest) = Count(ps, x) - 1
      BY <1>5, <3>1, FS_RemoveElement DEF Count
    <3> HIDE DEF rest
    <3>4. Count(t, x) = Cardinality(rest) + 1
      BY <3>2, <3>3, FS_AddElement DEF Count
    <3> QED BY <1>5, <3>3, <3>4
  <2> QED BY <2>1, <2>2, <2>3
<1>9. Count(t, k) = Count(ps, k) + 1
  <2>1. p \notin Holders(ps, k) /\ n \notin Holders(ps, k)
    BY <1>1 DEF Dealt, Holders
  <2>2. Holders(t, k) = Holders(ps, k) \union {p} \/ Holders(t, k) = Holders(ps, k) \union {n}
    <3>1. p \in Holders(t, k) <=> n \notin Holders(t, k)
      BY <1>1, <1>6 DEF Dealt, Holders
    <3>2. Holders(t, k) \ {p, n} = Holders(ps, k)
      BY <1>7, <2>1
    <3> QED BY <3>1, <3>2
  <2> QED BY <1>5, <2>1, <2>2, FS_AddElement DEF Count
<1>10. Count(t, k) - Count(ps, k) \in {0, 1}
  BY <1>5, <1>9
<1>11. \A x : x # k => SameRows(ps, t, x)
  BY <1>3, <1>8 DEF SameRows
<1> QED BY <1>4, <1>10, <1>11 DEF RowPut

(* No leaf of t differs from those of ps.                                  *)
SameLeaves(ps, t) ==
    /\ Len(ps) \in Nat /\ Len(t) \in Nat /\ Len(ps) <= Len(t)
    /\ \A q \in 1..Len(t) : t[q].leaf => q \in 1..Len(ps) /\ t[q] = ps[q]
    /\ \A q \in 1..Len(ps) : ps[q].leaf => t[q] = ps[q]

LEMMA LeavesHoldRows ==
    ASSUME NEW ps, NEW t, SameLeaves(ps, t), NEW x
    PROVE  SameRows(ps, t, x)
<1>1. \A q \in 1..Len(ps) : q \in 1..Len(t)
  BY DEF SameLeaves
<1>2. \A w : \A q \in 1..Len(t) : On(t[q], x, w) => q \in 1..Len(ps) /\ On(ps[q], x, w)
  BY DEF SameLeaves, On
<1>3. \A w : \A q \in 1..Len(ps) : On(ps[q], x, w) => q \in 1..Len(t) /\ On(t[q], x, w)
  BY <1>1 DEF SameLeaves, On
<1>4. Holders(t, x) = Holders(ps, x)
  BY <1>2, <1>3 DEF Holders, Holds
<1>5. ValsOf(t, x) = ValsOf(ps, x)
  BY <1>2, <1>3 DEF ValsOf
<1> QED BY <1>4, <1>5 DEF SameRows, Count

LEMMA RowPutKept ==
    ASSUME NEW ps, NEW qs, NEW t, NEW k, NEW v, RowPut(ps, qs, k, v), SameLeaves(qs, t)
    PROVE  RowPut(ps, t, k, v)
<1>1. \A x : SameRows(qs, t, x)
  BY LeavesHoldRows
<1> QED BY <1>1 DEF RowPut, SameRows

(* The rows of a list of cells with one more, one less or another.         *)
LEMMA InsertedHas ==
    ASSUME NEW s \in Seq(CellSet), NEW c, NEW j \in 1..(Len(s) + 1), NEW t \in Seq(CellSet), ShiftedIn(t, s, j, c),
           NEW x, NEW w
    PROVE  Has(t, x, w) <=> Has(s, x, w) \/ (x = c.key /\ w = c.val)
<1>1. Len(s) \in Nat /\ Len(t) = Len(s) + 1 /\ j \in 1..Len(t)
      /\ \A i \in 1..Len(t) : t[i] = IF i < j THEN s[i] ELSE IF i = j THEN c ELSE s[i - 1]
  BY DEF ShiftedIn
<1>2. ASSUME Has(s, x, w) PROVE Has(t, x, w)
  <2>1. PICK i \in 1..Len(s) : s[i].key = x /\ s[i].val = w
    BY <1>2 DEF Has
  <2>2. CASE i < j
    <3>1. i \in 1..Len(t) /\ t[i] = s[i]
      BY <1>1, <2>2
    <3> QED BY <2>1, <3>1 DEF Has
  <2>3. CASE ~(i < j)
    <3>1. i + 1 \in 1..Len(t) /\ t[i + 1] = s[(i + 1) - 1] /\ (i + 1) - 1 = i
      <4>1. i + 1 \in 1..Len(t) /\ ~(i + 1 < j) /\ i + 1 # j /\ (i + 1) - 1 = i
        BY <1>1, <2>3
      <4> QED BY <1>1, <4>1
    <3> QED BY <2>1, <3>1 DEF Has
  <2> QED BY <2>2, <2>3
<1>3. ASSUME x = c.key, w = c.val PROVE Has(t, x, w)
  <2>1. t[j] = c
    BY <1>1
  <2> QED BY <1>1, <1>3, <2>1 DEF Has
<1>4. ASSUME Has(t, x, w) PROVE Has(s, x, w) \/ (x = c.key /\ w = c.val)
  <2>1. PICK i \in 1..Len(t) : t[i].key = x /\ t[i].val = w
    BY <1>4 DEF Has
  <2>2. CASE i < j
    <3>1. i \in 1..Len(s) /\ t[i] = s[i]
      BY <1>1, <2>2
    <3> QED BY <2>1, <3>1 DEF Has
  <2>3. CASE i = j
    <3>1. t[i] = c
      BY <1>1, <2>3
    <3> QED BY <2>1, <3>1
  <2>4. CASE i > j
    <3>1. i - 1 \in 1..Len(s) /\ t[i] = s[i - 1]
      BY <1>1, <2>4
    <3> QED BY <2>1, <3>1 DEF Has
  <2> QED BY <1>1, <2>2, <2>3, <2>4
<1> QED BY <1>2, <1>3, <1>4

LEMMA OneCellPerKey ==
    ASSUME NEW s \in Seq(CellSet), CellsAscend(s), NEW i \in 1..Len(s), NEW j \in 1..Len(s), s[i].key = s[j].key
    PROVE  i = j
<1>1. \A x \in CellSet : x.key \in Int
  BY TreeAssumption DEF CellSet
<1> HIDE DEF CellSet
<1>2. ~(i < j) /\ ~(j < i)
  <2>1. s[i].key \in Int /\ s[i] \in CellSet
    BY <1>1
  <2> QED BY <2>1 DEF CellsAscend
<1> QED BY <1>2

LEMMA RemovedHas ==
    ASSUME NEW s \in Seq(CellSet), CellsAscend(s), NEW j \in 1..Len(s), NEW t \in Seq(CellSet), ShiftedOut(t, s, j),
           NEW x, NEW w
    PROVE  Has(t, x, w) <=> Has(s, x, w) /\ x # s[j].key
<1>1. Len(s) \in Nat /\ Len(t) = Len(s) - 1
      /\ \A i \in 1..Len(t) : t[i] = IF i < j THEN s[i] ELSE s[i + 1]
  BY DEF ShiftedOut
<1>2. ASSUME Has(s, x, w), x # s[j].key PROVE Has(t, x, w)
  <2>1. PICK i \in 1..Len(s) : s[i].key = x /\ s[i].val = w
    BY <1>2 DEF Has
  <2>2. i # j
    BY <1>2, <2>1
  <2>3. CASE i < j
    <3>1. i \in 1..Len(t) /\ t[i] = s[i]
      BY <1>1, <2>3
    <3> QED BY <2>1, <3>1 DEF Has
  <2>4. CASE i > j
    <3>1. i - 1 \in 1..Len(t) /\ t[i - 1] = s[(i - 1) + 1] /\ (i - 1) + 1 = i
      <4>1. i - 1 \in 1..Len(t) /\ ~(i - 1 < j) /\ (i - 1) + 1 = i
        BY <1>1, <2>4
      <4> QED BY <1>1, <4>1
    <3> QED BY <2>1, <3>1 DEF Has
  <2> QED BY <1>1, <2>2, <2>3, <2>4
<1>3. ASSUME Has(t, x, w) PROVE Has(s, x, w) /\ x # s[j].key
  <2>1. PICK i \in 1..Len(t) : t[i].key = x /\ t[i].val = w
    BY <1>3 DEF Has
  <2>2. PICK y \in 1..Len(s) : y # j /\ t[i] = s[y]
    <3>1. CASE i < j
      BY <1>1, <3>1
    <3>2. CASE ~(i < j)
      <4>1. i + 1 \in 1..Len(s) /\ i + 1 # j /\ t[i] = s[i + 1]
        BY <1>1, <3>2
      <4> QED BY <4>1
    <3> QED BY <3>1, <3>2
  <2>3. s[y].key # s[j].key
    BY <2>2, OneCellPerKey
  <2> QED BY <2>1, <2>2, <2>3 DEF Has
<1> QED BY <1>2, <1>3

LEMMA ReplacedHas ==
    ASSUME NEW s \in Seq(CellSet), NEW t, Len(t) = Len(s), NEW j \in 1..Len(s), NEW c, s[j].key = c.key,
           \A i \in 1..Len(s) : t[i] = IF i = j THEN c ELSE s[i], NEW x, NEW w
    PROVE  /\ x # c.key => (Has(t, x, w) <=> Has(s, x, w))
           /\ Has(t, c.key, c.val)
<1>1. t[j] = c /\ j \in 1..Len(t)
  OBVIOUS
<1>2. Has(t, c.key, c.val)
  BY <1>1 DEF Has
<1>3. ASSUME x # c.key PROVE Has(t, x, w) <=> Has(s, x, w)
  <2>1. \A i \in 1..Len(s) : t[i].key = s[i].key /\ (s[i].key = x => t[i] = s[i])
    BY <1>3
  <2> QED BY <2>1 DEF Has
<1> QED BY <1>2, <1>3

(* Cells in order, dealt out to two lists.                                 *)
Halves(t, l, r) ==
    /\ Len(l) \in Nat /\ Len(r) \in Nat /\ Len(t) = Len(l) + Len(r)
    /\ \A i \in 1..Len(l) : l[i] = t[i]
    /\ \A i \in 1..Len(r) : r[i] = t[Len(l) + i]

LEMMA HalvesHave ==
    ASSUME NEW t \in Seq(CellSet), CellsAscend(t), NEW l, NEW r, Halves(t, l, r)
    PROVE  /\ \A x, w : Has(l, x, w) \/ Has(r, x, w) <=> Has(t, x, w)
           /\ \A x, w, z : ~Has(l, x, w) \/ ~Has(r, x, z)
<1>1. /\ Len(l) \in Nat /\ Len(r) \in Nat /\ Len(t) = Len(l) + Len(r)
      /\ \A i \in 1..Len(l) : i \in 1..Len(t) /\ l[i] = t[i]
      /\ \A i \in 1..Len(r) : Len(l) + i \in 1..Len(t) /\ r[i] = t[Len(l) + i]
  BY DEF Halves
<1>2. ASSUME NEW x, NEW w, Has(l, x, w) \/ Has(r, x, w) PROVE Has(t, x, w)
  BY <1>1, <1>2 DEF Has
<1>3. ASSUME NEW x, NEW w, Has(t, x, w) PROVE Has(l, x, w) \/ Has(r, x, w)
  <2>1. PICK i \in 1..Len(t) : t[i].key = x /\ t[i].val = w
    BY <1>3 DEF Has
  <2>2. CASE i <= Len(l)
    <3>1. i \in 1..Len(l) /\ l[i] = t[i]
      BY <1>1, <2>2
    <3> QED BY <2>1, <3>1 DEF Has
  <2>3. CASE ~(i <= Len(l))
    <3>1. i - Len(l) \in 1..Len(r) /\ Len(l) + (i - Len(l)) = i
      BY <1>1, <2>3
    <3>2. r[i - Len(l)] = t[i]
      BY <1>1, <3>1
    <3> QED BY <2>1, <3>1, <3>2 DEF Has
  <2> QED BY <2>2, <2>3
<1>4. ASSUME NEW x, NEW w, NEW z, Has(l, x, w), Has(r, x, z) PROVE FALSE
  <2>1. PICK i \in 1..Len(l) : l[i].key = x
    BY <1>4 DEF Has
  <2>2. PICK j \in 1..Len(r) : r[j].key = x
    BY <1>4 DEF Has
  <2>3. i \in 1..Len(t) /\ Len(l) + j \in 1..Len(t) /\ i # Len(l) + j /\ t[i].key = x /\ t[Len(l) + j].key = x
    BY <1>1, <2>1, <2>2
  <2> QED BY <2>3, OneCellPerKey
<1> QED BY <1>2, <1>3, <1>4

-----------------------------------------------------------------------------
(* What an insertion below page p leaves behind.                           *)
Grown(ps, h, p, b) ==
    /\ b.split \in BOOLEAN /\ Len(b.pages) \in Nat /\ Len(ps) <= Len(b.pages)
    /\ \A q \in 1..Len(ps) : q # p /\ h[q] >= h[p] => b.pages[q] = ps[q]
    /\ \A r \in 1..Len(ps) : Free(ps, r) => Free(b.pages, r)
    /\ \E g : /\ Good(b.pages, g) /\ \A q \in 1..Len(ps) : g[q] = h[q]
              /\ b.split => b.page \in 1..Len(b.pages) /\ g[b.page] = h[p]
    /\ b.split => /\ b.key \in Key /\ b.val \in Val
                  /\ b.page \notin 1..Len(ps) /\ Free(b.pages, b.page)

LEMMA GrownUnsplit ==
    ASSUME NEW ps, NEW h, NEW p, Len(ps) \in Nat, NEW t, NEW g, Good(t, g), Len(ps) <= Len(t),
           \A q \in 1..Len(ps) : g[q] = h[q],
           \A q \in 1..Len(ps) : q # p /\ h[q] >= h[p] => t[q] = ps[q],
           \A r \in 1..Len(ps) : Free(ps, r) => Free(t, r)
    PROVE  Grown(ps, h, p, Unsplit(t))
<1> DEFINE b == Unsplit(t)
<1>1. b.pages = t /\ b.split = FALSE
  BY DEF Unsplit
<1>2. Len(t) \in Nat
  BY DEF Good
<1> HIDE DEF b
<1>3. b.split \in BOOLEAN /\ Len(b.pages) \in Nat /\ Len(ps) <= Len(b.pages)
  BY <1>1, <1>2
<1>4. \A q \in 1..Len(ps) : q # p /\ h[q] >= h[p] => b.pages[q] = ps[q]
  BY <1>1
<1>5. \A r \in 1..Len(ps) : Free(ps, r) => Free(b.pages, r)
  BY <1>1
<1>6. \E f : /\ Good(b.pages, f) /\ \A q \in 1..Len(ps) : f[q] = h[q]
             /\ b.split => b.page \in 1..Len(b.pages) /\ f[b.page] = h[p]
  <2>1. Good(b.pages, g)
    BY <1>1
  <2> QED BY <1>1, <2>1, Zenon
<1>7. b.split => /\ b.key \in Key /\ b.val \in Val
                 /\ b.page \notin 1..Len(ps) /\ Free(b.pages, b.page)
  BY <1>1
<1>8. Grown(ps, h, p, b)
  BY <1>3, <1>4, <1>5, <1>6, <1>7, Zenon DEF Grown
<1> QED BY <1>8 DEF b

LEMMA GrownSplit ==
    ASSUME NEW ps, NEW h, NEW p, Len(ps) \in Nat, NEW t, NEW g, Good(t, g), Len(ps) <= Len(t),
           NEW n \in 1..Len(t), n > Len(ps), g[n] = h[p], Free(t, n), NEW c \in CellSet,
           \A q \in 1..Len(ps) : g[q] = h[q],
           \A q \in 1..Len(ps) : q # p /\ h[q] >= h[p] => t[q] = ps[q],
           \A r \in 1..Len(ps) : Free(ps, r) => Free(t, r)
    PROVE  Grown(ps, h, p, Split(t, c, n))
<1> DEFINE b == Split(t, c, n)
<1>1. b.pages = t /\ b.split = TRUE /\ b.page = n /\ b.key = c.key /\ b.val = c.val
  BY DEF Split
<1>2. Len(t) \in Nat
  BY DEF Good
<1> HIDE DEF b
<1>3. b.split \in BOOLEAN /\ Len(b.pages) \in Nat /\ Len(ps) <= Len(b.pages)
  BY <1>1, <1>2
<1>4. \A q \in 1..Len(ps) : q # p /\ h[q] >= h[p] => b.pages[q] = ps[q]
  BY <1>1
<1>5. \A r \in 1..Len(ps) : Free(ps, r) => Free(b.pages, r)
  BY <1>1
<1>6. \E f : /\ Good(b.pages, f) /\ \A q \in 1..Len(ps) : f[q] = h[q]
             /\ b.split => b.page \in 1..Len(b.pages) /\ f[b.page] = h[p]
  <2>1. Good(b.pages, g) /\ b.page \in 1..Len(b.pages) /\ g[b.page] = h[p]
    BY <1>1
  <2> QED BY <2>1, Zenon
<1>7. /\ b.key \in Key /\ b.val \in Val
      /\ b.page \notin 1..Len(ps) /\ Free(b.pages, b.page)
  <2>1. c.key \in Key /\ c.val \in Val
    BY DEF CellSet
  <2>2. n \notin 1..Len(ps)
    BY <1>2
  <2> QED BY <1>1, <2>1, <2>2
<1>8. Grown(ps, h, p, b)
  BY <1>3, <1>4, <1>5, <1>6, <1>7, Zenon DEF Grown
<1> QED BY <1>8 DEF b

LeafCells(s) ==
    s \in Seq(CellSet) /\ CellsAscend(s) /\ \A i \in 1..Len(s) : s[i].left = NoPage

(* The cells s fit a page on which that many have been laid down.          *)
FitsWith(s, laid) == Len(s) <= laid /\ PtrSize * Len(s) + CellSize * laid <= Room

LeafOf(s, laid) == [leaf |-> TRUE, cells |-> s, right |-> NoPage, laid |-> laid]

LEMMA LeafOfIsPage ==
    ASSUME NEW s, LeafCells(s), NEW m \in Nat, FitsWith(s, m), NEW n
    PROVE  LeafOf(s, m) \in Page /\ PageOK(LeafOf(s, m), n) /\ KidsOf(LeafOf(s, m)) = {} /\ OwnKids(LeafOf(s, m))
<1> DEFINE pg == LeafOf(s, m)
<1>1. pg \in Page /\ pg.leaf = TRUE /\ pg.cells = s /\ pg.right = NoPage /\ pg.laid = m
  BY DEF LeafOf, Page, LeafCells, NoPage
<1> HIDE DEF pg
<1>2. Fits(pg)
  BY <1>1 DEF Fits, FitsWith
<1>3. LeafOK(pg)
  BY <1>1, KeysAscend DEF LeafOK, LeafCells
<1>4. SlotsOf(pg) = {}
  BY <1>1 DEF SlotsOf
<1>5. PageOK(pg, n) /\ KidsOf(pg) = {} /\ OwnKids(pg)
  BY <1>1, <1>2, <1>3, <1>4 DEF PageOK, KidsOf, OwnKids
<1> QED BY <1>1, <1>5 DEF pg

LEMMA PageIsLeafOf ==
    ASSUME NEW ps, NEW h, Good(ps, h), NEW p \in 1..Len(ps), ps[p].leaf
    PROVE  /\ ps[p] = LeafOf(ps[p].cells, ps[p].laid) /\ LeafCells(ps[p].cells)
           /\ Fits(ps[p]) /\ KidsOf(ps[p]) = {}
<1>1. ps[p] \in Page /\ PageOK(ps[p], Len(ps))
  BY GoodPage
<1>2. LeafOK(ps[p]) /\ Fits(ps[p])
  BY <1>1 DEF PageOK
<1>3. ps[p] = LeafOf(ps[p].cells, ps[p].laid)
  BY <1>1, <1>2 DEF Page, LeafOf, LeafOK
<1>4. LeafCells(ps[p].cells)
  BY <1>1, <1>2, KeysAscend DEF Page, LeafCells, LeafOK
<1>5. KidsOf(ps[p]) = {}
  BY DEF KidsOf, SlotsOf
<1> QED BY <1>2, <1>3, <1>4, <1>5

(* The tree t is ps with another page p.                                   *)
Rewritten(ps, h, p, t) ==
    /\ Good(t, h) /\ Len(t) = Len(ps)
    /\ \A q \in 1..Len(ps) : q # p => t[q] = ps[q]
    /\ \A r : Free(ps, r) => Free(t, r)

(* A leaf is rewritten.                                                    *)
LEMMA LeafRewritten ==
    ASSUME NEW ps, NEW h, Good(ps, h), NEW p \in 1..Len(ps), ps[p].leaf,
           NEW s, LeafCells(s), NEW m \in Nat, FitsWith(s, m)
    PROVE  /\ Rewritten(ps, h, p, [ps EXCEPT ![p] = LeafOf(s, m)])
           /\ Grown(ps, h, p, Unsplit([ps EXCEPT ![p] = LeafOf(s, m)]))
           /\ Differs(ps, [ps EXCEPT ![p] = LeafOf(s, m)], p)
           /\ [ps EXCEPT ![p] = LeafOf(s, m)][p] = LeafOf(s, m)
<1> DEFINE pg == LeafOf(s, m)
           t == [ps EXCEPT ![p] = pg]
<1>1. pg \in Page /\ PageOK(pg, Len(ps)) /\ KidsOf(pg) = {} /\ OwnKids(pg) /\ pg.leaf = TRUE
  <2>1. LeafOf(s, m).leaf = TRUE
    BY DEF LeafOf
  <2> QED BY <2>1, LeafOfIsPage
<1>2. ps \in Seq(Page) /\ Len(ps) \in Nat /\ ps[p].leaf = TRUE
  BY GoodPage DEF Good
<1> HIDE DEF pg
<1>3. Good(t, h) /\ \A r : r \notin KidsOf(pg) /\ (Free(ps, r) \/ r \in KidsOf(ps[p])) => Free(t, r)
  <2> DEFINE F == {}
  <2>1. /\ \A f \in F : Free(ps, f) /\ h[p] = h[f] + 1
        /\ KidsOf(pg) \subseteq KidsOf(ps[p]) \union F /\ pg.leaf = ps[p].leaf
    BY <1>1, <1>2
  <2> HIDE DEF F
  <2>2. Swapped(ps, h, p, pg, t)
    BY <1>1, <2>1, Replaced
  <2> QED BY <2>2 DEF Swapped
<1>4. Len(t) = Len(ps) /\ t[p] = pg /\ \A q \in 1..Len(ps) : q # p => t[q] = ps[q]
  BY <1>1, <1>2, ExceptSeq
<1>5. \A r : Free(ps, r) => Free(t, r)
  BY <1>1, <1>3
<1> HIDE DEF t
<1>6. Grown(ps, h, p, Unsplit(t))
  <2> HIDE DEF t
  <2>1. Len(ps) <= Len(t) /\ \A q \in 1..Len(ps) : h[q] = h[q]
    BY <1>2, <1>4
  <2> QED BY <1>2, <1>3, <1>4, <1>5, <2>1, GrownUnsplit
<1>7. Rewritten(ps, h, p, t)
  <2> HIDE DEF t
  <2> QED BY <1>3, <1>4, <1>5 DEF Rewritten
<1>8. Differs(ps, t, p) /\ t[p] = pg
  <2> HIDE DEF t
  <2> QED BY <1>4 DEF Differs
<1> QED BY <1>6, <1>7, <1>8 DEF t, pg

LEMMA LeafSplit ==
    ASSUME NEW ps, NEW h, Good(ps, h), NEW p \in 1..Len(ps), ps[p].leaf,
           NEW c \in CellSet, c.left = NoPage,
           \A i \in 1..Len(ps[p].cells) : ps[p].cells[i].key # c.key
    PROVE  /\ Grown(ps, h, p, SplitLeaf(ps, p, c))
           /\ Dealt(ps, SplitLeaf(ps, p, c).pages, p, Len(ps) + 1, c.key, c.val)
<1> DEFINE s == ps[p].cells
           t == InsertSorted(s, c)
           N == Len(t)
           mid == N \div 2
           l == SubSeq(t, 1, mid)
           r == SubSeq(t, mid + 1, N)
<1>1. /\ ps[p] \in Page /\ ps[p] = LeafOf(s, ps[p].laid) /\ LeafCells(s) /\ Fits(ps[p])
      /\ s \in Seq(CellSet) /\ Len(s) \in Nat /\ ps \in Seq(Page) /\ Len(ps) \in Nat
  BY GoodPage, PageIsLeafOf DEF Good
<1>2. PICK j \in 1..(Len(s) + 1) :
              /\ t \in Seq(CellSet) /\ ShiftedIn(t, s, j, c)
              /\ \A i \in 1..Len(s) : i < j => ~(c.key < s[i].key)
              /\ j <= Len(s) => c.key < s[j].key
  <2> HIDE DEF s
  <2> QED BY <1>1, SortedInsertion
<1>3. N = Len(s) + 1 /\ \A i \in 1..N : t[i] = IF i < j THEN s[i] ELSE IF i = j THEN c ELSE s[i - 1]
  BY <1>2 DEF ShiftedIn
<1>4. CellsAscend(t)
  <2>1. \A i \in 1..Len(s) : (i < j => s[i].key < c.key) /\ (i >= j => c.key < s[i].key)
    <3> SUFFICES ASSUME NEW i \in 1..Len(s)
                 PROVE  (i < j => s[i].key < c.key) /\ (i >= j => c.key < s[i].key)
      OBVIOUS
    <3>1. s[i].key \in Int /\ c.key \in Int /\ s[i].key # c.key
      <4>1. \A x \in CellSet : x.key \in Int
        BY TreeAssumption DEF CellSet
      <4>2. s[i] \in CellSet
        BY <1>1
      <4> QED BY <4>1, <4>2
    <3>2. ASSUME i > j PROVE s[j].key < s[i].key /\ s[j].key \in Int
      <4>1. j \in 1..Len(s)
        BY <1>1, <3>2
      <4>2. s[j].key \in Int
        <5>1. \A x \in CellSet : x.key \in Int
          BY TreeAssumption DEF CellSet
        <5> QED BY <1>1, <4>1, <5>1
      <4> HIDE DEF s
      <4> QED BY <1>1, <3>2, <4>1, <4>2 DEF LeafCells, CellsAscend
    <3> HIDE DEF s
    <3> QED BY <1>1, <1>2, <3>1, <3>2
  <2> HIDE DEF s, t
  <2> QED BY <1>1, <1>2, <2>1, InsertionAscends DEF LeafCells
<1>5. \A i \in 1..N : t[i].left = NoPage
  <2> HIDE DEF s, t
  <2>1. \A i \in 1..N : i < j => i \in 1..Len(s)
    BY <1>1, <1>3
  <2>2. \A i \in 1..N : i > j => i - 1 \in 1..Len(s)
    BY <1>1, <1>3
  <2>3. (\A i \in 1..Len(s) : s[i].left = NoPage) /\ c.left = NoPage
    BY <1>1 DEF LeafCells
  <2> SUFFICES ASSUME NEW i \in 1..N PROVE t[i].left = NoPage
    OBVIOUS
  <2>4. i \in Int /\ j \in Int /\ t[i] = IF i < j THEN s[i] ELSE IF i = j THEN c ELSE s[i - 1]
    BY <1>1, <1>3
  <2>5. CASE i < j
    BY <2>1, <2>3, <2>4, <2>5
  <2>6. CASE i = j
    BY <2>3, <2>4, <2>6
  <2>7. CASE i > j
    BY <2>2, <2>3, <2>4, <2>7
  <2> QED BY <2>4, <2>5, <2>6, <2>7
<1>6. /\ mid \in 0..N /\ mid + 1 \in 1..N /\ N \in Nat /\ N - mid \in Nat
      /\ mid <= Len(s) \/ mid <= 1
      /\ N - mid <= Len(s) \/ N - mid <= 1
  <2> HIDE DEF s, t, N
  <2> QED BY <1>1, <1>3
<1> HIDE DEF s, t, N, mid
<1> DEFINE rest == N - mid
<1>7. t \in Seq(CellSet) /\ N = Len(t)
  BY <1>2 DEF N
<1>8. LeafCells(l) /\ Len(l) = mid /\ \A i \in 1..mid : l[i] = t[i]
  <2>1. /\ SubSeq(t, 1, mid) \in Seq(CellSet)
        /\ Len(SubSeq(t, 1, mid)) = IF 1 <= mid THEN mid - 1 + 1 ELSE 0
        /\ \A i \in 1..(mid - 1 + 1) : SubSeq(t, 1, mid)[i] = t[1 + i - 1]
        /\ CellsAscend(t) => CellsAscend(SubSeq(t, 1, mid))
    <3>1. 1 \in 1..(Len(t) + 1) /\ mid \in 0..Len(t)
      BY <1>6, <1>7
    <3> QED BY <1>7, <3>1, PartOfCells
  <2> HIDE DEF l
  <2>2. Len(l) = mid
    BY <1>6, <2>1 DEF l
  <2>3. \A i \in 1..mid : l[i].left = NoPage /\ l[i] = t[i]
    <3> SUFFICES ASSUME NEW i \in 1..mid PROVE l[i].left = NoPage /\ l[i] = t[i]
      OBVIOUS
    <3>1. i \in 1..(mid - 1 + 1) /\ 1 + i - 1 = i /\ i \in 1..N
      BY <1>6
    <3>2. l[i] = t[i]
      BY <2>1, <3>1 DEF l
    <3> QED BY <1>5, <3>1, <3>2
  <2> QED BY <1>4, <2>1, <2>2, <2>3 DEF LeafCells, l
<1>9. LeafCells(r) /\ Len(r) = N - mid /\ \A i \in 1..(N - mid) : r[i] = t[mid + i]
  <2>1. /\ SubSeq(t, mid + 1, N) \in Seq(CellSet)
        /\ Len(SubSeq(t, mid + 1, N)) = IF mid + 1 <= N THEN N - (mid + 1) + 1 ELSE 0
        /\ \A i \in 1..(N - (mid + 1) + 1) : SubSeq(t, mid + 1, N)[i] = t[(mid + 1) + i - 1]
        /\ CellsAscend(t) => CellsAscend(SubSeq(t, mid + 1, N))
    <3>1. mid + 1 \in 1..(Len(t) + 1) /\ N \in 0..Len(t)
      BY <1>6, <1>7
    <3> QED BY <1>7, <3>1, PartOfCells
  <2> HIDE DEF r
  <2>2. Len(r) = N - mid
    BY <1>6, <2>1 DEF r
  <2>3. \A i \in 1..(N - mid) : r[i].left = NoPage /\ r[i] = t[mid + i]
    <3> SUFFICES ASSUME NEW i \in 1..(N - mid) PROVE r[i].left = NoPage /\ r[i] = t[mid + i]
      OBVIOUS
    <3>1. i \in 1..(N - (mid + 1) + 1) /\ (mid + 1) + i - 1 \in 1..N /\ (mid + 1) + i - 1 = mid + i
      BY <1>6
    <3>2. r[i] = t[(mid + 1) + i - 1]
      BY <2>1, <3>1 DEF r
    <3> QED BY <1>5, <3>1, <3>2
  <2> QED BY <1>4, <2>1, <2>2, <2>3 DEF LeafCells, r
<1> HIDE DEF l, r
<1> DEFINE one == [ps EXCEPT ![p] = LeafOf(l, mid)]
           two == Append(one, LeafOf(r, rest))
<1>91. Halves(t, l, r)
  <2>1. \A i \in 1..Len(r) : r[i] = t[Len(l) + i]
    BY <1>8, <1>9
  <2>2. Len(t) = Len(l) + Len(r) /\ Len(l) \in Nat /\ Len(r) \in Nat
    BY <1>6, <1>7, <1>8, <1>9
  <2> QED BY <1>8, <2>1, <2>2 DEF Halves
<1>10. mid \in Nat /\ PtrSize * mid + CellSize * mid <= Room
       /\ rest \in Nat /\ PtrSize * rest + CellSize * rest <= Room
       /\ Len(l) = mid /\ Len(r) = rest /\ LeafCells(l) /\ LeafCells(r)
  <2>1. /\ mid \in Nat /\ (mid <= Len(ps[p].cells) \/ mid <= 1)
        /\ rest \in Nat /\ (rest <= Len(ps[p].cells) \/ rest <= 1)
    BY <1>6 DEF s
  <2> HIDE DEF rest
  <2>2. PtrSize * mid + CellSize * mid <= Room /\ PtrSize * rest + CellSize * rest <= Room
    BY <1>1, <2>1, RoomForFewer
  <2> QED BY <1>8, <1>9, <2>1, <2>2 DEF rest
<1> HIDE DEF rest
<1>101. FitsWith(r, rest)
  BY <1>10 DEF FitsWith
<1>11. /\ Good(one, h) /\ (\A x : Free(ps, x) => Free(one, x)) /\ Len(one) = Len(ps)
       /\ one[p] = LeafOf(l, mid)
       /\ \A q \in 1..Len(ps) : q # p => one[q] = ps[q]
  <2>1. FitsWith(l, mid)
    BY <1>10 DEF FitsWith
  <2>2. mid \in Nat /\ LeafCells(l)
    BY <1>10
  <2> HIDE DEF two
  <2>3. Rewritten(ps, h, p, one) /\ one[p] = LeafOf(l, mid)
    BY <2>1, <2>2, LeafRewritten
  <2> HIDE DEF one
  <2> QED BY <2>3 DEF Rewritten
<1>12. \E g : /\ Good(two, g) /\ Extends(g, h, Len(one), 0) /\ Len(two) = Len(one) + 1
              /\ Free(two, Len(one) + 1)
              /\ \A x : x \notin KidsOf(LeafOf(r, rest)) /\ Free(one, x) => Free(two, x)
  <2> DEFINE pg == LeafOf(r, rest)
  <2>1. PageOK(pg, Len(one)) /\ KidsOf(pg) = {} /\ OwnKids(pg)
    BY <1>10, <1>101, LeafOfIsPage
  <2> HIDE DEF one, pg
  <2>2. (\A x \in KidsOf(pg) : Free(one, x)) /\ (\A x \in KidsOf(pg) : 0 = h[x] + 1)
    BY <2>1
  <2> DEFINE z == 0
  <2>3. z \in Nat /\ (pg.leaf => z = 0) /\ \A x \in KidsOf(pg) : z = h[x] + 1
    BY <2>2
  <2> HIDE DEF z
  <2>4. \E g : Longer(one, h, pg, z, Append(one, pg), g)
    BY <1>11, <2>1, <2>2, <2>3, Added
  <2> QED BY <2>4 DEF pg, z, Longer
<1>13. KidsOf(LeafOf(r, rest)) = {}
  BY <1>10, <1>101, LeafOfIsPage
<1>14. /\ two \in Seq(Page) /\ Len(two) = Len(ps) + 1 /\ h[p] = 0
       /\ \A q \in 1..Len(ps) : q # p => two[q] = ps[q]
       /\ two[p] = LeafOf(l, mid) /\ two[Len(ps) + 1] = LeafOf(r, rest)
  <2>1. one \in Seq(Page) /\ LeafOf(r, rest) \in Page
    <3>1. LeafOf(r, rest) \in Page
      BY <1>10, <1>101, LeafOfIsPage
    <3> HIDE DEF one
    <3> QED BY <1>11, <3>1 DEF Good
  <2>2. /\ two \in Seq(Page) /\ Len(two) = Len(one) + 1 /\ \A q \in 1..Len(one) : two[q] = one[q]
        /\ two[Len(one) + 1] = LeafOf(r, rest)
    <3> DEFINE pg == LeafOf(r, rest)
    <3> HIDE DEF one, pg
    <3> QED BY <2>1, AppendProperties DEF pg
  <2>3. h[p] = 0
    BY DEF Good, Ranked
  <2> HIDE DEF one, two
  <2> QED BY <1>11, <2>2, <2>3
<1>15. SplitLeaf(ps, p, c) = Split(two, t[mid + 1], Len(ps) + 1)
  <2>0. Len(l) = mid
    BY <1>8
  <2>1. Refilled(ps[p], l) = LeafOf(l, mid)
    BY <1>1, <2>0, RefilledIs DEF LeafOf
  <2>2. Leaf(r) = LeafOf(r, rest)
    BY <1>10 DEF Leaf, LeafOf
  <2> QED BY <2>1, <2>2 DEF SplitLeaf, s, t, N, mid, l, r
<1>17. t[mid + 1] \in CellSet
  BY <1>6, <1>7
<1>18. PICK g : /\ Good(two, g) /\ Extends(g, h, Len(one), 0) /\ Len(two) = Len(one) + 1
              /\ Free(two, Len(one) + 1)
              /\ \A x : x \notin KidsOf(LeafOf(r, rest)) /\ Free(one, x) => Free(two, x)
  BY <1>12
<1>19. g[Len(ps) + 1] = h[p] /\ \A q \in 1..Len(ps) : g[q] = h[q]
  <2> HIDE DEF one, two
  <2> QED BY <1>11, <1>14, <1>18 DEF Extends
<1>20. Free(two, Len(ps) + 1) /\ \A x : Free(ps, x) => Free(two, x)
  <2> HIDE DEF one, two
  <2> QED BY <1>11, <1>13, <1>18
<1> HIDE DEF one, two
<1>21. Len(ps) + 1 \in 1..Len(two) /\ Len(ps) + 1 > Len(ps) /\ Len(ps) <= Len(two) /\ Len(ps) \in Nat
  BY <1>1, <1>14
<1>22. Grown(ps, h, p, Split(two, t[mid + 1], Len(ps) + 1))
  <2> DEFINE n == Len(ps) + 1
  <2>1. n \in 1..Len(two) /\ n > Len(ps) /\ g[n] = h[p] /\ Free(two, n)
    BY <1>19, <1>20, <1>21
  <2>2. \A q \in 1..Len(ps) : q # p /\ h[q] >= h[p] => two[q] = ps[q]
    BY <1>14
  <2>3. \A x \in 1..Len(ps) : Free(ps, x) => Free(two, x)
    BY <1>20
  <2> HIDE DEF n
  <2>4. Grown(ps, h, p, Split(two, t[mid + 1], n))
    BY <1>17, <1>18, <1>19, <1>21, <2>1, <2>2, <2>3, GrownSplit
  <2> QED BY <2>4 DEF n
<1>23. \A x, w : (On(two[p], x, w) <=> Has(l, x, w)) /\ (On(two[Len(ps) + 1], x, w) <=> Has(r, x, w))
  BY <1>14 DEF On, LeafOf
<1>24. \A x, w : On(ps[p], x, w) <=> Has(s, x, w)
  BY DEF On, s
<1>25. \A x, w : Has(t, x, w) <=> Has(s, x, w) \/ (x = c.key /\ w = c.val)
  BY <1>1, <1>2, <1>7, InsertedHas
<1>26. /\ \A x, w : Has(l, x, w) \/ Has(r, x, w) <=> Has(t, x, w)
       /\ \A x, w, z : ~Has(l, x, w) \/ ~Has(r, x, z)
  BY <1>4, <1>7, <1>91, HalvesHave
<1>27. ~Holds(ps[p], c.key)
  BY <1>24 DEF Holds, Has, s
<1>28. Dealt(ps, two, p, Len(ps) + 1, c.key, c.val)
  <2> DEFINE n == Len(ps) + 1
  <2>1. \A x, w : On(two[p], x, w) \/ On(two[n], x, w) <=> On(ps[p], x, w) \/ (x = c.key /\ w = c.val)
    BY <1>23, <1>24, <1>25, <1>26
  <2>2. \A x : ~Holds(two[p], x) \/ ~Holds(two[n], x)
    BY <1>23, <1>26 DEF Holds
  <2>3. Len(two) = n /\ n = Len(ps) + 1 /\ \A q \in 1..Len(ps) : q # p => two[q] = ps[q]
    BY <1>14
  <2> HIDE DEF n
  <2>4. Dealt(ps, two, p, n, c.key, c.val)
    BY <1>27, <2>1, <2>2, <2>3 DEF Dealt
  <2> QED BY <2>4 DEF n
<1>29. SplitLeaf(ps, p, c).pages = two
  BY <1>15 DEF Split
<1> QED BY <1>15, <1>22, <1>28, <1>29

(* What an insertion into leaf p leaves behind.                            *)
LeafTook(ps, h, p, k, v, b) == Grown(ps, h, p, b) /\ RowPut(ps, b.pages, k, v)

(* Whatever a leaf has room for: the cell of a key is replaced, a new cell *)
(* goes where it belongs, or the leaf is split.                            *)
LEMMA LeafInsertion ==
    ASSUME NEW ps, NEW h, Good(ps, h), NEW p \in 1..Len(ps), ps[p].leaf, NEW k \in Key, NEW v \in Val
    PROVE  LeafTook(ps, h, p, k, v, InsertLeaf(ps, p, k, v))
<1> DEFINE s == ps[p].cells
           m == ps[p].laid
           at == Search(Keys(ps[p]), k)
           c == Cell(k, v, NoPage)
<1>1. /\ ps[p] \in Page /\ ps[p] = LeafOf(s, m) /\ LeafCells(s) /\ Fits(ps[p])
      /\ s \in Seq(CellSet) /\ Len(s) \in Nat /\ m \in Nat /\ ps \in Seq(Page)
  BY GoodPage, PageIsLeafOf DEF Good
<1>2. c \in CellSet /\ c.key = k /\ c.left = NoPage
  BY DEF Cell, CellSet, NoPage
<1>3. /\ at.idx \in 0..Len(s) /\ at.found \in BOOLEAN
      /\ at.found => at.idx < Len(s) /\ s[at.idx + 1].key = k
      /\ ~at.found => \A i \in 1..Len(s) : (i <= at.idx => s[i].key < k) /\ (i > at.idx => k < s[i].key)
  <2> DEFINE ks == Keys(ps[p])
  <2>1. /\ ks \in Seq(Int) /\ Len(ks) = Len(s) /\ \A i \in 1..Len(s) : ks[i] = s[i].key
    BY <1>1, KeysOfPage
  <2>2. Ascends(ks)
    BY <1>1, KeysAscend DEF LeafCells
  <2>3. k \in Int
    BY TreeAssumption
  <2> HIDE DEF ks
  <2> DEFINE a == Search(ks, k)
  <2>4. IsAnswer(ks, k, a) /\ IsPlace(ks, k, a)
    BY <2>1, <2>2, <2>3, SearchAnswers
  <2> HIDE DEF a, s
  <2>5. a.idx \in 0..Len(s) /\ a.found \in BOOLEAN
    BY <2>1, <2>4 DEF IsAnswer
  <2>6. a.found => a.idx < Len(s) /\ s[a.idx + 1].key = k
    <3>1. a.found => a.idx < Len(s) /\ ks[a.idx + 1] = k
      BY <2>1, <2>4 DEF IsAnswer
    <3>2. a.idx < Len(s) => a.idx + 1 \in 1..Len(s)
      BY <1>1, <2>5
    <3> QED BY <2>1, <3>1, <3>2
  <2>7. ~a.found => \A i \in 1..Len(s) : (i <= a.idx => s[i].key < k) /\ (i > a.idx => k < s[i].key)
    BY <2>1, <2>4 DEF IsPlace
  <2> QED BY <2>5, <2>6, <2>7 DEF a, ks
<1>31. c.val = v
  BY DEF Cell
<1>32. \A x, w : On(ps[p], x, w) <=> Has(s, x, w)
  BY DEF On
<1>33. \A x : Unsplit(x).pages = x
  BY DEF Unsplit
<1> HIDE DEF at, c
<1>4. ASSUME at.found PROVE LeafTook(ps, h, p, k, v, InsertLeaf(ps, p, k, v))
  <2> DEFINE i == at.idx + 1
             t == [s EXCEPT ![i] = c]
  <2>1. i \in 1..Len(s) /\ s[i].key = k
    BY <1>1, <1>3, <1>4
  <2> HIDE DEF i
  <2>2. /\ t \in Seq(CellSet) /\ Len(t) = Len(s)
        /\ \A j \in 1..Len(s) : t[j] = IF j = i THEN c ELSE s[j]
    <3> HIDE DEF s
    <3> QED BY <1>1, <1>2, <2>1, ExceptSeq
  <2>3. [ps EXCEPT ![p].cells[i] = c] = [ps EXCEPT ![p] = LeafOf(t, m)]
    <3>1. [ps[p] EXCEPT !.cells = t] = LeafOf(t, m)
      <4> HIDE DEF s, m, t
      <4>1. [ps[p] EXCEPT !.cells = t] = [leaf |-> ps[p].leaf, cells |-> t, right |-> ps[p].right, laid |-> m]
        BY <1>1, RewrittenIs DEF m
      <4>2. ps[p].leaf = TRUE /\ ps[p].right = NoPage
        BY <1>1 DEF LeafOf
      <4> QED BY <4>1, <4>2 DEF LeafOf
    <3>2. [ps EXCEPT ![p].cells[i] = c] = [ps EXCEPT ![p] = [ps[p] EXCEPT !.cells = t]]
      BY <1>1
    <3> QED BY <3>1, <3>2
  <2> HIDE DEF t
  <2>4. LeafCells(t)
    <3>1. \A j \in 1..Len(t) : t[j].left = NoPage
      BY <1>1, <1>2, <2>2 DEF LeafCells
    <3>2. \A j \in 1..Len(t) : t[j].key = s[j].key
      BY <1>2, <2>1, <2>2
    <3>3. CellsAscend(t)
      <4>1. CellsAscend(s)
        BY <1>1 DEF LeafCells
      <4> HIDE DEF s
      <4> QED BY <2>2, <3>2, <4>1 DEF CellsAscend
    <3> QED BY <2>2, <3>1, <3>3 DEF LeafCells
  <2>5. FitsWith(t, m)
    BY <1>1, <2>2 DEF Fits, FitsWith
  <2> DEFINE qs == [ps EXCEPT ![p] = LeafOf(t, m)]
  <2>6. Grown(ps, h, p, Unsplit(qs)) /\ Differs(ps, qs, p) /\ qs[p] = LeafOf(t, m)
    <3> HIDE DEF m
    <3> QED BY <1>1, <2>4, <2>5, LeafRewritten
  <2> HIDE DEF qs
  <2>61. RowPut(ps, qs, k, v)
    <3>1. \A x, w : On(qs[p], x, w) <=> Has(t, x, w)
      BY <2>6 DEF On, LeafOf
    <3>2. ASSUME NEW x, NEW w
          PROVE  (x # c.key => (Has(t, x, w) <=> Has(s, x, w))) /\ Has(t, c.key, c.val)
      <4>1. s[i].key = c.key /\ \A y \in 1..Len(s) : t[y] = IF y = i THEN c ELSE s[y]
        BY <1>2, <2>1, <2>2
      <4> HIDE DEF s
      <4> QED BY <1>1, <2>1, <2>2, <4>1, ReplacedHas
    <3>3. \A x, w : x # k => (On(qs[p], x, w) <=> On(ps[p], x, w))
      BY <1>2, <1>32, <3>1, <3>2
    <3>4. On(qs[p], k, v)
      BY <1>2, <1>31, <3>1, <3>2
    <3>5. Len(ps) \in Nat
      BY <1>1
    <3> QED BY <2>6, <3>3, <3>4, <3>5, PageTakesRow
  <2>7. InsertLeaf(ps, p, k, v) = Unsplit([ps EXCEPT ![p].cells[i] = c])
    BY <1>4 DEF InsertLeaf, at, c, i
  <2> QED BY <1>33, <2>3, <2>6, <2>61, <2>7 DEF LeafTook, qs
<1>5. ASSUME ~at.found, Full(ps[p]) PROVE LeafTook(ps, h, p, k, v, InsertLeaf(ps, p, k, v))
  <2>1. InsertLeaf(ps, p, k, v) = SplitLeaf(ps, p, c)
    BY <1>5 DEF InsertLeaf, at, c
  <2>2. \A i \in 1..Len(s) : s[i].key # c.key
    <3> SUFFICES ASSUME NEW i \in 1..Len(s) PROVE s[i].key # k
      BY <1>2
    <3>1. s[i].key \in Int /\ k \in Int
      <4>1. s[i] \in CellSet
        BY <1>1
      <4> QED BY <4>1, TreeAssumption DEF CellSet
    <3> HIDE DEF s
    <3> QED BY <1>1, <1>3, <1>5, <3>1
  <2>3. Grown(ps, h, p, SplitLeaf(ps, p, c)) /\ Dealt(ps, SplitLeaf(ps, p, c).pages, p, Len(ps) + 1, k, v)
    BY <1>2, <1>31, <2>2, LeafSplit
  <2>4. Len(ps) \in Nat
    BY <1>1
  <2>5. RowPut(ps, SplitLeaf(ps, p, c).pages, k, v)
    <3> DEFINE t == SplitLeaf(ps, p, c).pages
               n == Len(ps) + 1
    <3>1. Dealt(ps, t, p, n, k, v)
      BY <2>3
    <3> HIDE DEF t, n
    <3>2. RowPut(ps, t, k, v)
      BY <2>4, <3>1, PagesTakeRow
    <3> QED BY <3>2 DEF t
  <2> QED BY <2>1, <2>3, <2>5 DEF LeafTook
<1>6. ASSUME ~at.found, ~Full(ps[p]) PROVE LeafTook(ps, h, p, k, v, InsertLeaf(ps, p, k, v))
  <2> DEFINE i == at.idx + 1
             t == InsertAt(s, i, c)
             m1 == m + 1
  <2>1. i \in 1..(Len(s) + 1)
    BY <1>1, <1>3
  <2> HIDE DEF i
  <2>2. t \in Seq(CellSet) /\ ShiftedIn(t, s, i, c)
    <3> HIDE DEF s
    <3> QED BY <1>1, <1>2, <2>1, InsertAtProperties
  <2>3. Placed(ps[p], at.idx, c) = LeafOf(t, m1)
    <3>1. Placed(ps[p], at.idx, c) = [leaf |-> ps[p].leaf, cells |-> t, right |-> ps[p].right, laid |-> m1]
      BY <1>1, PlacedIs DEF i
    <3>2. ps[p].leaf = TRUE /\ ps[p].right = NoPage
      BY <1>1 DEF LeafOf
    <3> HIDE DEF t, m1
    <3> QED BY <3>1, <3>2 DEF LeafOf
  <2> HIDE DEF t
  <2>4. LeafCells(t)
    <3>1. Len(t) = Len(s) + 1 /\ \A j \in 1..Len(t) : t[j] = IF j < i THEN s[j] ELSE IF j = i THEN c ELSE s[j - 1]
      BY <1>1, <2>2 DEF ShiftedIn
    <3>2. \A j \in 1..Len(t) : t[j].left = NoPage
      <4> SUFFICES ASSUME NEW j \in 1..Len(t) PROVE t[j].left = NoPage
        OBVIOUS
      <4>1. j < i => j \in 1..Len(s)
        BY <1>1, <2>1, <3>1
      <4>2. j > i => j - 1 \in 1..Len(s)
        BY <1>1, <2>1, <3>1
      <4>3. j \in Int /\ i \in Int
        BY <1>1, <2>1, <3>1
      <4>4. \A x \in 1..Len(s) : s[x].left = NoPage
        BY <1>1 DEF LeafCells
      <4> HIDE DEF s
      <4>5. CASE j < i
        BY <3>1, <4>1, <4>4, <4>5
      <4>6. CASE j = i
        BY <1>2, <3>1, <4>3, <4>6
      <4>7. CASE j > i
        BY <3>1, <4>2, <4>3, <4>4, <4>7
      <4> QED BY <4>3, <4>5, <4>6, <4>7
    <3>3. \A j \in 1..Len(s) : (j < i => s[j].key < c.key) /\ (j >= i => c.key < s[j].key)
      <4> HIDE DEF s
      <4> QED BY <1>1, <1>2, <1>3, <1>6 DEF i
    <3>4. CellsAscend(t)
      <4> HIDE DEF s
      <4> QED BY <1>1, <1>2, <2>1, <2>2, <3>3, InsertionAscends DEF LeafCells
    <3> QED BY <2>2, <3>2, <3>4 DEF LeafCells
  <2>5. FitsWith(t, m1) /\ m1 \in Nat
    <3>1. PtrSize * (Len(s) + 1) + CellSize * (m + 1) <= Room
      BY <1>1, <1>6, RoomForOne
    <3>2. Len(t) = Len(s) + 1 /\ Len(s) <= m
      BY <1>1, <2>2 DEF ShiftedIn, Fits
    <3> HIDE DEF s, m
    <3> QED BY <1>1, <3>1, <3>2 DEF FitsWith
  <2> DEFINE qs == [ps EXCEPT ![p] = LeafOf(t, m1)]
  <2>6. Grown(ps, h, p, Unsplit(qs)) /\ Differs(ps, qs, p) /\ qs[p] = LeafOf(t, m1)
    <3> HIDE DEF m1
    <3> QED BY <2>4, <2>5, LeafRewritten
  <2> HIDE DEF qs
  <2>61. RowPut(ps, qs, k, v)
    <3>1. \A x, w : On(qs[p], x, w) <=> Has(t, x, w)
      BY <2>6 DEF On, LeafOf
    <3>2. \A x, w : Has(t, x, w) <=> Has(s, x, w) \/ (x = c.key /\ w = c.val)
      <4> HIDE DEF s
      <4> QED BY <1>1, <2>1, <2>2, InsertedHas
    <3>3. \A x, w : x # k => (On(qs[p], x, w) <=> On(ps[p], x, w))
      BY <1>2, <1>32, <3>1, <3>2
    <3>4. On(qs[p], k, v)
      BY <1>2, <1>31, <3>1, <3>2
    <3>5. Len(ps) \in Nat
      BY <1>1
    <3> QED BY <2>6, <3>3, <3>4, <3>5, PageTakesRow
  <2>7. InsertLeaf(ps, p, k, v) = Unsplit([ps EXCEPT ![p] = Placed(ps[p], at.idx, c)])
    BY <1>6 DEF InsertLeaf, at, c
  <2> QED BY <1>33, <2>3, <2>6, <2>61, <2>7 DEF LeafTook, qs
<1> QED BY <1>4, <1>5, <1>6

-----------------------------------------------------------------------------
(* Internal pages: the children of the cells, and the rightmost one.       *)
Lefts(s) == {s[i].left : i \in 1..Len(s)}
OwnLefts(s) == \A i, j \in 1..Len(s) : s[i].left = s[j].left => i = j

InternalOf(s, r, laid) == [leaf |-> FALSE, cells |-> s, right |-> r, laid |-> laid]

LEMMA KidsOfInternal ==
    ASSUME NEW pg \in Page, ~pg.leaf
    PROVE  /\ KidsOf(pg) = Lefts(pg.cells) \union {pg.right}
           /\ OwnKids(pg) <=> OwnLefts(pg.cells) /\ pg.right \notin Lefts(pg.cells)
<1> DEFINE s == pg.cells
           n == Len(s)
<1>1. n \in Nat /\ SlotsOf(pg) = 0..n
  BY DEF Page, SlotsOf
<1>2. Child(pg, n) = pg.right /\ \A i \in 1..n : Child(pg, i - 1) = s[i].left
  <2>1. Child(pg, n) = pg.right
    BY <1>1 DEF Child
  <2>2. ASSUME NEW i \in 1..n PROVE Child(pg, i - 1) = s[i].left
    <3>1. ~(i - 1 >= n) /\ (i - 1) + 1 = i
      BY <1>1
    <3> QED BY <3>1 DEF Child
  <2> QED BY <2>1, <2>2
<1>3. \A i \in 0..n : i = n \/ (i + 1 \in 1..n /\ (i + 1) - 1 = i)
  BY <1>1
<1>4. \A i \in 1..n : i - 1 \in 0..n /\ i - 1 # n
  BY <1>1
<1>5. n \in 0..n
  BY <1>1
<1>6. \A i \in 0..n : \/ i = n /\ Child(pg, i) = pg.right
                      \/ i + 1 \in 1..n /\ Child(pg, i) = s[i + 1].left
  <2> SUFFICES ASSUME NEW i \in 0..n, i # n PROVE i + 1 \in 1..n /\ Child(pg, i) = s[i + 1].left
    BY <1>2
  <2> DEFINE x == i + 1
  <2>1. x \in 1..n /\ x - 1 = i
    BY <1>3
  <2> HIDE DEF x, n, s
  <2>2. Child(pg, x - 1) = s[x].left
    BY <1>2, <2>1
  <2> QED BY <2>1, <2>2 DEF x
<1> HIDE DEF n, s
<1>7. KidsOf(pg) \subseteq Lefts(s) \union {pg.right}
  BY <1>1, <1>6 DEF KidsOf, Lefts, n
<1>8. Lefts(s) \union {pg.right} \subseteq KidsOf(pg)
  BY <1>1, <1>2, <1>4, <1>5 DEF KidsOf, Lefts, n
<1>9. ASSUME OwnKids(pg) PROVE OwnLefts(s) /\ pg.right \notin Lefts(s)
  <2>1. ASSUME NEW i \in 1..n, NEW j \in 1..n, s[i].left = s[j].left PROVE i = j
    <3>1. Child(pg, i - 1) = Child(pg, j - 1) /\ i - 1 \in SlotsOf(pg) /\ j - 1 \in SlotsOf(pg)
      BY <1>1, <1>2, <1>4, <2>1
    <3>2. i - 1 = j - 1
      BY <1>9, <3>1 DEF OwnKids
    <3> QED BY <1>1, <3>2
  <2>2. ASSUME NEW i \in 1..n PROVE s[i].left # pg.right
    <3>1. i - 1 \in SlotsOf(pg) /\ n \in SlotsOf(pg) /\ i - 1 # n
      BY <1>1, <1>4, <1>5
    <3>2. Child(pg, i - 1) # Child(pg, n)
      BY <1>9, <3>1 DEF OwnKids
    <3> QED BY <1>2, <3>2
  <2> QED BY <2>1, <2>2 DEF OwnLefts, Lefts, n
<1>10. ASSUME OwnLefts(s), pg.right \notin Lefts(s) PROVE OwnKids(pg)
  <2> SUFFICES ASSUME NEW i \in 0..n, NEW j \in 0..n, Child(pg, i) = Child(pg, j) PROVE i = j
    BY <1>1 DEF OwnKids
  <2>1. \A x \in 1..n : s[x].left # pg.right
    BY <1>10 DEF Lefts, n
  <2>2. CASE i = n
    BY <1>2, <1>6, <2>1, <2>2
  <2>3. CASE j = n
    BY <1>2, <1>6, <2>1, <2>3
  <2>4. CASE i # n /\ j # n
    <3>1. i + 1 \in 1..n /\ j + 1 \in 1..n /\ s[i + 1].left = s[j + 1].left
      BY <1>6, <2>4
    <3>2. i + 1 = j + 1
      BY <1>10, <3>1 DEF OwnLefts, n
    <3> QED BY <1>1, <3>2
  <2> QED BY <2>2, <2>3, <2>4
<1> QED BY <1>7, <1>8, <1>9, <1>10 DEF s

LEMMA InternalOfIsPage ==
    ASSUME NEW s \in Seq(CellSet), NEW r \in Nat, NEW m \in Nat
    PROVE  /\ InternalOf(s, r, m) \in Page /\ InternalOf(s, r, m).leaf = FALSE
           /\ KidsOf(InternalOf(s, r, m)) = Lefts(s) \union {r}
           /\ OwnLefts(s) /\ r \notin Lefts(s) => OwnKids(InternalOf(s, r, m))
           /\ \A n : s # << >> /\ m = Len(s) /\ FitsWith(s, m) /\ Lefts(s) \union {r} \subseteq 1..n
                       => PageOK(InternalOf(s, r, m), n)
<1> DEFINE pg == InternalOf(s, r, m)
<1>1. pg \in Page /\ pg.leaf = FALSE /\ pg.cells = s /\ pg.right = r /\ pg.laid = m
  BY DEF InternalOf, Page
<1> HIDE DEF pg
<1>2. /\ KidsOf(pg) = Lefts(s) \union {r}
      /\ OwnLefts(s) /\ r \notin Lefts(s) => OwnKids(pg)
  BY <1>1, KidsOfInternal
<1>3. ASSUME NEW n, s # << >>, m = Len(s), FitsWith(s, m), Lefts(s) \union {r} \subseteq 1..n
      PROVE  PageOK(pg, n)
  <2>1. InternalOK(pg, n)
    BY <1>1, <1>2, <1>3 DEF InternalOK
  <2>2. Fits(pg)
    BY <1>1, <1>3 DEF Fits, FitsWith
  <2> QED BY <1>1, <2>1, <2>2 DEF PageOK
<1> QED BY <1>1, <1>2, <1>3 DEF pg

LEMMA PageIsInternalOf ==
    ASSUME NEW ps, NEW h, Good(ps, h), NEW p \in 1..Len(ps), ~ps[p].leaf
    PROVE  /\ ps[p] \in Page /\ ps[p].leaf = FALSE /\ ps[p].laid = Len(ps[p].cells) /\ Fits(ps[p])
           /\ ps[p].cells \in Seq(CellSet) /\ Len(ps[p].cells) \in Nat /\ ps[p].right \in Nat
           /\ ps[p].cells # << >>
           /\ KidsOf(ps[p]) = Lefts(ps[p].cells) \union {ps[p].right} /\ KidsOf(ps[p]) \subseteq 1..Len(ps)
           /\ OwnLefts(ps[p].cells) /\ ps[p].right \notin Lefts(ps[p].cells)
<1>1. /\ ps[p] \in Page /\ PageOK(ps[p], Len(ps)) /\ ps[p].leaf \in BOOLEAN
      /\ ps[p].cells \in Seq(CellSet) /\ Len(ps[p].cells) \in Nat /\ ps[p].right \in Nat
  BY GoodPage
<1>2. ps[p].laid = Len(ps[p].cells) /\ ps[p].cells # << >> /\ Fits(ps[p]) /\ KidsOf(ps[p]) \subseteq 1..Len(ps)
  BY <1>1 DEF PageOK, InternalOK
<1>3. OwnKids(ps[p])
  BY DEF Good, Apart
<1> QED BY <1>1, <1>2, <1>3, KidsOfInternal

(* A cell with a child that no other cell has.                             *)
LEMMA ShiftedLefts ==
    ASSUME NEW s \in Seq(CellSet), NEW c \in CellSet, NEW j \in 1..(Len(s) + 1),
           NEW t \in Seq(CellSet), ShiftedIn(t, s, j, c), OwnLefts(s), c.left \notin Lefts(s)
    PROVE  OwnLefts(t) /\ Lefts(t) \subseteq Lefts(s) \union {c.left}
<1> DEFINE from(i) == IF i < j THEN i ELSE i - 1
<1>0. Len(s) \in Nat /\ j \in 1..(Len(s) + 1)
  OBVIOUS
<1>1. Len(s) \in Nat /\ Len(t) = Len(s) + 1
      /\ \A i \in 1..Len(t) : t[i] = IF i < j THEN s[i] ELSE IF i = j THEN c ELSE s[i - 1]
  BY DEF ShiftedIn
<1>2. ASSUME NEW i \in 1..Len(t)
      PROVE  \/ i = j /\ t[i].left = c.left
             \/ i # j /\ from(i) \in 1..Len(s) /\ t[i].left = s[from(i)].left
  <2>1. i \in 1..(Len(s) + 1) /\ i \in Int /\ j \in Int
    BY <1>1
  <2>2. t[i] = IF i < j THEN s[i] ELSE IF i = j THEN c ELSE s[i - 1]
    BY <1>1
  <2>3. CASE i < j
    <3>1. i \in 1..Len(s) /\ i # j
      BY <1>0, <2>1, <2>3
    <3> QED BY <2>2, <2>3, <3>1
  <2>4. CASE i = j
    BY <2>1, <2>2, <2>4
  <2>5. CASE i > j
    <3>1. i - 1 \in 1..Len(s) /\ i # j /\ ~(i < j)
      BY <1>0, <2>1, <2>5
    <3> QED BY <2>2, <3>1
  <2> QED BY <2>1, <2>3, <2>4, <2>5
<1>3. ASSUME NEW a \in 1..Len(t), NEW b \in 1..Len(t), a # j, b # j, from(a) = from(b) PROVE a = b
  BY <1>1, <1>3
<1> HIDE DEF from
<1>4. \A i \in 1..Len(s) : s[i].left # c.left
  BY DEF Lefts
<1>5. OwnLefts(t)
  <2> SUFFICES ASSUME NEW a \in 1..Len(t), NEW b \in 1..Len(t), t[a].left = t[b].left PROVE a = b
    BY DEF OwnLefts
  <2>1. CASE a = j
    BY <1>2, <1>4, <2>1
  <2>2. CASE b = j
    BY <1>2, <1>4, <2>2
  <2>3. CASE a # j /\ b # j
    <3>1. from(a) \in 1..Len(s) /\ from(b) \in 1..Len(s) /\ s[from(a)].left = s[from(b)].left
      BY <1>2, <2>3
    <3>2. from(a) = from(b)
      BY <3>1 DEF OwnLefts
    <3> QED BY <1>3, <2>3, <3>2
  <2> QED BY <2>1, <2>2, <2>3
<1>6. Lefts(t) \subseteq Lefts(s) \union {c.left}
  BY <1>2 DEF Lefts
<1> QED BY <1>5, <1>6

(* The cells s and the rightmost child r of page p once f has taken the    *)
(* place of a child, which is then nowhere on the page.                    *)
Rehung(qs, p, f, child, s, r) ==
    /\ s \in Seq(CellSet) /\ Len(s) = Len(qs[p].cells) /\ r \in Nat
    /\ OwnLefts(s) /\ r \notin Lefts(s) /\ child \notin Lefts(s) /\ child # r
    /\ child \in KidsOf(qs[p]) /\ Lefts(s) \union {r} \subseteq KidsOf(qs[p]) \union {f}

WithChild(pg, idx, f) ==
    IF idx >= Len(pg.cells) THEN [pg EXCEPT !.right = f] ELSE [pg EXCEPT !.cells[idx + 1].left = f]

TakesPlace(qs, p, f, idx, s, r) ==
    Rehung(qs, p, f, Child(qs[p], idx), s, r) /\ WithChild(qs[p], idx, f) = InternalOf(s, r, Len(s))

LEMMA ChildTakesPlace ==
    ASSUME NEW qs, NEW g, Good(qs, g), NEW p \in 1..Len(qs), ~qs[p].leaf,
           NEW idx \in SlotsOf(qs[p]), NEW f \in 1..Len(qs), Free(qs, f)
    PROVE  \E s, r : TakesPlace(qs, p, f, idx, s, r)
<1> DEFINE pg == qs[p]
           s0 == pg.cells
           r0 == pg.right
           n == Len(s0)
           child == Child(pg, idx)
<1>1. /\ pg \in Page /\ pg.leaf = FALSE /\ pg.laid = n /\ s0 \in Seq(CellSet) /\ n \in Nat /\ r0 \in Nat
      /\ KidsOf(pg) = Lefts(s0) \union {r0} /\ KidsOf(pg) \subseteq 1..Len(qs)
      /\ OwnLefts(s0) /\ r0 \notin Lefts(s0) /\ Len(qs) \in Nat
  BY PageIsInternalOf, GoodPage
<1>2. f \notin KidsOf(pg) /\ f \in Nat
  BY <1>1 DEF Free
<1>3. idx \in 0..n /\ child \in KidsOf(pg)
  BY <1>1 DEF SlotsOf, KidsOf
<1> HIDE DEF pg
<1>4. CASE idx >= n
  <2>1. child = r0
    BY <1>4 DEF Child
  <2>2. WithChild(pg, idx, f) = InternalOf(s0, f, n)
    <3>1. WithChild(pg, idx, f) = [pg EXCEPT !.right = f]
      BY <1>4 DEF WithChild
    <3>2. [pg EXCEPT !.right = f] = [leaf |-> pg.leaf, cells |-> pg.cells, right |-> f, laid |-> pg.laid]
      BY <1>1 DEF Page
    <3> QED BY <1>1, <3>1, <3>2 DEF InternalOf
  <2> HIDE DEF s0, r0, n, child
  <2>3. Rehung(qs, p, f, child, s0, f)
    <3>1. Len(s0) = Len(qs[p].cells) /\ KidsOf(pg) = KidsOf(qs[p])
      BY DEF s0, pg
    <3> QED BY <1>1, <1>2, <1>3, <2>1, <3>1 DEF Rehung
  <2> QED BY <2>2, <2>3 DEF pg, child, n, TakesPlace
<1>5. CASE idx < n
  <2> DEFINE x == idx + 1
             c == s0[x]
             d == [c EXCEPT !.left = f]
             s == [s0 EXCEPT ![x] = d]
  <2>1. x \in 1..n /\ child = c.left
    BY <1>1, <1>3, <1>5 DEF Child
  <2>2. c \in CellSet
    BY <1>1, <2>1
  <2>3. d \in CellSet /\ d.left = f
    <3> HIDE DEF c
    <3> QED BY <1>2, <2>2 DEF CellSet
  <2>4. WithChild(pg, idx, f) = InternalOf(s, r0, n)
    <3>1. WithChild(pg, idx, f) = [pg EXCEPT !.cells = s]
      BY <1>1, <1>3, <1>5, <2>1 DEF WithChild, Page
    <3> HIDE DEF s
    <3>2. [pg EXCEPT !.cells = s] = [leaf |-> pg.leaf, cells |-> s, right |-> pg.right, laid |-> pg.laid]
      BY <1>1, RewrittenIs
    <3> QED BY <1>1, <3>1, <3>2 DEF InternalOf
  <2> HIDE DEF d, x
  <2>5. s \in Seq(CellSet) /\ Len(s) = n /\ \A i \in 1..n : s[i] = IF i = x THEN d ELSE s0[i]
    <3> HIDE DEF s0, c
    <3> QED BY <1>1, <2>1, <2>3, ExceptSeq DEF n
  <2> HIDE DEF s, child, c
  <2>6. \A i \in 1..n : s[i].left = IF i = x THEN f ELSE s0[i].left
    BY <2>3, <2>5
  <2>7. \A i \in 1..n : s0[i].left # f /\ s0[i].left \in Lefts(s0)
    BY <1>1, <1>2 DEF Lefts
  <2>8. OwnLefts(s)
    <3> HIDE DEF s0
    <3> QED BY <1>1, <2>5, <2>6, <2>7 DEF OwnLefts, n
  <2>9. Lefts(s) \subseteq Lefts(s0) \union {f}
    BY <2>5, <2>6, <2>7 DEF Lefts
  <2>10. child \notin Lefts(s)
    <3> SUFFICES ASSUME NEW i \in 1..n, s[i].left = child PROVE FALSE
      BY <2>5 DEF Lefts
    <3>1. child = s0[x].left
      BY <2>1 DEF c
    <3>2. i # x
      BY <2>1, <2>6, <2>7, <3>1
    <3>3. s0[i].left = s0[x].left
      BY <2>6, <3>1, <3>2
    <3> QED BY <1>1, <2>1, <3>2, <3>3 DEF OwnLefts
  <2>11. child \in Lefts(s0)
    BY <2>1 DEF Lefts, c
  <2>12. r0 \notin Lefts(s) /\ child # r0
    BY <1>1, <1>2, <2>9, <2>11
  <2> HIDE DEF s0, r0, n
  <2>13. Rehung(qs, p, f, child, s, r0)
    <3>1. n = Len(qs[p].cells) /\ KidsOf(pg) = KidsOf(qs[p])
      BY DEF n, s0, pg
    <3> QED BY <1>1, <1>3, <2>5, <2>8, <2>9, <2>10, <2>12, <3>1 DEF Rehung
  <2> QED BY <2>4, <2>5, <2>13 DEF pg, child, TakesPlace
<1> QED BY <1>1, <1>3, <1>4, <1>5

(* What the split of a child has changed above: page p, and a new page.    *)
Stepped(qs, g, p, f, t, g2) ==
    /\ Good(t, g2) /\ Len(qs) <= Len(t)
    /\ \A q \in 1..Len(qs) : g2[q] = g[q] /\ (q # p => t[q] = qs[q])
    /\ \A q \in 1..Len(t) : q = p \/ q \notin 1..Len(qs) => t[q].leaf = FALSE
    /\ \A x : Free(qs, x) /\ x # f => Free(t, x)

LEMMA SteppedLeaves ==
    ASSUME NEW qs, Len(qs) \in Nat, NEW g, NEW p \in 1..Len(qs), ~qs[p].leaf, NEW f, NEW t, NEW g2,
           Stepped(qs, g, p, f, t, g2)
    PROVE  SameLeaves(qs, t)
<1>1. Len(t) \in Nat
  BY DEF Stepped, Good
<1> QED BY <1>1 DEF Stepped, SameLeaves

LEMMA ChildPlaced ==
    ASSUME NEW qs, NEW g, Good(qs, g), NEW p \in 1..Len(qs), ~qs[p].leaf,
           NEW f \in 1..Len(qs), Free(qs, f), g[p] = g[f] + 1, NEW child, NEW s, NEW r, Rehung(qs, p, f, child, s, r),
           ~Full(InternalOf(s, r, Len(s))), NEW c \in CellSet, c.left = child
    PROVE  Stepped(qs, g, p, f, [qs EXCEPT ![p] = Placed(InternalOf(s, r, Len(s)), Len(s), c)], g)
<1> DEFINE n == Len(s)
           pg == InternalOf(s, r, n)
           t == InsertAt(s, n + 1, c)
           m == n + 1
           new == InternalOf(t, r, m)
<1>1. /\ s \in Seq(CellSet) /\ n \in Nat /\ r \in Nat /\ n = Len(qs[p].cells)
      /\ OwnLefts(s) /\ r \notin Lefts(s) /\ child \notin Lefts(s) /\ child # r
      /\ child \in KidsOf(qs[p]) /\ Lefts(s) \union {r} \subseteq KidsOf(qs[p]) \union {f}
  BY DEF Rehung
<1>2. /\ KidsOf(qs[p]) \subseteq 1..Len(qs) /\ Fits(qs[p]) /\ qs[p].laid = n /\ Len(qs) \in Nat /\ qs \in Seq(Page)
      /\ qs[p].leaf = FALSE
  BY <1>1, PageIsInternalOf, GoodPage DEF Good
<1>3. t \in Seq(CellSet) /\ ShiftedIn(t, s, n + 1, c)
  <2>1. n + 1 \in 1..(Len(s) + 1)
    BY <1>1
  <2> QED BY <1>1, <2>1, InsertAtProperties
<1>4. pg \in Page /\ pg.leaf = FALSE /\ pg.cells = s /\ pg.right = r /\ pg.laid = n
  BY <1>1, InternalOfIsPage DEF InternalOf
<1>5. Placed(pg, n, c) = new
  <2>1. Placed(pg, n, c) = [leaf |-> pg.leaf, cells |-> InsertAt(pg.cells, n + 1, c), right |-> pg.right, laid |-> pg.laid + 1]
    <3> HIDE DEF pg, n
    <3> QED BY <1>4, PlacedIs
  <2>2. Placed(pg, n, c) = [leaf |-> FALSE, cells |-> t, right |-> r, laid |-> m]
    <3> HIDE DEF pg
    <3> QED BY <1>4, <2>1
  <2> HIDE DEF pg, t, m
  <2> QED BY <2>2 DEF InternalOf
<1>6. FitsWith(t, m)
  <2>1. Fits(pg)
    <3> HIDE DEF pg
    <3> QED BY <1>1, <1>2, <1>4 DEF Fits
  <2>2. PtrSize * (n + 1) + CellSize * (n + 1) <= Room
    <3>1. PtrSize * (Len(pg.cells) + 1) + CellSize * (pg.laid + 1) <= Room
      <4> HIDE DEF pg
      <4>1. ~Full(pg)
        BY DEF pg
      <4> QED BY <1>4, <2>1, <4>1, RoomForOne
    <3> HIDE DEF pg
    <3> QED BY <1>4, <3>1
  <2>3. Len(t) = n + 1
    BY <1>3 DEF ShiftedIn
  <2> HIDE DEF t, n
  <2> QED BY <1>1, <2>2, <2>3 DEF FitsWith
<1>7. OwnLefts(t) /\ Lefts(t) \subseteq Lefts(s) \union {child}
  <2>1. n + 1 \in 1..(Len(s) + 1)
    BY <1>1
  <2> HIDE DEF t
  <2> QED BY <1>1, <1>3, <2>1, ShiftedLefts
<1> HIDE DEF t, pg
<1>8. t # << >> /\ m = Len(t) /\ m \in Nat
  <2>1. Len(t) = m /\ m \in Nat /\ m # 0 /\ Len(<< >>) = 0
    BY <1>1, <1>3, EmptySeq DEF ShiftedIn
  <2> HIDE DEF m
  <2> QED BY <2>1
<1> HIDE DEF m, n
<1>9. r \notin Lefts(t) /\ Lefts(t) \union {r} \subseteq KidsOf(qs[p]) \union {f}
  BY <1>1, <1>7
<1>10. Lefts(t) \union {r} \subseteq 1..Len(qs)
  BY <1>2, <1>9
<1>11. /\ new \in Page /\ new.leaf = FALSE /\ KidsOf(new) = Lefts(t) \union {r} /\ OwnKids(new)
       /\ PageOK(new, Len(qs))
  BY <1>1, <1>3, <1>6, <1>7, <1>8, <1>9, <1>10, InternalOfIsPage
<1> HIDE DEF new
<1> DEFINE out == [qs EXCEPT ![p] = new]
<1>12. Swapped(qs, g, p, new, out)
  <2> DEFINE F == {f}
  <2>1. \A x \in F : Free(qs, x) /\ g[p] = g[x] + 1
    OBVIOUS
  <2>2. KidsOf(new) \subseteq KidsOf(qs[p]) \union F /\ new.leaf = qs[p].leaf
    BY <1>2, <1>9, <1>11
  <2> HIDE DEF F
  <2> QED BY <1>11, <2>1, <2>2, Replaced
<1> HIDE DEF out
<1>13. Stepped(qs, g, p, f, out, g)
  <2>1. ASSUME NEW x, Free(qs, x), x # f PROVE Free(out, x)
    <3>1. x \notin KidsOf(new)
      BY <1>9, <1>11, <2>1 DEF Free
    <3> QED BY <1>12, <2>1, <3>1 DEF Swapped
  <2>2. \A q \in 1..Len(out) : q = p \/ q \notin 1..Len(qs) => out[q].leaf = FALSE
    BY <1>11, <1>12 DEF Swapped
  <2> QED BY <1>2, <1>12, <2>1, <2>2 DEF Stepped, Swapped
<1> QED BY <1>5, <1>13 DEF pg, n, out

HasRoom(n) == PtrSize * n + CellSize * n <= Room

KidsAt(t, I) == {t[i].left : i \in I}

LEMMA PartLefts ==
    ASSUME NEW t \in Seq(CellSet), OwnLefts(t), NEW m \in 1..Len(t), NEW n \in m..Len(t),
           NEW e \in 1..Len(t), e \notin m..n
    PROVE  /\ SubSeq(t, m, n) \in Seq(CellSet) /\ Len(SubSeq(t, m, n)) = n - m + 1
           /\ SubSeq(t, m, n) # << >> /\ n - m + 1 \in Nat
           /\ OwnLefts(SubSeq(t, m, n)) /\ t[e].left \notin Lefts(SubSeq(t, m, n))
           /\ Lefts(SubSeq(t, m, n)) = KidsAt(t, m..n)
<1> DEFINE l == SubSeq(t, m, n)
           k == n - m + 1
<1>1. Len(t) \in Nat /\ m \in Nat /\ n \in Nat /\ k \in Nat \ {0} /\ m <= n
      /\ m \in 1..(Len(t) + 1) /\ n \in 0..Len(t)
  OBVIOUS
<1>2. l \in Seq(CellSet) /\ Len(l) = k /\ \A i \in 1..k : l[i] = t[m + i - 1]
  BY <1>1, PartOfCells
<1>3. l # << >>
  <2>1. Len(l) # 0 /\ Len(<< >>) = 0
    BY <1>1, <1>2
  <2> HIDE DEF l
  <2> QED BY <2>1
<1>4. \A i \in 1..k : m + i - 1 \in m..n /\ m + i - 1 \in 1..Len(t)
  BY <1>1
<1>5. \A j \in m..n : j - m + 1 \in 1..k /\ m + (j - m + 1) - 1 = j
  BY <1>1
<1> HIDE DEF l
<1>6. OwnLefts(l)
  <2> SUFFICES ASSUME NEW i \in 1..k, NEW j \in 1..k, l[i].left = l[j].left PROVE i = j
    BY <1>2 DEF OwnLefts
  <2>1. m + i - 1 = m + j - 1
    <3>1. t[m + i - 1].left = t[m + j - 1].left
      BY <1>2
    <3> HIDE DEF k
    <3> QED BY <1>4, <3>1 DEF OwnLefts
  <2> QED BY <1>1, <2>1
<1> HIDE DEF k
<1>7. Lefts(l) \subseteq KidsAt(t, m..n)
  BY <1>2, <1>4 DEF Lefts, KidsAt
<1>8. KidsAt(t, m..n) \subseteq Lefts(l)
  <2> SUFFICES ASSUME NEW j \in m..n PROVE t[j].left \in Lefts(l)
    BY DEF KidsAt
  <2> DEFINE i == j - m + 1
  <2>1. i \in 1..k /\ m + i - 1 = j
    BY <1>5
  <2> HIDE DEF i
  <2>2. l[i] = t[j]
    BY <1>2, <2>1
  <2>3. l[i].left \in Lefts(l)
    BY <1>2, <2>1 DEF Lefts
  <2> QED BY <2>2, <2>3
<1>9. t[e].left \notin Lefts(l)
  <2> SUFFICES ASSUME NEW j \in m..n, t[j].left = t[e].left PROVE FALSE
    BY <1>7 DEF KidsAt
  <2>1. j \in 1..Len(t)
    BY <1>1
  <2>2. j = e
    BY <2>1 DEF OwnLefts
  <2> QED BY <2>2
<1> QED BY <1>1, <1>2, <1>3, <1>6, <1>7, <1>8, <1>9 DEF l, k

(* One half of an internal page that was split.                            *)
IsHalf(pg, N, t, I) == PageOK(pg, N) /\ pg.leaf = FALSE /\ OwnKids(pg) /\ KidsOf(pg) = KidsAt(t, I)

LEMMA HalfIsPage ==
    ASSUME NEW t \in Seq(CellSet), OwnLefts(t), NEW m \in 1..Len(t), NEW n \in m..Len(t),
           NEW e \in 1..Len(t), e \notin m..n, NEW N \in Nat, Lefts(t) \subseteq 1..N,
           NEW k, k = n - m + 1, HasRoom(k)
    PROVE  IsHalf(InternalOf(SubSeq(t, m, n), t[e].left, k), N, t, (m..n) \union {e}) /\ Len(SubSeq(t, m, n)) = k
<1> DEFINE s == SubSeq(t, m, n)
           r == t[e].left
           pg == InternalOf(s, r, k)
<1>1. /\ s \in Seq(CellSet) /\ Len(s) = k /\ s # << >> /\ k \in Nat
      /\ OwnLefts(s) /\ r \notin Lefts(s) /\ Lefts(s) = KidsAt(t, m..n)
  BY PartLefts
<1>2. r \in Nat /\ r \in Lefts(t)
  <2>1. t[e] \in CellSet
    OBVIOUS
  <2> QED BY <2>1 DEF CellSet, Lefts
<1>3. Lefts(s) \union {r} = KidsAt(t, (m..n) \union {e})
  BY <1>1 DEF KidsAt
<1>4. Lefts(s) \union {r} \subseteq 1..N
  <2>1. KidsAt(t, m..n) \subseteq Lefts(t)
    <3>1. m..n \subseteq 1..Len(t)
      OBVIOUS
    <3> QED BY <3>1 DEF KidsAt, Lefts
  <2> QED BY <1>1, <1>2, <2>1
<1>5. FitsWith(s, k)
  BY <1>1 DEF HasRoom, FitsWith
<1> HIDE DEF s, r
<1>6. PageOK(pg, N) /\ pg.leaf = FALSE /\ OwnKids(pg) /\ KidsOf(pg) = Lefts(s) \union {r}
  BY <1>1, <1>2, <1>4, <1>5, InternalOfIsPage
<1> HIDE DEF pg
<1>7. IsHalf(pg, N, t, (m..n) \union {e})
  BY <1>3, <1>6 DEF IsHalf
<1> QED BY <1>1, <1>7 DEF pg, s, r

(* Page p and a new page share what the full page and the new cell lead to; *)
(* its rightmost child is on neither.                                       *)
LEMMA Halved ==
    ASSUME NEW qs, NEW g, Good(qs, g), NEW p \in 1..Len(qs), ~qs[p].leaf,
           NEW f \in 1..Len(qs), Free(qs, f), g[p] = g[f] + 1,
           NEW left, PageOK(left, Len(qs)), left.leaf = FALSE, OwnKids(left),
           NEW right, PageOK(right, Len(qs)), right.leaf = FALSE, OwnKids(right),
           KidsOf(left) \subseteq KidsOf(qs[p]) \union {f},
           KidsOf(right) \subseteq KidsOf(qs[p]) \union {f},
           KidsOf(left) \cap KidsOf(right) = {},
           NEW two, two = Append([qs EXCEPT ![p] = left], right)
    PROVE  \E g2 : /\ Stepped(qs, g, p, f, two, g2) /\ Len(two) = Len(qs) + 1
                   /\ g2[Len(qs) + 1] = g[p] /\ Free(two, Len(qs) + 1)
<1> DEFINE one == [qs EXCEPT ![p] = left]
           n == g[p]
<1>1. qs \in Seq(Page) /\ Len(qs) \in Nat /\ n \in Nat /\ qs[p].leaf = FALSE
  BY GoodPage DEF Good
<1>2. Swapped(qs, g, p, left, one)
  <2> DEFINE F == {f}
  <2>1. \A x \in F : Free(qs, x) /\ g[p] = g[x] + 1
    OBVIOUS
  <2>2. KidsOf(left) \subseteq KidsOf(qs[p]) \union F /\ left.leaf = qs[p].leaf
    BY <1>1
  <2> HIDE DEF F
  <2> QED BY <2>1, <2>2, Replaced
<1>3. two = Append(one, right)
  OBVIOUS
<1>4. \A c \in KidsOf(right) : n = g[c] + 1
  BY DEF Good, Ranked
<1> HIDE DEF one, n
<1>5. \A x : x \notin KidsOf(left) /\ (Free(qs, x) \/ x \in KidsOf(qs[p])) => Free(one, x)
  BY <1>2 DEF Swapped
<1>6. \A c \in KidsOf(right) : Free(one, c)
  BY <1>5
<1>7. Good(one, g) /\ Len(one) = Len(qs) /\ one \in Seq(Page) /\ one[p] = left
      /\ \A q \in 1..Len(qs) : q # p => one[q] = qs[q]
  BY <1>2 DEF Swapped
<1>8. PageOK(right, Len(one)) /\ (right.leaf => n = 0)
  BY <1>7
<1>9. PICK g2 : Longer(one, g, right, n, two, g2)
  <2>1. \E g2 : Longer(one, g, right, n, Append(one, right), g2)
    BY <1>1, <1>4, <1>6, <1>7, <1>8, Added
  <2> QED BY <1>3, <2>1
<1>10. \A q \in 1..Len(qs) : g2[q] = g[q] /\ (q # p => two[q] = qs[q])
  BY <1>7, <1>9 DEF Extends, Longer
<1>11. ASSUME NEW x, Free(qs, x), x # f PROVE Free(two, x)
  <2>1. x \notin KidsOf(qs[p])
    BY <1>11 DEF Free
  <2> QED BY <1>5, <1>9, <1>11, <2>1 DEF Longer
<1>12. Len(two) = Len(qs) + 1 /\ Len(qs) <= Len(two) /\ Good(two, g2) /\ Free(two, Len(qs) + 1)
  BY <1>1, <1>7, <1>9 DEF Longer
<1>121. two[p].leaf = FALSE /\ two[Len(qs) + 1].leaf = FALSE
  <2>1. right \in Page
    BY DEF PageOK
  <2>2. two[Len(one) + 1] = right /\ \A q \in 1..Len(one) : two[q] = one[q]
    BY <1>3, <1>7, <2>1, AppendProperties
  <2> QED BY <1>7, <2>2
<1>122. \A q \in 1..Len(two) : q = p \/ q \notin 1..Len(qs) => two[q].leaf = FALSE
  BY <1>1, <1>12, <1>121
<1>13. Stepped(qs, g, p, f, two, g2)
  BY <1>10, <1>11, <1>12, <1>122 DEF Stepped
<1>14. g2[Len(qs) + 1] = g[p]
  BY <1>7, <1>9 DEF Extends, Longer, n
<1> QED BY <1>12, <1>13, <1>14

LEMMA ChildSplit ==
    ASSUME NEW qs, NEW g, Good(qs, g), NEW p \in 1..Len(qs), ~qs[p].leaf,
           NEW f \in 1..Len(qs), Free(qs, f), g[p] = g[f] + 1, NEW child, NEW s, NEW r, Rehung(qs, p, f, child, s, r),
           Full(InternalOf(s, r, Len(s))), NEW c \in CellSet, c.left = child
    PROVE  \E two, g2 : \E sep \in CellSet :
              /\ SplitInternal([qs EXCEPT ![p] = InternalOf(s, r, Len(s))], p, c) = Split(two, sep, Len(qs) + 1)
              /\ Stepped(qs, g, p, f, two, g2) /\ Len(two) = Len(qs) + 1
              /\ g2[Len(qs) + 1] = g[p] /\ Free(two, Len(qs) + 1)
<1> DEFINE n == Len(s)
           pg == InternalOf(s, r, n)
           t == InsertSorted(s, c)
           N == n + 1
           mid == N \div 2
           rest == N - mid - 2
           left == InternalOf(SubSeq(t, 1, mid), t[mid + 1].left, mid)
           right == InternalOf(SubSeq(t, mid + 2, N - 1), t[N].left, rest)
<1>1. /\ s \in Seq(CellSet) /\ n \in Nat /\ r \in Nat /\ n = Len(qs[p].cells)
      /\ OwnLefts(s) /\ child \notin Lefts(s)
      /\ child \in KidsOf(qs[p]) /\ Lefts(s) \subseteq KidsOf(qs[p]) \union {f}
  BY DEF Rehung
<1>2. /\ KidsOf(qs[p]) \subseteq 1..Len(qs) /\ Fits(qs[p]) /\ qs[p].laid = n /\ Len(qs) \in Nat /\ qs \in Seq(Page)
      /\ qs[p].leaf = FALSE /\ qs[p] \in Page
  BY <1>1, PageIsInternalOf, GoodPage DEF Good
<1>3. pg \in Page /\ pg.leaf = FALSE /\ pg.cells = s /\ pg.right = r /\ pg.laid = n
  BY <1>1, InternalOfIsPage DEF InternalOf
<1>4. n >= 4
  <2> HIDE DEF pg, n
  <2>1. Full(pg)
    BY DEF pg, n
  <2> QED BY <1>1, <1>3, <2>1, FullHasFour DEF n
<1>5. PICK j \in 1..(Len(s) + 1) : t \in Seq(CellSet) /\ ShiftedIn(t, s, j, c)
  BY <1>1, SortedInsertion
<1> HIDE DEF t
<1>6. Len(t) = N
  BY <1>5 DEF ShiftedIn
<1>7. OwnLefts(t) /\ Lefts(t) \subseteq Lefts(s) \union {child}
  BY <1>1, <1>5, ShiftedLefts
<1>8. /\ N \in Nat /\ mid \in Nat /\ rest \in Nat /\ rest = (N - 1) - (mid + 2) + 1 /\ mid = mid - 1 + 1
      /\ 1 \in 1..N /\ mid \in 1..N /\ mid + 1 \in 1..N /\ mid + 1 \notin 1..mid
      /\ mid + 2 \in 1..N /\ N - 1 \in (mid + 2)..N /\ N \in 1..N /\ N \notin (mid + 2)..(N - 1)
      /\ mid <= n /\ rest <= n
  <2> HIDE DEF n
  <2>1. N \in Nat /\ N >= 5 /\ N = n + 1
    BY <1>1, <1>4
  <2> HIDE DEF N
  <2>2. mid \in Nat /\ 2 * mid <= N /\ N <= 2 * mid + 1
    BY <2>1
  <2> HIDE DEF mid
  <2>3. rest \in Nat /\ rest >= 0 /\ rest + mid + 2 = N
    BY <2>1, <2>2
  <2>4. /\ rest = (N - 1) - (mid + 2) + 1 /\ mid = mid - 1 + 1
        /\ 1 \in 1..N /\ mid \in 1..N /\ mid + 1 \in 1..N /\ mid + 1 \notin 1..mid
        /\ mid + 2 \in 1..N
    BY <2>1, <2>2
  <2>5. N - 1 \in (mid + 2)..N /\ N \in 1..N /\ N \notin (mid + 2)..(N - 1)
    BY <2>1, <2>2
  <2>6. mid <= n /\ rest <= n
    <3>1. n \in Nat /\ rest \in Nat
      BY <1>1, <2>3
    <3> HIDE DEF rest
    <3>2. mid <= n
      BY <2>1, <2>2, <3>1
    <3>3. rest <= n
      BY <2>1, <2>2, <2>3, <3>1
    <3> QED BY <3>2, <3>3
  <2> QED BY <2>1, <2>2, <2>3, <2>4, <2>5, <2>6
<1>9. HasRoom(mid) /\ HasRoom(rest)
  <2> HIDE DEF mid, rest, n
  <2> QED BY <1>1, <1>2, <1>8, RoomForFewer DEF HasRoom
<1>10. Lefts(t) \subseteq 1..Len(qs) /\ Lefts(t) \subseteq KidsOf(qs[p]) \union {f}
  BY <1>1, <1>2, <1>7
<1>11. /\ PageOK(left, Len(qs)) /\ left.leaf = FALSE /\ OwnKids(left)
       /\ KidsOf(left) = KidsAt(t, (1..mid) \union {mid + 1}) /\ Len(SubSeq(t, 1, mid)) = mid
  <2> DEFINE e == mid + 1
  <2>1. e \in 1..Len(t) /\ mid \in 1..Len(t) /\ 1 \in 1..Len(t) /\ e \notin 1..mid
    BY <1>6, <1>8
  <2> HIDE DEF mid, e
  <2> DEFINE a == 1
             size == Len(qs)
  <2>2. a \in 1..Len(t) /\ mid \in a..Len(t) /\ e \notin a..mid /\ mid = mid - a + 1 /\ size \in Nat
    BY <1>2, <1>8, <2>1
  <2>3. Lefts(t) \subseteq 1..size
    BY <1>10
  <2> HIDE DEF a, size
  <2>4. IsHalf(InternalOf(SubSeq(t, a, mid), t[e].left, mid), size, t, (a..mid) \union {e})
        /\ Len(SubSeq(t, a, mid)) = mid
    BY <1>5, <1>7, <1>9, <2>1, <2>2, <2>3, HalfIsPage
  <2> QED BY <2>4 DEF IsHalf, e, a, size
<1>12. /\ PageOK(right, Len(qs)) /\ right.leaf = FALSE /\ OwnKids(right)
       /\ KidsOf(right) = KidsAt(t, ((mid + 2)..(N - 1)) \union {N}) /\ Len(SubSeq(t, mid + 2, N - 1)) = rest
  <2> DEFINE a == mid + 2
             b == N - 1
             size == Len(qs)
  <2>1. a \in 1..Len(t) /\ b \in a..Len(t) /\ N \in 1..Len(t) /\ N \notin a..b /\ rest = b - a + 1
    BY <1>6, <1>8
  <2>2. size \in Nat /\ Lefts(t) \subseteq 1..size
    BY <1>2, <1>10
  <2> HIDE DEF a, b, mid, N, rest, size
  <2>3. IsHalf(InternalOf(SubSeq(t, a, b), t[N].left, rest), size, t, (a..b) \union {N})
        /\ Len(SubSeq(t, a, b)) = rest
    BY <1>5, <1>7, <1>9, <2>1, <2>2, HalfIsPage
  <2> QED BY <2>3 DEF IsHalf, a, b, size
<1>13. KidsOf(left) \cap KidsOf(right) = {}
  <2> SUFFICES ASSUME NEW x \in (1..mid) \union {mid + 1}, NEW y \in ((mid + 2)..(N - 1)) \union {N},
                      t[x].left = t[y].left
               PROVE  FALSE
    BY <1>11, <1>12 DEF KidsAt
  <2>1. x \in 1..Len(t) /\ y \in 1..Len(t) /\ x # y
    BY <1>4, <1>6, <1>8
  <2> QED BY <1>7, <2>1 DEF OwnLefts
<1>14. KidsOf(left) \subseteq Lefts(t) /\ KidsOf(right) \subseteq Lefts(t)
  <2>1. (1..mid) \union {mid + 1} \subseteq 1..Len(t) /\ ((mid + 2)..(N - 1)) \union {N} \subseteq 1..Len(t)
    BY <1>4, <1>6, <1>8
  <2> HIDE DEF left, right
  <2> QED BY <1>11, <1>12, <2>1 DEF KidsAt, Lefts
<1> DEFINE two == Append([qs EXCEPT ![p] = left], right)
<1>15. SplitInternal([qs EXCEPT ![p] = pg], p, c) = Split(two, t[mid + 1], Len(qs) + 1)
  <2> DEFINE ps == [qs EXCEPT ![p] = pg]
  <2>1. ps[p] = pg /\ Len(ps) = Len(qs) /\ \A x : [ps EXCEPT ![p] = x] = [qs EXCEPT ![p] = x]
    BY <1>2
  <2>2. \A cells : Refilled(pg, cells) = [leaf |-> pg.leaf, cells |-> cells, right |-> r, laid |-> Len(cells)]
    <3> HIDE DEF pg
    <3> QED BY <1>3, RefilledIs
  <2>3. [Refilled(pg, SubSeq(t, 1, mid)) EXCEPT !.right = t[mid + 1].left] = left
    <3> HIDE DEF pg
    <3>1. Refilled(pg, SubSeq(t, 1, mid)) = [leaf |-> pg.leaf, cells |-> SubSeq(t, 1, mid), right |-> r, laid |-> mid]
      BY <1>11, <2>2
    <3> DEFINE cells == SubSeq(t, 1, mid)
               e == t[mid + 1].left
    <3> HIDE DEF cells, e, mid
    <3>2. [[leaf |-> pg.leaf, cells |-> cells, right |-> r, laid |-> mid] EXCEPT !.right = e]
            = [leaf |-> pg.leaf, cells |-> cells, right |-> e, laid |-> mid]
      OBVIOUS
    <3> QED BY <1>3, <3>1, <3>2 DEF InternalOf, cells, e
  <2>4. Internal(SubSeq(t, mid + 2, N - 1), t[N].left) = right
    BY <1>12 DEF Internal, InternalOf
  <2>5. Last(t) = t[N]
    BY <1>6 DEF Last
  <2>6. InsertSorted(pg.cells, c) = t
    BY <1>3 DEF t
  <2> HIDE DEF pg, ps, left, right, n
  <2>7. SplitInternal(ps, p, c) =
          Split(Append([ps EXCEPT ![p] = [Refilled(pg, SubSeq(t, 1, mid)) EXCEPT !.right = t[mid + 1].left]],
                       Internal(SubSeq(t, mid + 2, N - 1), t[N].left)), t[mid + 1], Len(qs) + 1)
    <3>1. SplitInternal(ps, p, c) =
            Split(Append([ps EXCEPT ![p] = [Refilled(ps[p], SubSeq(t, 1, mid)) EXCEPT !.right = t[mid + 1].left]],
                       Internal(SubSeq(t, mid + 2, N - 1), Last(t).left)), t[mid + 1], Len(ps) + 1)
      BY <1>6, <2>1, <2>6 DEF SplitInternal
    <3> QED BY <2>1, <2>5, <3>1
  <2> QED BY <2>1, <2>3, <2>4, <2>7 DEF ps
<1> HIDE DEF left, right
<1>16. PICK g2 : /\ Stepped(qs, g, p, f, two, g2) /\ Len(two) = Len(qs) + 1
                 /\ g2[Len(qs) + 1] = g[p] /\ Free(two, Len(qs) + 1)
  <2>1. KidsOf(left) \subseteq KidsOf(qs[p]) \union {f} /\ KidsOf(right) \subseteq KidsOf(qs[p]) \union {f}
    BY <1>10, <1>14
  <2> DEFINE w == two
  <2>2. w = Append([qs EXCEPT ![p] = left], right)
    OBVIOUS
  <2> HIDE DEF w
  <2>3. \E g2 : /\ Stepped(qs, g, p, f, w, g2) /\ Len(w) = Len(qs) + 1
                /\ g2[Len(qs) + 1] = g[p] /\ Free(w, Len(qs) + 1)
    BY <1>11, <1>12, <1>13, <2>1, <2>2, Halved
  <2> QED BY <2>3 DEF w
<1>17. t[mid + 1] \in CellSet
  BY <1>5, <1>6, <1>8
<1> QED BY <1>15, <1>16, <1>17 DEF pg, n

(* A page above takes over what an insertion further down left behind.     *)
Outgrows(ps, h, p, t, g) ==
    /\ Len(ps) \in Nat /\ Good(t, g) /\ Len(ps) <= Len(t)
    /\ \A q \in 1..Len(ps) : g[q] = h[q]
    /\ \A q \in 1..Len(ps) : q # p /\ h[q] >= h[p] => t[q] = ps[q]
    /\ \A x \in 1..Len(ps) : Free(ps, x) => Free(t, x)

LEMMA SteppedGrows ==
    ASSUME NEW ps, NEW h, Good(ps, h), NEW p \in 1..Len(ps), NEW child \in 1..Len(ps), h[p] > h[child],
           NEW below, Grown(ps, h, child, below), below.split,
           NEW g, \A q \in 1..Len(ps) : g[q] = h[q],
           NEW t, NEW g2, Stepped(below.pages, g, p, below.page, t, g2)
    PROVE  Outgrows(ps, h, p, t, g2)
<1> DEFINE qs == below.pages
           f == below.page
<1>1. /\ Len(ps) \in Nat /\ h \in [1..Len(ps) -> Nat] /\ ps \in Seq(Page)
  BY GoodPage DEF Good
<1>2. /\ Len(qs) \in Nat /\ Len(ps) <= Len(qs) /\ f \notin 1..Len(ps)
      /\ \A q \in 1..Len(ps) : q # child /\ h[q] >= h[child] => qs[q] = ps[q]
      /\ \A x \in 1..Len(ps) : Free(ps, x) => Free(qs, x)
  BY DEF Grown
<1>3. /\ Good(t, g2) /\ Len(qs) <= Len(t)
      /\ \A q \in 1..Len(qs) : g2[q] = g[q] /\ (q # p => t[q] = qs[q])
      /\ \A x : Free(qs, x) /\ x # f => Free(t, x)
  BY DEF Stepped
<1> HIDE DEF qs, f
<1>4. \A q \in 1..Len(ps) : q \in 1..Len(qs)
  BY <1>1, <1>2
<1>5. Len(t) \in Nat
  BY <1>3 DEF Good
<1>6. Len(ps) <= Len(t)
  BY <1>1, <1>2, <1>3, <1>5
<1>7. \A q \in 1..Len(ps) : g2[q] = h[q]
  BY <1>3, <1>4
<1>8. ASSUME NEW q \in 1..Len(ps), q # p, h[q] >= h[p] PROVE t[q] = ps[q]
  <2>1. h[q] \in Nat /\ h[p] \in Nat /\ h[child] \in Nat
    BY <1>1
  <2>2. q # child /\ h[q] >= h[child]
    BY <1>8, <2>1
  <2> QED BY <1>2, <1>3, <1>4, <1>8, <2>2
<1>9. \A x \in 1..Len(ps) : Free(ps, x) => Free(t, x)
  BY <1>2, <1>3
<1> QED BY <1>1, <1>3, <1>6, <1>7, <1>8, <1>9 DEF Outgrows

LEMMA AddedChild ==
    ASSUME NEW ps, NEW h, Good(ps, h), NEW p \in 1..Len(ps), ~ps[p].leaf, NEW k \in Key,
           NEW child, child = NextDown(ps, p, k), NEW below, Grown(ps, h, child, below), below.split
    PROVE  /\ Grown(ps, h, p, AddChild(below, p, child, k))
           /\ SameLeaves(below.pages, AddChild(below, p, child, k).pages)
<1> DEFINE qs == below.pages
           f == below.page
           idx == Search(Keys(ps[p]), k).idx
           c == Cell(below.key, below.val, child)
           pg == WithChild(qs[p], idx, f)
<1>1. /\ Len(ps) \in Nat /\ h \in [1..Len(ps) -> Nat] /\ h[p] \in Nat
      /\ idx \in SlotsOf(ps[p]) /\ child = Child(ps[p], idx)
      /\ child \in 1..Len(ps) /\ h[p] = h[child] + 1 /\ h[child] \in Nat
  BY GoodPage, SearchLeadsDown, KidIsPage DEF NextDown
<1>2. /\ Len(qs) \in Nat /\ Len(ps) <= Len(qs) /\ f \notin 1..Len(ps) /\ Free(qs, f)
      /\ \A q \in 1..Len(ps) : q # child /\ h[q] >= h[child] => qs[q] = ps[q]
      /\ below.key \in Key /\ below.val \in Val
  BY DEF Grown
<1>3. PICK g : /\ Good(qs, g) /\ \A q \in 1..Len(ps) : g[q] = h[q]
               /\ f \in 1..Len(qs) /\ g[f] = h[child]
  BY DEF Grown
<1>4. /\ p \in 1..Len(qs) /\ qs[p] = ps[p] /\ ~qs[p].leaf /\ g[p] = g[f] + 1 /\ h[p] > h[child]
  <2>1. p # child /\ h[p] >= h[child] /\ h[p] > h[child] /\ p \in 1..Len(qs)
    BY <1>1, <1>2
  <2> HIDE DEF qs
  <2>2. qs[p] = ps[p]
    BY <1>2, <2>1
  <2> QED BY <1>1, <1>3, <2>1, <2>2
<1>5. c \in CellSet /\ c.left = child
  BY <1>1, <1>2 DEF Cell, CellSet
<1> HIDE DEF qs, f, idx, c
<1>6. PICK s, r : Rehung(qs, p, f, child, s, r) /\ pg = InternalOf(s, r, Len(s))
  <2>1. idx \in SlotsOf(qs[p]) /\ child = Child(qs[p], idx)
    BY <1>1, <1>4
  <2>2. \E s, r : TakesPlace(qs, p, f, idx, s, r)
    BY <1>2, <1>3, <1>4, <2>1, ChildTakesPlace
  <2> QED BY <2>1, <2>2 DEF TakesPlace
<1>7. AddChild(below, p, child, k) =
        IF Full(pg) THEN SplitInternal([qs EXCEPT ![p] = pg], p, c)
        ELSE Unsplit([qs EXCEPT ![p] = Placed(pg, Len(pg.cells), c)])
  BY <1>4 DEF AddChild, WithChild, qs, f, idx, c
<1> HIDE DEF pg
<1>8. CASE ~Full(pg)
  <2> DEFINE t == [qs EXCEPT ![p] = Placed(InternalOf(s, r, Len(s)), Len(s), c)]
  <2>1. Stepped(qs, g, p, f, t, g)
    BY <1>2, <1>3, <1>4, <1>5, <1>6, <1>8, ChildPlaced
  <2>2. pg.cells = s
    BY <1>6 DEF InternalOf
  <2>3. AddChild(below, p, child, k) = Unsplit(t)
    BY <1>6, <1>7, <1>8, <2>2
  <2> HIDE DEF t
  <2>4. Grown(ps, h, p, Unsplit(t))
    <3>1. Outgrows(ps, h, p, t, g)
      <4>1. Stepped(below.pages, g, p, below.page, t, g)
        BY <2>1 DEF qs, f
      <4> QED BY <1>1, <1>3, <1>4, <4>1, SteppedGrows
    <3> QED BY <3>1, GrownUnsplit DEF Outgrows
  <2>5. SameLeaves(qs, t) /\ Unsplit(t).pages = t
    BY <1>2, <1>4, <2>1, SteppedLeaves DEF Unsplit
  <2> QED BY <2>3, <2>4, <2>5 DEF qs
<1>9. CASE Full(pg)
  <2> DEFINE n == Len(qs) + 1
  <2>1. PICK t, g2 : \E sep \in CellSet :
           /\ SplitInternal([qs EXCEPT ![p] = InternalOf(s, r, Len(s))], p, c) = Split(t, sep, n)
           /\ Stepped(qs, g, p, f, t, g2) /\ Len(t) = n /\ g2[n] = g[p] /\ Free(t, n)
    BY <1>2, <1>3, <1>4, <1>5, <1>6, <1>9, ChildSplit
  <2>2. PICK sep \in CellSet :
           /\ SplitInternal([qs EXCEPT ![p] = InternalOf(s, r, Len(s))], p, c) = Split(t, sep, n)
           /\ Stepped(qs, g, p, f, t, g2) /\ Len(t) = n /\ g2[n] = g[p] /\ Free(t, n)
    BY <2>1
  <2>3. AddChild(below, p, child, k) = Split(t, sep, n)
    BY <1>6, <1>7, <1>9, <2>2
  <2>4. n \in 1..Len(t) /\ n > Len(ps) /\ g2[n] = h[p]
    BY <1>1, <1>2, <1>3, <1>4, <2>2
  <2> HIDE DEF n
  <2>5. Grown(ps, h, p, Split(t, sep, n))
    <3>1. Outgrows(ps, h, p, t, g2)
      <4>1. Stepped(below.pages, g, p, below.page, t, g2)
        BY <2>2 DEF qs, f
      <4> QED BY <1>1, <1>3, <1>4, <4>1, SteppedGrows
    <3> QED BY <2>2, <2>4, <3>1, GrownSplit DEF Outgrows
  <2>6. SameLeaves(qs, t) /\ Split(t, sep, n).pages = t
    BY <1>2, <1>4, <2>2, SteppedLeaves DEF Split
  <2> QED BY <2>3, <2>5, <2>6 DEF qs
<1> QED BY <1>8, <1>9

LEMMA PassedUp ==
    ASSUME NEW ps, NEW h, Good(ps, h), NEW p \in 1..Len(ps), NEW child \in 1..Len(ps), h[p] > h[child],
           NEW below, Grown(ps, h, child, below), ~below.split
    PROVE  Grown(ps, h, p, below)
<1>1. h \in [1..Len(ps) -> Nat]
  BY GoodPage
<1>2. ASSUME NEW q \in 1..Len(ps), q # p, h[q] >= h[p] PROVE below.pages[q] = ps[q]
  <2>1. q # child /\ h[q] >= h[child]
    BY <1>1, <1>2
  <2> QED BY <2>1 DEF Grown
<1> QED BY <1>2 DEF Grown

-----------------------------------------------------------------------------
(* What the insertion returns at each page of the way, from the leaf up.   *)
Returned(ps, k, v, path, i, below) ==
    IF i = Len(path) THEN InsertLeaf(ps, path[i], k, v)
    ELSE IF below[i + 1].split THEN AddChild(below[i + 1], path[i], path[i + 1], k)
    ELSE below[i + 1]

AllReturned(ps, k, v, path, f) == f = [i \in 1..Len(path) |-> Returned(ps, k, v, path, i, f)]

LEMMA ReturnsExist ==
    ASSUME NEW ps, NEW k, NEW v, NEW path, Len(path) \in Nat \ {0}
    PROVE  \E f : AllReturned(ps, k, v, path, f)
<1> DEFINE L == Len(path)
           From(n, f) == f = [i \in (L - n)..L |-> Returned(ps, k, v, path, i, f)]
           Done == {n \in Nat : n < L => \E f : From(n, f)}
<1>1. 0 \in Done
  <2> DEFINE top == InsertLeaf(ps, path[L], k, v)
             f == [i \in (L - 0)..L |-> top]
  <2>1. \A i \in (L - 0)..L : Returned(ps, k, v, path, i, f) = top
    BY DEF Returned
  <2>2. f = [i \in (L - 0)..L |-> Returned(ps, k, v, path, i, f)]
    <3> HIDE DEF top
    <3> QED BY <2>1
  <2>3. From(0, f)
    BY <2>2
  <2> HIDE DEF f, From
  <2> QED BY <2>3
<1>2. ASSUME NEW n \in Nat, n \in Done PROVE n + 1 \in Done
  <2> SUFFICES ASSUME n + 1 < L PROVE \E f : From(n + 1, f)
    OBVIOUS
  <2>1. PICK f : From(n, f)
    <3> HIDE DEF From
    <3> QED BY <1>2
  <2> DEFINE m == L - (n + 1)
             e == Returned(ps, k, v, path, m, f)
             g == [i \in m..L |-> IF i = m THEN e ELSE f[i]]
  <2>2. /\ m \in Nat /\ m < L /\ L - n = m + 1 /\ L \in Nat
        /\ \A i \in m..L : i = m \/ i \in (m + 1)..L
        /\ \A i \in m..L : i # L => i + 1 \in m..L /\ i + 1 # m
    OBVIOUS
  <2> HIDE DEF m, e
  <2>3. \A i \in (m + 1)..L : f[i] = Returned(ps, k, v, path, i, f)
    BY <2>1, <2>2
  <2>4. ASSUME NEW i \in m..L PROVE Returned(ps, k, v, path, i, g) = Returned(ps, k, v, path, i, f)
    <3>1. i # L => g[i + 1] = f[i + 1]
      BY <2>2
    <3> HIDE DEF g
    <3> QED BY <3>1 DEF Returned, L
  <2>5. ASSUME NEW i \in m..L PROVE g[i] = Returned(ps, k, v, path, i, g)
    <3>1. g[i] = IF i = m THEN e ELSE f[i]
      OBVIOUS
    <3> HIDE DEF g
    <3> QED BY <2>2, <2>3, <2>4, <3>1 DEF e
  <2>6. g = [i \in m..L |-> Returned(ps, k, v, path, i, g)]
    <3> DEFINE F(i) == Returned(ps, k, v, path, i, g)
               G(i) == IF i = m THEN e ELSE f[i]
    <3>1. \A i \in m..L : G(i) = F(i)
      <4>1. \A i \in m..L : g[i] = G(i)
        OBVIOUS
      <4> HIDE DEF g, G
      <4> QED BY <2>5, <4>1
    <3>2. g = [i \in m..L |-> G(i)]
      OBVIOUS
    <3> HIDE DEF F, G, g
    <3>3. g = [i \in m..L |-> F(i)]
      BY <3>1, <3>2
    <3> QED BY <3>3 DEF F
  <2> HIDE DEF g
  <2>7. From(n + 1, g)
    BY <2>6 DEF m
  <2> HIDE DEF From
  <2> QED BY <2>7
<1>3. Nat \subseteq Done
  <2> HIDE DEF Done
  <2> QED BY <1>1, <1>2, SetInduction
<1>4. L - 1 \in Nat /\ L - 1 < L /\ L - (L - 1) = 1
  OBVIOUS
<1>5. \E f : From(L - 1, f)
  <2> HIDE DEF From, L
  <2> QED BY <1>3, <1>4
<1>6. PICK f : From(L - 1, f)
  BY <1>5
<1>7. f = [i \in 1..L |-> Returned(ps, k, v, path, i, f)]
  BY <1>4, <1>6
<1> QED BY <1>7 DEF AllReturned

LEMMA ReturnsGrown ==
    ASSUME NEW ps, NEW h, Good(ps, h), NEW k \in Key, NEW v \in Val, NEW p, NEW path, IsPath(ps, k, p, path),
           NEW below, \A i \in 1..Len(path) : below[i] = Returned(ps, k, v, path, i, below)
    PROVE  p \in 1..Len(ps) /\ Grown(ps, h, p, below[1]) /\ RowPut(ps, below[1].pages, k, v)
<1> DEFINE L == Len(path)
           Done == {n \in Nat : n < L => LeafTook(ps, h, path[L - n], k, v, below[L - n])}
<1>1. path \in Seq(1..Len(ps)) /\ path # << >> /\ L \in Nat \ {0} /\ \A i \in 1..L : path[i] \in 1..Len(ps)
  BY EmptySeq DEF IsPath
<1>2. 0 \in Done
  <2>1. L \in 1..L /\ path[L] \in 1..Len(ps) /\ L - 0 = L
    BY <1>1
  <2>2. ps[path[L]].leaf
    BY DEF IsPath
  <2>3. below[L] = InsertLeaf(ps, path[L], k, v)
    BY <2>1 DEF Returned
  <2> HIDE DEF L
  <2>4. LeafTook(ps, h, path[L], k, v, below[L])
    BY <2>1, <2>2, <2>3, LeafInsertion
  <2> QED BY <2>1, <2>4
<1>3. ASSUME NEW n \in Nat, n \in Done PROVE n + 1 \in Done
  <2> SUFFICES ASSUME n + 1 < L PROVE LeafTook(ps, h, path[L - (n + 1)], k, v, below[L - (n + 1)])
    OBVIOUS
  <2> DEFINE i == L - (n + 1)
             j == i + 1
             q == path[i]
             c == path[j]
             b == below[j]
  <2>1. i \in 1..(L - 1) /\ i \in 1..L /\ j \in 1..L /\ L - n = j /\ i # L
    BY <1>1
  <2> HIDE DEF i
  <2>2. q \in 1..Len(ps) /\ c \in 1..Len(ps) /\ ~ps[q].leaf /\ c = NextDown(ps, q, k)
    BY <1>1, <2>1 DEF IsPath
  <2>3. Grown(ps, h, c, b) /\ RowPut(ps, b.pages, k, v)
    <3>1. LeafTook(ps, h, c, k, v, b)
      BY <1>3, <2>1
    <3> QED BY <3>1 DEF LeafTook
  <2>4. below[i] = IF b.split THEN AddChild(b, q, c, k) ELSE b
    BY <2>1 DEF Returned
  <2> HIDE DEF L, j, q, c, b
  <2>5. h[q] > h[c]
    <3>1. c \in KidsOf(ps[q])
      BY <2>2, SearchLeadsDown DEF NextDown
    <3>2. h[q] = h[c] + 1 /\ h[c] \in Nat
      BY <2>2, <3>1, KidIsPage, GoodPage
    <3> QED BY <3>2
  <2>6. CASE b.split
    <3>1. /\ Grown(ps, h, q, AddChild(b, q, c, k))
          /\ SameLeaves(b.pages, AddChild(b, q, c, k).pages)
      BY <2>2, <2>3, <2>6, AddedChild
    <3>2. RowPut(ps, AddChild(b, q, c, k).pages, k, v)
      BY <2>3, <3>1, RowPutKept
    <3> QED BY <2>4, <2>6, <3>1, <3>2 DEF q, i, LeafTook
  <2>7. CASE ~b.split
    BY <2>2, <2>3, <2>4, <2>5, <2>7, PassedUp DEF q, i, LeafTook
  <2> QED BY <2>6, <2>7
<1>4. Nat \subseteq Done
  <2> HIDE DEF Done
  <2> QED BY <1>2, <1>3, SetInduction
<1>5. L - 1 \in Nat /\ L - 1 < L /\ L - (L - 1) = 1 /\ 1 \in 1..L
  BY <1>1
<1>6. LeafTook(ps, h, path[1], k, v, below[1])
  <2>1. LeafTook(ps, h, path[L - (L - 1)], k, v, below[L - (L - 1)])
    <3> HIDE DEF L
    <3> QED BY <1>4, <1>5
  <2> QED BY <1>5, <2>1
<1>7. path[1] = p
  BY DEF IsPath
<1> QED BY <1>1, <1>5, <1>6, <1>7 DEF LeafTook

(* A tree: pages that are the children of one place each, and a root that  *)
(* is the child of none.                                                   *)
IsTree(t) ==
    /\ t \in [root : Nat, pages : Seq(Page)]
    /\ t.root \in 1..Len(t.pages) /\ Free(t.pages, t.root)
    /\ \E h : Good(t.pages, h)

LEMMA NewRoot ==
    ASSUME NEW ps, NEW h, Good(ps, h), NEW a \in 1..Len(ps), NEW b \in 1..Len(ps), a # b,
           Free(ps, a), Free(ps, b), h[a] = h[b], NEW c \in CellSet, c.left = a
    PROVE  /\ IsTree([root |-> Len(ps) + 1, pages |-> Append(ps, Internal(<<c>>, b))])
           /\ \E g : Good(Append(ps, Internal(<<c>>, b)), g) /\ g[Len(ps) + 1] = h[a] + 1
<1> DEFINE s == <<c>>
           m == 1
           pg == InternalOf(s, b, m)
           n == h[a] + 1
<1>1. Len(ps) \in Nat /\ ps \in Seq(Page) /\ h \in [1..Len(ps) -> Nat] /\ n \in Nat /\ a \in Nat /\ b \in Nat
  BY GoodPage DEF Good
<1>2. s \in Seq(CellSet) /\ Len(s) = m /\ s # << >> /\ m \in Nat /\ s[1] = c
  <2>1. s \in Seq(CellSet) /\ Len(s) = 1 /\ Len(s) # 0 /\ Len(<< >>) = 0 /\ s[1] = c
    OBVIOUS
  <2> HIDE DEF s
  <2> QED BY <2>1
<1>3. Internal(<<c>>, b) = pg
  <2>1. Len(<<c>>) = 1
    OBVIOUS
  <2> QED BY <2>1 DEF Internal, InternalOf
<1>4. Lefts(s) = {a} /\ OwnLefts(s) /\ b \notin Lefts(s)
  <2>1. \A i \in 1..Len(s) : i = 1
    BY <1>2
  <2>2. 1 \in 1..Len(s)
    BY <1>2
  <2> HIDE DEF s
  <2>3. Lefts(s) = {a}
    BY <1>2, <2>1, <2>2 DEF Lefts
  <2> QED BY <2>1, <2>3 DEF OwnLefts
<1>5. FitsWith(s, m)
  <2>1. HasRoom(1)
    <3>1. ps[a] \in Page /\ Fits(ps[a])
      BY GoodPage DEF PageOK
    <3> QED BY <3>1, RoomForFewer DEF HasRoom
  <2> HIDE DEF s
  <2> QED BY <1>2, <2>1 DEF HasRoom, FitsWith
<1> HIDE DEF s, m
<1>6. PageOK(pg, Len(ps)) /\ KidsOf(pg) = {a, b} /\ OwnKids(pg) /\ pg.leaf = FALSE
  <2> DEFINE N == Len(ps)
  <2>1. Lefts(s) \union {b} \subseteq 1..N
    BY <1>4
  <2>2. /\ pg.leaf = FALSE /\ KidsOf(pg) = Lefts(s) \union {b} /\ OwnKids(pg)
        /\ PageOK(pg, N)
    <3> HIDE DEF N
    <3> QED BY <1>1, <1>2, <1>4, <1>5, <2>1, InternalOfIsPage
  <2> HIDE DEF pg
  <2> QED BY <1>4, <2>2
<1> HIDE DEF pg, n
<1>7. \A x \in KidsOf(pg) : Free(ps, x) /\ n = h[x] + 1
  BY <1>6 DEF n
<1> DEFINE t == Append(ps, pg)
<1>8. PICK g : Longer(ps, h, pg, n, t, g)
  BY <1>1, <1>6, <1>7, Added
<1> HIDE DEF t
<1> DEFINE tr == [root |-> Len(ps) + 1, pages |-> t]
<1>9. tr.root = Len(ps) + 1 /\ tr.pages = t /\ t \in Seq(Page) /\ Len(t) = Len(ps) + 1 /\ Len(t) \in Nat
      /\ Free(t, Len(ps) + 1) /\ Good(t, g)
  BY <1>1, <1>8 DEF Longer, Good
<1>10. tr \in [root : Nat, pages : Seq(Page)] /\ tr.root \in 1..Len(tr.pages)
  BY <1>1, <1>9
<1> HIDE DEF tr
<1>11. IsTree(tr)
  BY <1>9, <1>10 DEF IsTree
<1>12. g[Len(ps) + 1] = h[a] + 1
  BY <1>8 DEF Longer, Extends, n
<1>13. \E f : Good(t, f) /\ f[Len(ps) + 1] = h[a] + 1
  BY <1>9, <1>12
<1> QED BY <1>3, <1>11, <1>13 DEF tr, t

(* A new root above the old one, when that was split.                      *)
UnderRoot(root, top) ==
    IF top.split
    THEN [root  |-> Len(top.pages) + 1,
          pages |-> Append(top.pages, Internal(<<Cell(top.key, top.val, root)>>, top.page))]
    ELSE [root |-> root, pages |-> top.pages]

(* The way of an insertion and what it returns at each page of it.         *)
IsInsertion(t, k, v, path, below) ==
    /\ IsPath(t.pages, k, t.root, path)
    /\ \A i \in 1..Len(path) : below[i] = Returned(t.pages, k, v, path, i, below)
    /\ Inserted(t, k, v) = UnderRoot(t.root, below[1])

LEMMA InsertedIs ==
    ASSUME NEW t, IsTree(t), NEW k \in Key, NEW v
    PROVE  \E path, below : IsInsertion(t, k, v, path, below)
<1> DEFINE ps == t.pages
           root == t.root
           path == PathTo(ps, root, k)
           below == CHOOSE f : AllReturned(ps, k, v, path, f)
<1>1. PICK h : Good(ps, h)
  BY DEF IsTree
<1>2. root \in 1..Len(ps)
  BY DEF IsTree
<1> HIDE DEF ps, root
<1>3. IsPath(ps, k, root, path)
  BY <1>1, <1>2, PathFound
<1> HIDE DEF path
<1>4. Len(path) \in Nat \ {0}
  BY <1>3, EmptySeq DEF IsPath
<1>5. AllReturned(ps, k, v, path, below)
  <2>1. \E f : AllReturned(ps, k, v, path, f)
    BY <1>4, ReturnsExist
  <2> QED BY <2>1
<1>6. Inserted(t, k, v) = UnderRoot(root, below[1])
  BY DEF Inserted, AllReturned, Returned, UnderRoot, ps, root, path
<1>7. \A i \in 1..Len(path) : below[i] = Returned(ps, k, v, path, i, below)
  <2> HIDE DEF below
  <2> QED BY <1>5 DEF AllReturned
<1> HIDE DEF below
<1>8. IsInsertion(t, k, v, path, below)
  BY <1>3, <1>6, <1>7 DEF IsInsertion, ps, root
<1> QED BY <1>8

(* An insertion leaves a tree, which is higher if the root was split.      *)
LEMMA InsertionGrowsTree ==
    ASSUME NEW t, IsTree(t), NEW h, Good(t.pages, h), NEW k \in Key, NEW v \in Val,
           NEW path, NEW below, IsInsertion(t, k, v, path, below)
    PROVE  /\ IsTree(Inserted(t, k, v)) /\ RowPut(t.pages, Inserted(t, k, v).pages, k, v)
           /\ \E g : /\ Good(Inserted(t, k, v).pages, g)
                     /\ g[Inserted(t, k, v).root] = IF below[1].split THEN h[t.root] + 1 ELSE h[t.root]
<1> DEFINE ps == t.pages
           root == t.root
           top == below[1]
<1>1. Good(ps, h)
  OBVIOUS
<1>2. root \in 1..Len(ps) /\ Free(ps, root) /\ root \in Nat
  BY DEF IsTree
<1>3. IsPath(ps, k, root, path) /\ \A i \in 1..Len(path) : below[i] = Returned(ps, k, v, path, i, below)
  BY DEF IsInsertion
<1>6. Inserted(t, k, v) =
        IF top.split
        THEN [root  |-> Len(top.pages) + 1,
              pages |-> Append(top.pages, Internal(<<Cell(top.key, top.val, root)>>, top.page))]
        ELSE [root |-> root, pages |-> top.pages]
  BY DEF IsInsertion, UnderRoot
<1> HIDE DEF ps, root
<1>8. Grown(ps, h, root, top) /\ RowPut(ps, top.pages, k, v)
  BY <1>1, <1>3, ReturnsGrown
<1> HIDE DEF top
<1> DEFINE qs == top.pages
<1>9. PICK g : /\ Good(qs, g) /\ \A q \in 1..Len(ps) : g[q] = h[q]
               /\ top.split => top.page \in 1..Len(qs) /\ g[top.page] = h[root]
  BY <1>8 DEF Grown
<1>10. /\ Len(ps) <= Len(qs) /\ Len(qs) \in Nat /\ Free(qs, root)
       /\ top.split => /\ top.key \in Key /\ top.val \in Val
                       /\ top.page \notin 1..Len(ps) /\ Free(qs, top.page)
  BY <1>2, <1>8 DEF Grown
<1>11. Len(ps) \in Nat /\ root \in 1..Len(qs) /\ g[root] = h[root]
  <2>1. Len(ps) \in Nat
    BY <1>1 DEF Good
  <2> HIDE DEF qs
  <2> QED BY <1>2, <1>9, <1>10, <2>1
<1> HIDE DEF qs
<1>12. CASE top.split
  <2> DEFINE c == Cell(top.key, top.val, root)
             b == top.page
             pg == Internal(<<c>>, b)
             rs == Append(qs, pg)
             n == Len(qs) + 1
  <2>1. c \in CellSet /\ c.left = root
    BY <1>2, <1>10, <1>12 DEF Cell, CellSet
  <2>2. b \in 1..Len(qs) /\ root # b /\ Free(qs, b) /\ g[root] = g[b]
    BY <1>2, <1>9, <1>10, <1>11, <1>12
  <2> HIDE DEF c, b
  <2>3. IsTree([root |-> n, pages |-> rs]) /\ \E f : Good(rs, f) /\ f[n] = g[root] + 1
    BY <1>9, <1>10, <1>11, <2>1, <2>2, NewRoot
  <2>4. SameLeaves(qs, rs)
    <3>1. pg.leaf = FALSE
      BY DEF Internal
    <3> HIDE DEF pg
    <3>2. qs \in Seq(Page)
      BY <1>9 DEF Good
    <3>3. Len(rs) = Len(qs) + 1 /\ rs[Len(qs) + 1] = pg /\ \A q \in 1..Len(qs) : rs[q] = qs[q]
      BY <3>2, AppendProperties
    <3> HIDE DEF rs
    <3> QED BY <1>10, <3>1, <3>3 DEF SameLeaves
  <2>5. Inserted(t, k, v) = [root |-> n, pages |-> rs]
    BY <1>6, <1>12 DEF c, b, qs
  <2> HIDE DEF rs, n
  <2>6. RowPut(ps, rs, k, v)
    BY <1>8, <2>4, RowPutKept DEF qs
  <2> QED BY <1>11, <1>12, <2>3, <2>5, <2>6 DEF ps, root, top
<1>13. CASE ~top.split
  <2> DEFINE tr == [root |-> root, pages |-> qs]
  <2>1. qs \in Seq(Page)
    BY <1>9 DEF Good
  <2>2. tr.root = root /\ tr.pages = qs /\ tr \in [root : Nat, pages : Seq(Page)]
    BY <1>2, <2>1
  <2> HIDE DEF tr
  <2>3. IsTree(tr)
    BY <1>9, <1>10, <1>11, <2>2 DEF IsTree
  <2>4. Inserted(t, k, v) = tr
    BY <1>6, <1>13 DEF tr, qs
  <2>5. RowPut(ps, tr.pages, k, v)
    BY <1>8, <2>2 DEF qs
  <2>6. \E f : Good(tr.pages, f) /\ f[tr.root] = h[root]
    BY <1>9, <1>11, <2>2
  <2> QED BY <1>13, <2>3, <2>4, <2>5, <2>6 DEF ps, root, top
<1> QED BY <1>12, <1>13

LEMMA InsertionKeepsTree ==
    ASSUME NEW t, IsTree(t), NEW k \in Key, NEW v \in Val
    PROVE  IsTree(Inserted(t, k, v)) /\ RowPut(t.pages, Inserted(t, k, v).pages, k, v)
<1>1. PICK h : Good(t.pages, h)
  BY DEF IsTree
<1>2. PICK path, below : IsInsertion(t, k, v, path, below)
  BY InsertedIs
<1> QED BY <1>1, <1>2, InsertionGrowsTree

-----------------------------------------------------------------------------
(* Deletion.                                                               *)
LEMMA RemovalKeepsLeaf ==
    ASSUME NEW s, LeafCells(s), NEW x \in 1..Len(s), NEW t \in Seq(CellSet), ShiftedOut(t, s, x)
    PROVE  LeafCells(t) /\ Len(t) <= Len(s)
<1> DEFINE from(i) == IF i < x THEN i ELSE i + 1
<1>1. Len(s) \in Nat /\ s \in Seq(CellSet) /\ CellsAscend(s) /\ \A i \in 1..Len(s) : s[i].left = NoPage
  BY DEF LeafCells
<1>2. Len(t) = Len(s) - 1
  BY DEF ShiftedOut
<1>3. ASSUME NEW i \in 1..Len(t) PROVE from(i) \in 1..Len(s) /\ t[i] = s[from(i)]
  <2>1. i \in 1..(Len(s) - 1) /\ i \in 1..Len(s) /\ i + 1 \in 1..Len(s)
    BY <1>1, <1>2
  <2> QED BY <2>1 DEF ShiftedOut
<1>4. ASSUME NEW i \in 1..Len(t), NEW j \in 1..Len(t), i < j PROVE from(i) < from(j)
  BY <1>1, <1>2, <1>4
<1> HIDE DEF from
<1>5. CellsAscend(t)
  <2> SUFFICES ASSUME NEW i \in 1..Len(t), NEW j \in 1..Len(t), i < j PROVE t[i].key < t[j].key
    BY DEF CellsAscend
  <2>1. s[from(i)].key < s[from(j)].key
    BY <1>1, <1>3, <1>4 DEF CellsAscend
  <2> QED BY <1>3, <2>1
<1>6. \A i \in 1..Len(t) : t[i].left = NoPage
  BY <1>1, <1>3
<1> QED BY <1>1, <1>2, <1>5, <1>6 DEF LeafCells

LEMMA LeafShrinks ==
    ASSUME NEW ps, NEW h, Good(ps, h), NEW p \in 1..Len(ps), ps[p].leaf,
           NEW x \in 1..Len(ps[p].cells), NEW t \in Seq(CellSet), ShiftedOut(t, ps[p].cells, x)
    PROVE  /\ Rewritten(ps, h, p, [ps EXCEPT ![p] = [ps[p] EXCEPT !.cells = t]])
           /\ RowTaken(ps, [ps EXCEPT ![p] = [ps[p] EXCEPT !.cells = t]], ps[p].cells[x].key)
<1> DEFINE s == ps[p].cells
           m == ps[p].laid
<1>1. /\ ps[p] \in Page /\ ps[p] = LeafOf(s, m) /\ LeafCells(s) /\ Fits(ps[p])
      /\ Len(s) \in Nat /\ m \in Nat
  BY GoodPage, PageIsLeafOf
<1>2. LeafCells(t) /\ Len(t) <= Len(s) /\ Len(t) \in Nat
  BY <1>1, RemovalKeepsLeaf
<1>3. FitsWith(t, m)
  <2> DEFINE a == Len(t)
             b == Len(s)
  <2>1. a \in Nat /\ b \in Nat /\ a <= b /\ b <= m /\ PtrSize * b + CellSize * m <= Room
        /\ PtrSize \in Nat /\ CellSize \in Nat /\ Room \in Nat
    BY <1>1, <1>2, TreeAssumption DEF Fits
  <2> HIDE DEF a, b, m
  <2>2. PtrSize * a <= PtrSize * b
    BY <2>1, TimesGrows
  <2>3. PtrSize * a \in Nat /\ PtrSize * b \in Nat /\ CellSize * m \in Nat
    BY <1>1, <2>1
  <2>4. a <= m /\ PtrSize * a + CellSize * m <= Room
    BY <1>1, <2>1, <2>2, <2>3
  <2> QED BY <2>4 DEF FitsWith, a
<1>4. [ps[p] EXCEPT !.cells = t] = LeafOf(t, m)
  <2> HIDE DEF s, m
  <2>1. [ps[p] EXCEPT !.cells = t] = [leaf |-> ps[p].leaf, cells |-> t, right |-> ps[p].right, laid |-> m]
    BY <1>1, RewrittenIs DEF m
  <2>2. ps[p].leaf = TRUE /\ ps[p].right = NoPage
    BY <1>1 DEF LeafOf
  <2> QED BY <2>1, <2>2 DEF LeafOf
<1> HIDE DEF m
<1> DEFINE qs == [ps EXCEPT ![p] = LeafOf(t, m)]
<1>5. Rewritten(ps, h, p, qs) /\ Differs(ps, qs, p) /\ qs[p] = LeafOf(t, m)
  BY <1>1, <1>2, <1>3, LeafRewritten
<1> HIDE DEF qs, s
<1>6. \A y, w : (On(ps[p], y, w) <=> Has(s, y, w)) /\ (On(qs[p], y, w) <=> Has(t, y, w))
  BY <1>5 DEF On, LeafOf, s
<1>7. s \in Seq(CellSet) /\ CellsAscend(s) /\ x \in 1..Len(s) /\ ShiftedOut(t, s, x)
  BY <1>1 DEF LeafCells, s
<1>8. \A y, w : Has(t, y, w) <=> Has(s, y, w) /\ y # s[x].key
  BY <1>7, RemovedHas
<1>9. RowTaken(ps, qs, s[x].key)
  <2> DEFINE k == s[x].key
  <2>1. Holds(ps[p], k)
    <3>1. Has(s, k, s[x].val)
      BY <1>7 DEF Has
    <3> HIDE DEF k
    <3> QED BY <1>6, <3>1 DEF Holds
  <2>2. ~Holds(qs[p], k) /\ \A y, w : y # k => (On(qs[p], y, w) <=> On(ps[p], y, w))
    BY <1>6, <1>8 DEF Holds
  <2>3. Len(ps) \in Nat
    BY DEF Good
  <2> HIDE DEF k
  <2>4. RowTaken(ps, qs, k)
    BY <1>5, <2>1, <2>2, <2>3, PageGivesRow
  <2> QED BY <2>4 DEF k
<1> QED BY <1>4, <1>5, <1>9 DEF qs, s

(* A cell of an internal page changes, but not what it leads to.           *)
LEMMA SeparatorChanges ==
    ASSUME NEW ps, NEW h, Good(ps, h), NEW p \in 1..Len(ps), ~ps[p].leaf,
           NEW x \in 1..Len(ps[p].cells), NEW d \in CellSet, d.left = ps[p].cells[x].left,
           NEW t, t = [ps[p].cells EXCEPT ![x] = d]
    PROVE  /\ Rewritten(ps, h, p, [ps EXCEPT ![p] = [ps[p] EXCEPT !.cells = t]])
           /\ SameLeaves(ps, [ps EXCEPT ![p] = [ps[p] EXCEPT !.cells = t]])
<1> DEFINE s == ps[p].cells
           r == ps[p].right
           m == Len(s)
           pg == InternalOf(t, r, m)
           one == [ps EXCEPT ![p] = pg]
           N == Len(ps)
<1>1. /\ ps[p] \in Page /\ ps[p].leaf = FALSE /\ ps[p].laid = m /\ Fits(ps[p])
      /\ s \in Seq(CellSet) /\ m \in Nat /\ r \in Nat /\ s # << >>
      /\ KidsOf(ps[p]) = Lefts(s) \union {r} /\ KidsOf(ps[p]) \subseteq 1..N
      /\ OwnLefts(s) /\ r \notin Lefts(s) /\ N \in Nat
  BY PageIsInternalOf, GoodPage
<1>2. t \in Seq(CellSet) /\ Len(t) = m /\ \A i \in 1..m : t[i] = IF i = x THEN d ELSE s[i]
  <2> DEFINE q == ps[p].cells
  <2>1. x \in 1..Len(q) /\ q \in Seq(CellSet) /\ t = [q EXCEPT ![x] = d]
    BY <1>1
  <2> HIDE DEF q
  <2> QED BY <2>1, ExceptSeq DEF q
<1> HIDE DEF s, r
<1>3. \A i \in 1..m : t[i].left = s[i].left
  BY <1>2 DEF s
<1>4. Lefts(t) = Lefts(s) /\ OwnLefts(t)
  <2>1. Len(s) = m
    OBVIOUS
  <2> HIDE DEF m, s
  <2>2. Lefts(t) = Lefts(s)
    <3>1. Len(t) = m
      BY <1>2
    <3> QED BY <1>3, <2>1, <3>1 DEF Lefts
  <2>3. OwnLefts(t)
    <3> SUFFICES ASSUME NEW i \in 1..m, NEW j \in 1..m, t[i].left = t[j].left PROVE i = j
      BY <1>2 DEF OwnLefts
    <3>1. s[i].left = s[j].left
      BY <1>3
    <3> QED BY <1>1, <2>1, <3>1 DEF OwnLefts
  <2> QED BY <2>2, <2>3
<1>5. t # << >>
  <2>1. m # 0 /\ Len(<< >>) = 0
    BY <1>1, EmptySeq
  <2> HIDE DEF m
  <2> QED BY <1>2, <2>1
<1>6. FitsWith(t, m)
  <2>1. Len(ps[p].cells) = m
    BY DEF s
  <2> HIDE DEF m
  <2> QED BY <1>1, <1>2, <2>1 DEF Fits, FitsWith
<1> HIDE DEF m, N
<1>7. PageOK(pg, N) /\ pg.leaf = FALSE /\ OwnKids(pg) /\ KidsOf(pg) = KidsOf(ps[p])
  <2>1. Lefts(t) \union {r} \subseteq 1..N
    BY <1>1, <1>4
  <2>2. /\ pg.leaf = FALSE /\ KidsOf(pg) = Lefts(t) \union {r} /\ OwnKids(pg)
        /\ PageOK(pg, N)
    BY <1>1, <1>2, <1>4, <1>5, <1>6, <2>1, InternalOfIsPage
  <2> HIDE DEF pg
  <2> QED BY <1>1, <1>4, <2>2
<1>8. [ps[p] EXCEPT !.cells = t] = pg
  <2>1. [ps[p] EXCEPT !.cells = t] = [leaf |-> ps[p].leaf, cells |-> t, right |-> ps[p].right, laid |-> ps[p].laid]
    BY <1>1, RewrittenIs
  <2> QED BY <1>1, <2>1 DEF InternalOf, r
<1> HIDE DEF pg
<1>9. Swapped(ps, h, p, pg, one)
  <2> DEFINE F == {}
  <2>1. \A f \in F : Free(ps, f) /\ h[p] = h[f] + 1
    OBVIOUS
  <2>2. KidsOf(pg) \subseteq KidsOf(ps[p]) \union F /\ pg.leaf = ps[p].leaf /\ PageOK(pg, Len(ps))
    BY <1>1, <1>7 DEF N
  <2> HIDE DEF F
  <2> QED BY <1>7, <2>1, <2>2, Replaced
<1> HIDE DEF one
<1>10. Rewritten(ps, h, p, one)
  <2>1. ASSUME NEW y, Free(ps, y) PROVE Free(one, y)
    <3>1. y \notin KidsOf(pg)
      BY <1>7, <2>1 DEF Free
    <3> QED BY <1>9, <2>1, <3>1 DEF Swapped
  <2> QED BY <1>9, <2>1 DEF Swapped, Rewritten
<1>11. SameLeaves(ps, one)
  <2>1. one[p] = pg /\ Len(one) = Len(ps) /\ \A q \in 1..Len(ps) : q # p => one[q] = ps[q]
    BY <1>9 DEF Swapped
  <2>2. Len(ps) \in Nat
    BY DEF Good
  <2> QED BY <1>1, <1>7, <2>1, <2>2 DEF SameLeaves
<1> QED BY <1>8, <1>10, <1>11 DEF one

LEMMA RewritingKeepsTree ==
    ASSUME NEW t, IsTree(t), NEW h, NEW p, NEW qs, Rewritten(t.pages, h, p, qs)
    PROVE  IsTree([root |-> t.root, pages |-> qs])
<1> DEFINE tr == [root |-> t.root, pages |-> qs]
<1>1. Good(qs, h) /\ Len(qs) = Len(t.pages) /\ \A r : Free(t.pages, r) => Free(qs, r)
  BY DEF Rewritten
<1>2. t.root \in Nat /\ qs \in Seq(Page)
  BY <1>1 DEF IsTree, Good
<1>3. tr.root = t.root /\ tr.pages = qs /\ tr \in [root : Nat, pages : Seq(Page)]
  BY <1>2
<1> HIDE DEF tr
<1>4. IsTree(tr)
  BY <1>1, <1>3 DEF IsTree
<1> QED BY <1>4 DEF tr

LEMMA PagesReplaced ==
    ASSUME NEW R, NEW P, NEW t \in [root : R, pages : P], NEW qs
    PROVE  [t EXCEPT !.pages = qs] = [root |-> t.root, pages |-> qs]
OBVIOUS

(* The page deleteFrom works on has a cell of the key.                     *)
LEMMA MeetsFinds ==
    ASSUME NEW t, IsTree(t), NEW k \in Key, Meets(t, k) # NoPage
    PROVE  /\ Meets(t, k) \in 1..Len(t.pages)
           /\ Search(Keys(t.pages[Meets(t, k)]), k).idx + 1 \in 1..Len(t.pages[Meets(t, k)].cells)
           /\ t.pages[Meets(t, k)].cells[Search(Keys(t.pages[Meets(t, k)]), k).idx + 1].key = k
<1> DEFINE ps == t.pages
           path == PathTo(t.pages, t.root, k)
           has == {i \in DOMAIN path : Search(Keys(ps[path[i]]), k).found}
           at == CHOOSE i \in has : \A j \in has : i <= j
           p == Meets(t, k)
<1>1. PICK h : Good(ps, h)
  BY DEF IsTree
<1>2. IsPath(ps, k, t.root, path)
  BY <1>1, PathFound DEF IsTree
<1>3. p = IF has = {} THEN NoPage ELSE path[at]
  BY DEF Meets
<1> HIDE DEF path, p
<1>4. has # {} /\ p = path[at]
  BY <1>3 DEF p
<1>5. path \in Seq(1..Len(ps)) /\ DOMAIN path \subseteq Nat /\ \A i \in DOMAIN path : path[i] \in 1..Len(ps)
  BY <1>2 DEF IsPath
<1>6. at \in has
  <2>1. \E i \in has : \A j \in has : i <= j
    <3>1. has \subseteq Nat
      BY <1>5
    <3> HIDE DEF has
    <3> QED BY <1>4, <3>1, LeastNumber
  <2> HIDE DEF has
  <2> QED BY <2>1
<1> HIDE DEF at
<1>7. p \in 1..Len(ps) /\ Search(Keys(ps[p]), k).found
  BY <1>4, <1>5, <1>6
<1>8. /\ Search(Keys(ps[p]), k).idx + 1 \in 1..Len(ps[p].cells)
      /\ ps[p].cells[Search(Keys(ps[p]), k).idx + 1].key = k
  <2> DEFINE ks == Keys(ps[p])
             a == Search(ks, k)
  <2>1. ks \in Seq(Int) /\ Len(ks) = Len(ps[p].cells) /\ Len(ks) \in Nat
    BY <1>1, <1>7, GoodPage, KeysOfPage
  <2>0. \A i \in 1..Len(ps[p].cells) : ks[i] = ps[p].cells[i].key
    BY <1>1, <1>7, GoodPage, KeysOfPage
  <2>2. k \in Int
    BY TreeAssumption
  <2>3. a.found
    BY <1>7
  <2> HIDE DEF ks
  <2>4. a.idx \in 0..Len(ks) /\ a.idx < Len(ks) /\ ks[a.idx + 1] = k
    BY <2>1, <2>2, <2>3, SearchAnswers DEF IsAnswer
  <2> HIDE DEF a
  <2>5. a.idx + 1 \in 1..Len(ps[p].cells) /\ ps[p].cells[a.idx + 1].key = k
    BY <2>0, <2>1, <2>4
  <2> QED BY <2>5 DEF a, ks
<1> QED BY <1>7, <1>8 DEF p, ps

(* A deletion that is not refused leaves a tree.                           *)
LEMMA DeletionKeepsTree ==
    ASSUME NEW t, IsTree(t), NEW k \in Key, Meets(t, k) # NoPage, ~DeleteFails(t, k)
    PROVE  /\ IsTree(Deleted(t, k)) /\ Len(Deleted(t, k).pages) = Len(t.pages)
           /\ \E x : /\ RowTaken(t.pages, Deleted(t, k).pages, x)
                     /\ t.pages[Meets(t, k)].leaf => x = k
<1> DEFINE ps == t.pages
           p == Meets(t, k)
           x == Search(Keys(ps[p]), k).idx + 1
           s == ps[p].cells
<1>1. PICK h : Good(ps, h)
  BY DEF IsTree
<1>2. p \in 1..Len(ps) /\ x \in 1..Len(s)
  BY MeetsFinds
<1>0. s[x].key = k
  BY MeetsFinds
<1>3. /\ t = [root |-> t.root, pages |-> ps] /\ ps \in Seq(Page)
      /\ s \in Seq(CellSet) /\ Len(s) \in Nat /\ \A i \in 1..Len(s) : s[i] \in CellSet
  BY <1>1, <1>2, GoodPage DEF IsTree
<1>4. CASE ps[p].leaf
  <2> DEFINE r == RemoveAt(s, x)
             qs == [ps EXCEPT ![p] = [ps[p] EXCEPT !.cells = r]]
  <2>1. r \in Seq(CellSet) /\ ShiftedOut(r, s, x)
    <3> HIDE DEF s, x
    <3> QED BY <1>2, <1>3, RemoveAtProperties
  <2>2. Deleted(t, k) = [t EXCEPT !.pages = qs]
    BY <1>2, <1>3, <1>4 DEF Deleted
  <2>3. Rewritten(ps, h, p, qs) /\ RowTaken(ps, qs, s[x].key)
    <3> HIDE DEF r, x, p, ps
    <3> QED BY <1>1, <1>2, <1>4, <2>1, LeafShrinks
  <2> HIDE DEF qs
  <2>4. [t EXCEPT !.pages = qs] = [root |-> t.root, pages |-> qs]
    BY PagesReplaced DEF IsTree
  <2> HIDE DEF p
  <2>5. IsTree([root |-> t.root, pages |-> qs])
    BY <2>3, RewritingKeepsTree
  <2>6. RowTaken(t.pages, Deleted(t, k).pages, s[x].key)
    BY <2>2, <2>3, <2>4
  <2>7. Len(Deleted(t, k).pages) = Len(t.pages)
    <3>1. Len(qs) = Len(t.pages)
      BY <2>3 DEF Rewritten
    <3> QED BY <2>2, <2>4, <3>1
  <2> QED BY <1>0, <2>2, <2>4, <2>5, <2>6, <2>7
<1>5. CASE ~ps[p].leaf
  <2> DEFINE c == s[x]
             l == Leftmost(ps, c.left)
             fst == ps[l].cells[1]
             d == Cell(fst.key, fst.val, c.left)
             u == [s EXCEPT ![x] = d]
             one == [ps EXCEPT ![p] = [ps[p] EXCEPT !.cells = u]]
             rest == Tail(ps[l].cells)
             two == [one EXCEPT ![l] = [one[l] EXCEPT !.cells = rest]]
  <2>1. c.left \in 1..Len(ps)
    <3>1. KidsOf(ps[p]) = Lefts(s) \union {ps[p].right} /\ KidsOf(ps[p]) \subseteq 1..Len(ps)
      BY <1>1, <1>2, <1>5, PageIsInternalOf
    <3>2. c.left \in Lefts(s)
      <4> HIDE DEF s, x
      <4> QED BY <1>2 DEF Lefts
    <3> QED BY <3>1, <3>2
  <2>2. l \in 1..Len(ps) /\ ps[l].leaf
    BY <1>1, <2>1, LeftmostIsLeaf
  <2>3. ps[l].cells # << >>
    <3>1. p # NoPage /\ ~ps[p].leaf
      BY <1>5
    <3>2. DeleteFails(t, k) <=> ps[l].cells = << >>
      BY <3>1 DEF DeleteFails
    <3> QED BY <3>2
  <2> HIDE DEF c, l, x
  <2>4. ps[l].cells \in Seq(CellSet) /\ Len(ps[l].cells) \in Nat \ {0} /\ fst \in CellSet
    <3>1. ps[l].cells \in Seq(CellSet)
      BY <1>1, <2>2, GoodPage
    <3>2. Len(ps[l].cells) \in Nat \ {0}
      BY <2>3, <3>1, EmptySeq
    <3> QED BY <3>1, <3>2
  <2>5. d \in CellSet /\ d.left = c.left
    <3>1. c.left \in Nat
      BY <1>3, <2>1
    <3> HIDE DEF fst
    <3> QED BY <2>4, <3>1 DEF CellSet, Cell
  <2> HIDE DEF fst, d
  <2>6. Rewritten(ps, h, p, one) /\ SameLeaves(ps, one)
    <3>1. d.left = ps[p].cells[x].left
      BY <2>5 DEF c
    <3> HIDE DEF p, ps
    <3> QED BY <1>1, <1>2, <1>5, <2>5, <3>1, SeparatorChanges
  <2>7. l # p
    BY <1>5, <2>2
  <2> HIDE DEF one
  <2>8. one[l] = ps[l] /\ l \in 1..Len(one) /\ one[l].leaf /\ Good(one, h)
    BY <2>2, <2>6, <2>7 DEF Rewritten
  <2>9. rest \in Seq(CellSet) /\ ShiftedOut(rest, one[l].cells, 1) /\ 1 \in 1..Len(one[l].cells)
    <3> DEFINE q == ps[l].cells
    <3>1. q \in Seq(CellSet) /\ q # << >> /\ Len(q) \in Nat \ {0}
      BY <2>3, <2>4
    <3> HIDE DEF q
    <3>2. /\ Tail(q) \in Seq(CellSet) /\ Len(Tail(q)) = Len(q) - 1
          /\ \A i \in 1..Len(Tail(q)) : Tail(q)[i] = q[i + 1]
      BY <3>1, HeadTailProperties
    <3>3. ShiftedOut(Tail(q), q, 1)
      BY <3>1, <3>2 DEF ShiftedOut
    <3> QED BY <2>8, <3>1, <3>2, <3>3 DEF q
  <2> HIDE DEF rest
  <2>10. Rewritten(one, h, l, two) /\ RowTaken(one, two, one[l].cells[1].key)
    BY <2>8, <2>9, LeafShrinks
  <2>11. Deleted(t, k) = [[t EXCEPT !.pages = one] EXCEPT !.pages = two]
    <3>1. Deleted(t, k) = [t EXCEPT !.pages[p].cells[x] = Cell(fst.key, fst.val, @.left),
                                    !.pages[l].cells = Tail(@)]
      BY <1>5 DEF Deleted, x, l, c, fst
    <3> DEFINE a == [t EXCEPT !.pages[p].cells[x] = Cell(fst.key, fst.val, @.left)]
    <3>2. a = [t EXCEPT !.pages = one]
      BY <1>2, <1>3 DEF one, c, d
    <3>3. a.pages = one
      <4> HIDE DEF a
      <4> QED BY <1>3, <3>2
    <3>4. Deleted(t, k) = [a EXCEPT !.pages[l].cells = rest]
      <4>1. Tail(a.pages[l].cells) = rest /\ Tail(ps[l].cells) = rest
        <5> HIDE DEF a
        <5> QED BY <2>8, <3>3 DEF rest
      <4> QED BY <3>1, <4>1
    <3> HIDE DEF a
    <3>5. [a EXCEPT !.pages[l].cells = rest] = [a EXCEPT !.pages = two]
      BY <2>8, <3>3
    <3> QED BY <3>2, <3>4, <3>5
  <2> HIDE DEF two
  <2>12. [[t EXCEPT !.pages = one] EXCEPT !.pages = two] = [root |-> t.root, pages |-> two]
    <3>1. [t EXCEPT !.pages = one] = [root |-> t.root, pages |-> one]
      BY PagesReplaced DEF IsTree
    <3>2. [[root |-> t.root, pages |-> one] EXCEPT !.pages = two] = [root |-> t.root, pages |-> two]
      OBVIOUS
    <3> QED BY <3>1, <3>2
  <2>13. IsTree([root |-> t.root, pages |-> one])
    BY <2>6, RewritingKeepsTree
  <2> DEFINE mid == [root |-> t.root, pages |-> one]
  <2>14. mid.root = t.root /\ mid.pages = one
    OBVIOUS
  <2> HIDE DEF mid
  <2>15. IsTree([root |-> mid.root, pages |-> two])
    BY <2>10, <2>13, <2>14, RewritingKeepsTree DEF mid
  <2>16. RowTaken(ps, two, one[l].cells[1].key)
    <3>1. \A y : SameRows(ps, one, y)
      BY <2>6, LeavesHoldRows
    <3> QED BY <2>10, <3>1 DEF RowTaken, SameRows
  <2>17. Deleted(t, k) = [root |-> t.root, pages |-> two]
    BY <2>11, <2>12
  <2>18. Len(two) = Len(ps)
    BY <2>6, <2>10 DEF Rewritten
  <2>19. IsTree(Deleted(t, k)) /\ Deleted(t, k).pages = two
    BY <2>14, <2>15, <2>17
  <2> HIDE DEF p
  <2> QED BY <1>5, <2>16, <2>18, <2>19 DEF p
<1> QED BY <1>4, <1>5

-----------------------------------------------------------------------------
(* The tree a run starts with.                                             *)
LEMMA EmptyIsTree == IsTree(EmptyTree)
<1> DEFINE s == << >>
           m == 0
           pg == LeafOf(s, m)
           ps == <<pg>>
           h == [q \in 1..1 |-> 0]
<1>1. LeafCells(s) /\ Len(s) = m /\ m \in Nat
  BY DEF LeafCells, CellsAscend
<1>2. FitsWith(s, m)
  <2>1. Room \in Nat /\ PtrSize \in Nat /\ CellSize \in Nat /\ PtrSize * 0 = 0 /\ CellSize * 0 = 0
    BY TreeAssumption
  <2>2. PtrSize * Len(s) = 0 /\ CellSize * m = 0
    BY <2>1
  <2> HIDE DEF s
  <2> QED BY <1>1, <2>1, <2>2 DEF FitsWith
<1>3. Leaf(s) = pg
  BY <1>1 DEF Leaf, LeafOf
<1> HIDE DEF s, m
<1>4. pg \in Page /\ PageOK(pg, 1) /\ KidsOf(pg) = {} /\ OwnKids(pg) /\ pg.leaf = TRUE
  <2> DEFINE n == 1
  <2>1. pg \in Page /\ PageOK(pg, n) /\ KidsOf(pg) = {} /\ OwnKids(pg)
    <3> HIDE DEF n
    <3> QED BY <1>1, <1>2, LeafOfIsPage
  <2> QED BY <2>1 DEF LeafOf
<1> HIDE DEF pg
<1>5. ps \in Seq(Page) /\ Len(ps) = 1 /\ ps[1] = pg
  BY <1>4
<1>6. \A q \in 1..1 : q = 1
  OBVIOUS
<1>7. h \in [1..1 -> Nat] /\ \A q \in 1..1 : h[q] = 0
  OBVIOUS
<1> HIDE DEF ps, h
<1>8. \A q \in 1..Len(ps) : ps[q] = pg
  BY <1>5, <1>6
<1>9. Apart(ps) /\ Free(ps, 1)
  BY <1>4, <1>5, <1>6, <1>8 DEF Apart, Free
<1>10. Ranked(ps, h)
  BY <1>4, <1>5, <1>7, <1>8 DEF Ranked
<1>11. Good(ps, h)
  BY <1>4, <1>5, <1>8, <1>9, <1>10 DEF Good
<1> DEFINE t == [root |-> 1, pages |-> ps]
<1>12. t.root = 1 /\ t.pages = ps /\ t \in [root : Nat, pages : Seq(Page)] /\ 1 \in 1..Len(ps)
  BY <1>5
<1>13. EmptyTree = t
  BY <1>3 DEF EmptyTree, ps, s
<1> HIDE DEF t
<1>14. IsTree(t)
  BY <1>9, <1>11, <1>12 DEF IsTree
<1> QED BY <1>13, <1>14

(* The trees on the way to a loaded one.                                   *)
Loading(load, up) ==
    /\ up[0] = EmptyTree /\ Loaded(load) = up[Len(load)]
    /\ \A n \in Nat : n < Len(load) => up[n + 1] = Inserted(up[n], load[n + 1], AnyVal) /\ load[n + 1] \in Key

LEMMA LoadedByInsertions ==
    ASSUME NEW load \in Seq(Key)
    PROVE  \E up : Loading(load, up)
<1> DEFINE Trees == {t \in [root : Nat, pages : Seq(Page)] : IsTree(t)}
           L == Len(load)
           D == 0..L
           size == [n \in D |-> n]
           Value(n, f) == IF n = 0 THEN EmptyTree ELSE Inserted(f[n - 1], load[n], AnyVal)
           step == [x \in D \X [D -> Trees] |-> Value(x[1], x[2])]
           Loads1(f) == f = [n \in D |-> Value(n, f)]
           upTo == CHOOSE f : Loads1(f)
<1>1. L \in Nat /\ \A n \in D : n # 0 => n - 1 \in D /\ n - 1 < n /\ load[n] \in Key
  OBVIOUS
<1>2. AnyVal \in Val
  BY TreeAssumption DEF AnyVal
<1>3. \A t : IsTree(t) => t \in Trees
  BY DEF IsTree
<1>4. EmptyTree \in Trees /\ size \in [D -> Nat] /\ \A n \in D : size[n] = n
  BY <1>1, <1>3, EmptyIsTree
<1>5. \A t \in Trees : IsTree(t)
  OBVIOUS
<1> HIDE DEF Trees, D, size
<1>6. step \in MeasuredSteps(D, Trees)
  <2>1. ASSUME NEW n \in D, NEW f \in [D -> Trees] PROVE Value(n, f) \in Trees
    <3>1. ASSUME n # 0 PROVE Inserted(f[n - 1], load[n], AnyVal) \in Trees
      <4>1. f[n - 1] \in Trees /\ load[n] \in Key
        BY <1>1, <3>1
      <4> DEFINE t == f[n - 1]
      <4>2. IsTree(t)
        BY <1>5, <4>1
      <4> HIDE DEF t
      <4>3. IsTree(Inserted(t, load[n], AnyVal))
        BY <1>2, <4>1, <4>2, InsertionKeepsTree
      <4> QED BY <1>3, <4>3 DEF t
    <3> QED BY <1>4, <3>1
  <2> HIDE DEF Value
  <2> QED BY <2>1 DEF MeasuredSteps
<1>7. LooksBelow(D, Trees, size, step)
  <2>1. ASSUME NEW n \in D, NEW f \in [D -> Trees], NEW g \in [D -> Trees],
               \A e \in D : size[e] < size[n] => f[e] = g[e]
        PROVE  Value(n, f) = Value(n, g)
    <3>1. n # 0 => f[n - 1] = g[n - 1]
      BY <1>1, <1>4, <2>1
    <3> QED BY <3>1
  <2> HIDE DEF Value
  <2> QED BY <2>1 DEF LooksBelow
<1>8. PICK f \in [D -> Trees] : \A n \in D : f[n] = step[<<n, f>>]
  <2> HIDE DEF step
  <2> QED BY <1>4, <1>6, <1>7, MeasuredRecursion
<1>9. Loads1(upTo)
  <2>1. Loads1(f)
    <3> HIDE DEF Value
    <3> QED BY <1>8
  <2> HIDE DEF Loads1
  <2> QED BY <2>1
<1>10. Loaded(load) = upTo[L]
  BY DEF Loaded, D
<1>11. \A n \in D : upTo[n] = Value(n, upTo)
  <2> HIDE DEF upTo, Value
  <2> QED BY <1>9
<1> HIDE DEF upTo
<1>12. upTo[0] = EmptyTree
  <2>1. 0 \in D
    BY <1>1 DEF D
  <2> QED BY <1>11, <2>1
<1>13. ASSUME NEW n \in Nat, n < L PROVE upTo[n + 1] = Inserted(upTo[n], load[n + 1], AnyVal) /\ load[n + 1] \in Key
  <2> DEFINE m == n + 1
  <2>1. m \in D /\ m # 0 /\ m - 1 = n
    BY <1>1, <1>13 DEF D
  <2>2. load[m] \in Key
    BY <1>1, <2>1
  <2>3. upTo[m] = Inserted(upTo[n], load[m], AnyVal)
    <3> HIDE DEF m
    <3> QED BY <1>11, <2>1
  <2> QED BY <2>2, <2>3
<1>14. Loading(load, upTo)
  BY <1>10, <1>12, <1>13 DEF Loading
<1> QED BY <1>14

LEMMA LoadedIsTree ==
    ASSUME NEW load \in Seq(Key)
    PROVE  IsTree(Loaded(load)) /\ (Len(load) = 0 => Loaded(load) = EmptyTree)
<1> DEFINE L == Len(load)
<1>1. PICK up : Loading(load, up)
  BY LoadedByInsertions
<1>2. /\ up[0] = EmptyTree /\ Loaded(load) = up[L] /\ L \in Nat
      /\ \A n \in Nat : n < L => up[n + 1] = Inserted(up[n], load[n + 1], AnyVal) /\ load[n + 1] \in Key
  BY <1>1 DEF Loading
<1>3. AnyVal \in Val
  BY TreeAssumption DEF AnyVal
<1> HIDE DEF L
<1> DEFINE Done == {n \in Nat : n <= L => IsTree(up[n])}
<1>4. 0 \in Done
  BY <1>2, EmptyIsTree
<1>5. ASSUME NEW n \in Nat, n \in Done PROVE n + 1 \in Done
  <2> SUFFICES ASSUME n + 1 <= L PROVE IsTree(up[n + 1])
    OBVIOUS
  <2>1. n < L /\ n <= L
    BY <1>2
  <2> DEFINE t == up[n]
             k == load[n + 1]
  <2>2. IsTree(t) /\ k \in Key /\ up[n + 1] = Inserted(t, k, AnyVal)
    BY <1>2, <1>5, <2>1
  <2> HIDE DEF t, k
  <2> QED BY <1>3, <2>2, InsertionKeepsTree
<1>6. Nat \subseteq Done
  <2> HIDE DEF Done
  <2> QED BY <1>4, <1>5, SetInduction
<1>7. IsTree(up[L])
  BY <1>2, <1>6
<1> QED BY <1>2, <1>7 DEF L

-----------------------------------------------------------------------------
(* The inductive invariant.                                                *)
TreeInv ==
    /\ IsTree(tree)
    /\ done \in BOOLEAN /\ appended \in BOOLEAN /\ ops \in 0..MaxOps
    /\ DOMAIN stored \subseteq Key

LEMMA InitTree == Init => TreeInv
<1> SUFFICES ASSUME Init PROVE TreeInv
  OBVIOUS
<1>1. PICK load \in Loads :
         /\ tree = Loaded(load)
         /\ stored = [k \in ToSet(load) |-> AnyVal]
         /\ appended = \A i, j \in DOMAIN load : i < j => load[i] < load[j]
  BY DEF Init
<1>2. load \in Seq(Key)
  BY TreeAssumption
<1>3. IsTree(tree)
  BY <1>1, <1>2, LoadedIsTree
<1>4. appended \in BOOLEAN
  <2> DEFINE rising == \A i, j \in DOMAIN load : i < j => load[i] < load[j]
  <2>1. rising \in BOOLEAN
    OBVIOUS
  <2> HIDE DEF rising
  <2>2. appended = rising
    BY <1>1 DEF rising
  <2> QED BY <2>1, <2>2
<1>5. DOMAIN stored \subseteq Key
  <2>1. ToSet(load) \subseteq Key
    BY <1>2 DEF ToSet
  <2> QED BY <1>1, <2>1
<1>6. done \in BOOLEAN /\ ops \in 0..MaxOps
  BY TreeAssumption DEF Init
<1> QED BY <1>3, <1>4, <1>5, <1>6 DEF TreeInv

LEMMA InsertTree ==
    ASSUME TreeInv, NEW k \in Key, NEW v \in Val, Insert(k, v)
    PROVE  TreeInv'
<1>1. IsTree(tree)'
  <2>1. \A t : IsTree(t) => IsTree(Inserted(t, k, v))
    BY InsertionKeepsTree
  <2>2. tree' = Inserted(tree, k, v)
    BY DEF Insert
  <2> QED BY <2>1, <2>2 DEF TreeInv
<1>2. done' \in BOOLEAN /\ ops' \in 0..MaxOps
  BY TreeAssumption DEF TreeInv, Insert
<1>3. appended' \in BOOLEAN
  <2> DEFINE above == \A x \in DOMAIN stored : x < k
  <2>1. above \in BOOLEAN
    OBVIOUS
  <2>2. appended' = (appended /\ above)
    BY DEF Insert
  <2> HIDE DEF above
  <2> QED BY <2>1, <2>2 DEF TreeInv
<1>4. DOMAIN stored' \subseteq Key
  BY DEF TreeInv, Insert, Written
<1> QED BY <1>1, <1>2, <1>3, <1>4 DEF TreeInv

LEMMA DeleteTree ==
    ASSUME TreeInv, NEW k \in Key, Delete(k)
    PROVE  TreeInv'
<1>1. IsTree(tree)'
  <2>1. \A t : IsTree(t) /\ Meets(t, k) # NoPage /\ ~DeleteFails(t, k) => IsTree(Deleted(t, k))
    BY DeletionKeepsTree
  <2>2. tree' = Deleted(tree, k) /\ Meets(tree, k) # NoPage /\ ~DeleteFails(tree, k)
    BY DEF Delete
  <2> QED BY <2>1, <2>2 DEF TreeInv
<1>2. done' \in BOOLEAN /\ appended' \in BOOLEAN /\ ops' \in 0..MaxOps
  <2>1. done' \in BOOLEAN
    BY DEF Delete
  <2>2. appended' \in BOOLEAN
    BY DEF Delete
  <2>3. ops' \in 0..MaxOps
    BY TreeAssumption DEF TreeInv, Delete
  <2> QED BY <2>1, <2>2, <2>3
<1>3. DOMAIN stored' \subseteq Key
  BY DEF TreeInv, Delete
<1> QED BY <1>1, <1>2, <1>3 DEF TreeInv

(* What leaves the tree alone.                                             *)
LEMMA ReplyTree ==
    ASSUME TreeInv, UNCHANGED <<tree, stored, appended, ops>>, done' \in BOOLEAN
    PROVE  TreeInv'
BY DEF TreeInv

LEMMA StepTree == TreeInv /\ [Changes \/ Reads]_vars => TreeInv'
<1> SUFFICES ASSUME TreeInv, [Changes \/ Reads]_vars PROVE TreeInv'
  OBVIOUS
<1>1. CASE \E k \in Key, v \in Val : Insert(k, v)
  BY <1>1, InsertTree
<1>2. CASE \E k \in Key : Delete(k)
  BY <1>2, DeleteTree
<1>3. CASE \E k \in Key : DeleteMiss(k) \/ DeleteError(k)
  <2>1. UNCHANGED <<tree, stored, appended, ops>> /\ done' \in BOOLEAN
    BY <1>3 DEF DeleteMiss, DeleteError
  <2> QED BY <2>1, ReplyTree
<1>4. CASE Scan
  <2>1. UNCHANGED <<tree, stored, appended, ops>> /\ done' \in BOOLEAN
    BY <1>4 DEF Scan
  <2> QED BY <2>1, ReplyTree
<1>5. CASE \E k \in Key : Get(k)
  <2>1. UNCHANGED <<tree, stored, appended, ops>> /\ done' \in BOOLEAN
    BY <1>5 DEF Get
  <2> QED BY <2>1, ReplyTree
<1>6. CASE UNCHANGED vars
  <2>1. UNCHANGED <<tree, stored, appended, ops>> /\ done' \in BOOLEAN
    BY <1>6 DEF vars, TreeInv
  <2> QED BY <2>1, ReplyTree
<1> QED BY <1>1, <1>2, <1>3, <1>4, <1>5, <1>6 DEF Changes, Reads

LEMMA AlwaysTree == Spec => []TreeInv
<1> QED BY InitTree, StepTree, PTL DEF Spec

(* Whatever insertions and deletions come, and whatever pages they split,  *)
(* a page is well formed: a leaf leads nowhere, the places of an internal  *)
(* page lead to pages of the tree, and what has been laid down on a page   *)
(* fits it (insertCellIntoPage, splitLeaf, splitInternal, deleteFrom).     *)
THEOREM TreeTyped == Spec => []TypeOK
<1>1. TreeInv => TypeOK
  <2> SUFFICES ASSUME TreeInv PROVE TypeOK
    OBVIOUS
  <2> DEFINE ps == tree.pages
  <2>1. PICK h : Good(ps, h)
    BY DEF TreeInv, IsTree
  <2>2. Pages = 1..Len(ps) /\ tree.root \in Pages
    BY <2>1 DEF TreeInv, IsTree, Pages, Good
  <2> HIDE DEF ps
  <2>3. ASSUME NEW p \in Pages
        PROVE  LET pg == ps[p]
               IN  /\ pg.leaf \in BOOLEAN
                   /\ \A i \in DOMAIN pg.cells :
                        /\ pg.cells[i].key \in Key /\ pg.cells[i].val \in Val
                        /\ pg.cells[i].left \in IF pg.leaf THEN {NoPage} ELSE Pages
                   /\ pg.right \in IF pg.leaf THEN {NoPage} ELSE Pages
                   /\ Len(pg.cells) <= pg.laid
                   /\ PtrSize * Len(pg.cells) + CellSize * pg.laid <= Room
    <3> DEFINE pg == ps[p]
    <3>1. /\ pg \in Page /\ PageOK(pg, Len(ps)) /\ pg.leaf \in BOOLEAN /\ pg.cells \in Seq(CellSet)
          /\ p \in 1..Len(ps)
      BY <2>1, <2>2, GoodPage
    <3>2. pg.leaf => pg.right = NoPage /\ \A i \in 1..Len(pg.cells) : pg.cells[i].left = NoPage
      BY <3>1 DEF PageOK, LeafOK
    <3>3. ~pg.leaf => pg.right \in Pages /\ \A i \in 1..Len(pg.cells) : pg.cells[i].left \in Pages
      <4> SUFFICES ASSUME ~pg.leaf
                   PROVE  pg.right \in Pages /\ \A i \in 1..Len(pg.cells) : pg.cells[i].left \in Pages
        OBVIOUS
      <4>1. KidsOf(pg) = Lefts(pg.cells) \union {pg.right} /\ KidsOf(pg) \subseteq Pages
        BY <2>1, <2>2, <3>1, PageIsInternalOf
      <4> HIDE DEF pg
      <4> QED BY <4>1 DEF Lefts
    <3>4. Fits(pg)
      BY <3>1 DEF PageOK
    <3> HIDE DEF pg
    <3>5. DOMAIN pg.cells = 1..Len(pg.cells)
          /\ \A i \in 1..Len(pg.cells) : pg.cells[i].key \in Key /\ pg.cells[i].val \in Val
      <4>1. DOMAIN pg.cells = 1..Len(pg.cells) /\ \A i \in 1..Len(pg.cells) : pg.cells[i] \in CellSet
        BY <3>1
      <4>2. \A c \in CellSet : c.key \in Key /\ c.val \in Val
        BY DEF CellSet
      <4> QED BY <4>1, <4>2
    <3>6. /\ pg.leaf \in BOOLEAN
          /\ \A i \in DOMAIN pg.cells :
               /\ pg.cells[i].key \in Key /\ pg.cells[i].val \in Val
               /\ pg.cells[i].left \in IF pg.leaf THEN {NoPage} ELSE Pages
          /\ pg.right \in IF pg.leaf THEN {NoPage} ELSE Pages
      BY <3>1, <3>2, <3>3, <3>5
    <3> QED BY <3>4, <3>6 DEF Fits, pg
  <2> QED BY <2>2, <2>3 DEF TypeOK, TreeInv, ps
<1> QED BY <1>1, AlwaysTree, PTL

(* However splits and deletions follow each other, the keys of every leaf  *)
(* stay in order and distinct, so the binary search of a leaf is exact     *)
(* (insertLeaf, splitLeaf, deleteFrom).  Internal pages need not be in     *)
(* order: insertInto puts a separator last, wherever it belongs.           *)
THEOREM LeavesStaySorted == Spec => []LeavesSorted
<1>1. TreeInv => LeavesSorted
  <2> SUFFICES ASSUME TreeInv, NEW p \in Leaves
               PROVE  LET ks == Keys(tree.pages[p]) IN \A i, j \in DOMAIN ks : i < j => ks[i] < ks[j]
    BY DEF LeavesSorted
  <2> DEFINE ps == tree.pages
             ks == Keys(ps[p])
  <2>1. PICK h : Good(ps, h)
    BY DEF TreeInv, IsTree
  <2>2. p \in 1..Len(ps) /\ ps[p].leaf
    BY <2>1 DEF TreeInv, IsTree, Leaves, Pages, Good
  <2> HIDE DEF ps
  <2>3. PageOK(ps[p], Len(ps)) /\ ps[p] \in Page
    BY <2>1, <2>2, GoodPage
  <2>4. Ascends(ks) /\ ks \in Seq(Int)
    BY <2>2, <2>3, KeysOfPage DEF PageOK, LeafOK
  <2> HIDE DEF ks
  <2>5. \A i, j \in DOMAIN ks : i < j => ks[i] < ks[j]
    BY <2>4 DEF Ascends
  <2> QED BY <2>5 DEF ks, ps
<1> QED BY <1>1, AlwaysTree, PTL

(* No page is ever the child of two places, and the root of none, though a *)
(* split hands children from page to page and drops one (insertInto,       *)
(* splitInternal).                                                         *)
THEOREM OneParent == Spec => []SingleParent
<1>1. TreeInv => SingleParent
  <2> SUFFICES ASSUME TreeInv, NEW p \in Pages, NEW q \in Pages, NEW i \in Slots(p), NEW j \in Slots(q)
               PROVE  /\ Child(tree.pages[p], i) = Child(tree.pages[q], j) => p = q /\ i = j
                      /\ Child(tree.pages[p], i) # tree.root
    BY DEF SingleParent
  <2> DEFINE ps == tree.pages
  <2>1. PICK h : Good(ps, h)
    BY DEF TreeInv, IsTree
  <2>2. p \in 1..Len(ps) /\ q \in 1..Len(ps) /\ Free(ps, tree.root)
    BY <2>1 DEF TreeInv, IsTree, Pages, Good
  <2>3. i \in SlotsOf(ps[p]) /\ j \in SlotsOf(ps[q])
    BY DEF Slots, SlotsOf
  <2> HIDE DEF ps
  <2>4. Child(ps[p], i) \in KidsOf(ps[p]) /\ Child(ps[q], j) \in KidsOf(ps[q])
    BY <2>3 DEF KidsOf
  <2>5. Child(ps[p], i) # tree.root
    BY <2>2, <2>4 DEF Free
  <2>6. ASSUME Child(ps[p], i) = Child(ps[q], j) PROVE p = q /\ i = j
    <3>1. p = q
      BY <2>1, <2>2, <2>4, <2>6 DEF Good, Apart
    <3>2. i = j
      BY <2>1, <2>2, <2>3, <2>6, <3>1 DEF Good, Apart, OwnKids
    <3> QED BY <3>1, <3>2
  <2> QED BY <2>5, <2>6 DEF ps
<1> QED BY <1>1, AlwaysTree, PTL

(* Every leaf stays as deep as every other, so the cost of a search is the *)
(* height of the tree, whatever splits and deletions came before (Insert). *)
THEOREM DepthStaysUniform == Spec => []UniformDepth
<1>1. TreeInv => UniformDepth
  <2> SUFFICES ASSUME TreeInv PROVE UniformDepth
    OBVIOUS
  <2> DEFINE ps == tree.pages
             D == 1..Len(ps)
             Below(p, f) == IF ps[p].leaf THEN {0}
                            ELSE {d + 1 : d \in UNION {f[Child(ps[p], i)] : i \in Slots(p)}}
             Deep(f) == f = [p \in D |-> Below(p, f)]
             depths == CHOOSE f : Deep(f)
  <2>1. PICK h : Good(ps, h)
    BY DEF TreeInv, IsTree
  <2>2. Pages = D /\ tree.root \in D /\ h \in [D -> Nat]
    BY <2>1 DEF TreeInv, IsTree, Pages, Good, Ranked
  <2>3. UniformDepth <=> Cardinality(depths[tree.root]) = 1
    BY <2>2 DEF UniformDepth
  <2>4. \A p \in D : Slots(p) = SlotsOf(ps[p])
    BY DEF Slots, SlotsOf
  <2> HIDE DEF depths, ps
  <2>5. ASSUME NEW p \in D, NEW f, \A c \in KidsOf(ps[p]) : f[c] = {h[c]} PROVE Below(p, f) = {h[p]}
    <3>1. CASE ps[p].leaf
      BY <2>1, <3>1 DEF Good, Ranked
    <3>2. CASE ~ps[p].leaf
      <4>1. \A c \in KidsOf(ps[p]) : h[c] + 1 = h[p]
        BY <2>1 DEF Good, Ranked
      <4>2. 0 \in SlotsOf(ps[p])
        BY <2>1, <3>2, GoodPage DEF SlotsOf
      <4> DEFINE U == UNION {f[Child(ps[p], i)] : i \in Slots(p)}
      <4>3. U = {h[c] : c \in KidsOf(ps[p])}
        BY <2>4, <2>5 DEF KidsOf
      <4>4. KidsOf(ps[p]) # {}
        BY <4>2 DEF KidsOf
      <4> HIDE DEF U
      <4>5. {d + 1 : d \in U} = {h[p]}
        BY <4>1, <4>3, <4>4
      <4> QED BY <3>2, <4>5 DEF U
    <3> QED BY <3>1, <3>2
  <2>6. Deep(depths)
    <3> DEFINE w == [p \in D |-> {h[p]}]
    <3>1. \A p \in D : Below(p, w) = {h[p]}
      <4> SUFFICES ASSUME NEW p \in D PROVE Below(p, w) = {h[p]}
        OBVIOUS
      <4>1. KidsOf(ps[p]) \subseteq D
        BY <2>1, KidIsPage
      <4>2. \A c \in KidsOf(ps[p]) : w[c] = {h[c]}
        BY <4>1
      <4> HIDE DEF w, Below
      <4> QED BY <2>5, <4>2
    <3>2. w = [p \in D |-> Below(p, w)]
      <4> DEFINE F(p) == Below(p, w)
                 G(p) == {h[p]}
      <4>1. \A p \in D : G(p) = F(p)
        <5> HIDE DEF w, Below
        <5> QED BY <3>1
      <4>2. w = [p \in D |-> G(p)]
        OBVIOUS
      <4> HIDE DEF F, G, w
      <4>3. w = [p \in D |-> F(p)]
        BY <4>1, <4>2
      <4> QED BY <4>3 DEF F
    <3>3. Deep(w)
      BY <3>2
    <3> HIDE DEF Deep, w
    <3> QED BY <3>3 DEF depths
  <2>7. \A p \in D : depths[p] = Below(p, depths)
    <3> HIDE DEF Below
    <3> QED BY <2>6
  <2> DEFINE Done == {n \in Nat : \A p \in D : h[p] < n => depths[p] = {h[p]}}
  <2>8. 0 \in Done
    BY <2>2
  <2>9. ASSUME NEW n \in Nat, n \in Done PROVE n + 1 \in Done
    <3> SUFFICES ASSUME NEW p \in D, h[p] < n + 1 PROVE depths[p] = {h[p]}
      OBVIOUS
    <3>1. \A c \in KidsOf(ps[p]) : depths[c] = {h[c]}
      <4> SUFFICES ASSUME NEW c \in KidsOf(ps[p]) PROVE depths[c] = {h[c]}
        OBVIOUS
      <4>1. c \in D /\ h[c] < h[p]
        BY <2>1, KidIsPage
      <4>2. h[c] < n
        BY <2>2, <4>1
      <4> QED BY <2>9, <4>1, <4>2
    <3> HIDE DEF Below
    <3> QED BY <2>5, <2>7, <3>1
  <2>10. Nat \subseteq Done
    <3> HIDE DEF Done
    <3> QED BY <2>8, <2>9, SetInduction
  <2>11. depths[tree.root] = {h[tree.root]}
    <3> DEFINE r == tree.root
    <3>1. r \in D /\ h[r] \in Nat /\ h[r] + 1 \in Nat /\ h[r] < h[r] + 1
      BY <2>2
    <3> HIDE DEF r
    <3> QED BY <2>10, <3>1 DEF r
  <2>12. Cardinality({h[tree.root]}) = 1
    BY FS_Singleton
  <2> QED BY <2>3, <2>11, <2>12
<1> QED BY <1>1, AlwaysTree, PTL
-----------------------------------------------------------------------------
(* The table of the rows by key, of any pages.                             *)
SlotsIn(ps) == UNION {{p} \X DOMAIN ps[p].cells : p \in {q \in DOMAIN ps : ps[q].leaf}}
SlotsWith(ps, x) == {s \in SlotsIn(ps) : ps[s[1]].cells[s[2]].key = x}

LEMMA SlotsAre ==
    ASSUME NEW ps, NEW h, Good(ps, h), NEW x
    PROVE  /\ {ps[s[1]].cells[s[2]].val : s \in SlotsWith(ps, x)} = ValsOf(ps, x)
           /\ Cardinality(SlotsWith(ps, x)) = Count(ps, x)
<1> DEFINE S == SlotsWith(ps, x)
           H == Holders(ps, x)
           place(p) == CHOOSE i \in 1..Len(ps[p].cells) : ps[p].cells[i].key = x
           f == [p \in H |-> <<p, place(p)>>]
<1>1. ps \in Seq(Page) /\ Len(ps) \in Nat /\ DOMAIN ps = 1..Len(ps)
      /\ \A p \in 1..Len(ps) : DOMAIN ps[p].cells = 1..Len(ps[p].cells)
  BY GoodPage DEF Good
<1>2. \A p, i : <<p, i>> \in S <=> /\ p \in 1..Len(ps) /\ ps[p].leaf
                                  /\ i \in 1..Len(ps[p].cells) /\ ps[p].cells[i].key = x
  BY <1>1 DEF SlotsWith, SlotsIn
<1>3. \A s \in S : s = <<s[1], s[2]>>
  BY DEF SlotsWith, SlotsIn
<1>4. \A p \in H : <<p, place(p)>> \in S
  <2> SUFFICES ASSUME NEW p \in H PROVE <<p, place(p)>> \in S
    OBVIOUS
  <2>1. p \in 1..Len(ps) /\ ps[p].leaf /\ \E i \in 1..Len(ps[p].cells) : ps[p].cells[i].key = x
    BY DEF Holders, Holds, On, Has
  <2>2. place(p) \in 1..Len(ps[p].cells) /\ ps[p].cells[place(p)].key = x
    BY <2>1
  <2> HIDE DEF place
  <2> QED BY <1>2, <2>1, <2>2
<1>5. ASSUME NEW s \in S PROVE s[1] \in H /\ s = <<s[1], place(s[1])>>
  <2> DEFINE p == s[1]
             i == s[2]
  <2>1. /\ p \in 1..Len(ps) /\ ps[p].leaf /\ i \in 1..Len(ps[p].cells) /\ ps[p].cells[i].key = x
        /\ s = <<p, i>>
    BY <1>2, <1>3
  <2> HIDE DEF p, i
  <2>2. p \in H
    BY <2>1 DEF Holders, Holds, On, Has
  <2>3. place(p) \in 1..Len(ps[p].cells) /\ ps[p].cells[place(p)].key = x
    BY <2>1
  <2> DEFINE y == place(p)
             c == ps[p].cells
  <2>4. y \in 1..Len(c) /\ i \in 1..Len(c) /\ c[y].key = c[i].key
    BY <2>1, <2>3
  <2> HIDE DEF place
  <2>5. c \in Seq(CellSet) /\ CellsAscend(c)
    BY <2>1, GoodPage, PageIsLeafOf DEF LeafCells
  <2> HIDE DEF c, y
  <2>6. y = i
    BY <2>4, <2>5, OneCellPerKey
  <2> QED BY <2>1, <2>2, <2>6 DEF p, y
<1>6. Cardinality(S) = Cardinality(H)
  <2> HIDE DEF S, H, place
  <2>1. f \in [H -> S]
    BY <1>4
  <2>2. \A p, q \in H : f[p] = f[q] => p = q
    OBVIOUS
  <2>3. \A s \in S : \E p \in H : f[p] = s
    BY <1>5
  <2>4. f \in Bijection(H, S)
    <3> HIDE DEF f
    <3> QED BY <2>1, <2>2, <2>3, Fun_IsBij
  <2>5. IsFiniteSet(H)
    BY <1>1, CountIsNumber DEF H
  <2> QED BY <2>4, <2>5, FS_Bijection DEF ExistsBijection
<1>7. {ps[s[1]].cells[s[2]].val : s \in S} = ValsOf(ps, x)
  <2>1. ASSUME NEW s \in S PROVE ps[s[1]].cells[s[2]].val \in ValsOf(ps, x)
    <3> DEFINE p == s[1]
               i == s[2]
    <3>1. /\ p \in 1..Len(ps) /\ ps[p].leaf /\ i \in 1..Len(ps[p].cells) /\ ps[p].cells[i].key = x
      BY <1>2, <1>3
    <3> HIDE DEF p, i
    <3>2. ps[p].cells \in Seq(CellSet)
      BY <3>1, GoodPage
    <3>3. ps[p].cells[i] \in CellSet
      BY <3>1, <3>2
    <3>4. ps[p].cells[i].val \in Val
      BY <3>3 DEF CellSet
    <3>5. On(ps[p], x, ps[p].cells[i].val)
      BY <3>1 DEF On, Has
    <3>6. ps[p].cells[i].val \in ValsOf(ps, x)
      BY <3>1, <3>4, <3>5 DEF ValsOf
    <3> QED BY <3>6 DEF p, i
  <2>2. ASSUME NEW w \in ValsOf(ps, x) PROVE \E s \in S : w = ps[s[1]].cells[s[2]].val
    <3>1. PICK p \in 1..Len(ps) : On(ps[p], x, w)
      BY DEF ValsOf
    <3>2. PICK i \in 1..Len(ps[p].cells) : ps[p].cells[i].key = x /\ ps[p].cells[i].val = w
      BY <3>1 DEF On, Has
    <3> DEFINE s == <<p, i>>
    <3>3. s \in S /\ s[1] = p /\ s[2] = i
      BY <1>2, <3>1, <3>2 DEF On
    <3> HIDE DEF s, S
    <3> QED BY <3>2, <3>3
  <2> HIDE DEF S
  <2> QED BY <2>1, <2>2
<1> QED BY <1>6, <1>7 DEF Count

TableOf(ps) == [x \in Key |-> [vals  |-> {ps[s[1]].cells[s[2]].val : s \in SlotsWith(ps, x)},
                              count |-> Cardinality(SlotsWith(ps, x))]]

LEMMA TableIs ==
    ASSUME NEW ps, NEW h, Good(ps, h), NEW x \in Key
    PROVE  TableOf(ps)[x] = [vals |-> ValsOf(ps, x), count |-> Count(ps, x)]
BY SlotsAre DEF TableOf

(* The step from pages ps to t, and from what callers have stored to what  *)
(* they have stored then, keeps the rows.                                  *)
StepKeeps(ps, t, m, n) ==
    LET before  == TableOf(ps)
        after   == TableOf(t)
        changed == {x \in Key : before[x] # after[x]}
    IN  /\ Cardinality(changed) <= 1
        /\ \A x \in changed : after[x].count - before[x].count \in {-1, 0, 1}
        /\ \A x \in DOMAIN n :
             (x \notin DOMAIN m \/ n[x] # m[x]) => n[x] \in after[x].vals

(* It does when one key's rows change, by one at most, and the row of a    *)
(* key that is stored is there.                                            *)
LEMMA OneKeyChanges ==
    ASSUME NEW ps, NEW h, Good(ps, h), NEW t, NEW g, Good(t, g), NEW k,
           \A x : x # k => SameRows(ps, t, x), Count(t, k) - Count(ps, k) \in {-1, 0, 1},
           NEW m, NEW n, DOMAIN n \subseteq Key,
           \A x \in DOMAIN n : (x \notin DOMAIN m \/ n[x] # m[x]) => n[x] \in ValsOf(t, x)
    PROVE  StepKeeps(ps, t, m, n)
<1> DEFINE before  == TableOf(ps)
           after   == TableOf(t)
           changed == {x \in Key : before[x] # after[x]}
           row(a, b) == [vals |-> a, count |-> b]
<1>11. \A a, b : row(a, b).vals = a /\ row(a, b).count = b
  OBVIOUS
<1>12. ASSUME NEW x \in Key
       PROVE  before[x] = row(ValsOf(ps, x), Count(ps, x)) /\ after[x] = row(ValsOf(t, x), Count(t, x))
  BY TableIs
<1> HIDE DEF before, after, row
<1>1. ASSUME NEW x \in Key
      PROVE  /\ after[x].count = Count(t, x) /\ before[x].count = Count(ps, x)
             /\ after[x].vals = ValsOf(t, x)
             /\ SameRows(ps, t, x) => before[x] = after[x]
  BY <1>11, <1>12 DEF SameRows
<1>2. changed \subseteq {k}
  BY <1>1
<1>3. Cardinality(changed) <= 1
  <2> HIDE DEF changed
  <2>1. IsFiniteSet({k}) /\ Cardinality({k}) = 1
    BY FS_Singleton
  <2>2. changed \in SUBSET {k}
    BY <1>2
  <2>3. Cardinality(changed) <= Cardinality({k})
    BY <2>1, <2>2, FS_Subset
  <2> QED BY <2>1, <2>3
<1>4. \A x \in changed : after[x].count - before[x].count \in {-1, 0, 1}
  <2>1. \A x \in changed : x = k /\ x \in Key
    BY <1>2
  <2> HIDE DEF changed
  <2> QED BY <1>1, <2>1
<1>5. \A x \in DOMAIN n : (x \notin DOMAIN m \/ n[x] # m[x]) => n[x] \in after[x].vals
  BY <1>1
<1>6. StepKeeps(ps, t, m, n) <=>
        /\ Cardinality(changed) <= 1
        /\ \A x \in changed : after[x].count - before[x].count \in {-1, 0, 1}
        /\ \A x \in DOMAIN n :
             (x \notin DOMAIN m \/ n[x] # m[x]) => n[x] \in after[x].vals
  BY DEF StepKeeps, before, after
<1> HIDE DEF changed
<1> QED BY <1>3, <1>4, <1>5, <1>6

LEMMA InsertKeepsRows ==
    ASSUME NEW t, IsTree(t), NEW k \in Key, NEW v \in Val, NEW m, DOMAIN m \subseteq Key
    PROVE  StepKeeps(t.pages, Inserted(t, k, v).pages, m, Written(m, k, v))
<1> DEFINE u == Inserted(t, k, v)
           n == Written(m, k, v)
<1>1. IsTree(u) /\ RowPut(t.pages, u.pages, k, v)
  BY InsertionKeepsTree
<1>2. DOMAIN n = DOMAIN m \union {k} /\ \A x \in DOMAIN n : n[x] = IF x = k THEN v ELSE m[x]
  BY DEF Written
<1> HIDE DEF u, n
<1>3. PICK h : Good(t.pages, h)
  BY DEF IsTree
<1>4. PICK g : Good(u.pages, g)
  BY <1>1 DEF IsTree
<1>5. (\A x : x # k => SameRows(t.pages, u.pages, x)) /\ v \in ValsOf(u.pages, k)
  BY <1>1 DEF RowPut
<1>6. Count(u.pages, k) - Count(t.pages, k) \in {-1, 0, 1}
  BY <1>1 DEF RowPut
<1>7. \A x \in DOMAIN n : (x \notin DOMAIN m \/ n[x] # m[x]) => n[x] \in ValsOf(u.pages, x)
  BY <1>2, <1>5
<1>8. DOMAIN n \subseteq Key
  BY <1>2
<1>9. StepKeeps(t.pages, u.pages, m, n)
  BY <1>3, <1>4, <1>5, <1>6, <1>7, <1>8, OneKeyChanges
<1> QED BY <1>9 DEF u, n

LEMMA DeleteKeepsRows ==
    ASSUME NEW t, IsTree(t), NEW k \in Key, Meets(t, k) # NoPage, ~DeleteFails(t, k),
           NEW m, DOMAIN m \subseteq Key
    PROVE  StepKeeps(t.pages, Deleted(t, k).pages, m, [x \in DOMAIN m \ {k} |-> m[x]])
<1> DEFINE u == Deleted(t, k)
           n == [x \in DOMAIN m \ {k} |-> m[x]]
<1>1. IsTree(u) /\ \E x : RowTaken(t.pages, u.pages, x)
  BY DeletionKeepsTree
<1>2. DOMAIN n \subseteq Key /\ \A x \in DOMAIN n : x \in DOMAIN m /\ n[x] = m[x]
  OBVIOUS
<1> HIDE DEF u, n
<1>3. PICK h : Good(t.pages, h)
  BY DEF IsTree
<1>4. PICK g : Good(u.pages, g)
  BY <1>1 DEF IsTree
<1>5. PICK x : RowTaken(t.pages, u.pages, x)
  BY <1>1
<1>6. (\A y : y # x => SameRows(t.pages, u.pages, y)) /\ Count(u.pages, x) - Count(t.pages, x) \in {-1, 0, 1}
  BY <1>5 DEF RowTaken
<1>7. \A y \in DOMAIN n : (y \notin DOMAIN m \/ n[y] # m[y]) => n[y] \in ValsOf(u.pages, y)
  BY <1>2
<1>8. StepKeeps(t.pages, u.pages, m, n)
  BY <1>2, <1>3, <1>4, <1>6, <1>7, OneKeyChanges
<1> QED BY <1>8 DEF u, n

TableOfTree(tr) ==
    LET slots == UNION {{p} \X DOMAIN tr.pages[p].cells : p \in {q \in DOMAIN tr.pages : tr.pages[q].leaf}}
        at    == [k \in Key |-> {s \in slots : tr.pages[s[1]].cells[s[2]].key = k}]
    IN  [k \in Key |-> [vals  |-> {tr.pages[s[1]].cells[s[2]].val : s \in at[k]},
                        count |-> Cardinality(at[k])]]

LEMMA TreeTable ==
    ASSUME NEW tr
    PROVE  TableOfTree(tr) = TableOf(tr.pages)
<1> DEFINE at == [k \in Key |-> SlotsWith(tr.pages, k)]
           cells(S) == [vals  |-> {tr.pages[s[1]].cells[s[2]].val : s \in S}, count |-> Cardinality(S)]
<1>1. TableOfTree(tr) = [k \in Key |-> cells(at[k])]
  BY DEF TableOfTree, SlotsWith, SlotsIn
<1>2. TableOf(tr.pages) = [k \in Key |-> cells(SlotsWith(tr.pages, k))]
  BY DEF TableOf
<1>3. \A k \in Key : at[k] = SlotsWith(tr.pages, k)
  OBVIOUS
<1> HIDE DEF at, cells
<1> QED BY <1>1, <1>2, <1>3

(* A step adds, replaces or removes the rows of one key at most, one row   *)
(* of it, whatever pages are split on the way, and a row that a caller has *)
(* stored is on a leaf afterwards (Insert, splitLeaf, splitInternal,       *)
(* deleteFrom).                                                            *)
THEOREM RowsStay == Spec => RowsKept
<1> DEFINE Kept == <<tree, stored>>' # <<tree, stored>> =>
                     StepKeeps(tree.pages, tree'.pages, stored, stored')
<1>1. ASSUME TreeInv, [Changes \/ Reads]_vars PROVE Kept
  <2>1. IsTree(tree) /\ DOMAIN stored \subseteq Key
    BY <1>1 DEF TreeInv
  <2>2. ASSUME NEW k \in Key, NEW v \in Val, Insert(k, v) PROVE Kept
    <3>1. tree' = Inserted(tree, k, v) /\ stored' = Written(stored, k, v)
      BY <2>2 DEF Insert
    <3> QED BY <2>1, <3>1, InsertKeepsRows
  <2>3. ASSUME NEW k \in Key, Delete(k) PROVE Kept
    <3>1. /\ Meets(tree, k) # NoPage /\ ~DeleteFails(tree, k)
          /\ tree' = Deleted(tree, k) /\ stored' = [x \in DOMAIN stored \ {k} |-> stored[x]]
      BY <2>3 DEF Delete
    <3> QED BY <2>1, <3>1, DeleteKeepsRows
  <2>4. ASSUME UNCHANGED <<tree, stored>> PROVE Kept
    BY <2>4
  <2>5. CASE \E k \in Key : DeleteMiss(k) \/ DeleteError(k)
    BY <2>4, <2>5 DEF DeleteMiss, DeleteError
  <2>6. CASE Reads
    BY <2>4, <2>6 DEF Reads, Scan, Get
  <2>7. CASE UNCHANGED vars
    BY <2>4, <2>7 DEF vars
  <2> HIDE DEF Kept
  <2> QED BY <1>1, <2>2, <2>3, <2>5, <2>6, <2>7 DEF Changes
<1>2. RowsByKey = TableOf(tree.pages) /\ RowsByKey' = TableOf(tree'.pages)
  <2>1. RowsByKey = TableOfTree(tree)
    BY DEF RowsByKey, RowSlots, RowAt, Leaves, Pages, TableOfTree
  <2>2. RowsByKey' = TableOfTree(tree')
    BY DEF RowsByKey, RowSlots, RowAt, Leaves, Pages, TableOfTree
  <2> QED BY <2>1, <2>2, TreeTable
<1> DEFINE Shown == <<tree, stored>>' # <<tree, stored>> =>
         LET before  == RowsByKey
             after   == RowsByKey'
             changed == {x \in Key : before[x] # after[x]}
         IN  /\ Cardinality(changed) <= 1
             /\ \A x \in changed : after[x].count - before[x].count \in {-1, 0, 1}
             /\ \A x \in DOMAIN stored' :
                  (x \notin DOMAIN stored \/ stored'[x] # stored[x])
                      => stored'[x] \in after[x].vals
<1>3. Kept => Shown
  BY <1>2 DEF StepKeeps
<1>4. TreeInv /\ [Changes \/ Reads]_vars => [Shown]_vars
  <2> HIDE DEF Kept, Shown
  <2> QED BY <1>1, <1>3
<1>5. RowsKept <=> [][Shown]_vars
  BY PTL DEF RowsKept
<1> HIDE DEF Shown
<1> QED BY <1>4, <1>5, AlwaysTree, PTL DEF Spec

-----------------------------------------------------------------------------
(* Cursors: what the recursive definitions of the scan come to.            *)
Stacks(ps) == Seq(Frames(ps))

LEMMA FrameIs ==
    ASSUME NEW ps, NEW h, Good(ps, h), NEW p \in 1..Len(ps), NEW i \in Nat
    PROVE  /\ Frame(p, i) \in Frames(ps) /\ <<Frame(p, i)>> \in Stacks(ps)
           /\ Frame(p, i).page = p /\ Frame(p, i).idx = i
           /\ DOMAIN ps = 1..Len(ps)
<1>1. DOMAIN ps = 1..Len(ps)
  BY DEF Good
<1>2. Frame(p, i) \in Frames(ps) /\ Frame(p, i).page = p /\ Frame(p, i).idx = i
  BY <1>1 DEF Frame, Frames
<1> QED BY <1>1, <1>2 DEF Stacks

(* The frames down to the first leaf.                                      *)
LEMMA DiveGoesDown ==
    ASSUME NEW ps, NEW h, Good(ps, h), NEW p \in 1..Len(ps)
    PROVE  /\ Dive(ps, p) \in Stacks(ps)
           /\ ps[p].leaf => Dive(ps, p) = IF ps[p].cells = << >> THEN << >> ELSE <<Frame(p, 0)>>
           /\ ~ps[p].leaf => /\ ps[p].cells[1].left \in 1..Len(ps)
                             /\ h[ps[p].cells[1].left] < h[p]
                             /\ Dive(ps, p) = <<Frame(p, 0)>> \o Dive(ps, ps[p].cells[1].left)
<1> DEFINE D == 1..Len(ps)
           R == Stacks(ps)
           base == << >>
           Value(q, f) ==
               IF ps[q].leaf THEN IF ps[q].cells = << >> THEN << >> ELSE <<Frame(q, 0)>>
               ELSE <<Frame(q, 0)>> \o f[ps[q].cells[1].left]
           step == [x \in D \X [D -> R] |-> Value(x[1], x[2])]
           Dives(f) == f = [q \in D |-> Value(q, f)]
           down == CHOOSE f : Dives(f)
<1>1. \A q \in D : ~ps[q].leaf => ps[q].cells[1].left \in D /\ h[ps[q].cells[1].left] < h[q]
  <2> SUFFICES ASSUME NEW q \in D, ~ps[q].leaf
               PROVE  ps[q].cells[1].left \in D /\ h[ps[q].cells[1].left] < h[q]
    OBVIOUS
  <2>1. Len(ps[q].cells) \in Nat \ {0}
    BY GoodPage, EmptySeq DEF PageOK, InternalOK
  <2>2. 0 \in SlotsOf(ps[q]) /\ Child(ps[q], 0) = ps[q].cells[1].left
    BY <2>1 DEF SlotsOf, Child
  <2>3. ps[q].cells[1].left \in KidsOf(ps[q])
    BY <2>2 DEF KidsOf
  <2> QED BY <2>3, KidIsPage
<1>2. h \in [D -> Nat] /\ p \in D /\ base \in R
  BY DEF Good, Ranked, Stacks
<1>3. step \in MeasuredSteps(D, R)
  <2>1. ASSUME NEW q \in D, NEW f \in [D -> R] PROVE Value(q, f) \in R
    <3>1. <<Frame(q, 0)>> \in R /\ << >> \in R
      BY <1>2, FrameIs
    <3>2. ASSUME ~ps[q].leaf PROVE <<Frame(q, 0)>> \o f[ps[q].cells[1].left] \in R
      <4>1. f[ps[q].cells[1].left] \in R
        <5> HIDE DEF R, D
        <5> QED BY <1>1, <3>2
      <4> QED BY <3>1, <4>1, ConcatProperties DEF Stacks
    <3> QED BY <3>1, <3>2
  <2> HIDE DEF Value, R, D
  <2> QED BY <2>1 DEF MeasuredSteps
<1>4. LooksBelow(D, R, h, step)
  <2>1. ASSUME NEW q \in D, NEW f \in [D -> R], NEW g \in [D -> R],
               \A e \in D : h[e] < h[q] => f[e] = g[e]
        PROVE  Value(q, f) = Value(q, g)
    <3> HIDE DEF R, D
    <3> QED BY <1>1, <2>1
  <2> HIDE DEF Value, R, D
  <2> QED BY <2>1 DEF LooksBelow
<1>5. PICK f \in [D -> R] : \A q \in D : f[q] = step[<<q, f>>]
  <2> HIDE DEF D, R, base, step
  <2> QED BY <1>2, <1>3, <1>4, MeasuredRecursion
<1>6. Dives(f)
  <2> HIDE DEF Value, D, R
  <2> QED BY <1>5
<1>7. Dives(down)
  <2> HIDE DEF Dives
  <2> QED BY <1>6
<1>8. \A q \in D : Dive(ps, q) = down[q]
  BY DEF Dive
<1>9. \A q \in D : down[q] = Value(q, down)
  <2> HIDE DEF down, Value
  <2> QED BY <1>7
<1> HIDE DEF down
(* Typed by induction on the height. *)
<1> DEFINE Done == {n \in Nat : \A q \in D : h[q] < n => down[q] \in R}
<1>10. 0 \in Done
  BY <1>2
<1>11. ASSUME NEW n \in Nat, n \in Done PROVE n + 1 \in Done
  <2> SUFFICES ASSUME NEW q \in D, h[q] < n + 1 PROVE down[q] \in R
    OBVIOUS
  <2>1. <<Frame(q, 0)>> \in R /\ << >> \in R
    BY <1>2, FrameIs
  <2>2. CASE ps[q].leaf
    BY <1>9, <2>1, <2>2
  <2>3. CASE ~ps[q].leaf
    <3> DEFINE c == ps[q].cells[1].left
    <3>1. c \in D /\ h[c] < h[q]
      BY <1>1, <2>3
    <3>2. down[q] = <<Frame(q, 0)>> \o down[c]
      BY <1>9, <2>3
    <3> HIDE DEF c
    <3>3. h[c] < n
      BY <1>2, <3>1
    <3>4. down[c] \in R
      BY <1>11, <3>1, <3>3
    <3> QED BY <2>1, <3>2, <3>4, ConcatProperties DEF Stacks
  <2> QED BY <2>2, <2>3
<1>12. Nat \subseteq Done
  <2> HIDE DEF Done
  <2> QED BY <1>10, <1>11, SetInduction
<1>13. h[p] \in Nat /\ h[p] + 1 \in Nat /\ h[p] < h[p] + 1
  BY <1>2
<1>14. down[p] \in R
  BY <1>2, <1>12, <1>13
<1>15. down[p] = Value(p, down)
  BY <1>2, <1>9
<1>16. ~ps[p].leaf => Dive(ps, ps[p].cells[1].left) = down[ps[p].cells[1].left]
  BY <1>1, <1>2, <1>8
<1> QED BY <1>1, <1>2, <1>8, <1>14, <1>15, <1>16

(* One round of the loop of Advance.                                       *)
Advanced(t, s, f) ==
    IF s = << >> THEN << >>
    ELSE LET pg   == t.pages[Last(s).page]
             g    == [Last(s) EXCEPT !.idx = @ + 1]
             rest == Front(s)
         IN  IF pg.leaf
             THEN IF g.idx < Len(pg.cells) THEN Append(rest, g) ELSE f[rest]
             ELSE IF g.idx <= Len(pg.cells)
                  THEN Append(rest, g) \o Dive(t.pages, Child(pg, g.idx))
                  ELSE f[rest]

(* A stack with the top frame one further: what is left when it goes on.   *)
LEMMA GoesOn ==
    ASSUME NEW t, NEW h, Good(t.pages, h), NEW s \in Stacks(t.pages), s # << >>
    PROVE  LET pg == t.pages[Last(s).page]
               g  == [Last(s) EXCEPT !.idx = @ + 1]
           IN  /\ Last(s).page \in 1..Len(t.pages) /\ Last(s).idx \in Nat
               /\ g = Frame(Last(s).page, Last(s).idx + 1) /\ g.idx = Last(s).idx + 1
               /\ Append(Front(s), g) \in Stacks(t.pages) /\ Front(s) \in Stacks(t.pages)
               /\ ~pg.leaf /\ g.idx <= Len(pg.cells)
                    => /\ Child(pg, g.idx) \in 1..Len(t.pages)
                       /\ h[Child(pg, g.idx)] < h[Last(s).page]
                       /\ Append(Front(s), g) \o Dive(t.pages, Child(pg, g.idx)) \in Stacks(t.pages)
<1> DEFINE ps == t.pages
           f  == Last(s)
           pg == ps[f.page]
           g  == [f EXCEPT !.idx = @ + 1]
           a  == Append(Front(s), g)
           c  == Child(pg, g.idx)
<1>1. f \in Frames(ps) /\ Front(s) \in Stacks(ps)
  BY TopFrame DEF Stacks
<1>2. f.page \in 1..Len(ps) /\ f.idx \in Nat
  BY <1>1 DEF Frames, Good
<1>3. g = Frame(f.page, f.idx + 1) /\ g.idx = f.idx + 1
  BY <1>1 DEF Frame, Frames
<1>4. g \in Frames(ps)
  <2>1. f.idx + 1 \in Nat
    BY <1>2
  <2>2. Frame(f.page, f.idx + 1) \in Frames(ps)
    <3> HIDE DEF f
    <3> QED BY <1>2, <2>1, FrameIs
  <2> QED BY <1>3, <2>2
<1>5. a \in Stacks(ps)
  BY <1>1, <1>4, Appended DEF Stacks
<1>6. ASSUME ~pg.leaf, g.idx <= Len(pg.cells)
      PROVE  c \in 1..Len(ps) /\ h[c] < h[f.page] /\ a \o Dive(ps, c) \in Stacks(ps)
  <2>1. g.idx \in SlotsOf(pg)
    BY <1>2, <1>3, <1>6, GoodPage DEF SlotsOf
  <2>2. c \in KidsOf(pg)
    BY <2>1 DEF KidsOf
  <2>3. c \in 1..Len(ps) /\ h[c] < h[f.page]
    BY <1>2, <2>2, KidIsPage
  <2>4. Dive(ps, c) \in Stacks(ps)
    BY <2>3, DiveGoesDown
  <2> HIDE DEF a, c
  <2> QED BY <1>5, <2>3, <2>4, ConcatProperties DEF Stacks
<1> QED BY <1>1, <1>2, <1>3, <1>5, <1>6

(* Advance is its loop: a round, and perhaps the rest of it.               *)
LEMMA CursorMoves ==
    ASSUME NEW t, NEW h, Good(t.pages, h)
    PROVE  /\ \A s \in Stacks(t.pages) : CursorNext(t, s) \in Stacks(t.pages)
           /\ CursorNext(t, << >>) = << >>
           /\ \A r \in Stacks(t.pages), p \in 1..Len(t.pages), i \in Nat :
                LET pg == t.pages[p]
                IN  CursorNext(t, Append(r, Frame(p, i))) =
                      IF pg.leaf
                      THEN IF i + 1 < Len(pg.cells) THEN Append(r, Frame(p, i + 1)) ELSE CursorNext(t, r)
                      ELSE IF i + 1 <= Len(pg.cells)
                           THEN Append(r, Frame(p, i + 1)) \o Dive(t.pages, Child(pg, i + 1))
                           ELSE CursorNext(t, r)
<1> DEFINE D == Stacks(t.pages)
           base == << >>
           size == [s \in D |-> Len(s)]
           step == [x \in D \X [D -> D] |-> Advanced(t, x[1], x[2])]
           Moves(f) == f = [s \in D |-> Advanced(t, s, f)]
           next == CHOOSE f : Moves(f)
<1>1. base \in D /\ size \in [D -> Nat]
  BY DEF Stacks
<1>2. step \in MeasuredSteps(D, D)
  <2>1. ASSUME NEW s \in D, NEW f \in [D -> D] PROVE Advanced(t, s, f) \in D
    <3>1. CASE s = << >>
      BY <1>1, <3>1 DEF Advanced
    <3>2. CASE s # << >>
      <4>1. f[Front(s)] \in D
        <5>1. Front(s) \in D
          BY <3>2, GoesOn
        <5> HIDE DEF D
        <5> QED BY <5>1
      <4> HIDE DEF D
      <4> QED BY <3>2, <4>1, GoesOn DEF Advanced, D
    <3> QED BY <3>1, <3>2
  <2> HIDE DEF D
  <2> QED BY <2>1 DEF MeasuredSteps
<1>3. LooksBelow(D, D, size, step)
  <2>1. ASSUME NEW s \in D, NEW f \in [D -> D], NEW g \in [D -> D],
               \A e \in D : size[e] < size[s] => f[e] = g[e]
        PROVE  Advanced(t, s, f) = Advanced(t, s, g)
    <3>1. CASE s = << >>
      BY <3>1 DEF Advanced
    <3>2. CASE s # << >>
      <4>1. Front(s) \in D /\ Len(Front(s)) = Len(s) - 1 /\ Len(s) \in Nat \ {0}
        BY <3>2, TopFrame DEF Stacks
      <4>2. size[Front(s)] < size[s]
        BY <4>1
      <4>3. f[Front(s)] = g[Front(s)]
        BY <2>1, <4>1, <4>2
      <4> HIDE DEF D, size
      <4> QED BY <4>3 DEF Advanced
    <3> QED BY <3>1, <3>2
  <2> HIDE DEF D, size
  <2> QED BY <2>1 DEF LooksBelow
<1>4. PICK f \in [D -> D] : \A s \in D : f[s] = step[<<s, f>>]
  <2> HIDE DEF D, step, base, size
  <2> QED BY <1>1, <1>2, <1>3, MeasuredRecursion
<1>5. Moves(f)
  <2> HIDE DEF D
  <2> QED BY <1>4
<1>6. Moves(next)
  <2> HIDE DEF Moves
  <2> QED BY <1>5
<1>7. \A s \in D : CursorNext(t, s) = next[s]
  BY DEF CursorNext, Advanced, Stacks
<1>8. \A s \in D : next[s] = Advanced(t, s, next)
  <2> HIDE DEF next
  <2> QED BY <1>6
<1> HIDE DEF next
<1>9. next[<< >>] = << >>
  BY <1>1, <1>8 DEF Advanced
<1>10. ASSUME NEW r \in D, NEW p \in 1..Len(t.pages), NEW i \in Nat
       PROVE  LET pg == t.pages[p]
              IN  CursorNext(t, Append(r, Frame(p, i))) =
                      IF pg.leaf
                      THEN IF i + 1 < Len(pg.cells) THEN Append(r, Frame(p, i + 1)) ELSE CursorNext(t, r)
                      ELSE IF i + 1 <= Len(pg.cells)
                           THEN Append(r, Frame(p, i + 1)) \o Dive(t.pages, Child(pg, i + 1))
                           ELSE CursorNext(t, r)
  <2> DEFINE s == Append(r, Frame(p, i))
  <2>1. Frame(p, i) \in Frames(t.pages) /\ Frame(p, i).page = p /\ Frame(p, i).idx = i
    BY FrameIs
  <2>2. s \in D /\ s # << >> /\ Last(s) = Frame(p, i) /\ Front(s) = r
    BY <2>1, Appended DEF Stacks
  <2>3. [Last(s) EXCEPT !.idx = @ + 1] = Frame(p, i + 1)
        /\ [Last(s) EXCEPT !.idx = @ + 1].idx = i + 1 /\ Last(s).page = p
    <3> HIDE DEF s, D
    <3> QED BY <2>1, <2>2, GoesOn DEF D
  <2>4. CursorNext(t, s) = Advanced(t, s, next) /\ CursorNext(t, r) = next[r]
    BY <1>7, <1>8, <2>2
  <2> HIDE DEF s, D
  <2>5. CursorNext(t, s) =
                      IF t.pages[p].leaf
                      THEN IF i + 1 < Len(t.pages[p].cells) THEN Append(r, Frame(p, i + 1)) ELSE next[r]
                      ELSE IF i + 1 <= Len(t.pages[p].cells)
                           THEN Append(r, Frame(p, i + 1)) \o Dive(t.pages, Child(t.pages[p], i + 1))
                           ELSE next[r]
    BY <2>2, <2>3, <2>4 DEF Advanced
  <2> QED BY <2>4, <2>5 DEF s
<1>11. \A s \in D : next[s] \in D
  <2> DEFINE Done == {n \in Nat : \A s \in D : Len(s) < n => next[s] \in D}
  <2>1. 0 \in Done
    BY DEF Stacks
  <2>2. ASSUME NEW n \in Nat, n \in Done PROVE n + 1 \in Done
    <3> SUFFICES ASSUME NEW s \in D, Len(s) < n + 1 PROVE next[s] \in D
      OBVIOUS
    <3>1. CASE s = << >>
      BY <1>1, <1>9, <3>1
    <3>2. CASE s # << >>
      <4>1. Front(s) \in D /\ Len(Front(s)) = Len(s) - 1 /\ Len(s) \in Nat \ {0}
        BY <3>2, TopFrame DEF Stacks
      <4>2. next[Front(s)] \in D
        BY <2>2, <4>1
      <4>3. next[s] = Advanced(t, s, next)
        BY <1>8
      <4> HIDE DEF D
      <4> QED BY <3>2, <4>2, <4>3, GoesOn DEF Advanced, D
    <3> QED BY <3>1, <3>2
  <2>3. Nat \subseteq Done
    <3> HIDE DEF Done
    <3> QED BY <2>1, <2>2, SetInduction
  <2>4. ASSUME NEW s \in D PROVE next[s] \in D
    <3>1. Len(s) \in Nat /\ Len(s) + 1 \in Nat /\ Len(s) < Len(s) + 1
      BY DEF Stacks
    <3> QED BY <2>3, <3>1
  <2> QED BY <2>4
<1> QED BY <1>1, <1>7, <1>9, <1>10, <1>11

(* From every stack Advance comes to the end.                              *)
LEMMA ScanEnds ==
    ASSUME NEW t, NEW h, Good(t.pages, h)
    PROVE  \E size \in [Stacks(t.pages) -> Nat] :
              \A s \in Stacks(t.pages) : s # << >> => size[CursorNext(t, s)] < size[s]
<1> DEFINE ps == t.pages
           D == Stacks(ps)
           nxt == [s \in D |-> CursorNext(t, s)]
           stop == << >>
<1>1. nxt \in [D -> D] /\ stop \in D /\ nxt[stop] = stop
  <2>1. stop \in D
    BY DEF Stacks
  <2> HIDE DEF D
  <2>2. \A s \in D : CursorNext(t, s) \in D
    BY CursorMoves DEF D
  <2> QED BY <2>1, <2>2, CursorMoves
<1>2. PICK E \in SUBSET D, size \in [D -> Nat] :
              /\ stop \in E
              /\ \A s \in D : s \in E <=> nxt[s] \in E
              /\ \A s \in E : s # stop => size[nxt[s]] < size[s]
  <2> HIDE DEF D, nxt, stop
  <2> QED BY <1>1, StepsToStop
<1>3. << >> \in E
  BY <1>2
<1>4. \A s \in D : s \in E <=> CursorNext(t, s) \in E
  BY <1>2
<1>5. \A s \in E : s # << >> => size[CursorNext(t, s)] < size[s]
  BY <1>2
<1>6. Len(ps) \in Nat /\ h \in [1..Len(ps) -> Nat]
  BY DEF Good, Ranked
<1> HIDE DEF nxt, stop
<1> DEFINE Rests(q) == \A u \in E : (\A i \in Nat : Append(u, Frame(q, i)) \in E) /\ u \o Dive(ps, q) \in E
           Done == {n \in Nat : \A q \in 1..Len(ps) : h[q] < n => Rests(q)}
<1>7. 0 \in Done
  <2> HIDE DEF Rests
  <2> QED BY <1>6
<1>8. ASSUME NEW n \in Nat, n \in Done PROVE n + 1 \in Done
  <2> SUFFICES ASSUME NEW q \in 1..Len(ps), h[q] < n + 1, NEW u \in E
               PROVE  (\A i \in Nat : Append(u, Frame(q, i)) \in E) /\ u \o Dive(ps, q) \in E
    <3>1. \A q \in 1..Len(ps) : h[q] < n + 1 => Rests(q)
      <4> HIDE DEF ps, D
      <4> QED OBVIOUS
    <3>2. n + 1 \in Nat
      OBVIOUS
    <3> HIDE DEF Rests
    <3> QED BY <3>1, <3>2
  <2>1. \A r \in 1..Len(ps) : h[r] < h[q] => Rests(r)
    <3> HIDE DEF Rests, ps
    <3> QED BY <1>6, <1>8
  <2> DEFINE pg == ps[q]
             at(i) == Append(u, Frame(q, i))
  <2>2. u \in D /\ CursorNext(t, u) \in E
    BY <1>2, <1>4
  <2>3. Len(pg.cells) \in Nat
    BY GoodPage
  <2>4. ASSUME NEW i \in Nat PROVE at(i) \in D /\ at(i) = u \o <<Frame(q, i)>>
    <3>1. Frame(q, i) \in Frames(ps)
      BY FrameIs
    <3> QED BY <2>2, <3>1, AppendProperties, AppendIsConcat DEF Stacks
  <2>5. ASSUME NEW i \in Nat
        PROVE  /\ i + 1 \in Nat
               /\ ~(i + 1 <= Len(pg.cells)) => at(i) \in E
               /\ i + 1 <= Len(pg.cells) /\ at(i + 1) \in E => at(i) \in E
    <3>1. i + 1 \in Nat
      OBVIOUS
    <3>2. CursorNext(t, at(i)) =
                      IF pg.leaf
                      THEN IF i + 1 < Len(pg.cells) THEN at(i + 1) ELSE CursorNext(t, u)
                      ELSE IF i + 1 <= Len(pg.cells)
                           THEN at(i + 1) \o Dive(ps, Child(pg, i + 1))
                           ELSE CursorNext(t, u)
      BY <2>2, CursorMoves
    <3>3. CursorNext(t, at(i)) \in E => at(i) \in E
      <4> HIDE DEF at, D
      <4> QED BY <1>4, <2>4
    <3>4. ASSUME ~(i + 1 <= Len(pg.cells)) PROVE at(i) \in E
      <4>1. CursorNext(t, at(i)) = CursorNext(t, u)
        <5> HIDE DEF at
        <5> QED BY <2>3, <3>2, <3>4
      <4> HIDE DEF at
      <4> QED BY <2>2, <3>3, <4>1
    <3>5. ASSUME i + 1 <= Len(pg.cells), at(i + 1) \in E PROVE at(i) \in E
      <4>1. CASE pg.leaf
        <5> HIDE DEF at
        <5> QED BY <2>2, <3>2, <3>3, <3>5, <4>1
      <4>2. CASE ~pg.leaf
        <5> DEFINE c == Child(pg, i + 1)
        <5>1. c \in 1..Len(ps) /\ h[c] < h[q]
          <6>1. i + 1 \in SlotsOf(pg)
            BY <2>3, <3>1, <3>5, <4>2 DEF SlotsOf
          <6>2. c \in KidsOf(pg)
            BY <6>1 DEF KidsOf
          <6> QED BY <6>2, KidIsPage
        <5>2. CursorNext(t, at(i)) = at(i + 1) \o Dive(ps, c)
          <6> HIDE DEF at
          <6> QED BY <3>2, <3>5, <4>2
        <5>3. at(i + 1) \o Dive(ps, c) \in E
          <6> HIDE DEF at, c, ps
          <6> QED BY <2>1, <3>5, <5>1
        <5> HIDE DEF at, c
        <5> QED BY <3>3, <5>2, <5>3
      <4> QED BY <4>1, <4>2
    <3> HIDE DEF at
    <3> QED BY <3>1, <3>4, <3>5
  <2>6. ASSUME NEW i \in Nat PROVE at(i) \in E
    <3> DEFINE Left == {m \in Nat : \A j \in Nat : Len(pg.cells) - j < m => at(j) \in E}
    <3>1. 0 \in Left
      <4> SUFFICES ASSUME NEW j \in Nat, Len(pg.cells) - j < 0 PROVE at(j) \in E
        OBVIOUS
      <4>1. ~(j + 1 <= Len(pg.cells))
        BY <2>3
      <4> HIDE DEF at
      <4> QED BY <2>5, <4>1
    <3>2. ASSUME NEW m \in Nat, m \in Left PROVE m + 1 \in Left
      <4> SUFFICES ASSUME NEW j \in Nat, Len(pg.cells) - j < m + 1 PROVE at(j) \in E
        OBVIOUS
      <4>1. Len(pg.cells) - (j + 1) < m /\ j + 1 \in Nat
        BY <2>3
      <4>2. at(j + 1) \in E
        <5> HIDE DEF at
        <5> QED BY <3>2, <4>1
      <4> HIDE DEF at
      <4> QED BY <2>5, <4>2
    <3>3. Nat \subseteq Left
      <4> HIDE DEF Left
      <4> QED BY <3>1, <3>2, SetInduction
    <3>4. Len(pg.cells) + 1 \in Nat /\ Len(pg.cells) - i < Len(pg.cells) + 1
      BY <2>3
    <3> HIDE DEF at
    <3> QED BY <3>3, <3>4
  <2>7. u \o Dive(ps, q) \in E
    <3>1. CASE pg.leaf
      <4>1. CASE pg.cells = << >>
        <5>1. Dive(ps, q) = << >>
          BY <3>1, <4>1, DiveGoesDown
        <5>2. u \o << >> = u
          BY <2>2, ConcatEmptySeq DEF Stacks
        <5> QED BY <5>1, <5>2
      <4>2. CASE pg.cells # << >>
        <5>1. Dive(ps, q) = <<Frame(q, 0)>>
          BY <3>1, <4>2, DiveGoesDown
        <5>2. u \o <<Frame(q, 0)>> = at(0)
          BY <2>4
        <5> HIDE DEF at
        <5> QED BY <2>6, <5>1, <5>2
      <4> QED BY <4>1, <4>2
    <3>2. CASE ~pg.leaf
      <4> DEFINE c == pg.cells[1].left
                 d == Dive(ps, c)
      <4>1. c \in 1..Len(ps) /\ h[c] < h[q] /\ Dive(ps, q) = <<Frame(q, 0)>> \o d
        BY <3>2, DiveGoesDown
      <4>2. d \in Stacks(ps) /\ <<Frame(q, 0)>> \in Stacks(ps) /\ u \in Stacks(ps)
        <5>1. d \in Stacks(ps)
          <6> HIDE DEF c
          <6> QED BY <4>1, DiveGoesDown
        <5>2. <<Frame(q, 0)>> \in Stacks(ps)
          BY FrameIs
        <5> QED BY <2>2, <5>1, <5>2
      <4>3. u \o (<<Frame(q, 0)>> \o d) = (u \o <<Frame(q, 0)>>) \o d
        <5> DEFINE e == <<Frame(q, 0)>>
                   S == Frames(ps)
        <5>1. u \in Seq(S) /\ e \in Seq(S) /\ d \in Seq(S)
          <6> HIDE DEF d
          <6> QED BY <4>2 DEF Stacks
        <5> HIDE DEF d, e, S
        <5>2. (u \o e) \o d = u \o (e \o d)
          BY <5>1, ConcatAssociative
        <5> QED BY <5>2 DEF e
      <4>4. u \o <<Frame(q, 0)>> = at(0) /\ at(0) \in E
        <5>1. u \o <<Frame(q, 0)>> = at(0)
          BY <2>4
        <5> HIDE DEF at
        <5> QED BY <2>6, <5>1
      <4>5. at(0) \o Dive(ps, c) \in E
        <5> HIDE DEF at, c, ps
        <5> QED BY <2>1, <4>1, <4>4
      <4> HIDE DEF at
      <4> QED BY <4>1, <4>3, <4>4, <4>5
    <3> QED BY <3>1, <3>2
  <2> QED BY <2>6, <2>7
<1>9. Nat \subseteq Done
  <2> HIDE DEF Done
  <2> QED BY <1>7, <1>8, SetInduction
<1>10. ASSUME NEW q \in 1..Len(ps) PROVE Rests(q)
  <2>1. h[q] \in Nat /\ h[q] + 1 \in Nat /\ h[q] < h[q] + 1
    BY <1>6
  <2> HIDE DEF Rests
  <2> QED BY <1>9, <2>1
<1> DEFINE Short == {n \in Nat : \A s \in D : Len(s) < n => s \in E}
<1>11. 0 \in Short
  BY DEF Stacks
<1>12. ASSUME NEW n \in Nat, n \in Short PROVE n + 1 \in Short
  <2> SUFFICES ASSUME NEW s \in D, Len(s) < n + 1 PROVE s \in E
    OBVIOUS
  <2>1. CASE s = << >>
    BY <1>3, <2>1
  <2>2. CASE s # << >>
    <3> DEFINE u == Front(s)
               f == Last(s)
    <3>1. /\ f \in Frames(ps) /\ u \in D /\ Len(u) = Len(s) - 1 /\ Len(s) \in Nat \ {0}
          /\ s = Append(u, f)
      BY <2>2, TopFrame DEF Stacks
    <3>2. f.page \in 1..Len(ps) /\ f.idx \in Nat /\ f = Frame(f.page, f.idx)
      BY <3>1 DEF Frames, Frame, Good
    <3> HIDE DEF u, f
    <3>3. u \in E
      BY <1>12, <3>1
    <3>4. Rests(f.page)
      BY <1>10, <3>2
    <3>5. Append(u, Frame(f.page, f.idx)) \in E
      BY <3>2, <3>3, <3>4
    <3> QED BY <3>1, <3>2, <3>5
  <2> QED BY <2>1, <2>2
<1>13. Nat \subseteq Short
  <2> HIDE DEF Short
  <2> QED BY <1>11, <1>12, SetInduction
<1>14. \A s \in D : s \in E
  <2> SUFFICES ASSUME NEW s \in D PROVE s \in E
    OBVIOUS
  <2>1. Len(s) \in Nat /\ Len(s) + 1 \in Nat /\ Len(s) < Len(s) + 1
    BY DEF Stacks
  <2> QED BY <1>13, <2>1
<1> QED BY <1>2, <1>5, <1>14

(* What a scan has still to return when its cursor is at a stack.          *)
ScanFrom(t, stack) ==
    LET from[s \in Seq(Frames(t.pages))] ==
            IF s = << >> THEN << >>
            ELSE LET c == CursorCell(t, s) IN <<<<c.key, c.val>>>> \o from[CursorNext(t, s)]
    IN  from[stack]

ScanRow(t, s) == <<CursorCell(t, s).key, CursorCell(t, s).val>>

(* A scan returns the row it is at, then what is left.                     *)
LEMMA ScanGoesOn ==
    ASSUME NEW t, NEW h, Good(t.pages, h)
    PROVE  /\ ScanFrom(t, << >>) = << >>
           /\ \A s \in Stacks(t.pages) :
                s # << >> => ScanFrom(t, s) = <<ScanRow(t, s)>> \o ScanFrom(t, CursorNext(t, s))
<1> DEFINE D == Stacks(t.pages)
           Rows == {<<c.key, c.val>> : c \in CellSet \union {Garbage}}
           R == Seq(Rows)
           base == << >>
           Value(s, f) == IF s = << >> THEN << >> ELSE <<ScanRow(t, s)>> \o f[CursorNext(t, s)]
           step == [x \in D \X [D -> R] |-> Value(x[1], x[2])]
           Scans(f) == f = [s \in D |-> Value(s, f)]
           from == CHOOSE f : Scans(f)
<1>1. PICK size \in [D -> Nat] : \A s \in D : s # << >> => size[CursorNext(t, s)] < size[s]
  BY ScanEnds
<1>2. \A s \in D : CursorNext(t, s) \in D
  BY CursorMoves
<1>3. base \in R /\ base \in D
  BY DEF Stacks
<1>4. ASSUME NEW s \in D, s # << >> PROVE <<ScanRow(t, s)>> \in R
  <2> DEFINE pg == t.pages[Last(s).page]
  <2>1. Last(s) \in Frames(t.pages)
    BY <1>4, TopFrame DEF Stacks
  <2>2. Last(s).page \in 1..Len(t.pages) /\ Last(s).idx \in Nat
    BY <2>1 DEF Frames, Good
  <2>3. pg.cells \in Seq(CellSet)
    BY <2>2, GoodPage
  <2>4. CursorCell(t, s) \in CellSet \union {Garbage}
    <3>1. CASE Last(s).idx < Len(pg.cells)
      <4> DEFINE i == Last(s).idx
                 cs == pg.cells
      <4>0. i \in Nat /\ cs \in Seq(CellSet) /\ i < Len(cs)
        BY <2>2, <2>3, <3>1
      <4> HIDE DEF i, cs
      <4>1. i + 1 \in 1..Len(cs)
        BY <4>0
      <4>2. cs[i + 1] \in CellSet
        BY <4>0, <4>1
      <4> QED BY <3>1, <4>2 DEF CursorCell, i, cs
    <3>2. CASE ~(Last(s).idx < Len(pg.cells))
      BY <3>2 DEF CursorCell
    <3> QED BY <3>1, <3>2
  <2>5. ScanRow(t, s) \in Rows
    BY <2>4 DEF ScanRow
  <2> HIDE DEF Rows
  <2> QED BY <2>5
<1>5. step \in MeasuredSteps(D, R)
  <2>1. ASSUME NEW s \in D, NEW f \in [D -> R] PROVE Value(s, f) \in R
    <3>1. CASE s = << >>
      <4> HIDE DEF R
      <4> QED BY <1>3, <3>1
    <3>2. CASE s # << >>
      <4> DEFINE a == <<ScanRow(t, s)>>
                 b == f[CursorNext(t, s)]
      <4>1. a \in R /\ b \in R
        <5> HIDE DEF R, D
        <5> QED BY <1>2, <1>4, <3>2
      <4>2. Value(s, f) = a \o b
        BY <3>2
      <4> HIDE DEF a, b, Rows, Value
      <4> QED BY <4>1, <4>2, ConcatProperties
    <3> QED BY <3>1, <3>2
  <2> HIDE DEF Value, R, D
  <2> QED BY <2>1 DEF MeasuredSteps
<1>6. LooksBelow(D, R, size, step)
  <2>1. ASSUME NEW s \in D, NEW f \in [D -> R], NEW g \in [D -> R],
               \A e \in D : size[e] < size[s] => f[e] = g[e]
        PROVE  Value(s, f) = Value(s, g)
    <3> HIDE DEF R, D
    <3> QED BY <1>1, <1>2, <2>1
  <2> HIDE DEF Value, R, D
  <2> QED BY <2>1 DEF LooksBelow
<1>7. PICK f \in [D -> R] : \A s \in D : f[s] = step[<<s, f>>]
  <2> HIDE DEF D, R, base, step
  <2> QED BY <1>3, <1>5, <1>6, MeasuredRecursion
<1>8. Scans(f)
  <2> HIDE DEF Value, D, R
  <2> QED BY <1>7
<1>9. Scans(from)
  <2> HIDE DEF Scans
  <2> QED BY <1>8
<1>10. \A s \in D : ScanFrom(t, s) = from[s]
  BY DEF ScanFrom, ScanRow, Stacks
<1>11. \A s \in D : from[s] = Value(s, from)
  <2> HIDE DEF from, Value
  <2> QED BY <1>9
<1> HIDE DEF from, D
<1> QED BY <1>2, <1>3, <1>10, <1>11 DEF D

-----------------------------------------------------------------------------
(* Places in a finite set of integers.                                     *)
Under(S, x) == {y \in S : y < x}
Rank(S, x) == Cardinality(Under(S, x))

(* The place of a member, next to the places of the others.                *)
LEMMA RankGrows ==
    ASSUME NEW S \in SUBSET Int, IsFiniteSet(S), NEW x \in S
    PROVE  /\ Rank(S, x) \in 0..(Cardinality(S) - 1) /\ Cardinality(S) \in Nat
           /\ \A y \in S : x < y => Rank(S, x) < Rank(S, y)
           /\ \A y \in S : x < y /\ (\A z \in S : ~(x < z /\ z < y)) => Rank(S, y) = Rank(S, x) + 1
           /\ (\A y \in S : y <= x) => Rank(S, x) = Cardinality(S) - 1
           /\ (\A y \in S : x <= y) => Rank(S, x) = 0
<1> DEFINE B == Under(S, x)
           A == B \union {x}
<1>0. x \in Int /\ \A y \in S : y \in Int
  OBVIOUS
<1>1. B \in SUBSET S /\ IsFiniteSet(B) /\ x \notin B
  <2>1. B \in SUBSET S /\ x \notin B
    BY DEF Under
  <2> HIDE DEF B
  <2> QED BY <2>1, FS_Subset
<1>2. /\ IsFiniteSet(A) /\ Cardinality(A) = Cardinality(B) + 1
      /\ Cardinality(A) \in Nat /\ Cardinality(B) \in Nat /\ Cardinality(S) \in Nat
  <2> HIDE DEF B
  <2> QED BY <1>1, FS_AddElement, FS_CardinalityType
<1>3. Cardinality(B) + 1 <= Cardinality(S)
  <2>1. A \in SUBSET S
    BY <1>1
  <2> HIDE DEF A, B
  <2> QED BY <1>2, <2>1, FS_Subset
<1>4. ASSUME NEW y \in S, x < y PROVE Rank(S, x) < Rank(S, y)
  <2> DEFINE C == Under(S, y)
  <2>1. A \in SUBSET C /\ C \in SUBSET S
    <3>1. \A z \in S : z \in A => z \in C
      <4> SUFFICES ASSUME NEW z \in S, z < x \/ z = x PROVE z < y
        BY DEF Under
      <4>1. x \in Int /\ y \in Int /\ z \in Int
        BY <1>0
      <4> QED BY <1>4, <4>1
    <3>2. A \subseteq S /\ C \subseteq S
      BY DEF Under
    <3> HIDE DEF A, C
    <3> QED BY <3>1, <3>2
  <2>2. IsFiniteSet(C) /\ Cardinality(C) \in Nat
    <3> HIDE DEF C
    <3> QED BY <2>1, FS_Subset, FS_CardinalityType
  <2>3. Cardinality(A) <= Cardinality(C)
    <3> HIDE DEF A, C
    <3> QED BY <2>1, <2>2, FS_Subset
  <2> HIDE DEF A
  <2> QED BY <1>2, <2>2, <2>3 DEF Rank
<1>5. ASSUME NEW y \in S, x < y, \A z \in S : ~(x < z /\ z < y) PROVE Rank(S, y) = Rank(S, x) + 1
  <2>1. Under(S, y) = A
    <3>1. \A z \in S : z \in Under(S, y) <=> z \in A
      <4> SUFFICES ASSUME NEW z \in S PROVE z < y <=> z < x \/ z = x
        BY DEF Under
      <4>1. x \in Int /\ y \in Int /\ z \in Int
        BY <1>0
      <4> QED BY <1>5, <4>1
    <3>2. A \subseteq S /\ Under(S, y) \subseteq S
      BY DEF Under
    <3> HIDE DEF A
    <3> QED BY <3>1, <3>2
  <2> HIDE DEF A
  <2> QED BY <1>2, <2>1 DEF Rank
<1>6. ASSUME \A y \in S : y <= x PROVE Rank(S, x) = Cardinality(S) - 1
  <2>1. S = A
    <3>1. \A z \in S : z \in A
      <4> SUFFICES ASSUME NEW z \in S PROVE z < x \/ z = x
        BY DEF Under
      <4>1. x \in Int /\ z \in Int
        BY <1>0
      <4> QED BY <1>6, <4>1
    <3>2. A \subseteq S
      BY DEF Under
    <3> HIDE DEF A
    <3> QED BY <3>1, <3>2
  <2> HIDE DEF A
  <2> QED BY <1>2, <2>1 DEF Rank
<1>7. ASSUME \A y \in S : x <= y PROVE Rank(S, x) = 0
  <2>1. Under(S, x) = {}
    <3> SUFFICES ASSUME NEW z \in S, z < x PROVE FALSE
      BY DEF Under
    <3>1. x \in Int /\ z \in Int
      BY <1>0
    <3> QED BY <1>7, <3>1
  <2> QED BY <2>1, FS_EmptySet DEF Rank
<1>8. Rank(S, x) = Cardinality(B)
  BY DEF Rank
<1> HIDE DEF B
<1> QED BY <1>2, <1>3, <1>4, <1>5, <1>6, <1>7, <1>8

(* A finite set of integers has a least member.                            *)
LEMMA LeastMember ==
    ASSUME NEW S \in SUBSET Int, IsFiniteSet(S), S # {}
    PROVE  \E x \in S : \A y \in S : x <= y
<1> DEFINE T == {Rank(S, x) : x \in S}
<1>1. T \subseteq Nat /\ T # {}
  <2>1. \A x \in S : Rank(S, x) \in Nat
    BY RankGrows
  <2> QED BY <2>1
<1>2. PICK n \in T : \A m \in T : n <= m
  <2> HIDE DEF T
  <2> QED BY <1>1, LeastNumber
<1>3. PICK x \in S : n = Rank(S, x)
  BY <1>2
<1>4. ASSUME NEW y \in S PROVE x <= y
  <2>1. ASSUME y < x PROVE FALSE
    <3>1. Rank(S, y) < Rank(S, x) /\ Rank(S, y) \in Nat /\ Rank(S, x) \in Nat
      BY <2>1, RankGrows
    <3>2. Rank(S, x) <= Rank(S, y)
      BY <1>2, <1>3
    <3> QED BY <3>1, <3>2
  <2> QED BY <2>1
<1> QED BY <1>4

(* The rows of a map in the order of their keys.                           *)
RowList(m) ==
    [i \in 1..Cardinality(DOMAIN m) |->
        LET k == CHOOSE x \in DOMAIN m : Cardinality({y \in DOMAIN m : y < x}) = i - 1
        IN  <<k, m[k]>>]

(* Each row stands at the place of its key.                                *)
LEMMA RowsInOrder ==
    ASSUME NEW m, DOMAIN m \in SUBSET Int, IsFiniteSet(DOMAIN m), NEW x \in DOMAIN m
    PROVE  Rank(DOMAIN m, x) + 1 \in DOMAIN RowList(m) /\ RowList(m)[Rank(DOMAIN m, x) + 1] = <<x, m[x]>>
<1> DEFINE S == DOMAIN m
           r == Rank(S, x)
           k == CHOOSE y \in S : Rank(S, y) = r
<1>1. r \in 0..(Cardinality(S) - 1) /\ Cardinality(S) \in Nat
  BY RankGrows
<1>2. k \in S /\ Rank(S, k) = r
  OBVIOUS
<1>3. k = x
  <2> HIDE DEF k
  <2>1. ~(k < x) /\ ~(x < k)
    BY <1>1, <1>2, RankGrows
  <2>2. k \in Int /\ x \in Int
    BY <1>2
  <2> QED BY <2>1, <2>2
<1>4. r + 1 \in 1..Cardinality(S) /\ (r + 1) - 1 = r
  BY <1>1
<1>5. \A i \in 1..Cardinality(S) :
        RowList(m)[i] = <<CHOOSE y \in S : Rank(S, y) = i - 1, m[CHOOSE y \in S : Rank(S, y) = i - 1]>>
  BY DEF RowList, Rank, Under
<1>6. RowList(m)[r + 1] = <<k, m[k]>>
  BY <1>4, <1>5
<1>7. DOMAIN RowList(m) = 1..Cardinality(S)
  BY DEF RowList
<1> HIDE DEF r, k
<1> QED BY <1>3, <1>4, <1>6, <1>7 DEF r

(* At every key of m the cursor stands at at, and goes from one to the     *)
(* next.                                                                   *)
Visits(t, m, at) ==
    /\ at \in [DOMAIN m -> Stacks(t.pages)]
    /\ \A x \in DOMAIN m : at[x] # << >> /\ ScanRow(t, at[x]) = <<x, m[x]>>
    /\ DOMAIN m = {} => CursorStart(t) = << >>
    /\ \A x \in DOMAIN m : (\A y \in DOMAIN m : x <= y) => CursorStart(t) = at[x]
    /\ \A x \in DOMAIN m : (\A y \in DOMAIN m : y <= x) => CursorNext(t, at[x]) = << >>
    /\ \A x, y \in DOMAIN m :
         x < y /\ (\A z \in DOMAIN m : ~(x < z /\ z < y)) => CursorNext(t, at[x]) = at[y]

(* A cursor that visits the keys of a map in order returns its rows.       *)
LEMMA ScanInOrder ==
    ASSUME NEW t, NEW h, Good(t.pages, h), NEW m, DOMAIN m \in SUBSET Int, IsFiniteSet(DOMAIN m),
           NEW at, Visits(t, m, at)
    PROVE  Scanned(t) = RowList(m)
<1> DEFINE S == DOMAIN m
           N == Cardinality(S)
           Rest(r) == [j \in 1..(N - r) |-> RowList(m)[r + j]]
<1>0. N \in Nat
  BY FS_CardinalityType
<1>1. ASSUME NEW x \in S
      PROVE  Rank(S, x) \in 0..(N - 1) /\ RowList(m)[Rank(S, x) + 1] = <<x, m[x]>>
  BY RankGrows, RowsInOrder
<1>2. ASSUME NEW x \in S
      PROVE  ScanFrom(t, at[x]) = <<<<x, m[x]>>>> \o ScanFrom(t, CursorNext(t, at[x]))
  BY ScanGoesOn DEF Visits
<1>3. ASSUME NEW r \in Nat, r < N
      PROVE  Rest(r) = <<RowList(m)[r + 1]>> \o Rest(r + 1)
  <2> DEFINE R == {RowList(m)[j] : j \in 1..N}
             a == <<RowList(m)[r + 1]>>
             b == Rest(r + 1)
             c == Rest(r)
  <2> DEFINE n1 == N - r
             n2 == N - (r + 1)
  <2>1. N - r \in Nat \ {0} /\ N - (r + 1) \in Nat /\ r + 1 \in 1..N /\ N - r = 1 + (N - (r + 1))
    BY <1>0, <1>3
  <2>2. \A j \in 1..(N - r) : r + j \in 1..N
    BY <1>0, <1>3
  <2>3. \A j \in 1..(N - (r + 1)) : (r + 1) + j \in 1..N
    BY <1>0, <1>3
  <2> HIDE DEF N
  <2>4. a \in Seq(R) /\ Len(a) = 1 /\ a[1] = RowList(m)[r + 1]
    BY <2>1
  <2>5. b \in Seq(R) /\ Len(b) = n2 /\ \A j \in 1..n2 : b[j] = RowList(m)[(r + 1) + j]
    <3>1. b = [j \in 1..n2 |-> RowList(m)[(r + 1) + j]] /\ n2 \in Nat
      BY <2>1
    <3>2. \A j \in 1..n2 : RowList(m)[(r + 1) + j] \in R
      BY <2>3
    <3> HIDE DEF n2, b, R
    <3>3. b \in [1..n2 -> R]
      BY <3>1, <3>2
    <3>4. b \in Seq(R) /\ Len(b) = n2
      <4>1. n2 \in Nat
        BY <3>1
      <4> QED BY <3>3, <4>1
    <3>5. \A j \in 1..n2 : b[j] = RowList(m)[(r + 1) + j]
      BY <3>1
    <3> QED BY <3>4, <3>5
  <2>6. c \in Seq(R) /\ Len(c) = n1 /\ \A j \in 1..n1 : c[j] = RowList(m)[r + j]
    <3>1. c = [j \in 1..n1 |-> RowList(m)[r + j]] /\ n1 \in Nat
      BY <2>1
    <3>2. \A j \in 1..n1 : RowList(m)[r + j] \in R
      BY <2>2
    <3> HIDE DEF n1, c, R
    <3>3. c \in [1..n1 -> R]
      BY <3>1, <3>2
    <3>4. c \in Seq(R) /\ Len(c) = n1
      <4>1. n1 \in Nat
        BY <3>1
      <4> QED BY <3>3, <4>1
    <3>5. \A j \in 1..n1 : c[j] = RowList(m)[r + j]
      BY <3>1
    <3> QED BY <3>4, <3>5
  <2>0. n1 = 1 + n2 /\ n1 \in Nat /\ n2 \in Nat /\ n2 = n1 - 1
    BY <2>1
  <2> HIDE DEF a, b, c, R, n1, n2
  <2>7. /\ a \o b \in Seq(R) /\ Len(a \o b) = n1
        /\ \A j \in 1..n1 : (a \o b)[j] = IF j <= 1 THEN a[j] ELSE b[j - 1]
    <3>1. /\ a \o b \in Seq(R) /\ Len(a \o b) = Len(a) + Len(b)
          /\ \A j \in 1..(Len(a) + Len(b)) : (a \o b)[j] = IF j <= Len(a) THEN a[j] ELSE b[j - Len(a)]
      <4>1. a \in Seq(R) /\ b \in Seq(R)
        BY <2>4, <2>5
      <4> QED BY <4>1, ConcatProperties
    <3>2. Len(a) + Len(b) = n1 /\ Len(a) = 1
      BY <2>0, <2>4, <2>5
    <3> QED BY <3>1, <3>2
  <2>8. ASSUME NEW j \in 1..Len(c) PROVE c[j] = (a \o b)[j]
    <3>1. CASE j = 1
      <4>1. c[1] = RowList(m)[r + 1] /\ (a \o b)[1] = a[1]
        <5>1. 1 \in 1..n1
          BY <2>0
        <5> QED BY <2>6, <2>7, <5>1
      <4> QED BY <2>4, <3>1, <4>1
    <3>2. CASE j # 1
      <4>1. j - 1 \in 1..n2 /\ (r + 1) + (j - 1) = r + j /\ ~(j <= 1) /\ j \in 1..n1
        BY <2>0, <2>6, <3>2
      <4>2. c[j] = RowList(m)[r + j] /\ (a \o b)[j] = b[j - 1]
        BY <2>6, <2>7, <4>1
      <4>3. b[j - 1] = RowList(m)[(r + 1) + (j - 1)]
        BY <2>5, <4>1
      <4> QED BY <4>1, <4>2, <4>3
    <3> QED BY <3>1, <3>2
  <2>9. c = a \o b
    BY <2>6, <2>7, <2>8, SeqEqual
  <2> QED BY <2>9 DEF a, b, c
<1>4. Rest(N) = << >>
  <2>1. 1..(N - N) = {}
    BY <1>0
  <2> HIDE DEF N
  <2> QED BY <2>1
<1> HIDE DEF N, Rest
<1> DEFINE Done == {n \in Nat : \A x \in S : N - Rank(S, x) < n => ScanFrom(t, at[x]) = Rest(Rank(S, x))}
<1>5. 0 \in Done
  BY <1>0, <1>1
<1>6. ASSUME NEW n \in Nat, n \in Done PROVE n + 1 \in Done
  <2> SUFFICES ASSUME NEW x \in S, N - Rank(S, x) < n + 1 PROVE ScanFrom(t, at[x]) = Rest(Rank(S, x))
    <3>1. \A x \in S : N - Rank(S, x) < n + 1 => ScanFrom(t, at[x]) = Rest(Rank(S, x))
      <4> HIDE DEF S
      <4> QED OBVIOUS
    <3>2. n + 1 \in Nat
      OBVIOUS
    <3> HIDE DEF S
    <3> QED BY <3>1, <3>2
  <2> DEFINE r == Rank(S, x)
  <2>1. r \in Nat /\ r < N /\ Rest(r) = <<RowList(m)[r + 1]>> \o Rest(r + 1)
    BY <1>0, <1>1, <1>3
  <2>2. RowList(m)[r + 1] = <<x, m[x]>>
    BY <1>1
  <2>3. CASE \A y \in S : y <= x
    <3>1. CursorNext(t, at[x]) = << >>
      BY <2>3 DEF Visits
    <3>2. r = N - 1
      BY <2>3, RankGrows DEF N
    <3>3. r + 1 = N
      BY <1>0, <3>2
    <3>4. Rest(r + 1) = << >>
      BY <1>4, <3>3
    <3> QED BY <1>2, <2>1, <2>2, <3>1, <3>4, ScanGoesOn
  <2>4. CASE ~(\A y \in S : y <= x)
    <3> DEFINE U == {y \in S : x < y}
    <3>1. U \in SUBSET Int /\ U \in SUBSET S /\ U # {}
      BY <2>4
    <3>2. IsFiniteSet(U)
      <4> HIDE DEF U
      <4> QED BY <3>1, FS_Subset
    <3>3. PICK y \in U : \A z \in U : y <= z
      <4> HIDE DEF U
      <4> QED BY <3>1, <3>2, LeastMember
    <3>4. y \in S /\ x < y /\ \A z \in S : ~(x < z /\ z < y)
      BY <3>3
    <3>5. CursorNext(t, at[x]) = at[y]
      BY <3>4 DEF Visits
    <3>6. Rank(S, y) = r + 1
      BY <3>4, RankGrows
    <3>7. N - Rank(S, y) < n
      BY <1>0, <2>1, <3>6
    <3>8. ScanFrom(t, at[y]) = Rest(r + 1)
      BY <1>6, <3>4, <3>6, <3>7
    <3> QED BY <1>2, <2>1, <2>2, <3>5, <3>8
  <2> QED BY <2>3, <2>4
<1>7. Nat \subseteq Done
  <2> HIDE DEF Done
  <2> QED BY <1>5, <1>6, SetInduction
<1>8. ASSUME NEW x \in S PROVE ScanFrom(t, at[x]) = Rest(Rank(S, x))
  <2>1. N + 1 \in Nat /\ N - Rank(S, x) < N + 1
    BY <1>0, <1>1
  <2> QED BY <1>7, <2>1
<1>9. Scanned(t) = ScanFrom(t, CursorStart(t))
  BY DEF Scanned, ScanFrom
<1>10. CASE S = {}
  <2>1. N = 0
    BY <1>10, FS_EmptySet DEF N
  <2>2. RowList(m) = << >>
    <3>1. DOMAIN RowList(m) = {}
      BY <2>1 DEF RowList, N
    <3> QED BY <2>1, <3>1 DEF RowList, N
  <2> QED BY <1>9, <1>10, <2>2, ScanGoesOn DEF Visits
<1>11. CASE S # {}
  <2>1. PICK x \in S : \A y \in S : x <= y
    BY <1>11, LeastMember
  <2>2. CursorStart(t) = at[x] /\ Rank(S, x) = 0
    BY <2>1, RankGrows DEF Visits
  <2>3. Rest(0) = RowList(m)
    <3>1. N - 0 = N /\ \A j \in 1..N : 0 + j = j
      BY <1>0
    <3> QED BY <3>1 DEF Rest, RowList, N
  <2> QED BY <1>8, <1>9, <2>2, <2>3
<1> QED BY <1>10, <1>11

-----------------------------------------------------------------------------
(* The cells s are the rows of the map m.                                  *)
RowsAre(s, m) == \A x, w : Has(s, x, w) <=> x \in DOMAIN m /\ w = m[x]

(* Cells that are the rows of a map: they have its keys and no others.     *)
LEMMA RowsOfCells ==
    ASSUME NEW s \in Seq(CellSet), NEW m, RowsAre(s, m)
    PROVE  /\ \A i \in 1..Len(s) : s[i].key \in DOMAIN m /\ m[s[i].key] = s[i].val
           /\ \A x \in DOMAIN m : \E i \in 1..Len(s) : s[i].key = x /\ s[i].val = m[x]
           /\ DOMAIN m \in SUBSET Int /\ DOMAIN m \in SUBSET Key /\ IsFiniteSet(DOMAIN m)
<1>1. \A i \in 1..Len(s) : s[i].key \in DOMAIN m /\ m[s[i].key] = s[i].val
  BY DEF RowsAre, Has
<1>2. \A x \in DOMAIN m : \E i \in 1..Len(s) : s[i].key = x /\ s[i].val = m[x]
  BY DEF RowsAre, Has
<1>3. DOMAIN m = {s[i].key : i \in 1..Len(s)}
  BY <1>1, <1>2
<1>4. \A i \in 1..Len(s) : s[i].key \in Int /\ s[i].key \in Key
  <2>1. \A c \in CellSet : c.key \in Int /\ c.key \in Key
    BY TreeAssumption DEF CellSet
  <2>2. \A i \in 1..Len(s) : s[i] \in CellSet
    OBVIOUS
  <2> QED BY <2>1, <2>2
<1>5. DOMAIN m \in SUBSET Int /\ DOMAIN m \in SUBSET Key
  BY <1>3, <1>4
<1>6. IsFiniteSet(DOMAIN m)
  <2> DEFINE f == [i \in 1..Len(s) |-> s[i].key]
  <2>1. IsFiniteSet(1..Len(s))
    <3>1. 1 \in Int /\ Len(s) \in Int
      OBVIOUS
    <3> QED BY <3>1, FS_Interval
  <2>2. f \in Surjection(1..Len(s), DOMAIN m)
    <3>1. f \in [1..Len(s) -> DOMAIN m]
      BY <1>1
    <3>2. \A x \in DOMAIN m : \E i \in 1..Len(s) : f[i] = x
      BY <1>2
    <3> HIDE DEF f
    <3> QED BY <3>1, <3>2, Fun_IsSurj
  <2> HIDE DEF f
  <2> QED BY <2>1, <2>2, FS_Surjection
<1> QED BY <1>1, <1>2, <1>5, <1>6

(* A tree the root of which is a leaf is scanned cell by cell.             *)
LEMMA LeafScans ==
    ASSUME NEW t, IsTree(t), t.pages[t.root].leaf, NEW m, RowsAre(t.pages[t.root].cells, m)
    PROVE  Scanned(t) = RowList(m)
<1> DEFINE ps == t.pages
           p == t.root
           s == ps[p].cells
           S == DOMAIN m
           pos(x) == CHOOSE i \in 1..Len(s) : s[i].key = x
           at == [x \in S |-> <<Frame(p, pos(x) - 1)>>]
<1>1. PICK h : Good(ps, h)
  BY DEF IsTree
<1>2. p \in 1..Len(ps) /\ ps[p].leaf
  BY DEF IsTree
<1>3. s \in Seq(CellSet) /\ CellsAscend(s) /\ Len(s) \in Nat
  BY <1>1, <1>2, PageIsLeafOf, GoodPage DEF LeafCells
<1>4. /\ S \in SUBSET Int /\ IsFiniteSet(S)
      /\ \A i \in 1..Len(s) : s[i].key \in S /\ m[s[i].key] = s[i].val
      /\ \A x \in S : \E i \in 1..Len(s) : s[i].key = x /\ s[i].val = m[x]
  <2> HIDE DEF s, ps
  <2>1. RowsAre(s, m)
    BY DEF s, ps
  <2>2. s \in Seq(CellSet)
    BY <1>3
  <2>3. DOMAIN m \in SUBSET Int /\ IsFiniteSet(DOMAIN m)
    BY <2>1, <2>2, RowsOfCells
  <2>4. \A i \in 1..Len(s) : s[i].key \in DOMAIN m /\ m[s[i].key] = s[i].val
    BY <2>1, <2>2, RowsOfCells
  <2>5. \A x \in DOMAIN m : \E i \in 1..Len(s) : s[i].key = x /\ s[i].val = m[x]
    BY <2>1, <2>2, RowsOfCells
  <2> QED BY <2>3, <2>4, <2>5
<1>5. ASSUME NEW x \in S PROVE pos(x) \in 1..Len(s) /\ s[pos(x)].key = x /\ s[pos(x)].val = m[x]
  <2>1. pos(x) \in 1..Len(s) /\ s[pos(x)].key = x
    <3>1. \E i \in 1..Len(s) : s[i].key = x
      BY <1>4
    <3> HIDE DEF s
    <3> QED BY <3>1
  <2> HIDE DEF pos, s
  <2> QED BY <1>4, <2>1
<1>6. ASSUME NEW i \in 1..Len(s) PROVE pos(s[i].key) = i
  <2> HIDE DEF s
  <2>1. s[i].key \in S
    BY <1>4
  <2>2. pos(s[i].key) \in 1..Len(s) /\ s[pos(s[i].key)].key = s[i].key
    BY <1>5, <2>1
  <2> DEFINE j == pos(s[i].key)
  <2>3. j \in 1..Len(s) /\ s[j].key = s[i].key
    BY <2>2
  <2> HIDE DEF j
  <2>4. j = i
    BY <1>3, <2>3, OneCellPerKey
  <2> QED BY <2>4 DEF j
<1> HIDE DEF pos
<1>7. ASSUME NEW i \in 1..Len(s)
      PROVE  /\ i - 1 \in Nat /\ <<Frame(p, i - 1)>> \in Stacks(ps) /\ <<Frame(p, i - 1)>> # << >>
             /\ ScanRow(t, <<Frame(p, i - 1)>>) = <<s[i].key, s[i].val>>
             /\ CursorNext(t, <<Frame(p, i - 1)>>) = IF i < Len(s) THEN <<Frame(p, i)>> ELSE << >>
  <2> DEFINE n == i - 1
             f == Frame(p, n)
             e == << >>
  <2>1. n \in Nat /\ n + 1 = i /\ n < Len(s)
    BY <1>3
  <2> HIDE DEF n
  <2>2. f \in Frames(ps) /\ <<f>> \in Stacks(ps) /\ f.page = p /\ f.idx = n
    BY <1>1, <1>2, <2>1, FrameIs
  <2> HIDE DEF f
  <2>3. Last(<<f>>) = f /\ <<f>> # << >>
    BY DEF Last
  <2>4. CursorCell(t, <<f>>) = s[i]
    BY <2>1, <2>2, <2>3 DEF CursorCell
  <2>5. ScanRow(t, <<f>>) = <<s[i].key, s[i].val>>
    BY <2>4 DEF ScanRow
  <2>6. /\ Append(e, Frame(p, n)) = <<Frame(p, n)>> /\ Append(e, Frame(p, n + 1)) = <<Frame(p, n + 1)>>
        /\ e \in Stacks(ps)
    BY DEF Stacks
  <2> HIDE DEF e
  <2>7. CursorNext(t, Append(e, Frame(p, n))) =
          IF n + 1 < Len(s) THEN Append(e, Frame(p, n + 1)) ELSE CursorNext(t, e)
    BY <1>1, <1>2, <2>1, <2>6, CursorMoves
  <2>8. CursorNext(t, e) = << >>
    BY <1>1, CursorMoves DEF e
  <2>9. CursorNext(t, <<f>>) = IF i < Len(s) THEN <<Frame(p, i)>> ELSE << >>
    BY <2>1, <2>6, <2>7, <2>8 DEF f
  <2> QED BY <2>1, <2>2, <2>3, <2>5, <2>9 DEF f, n
<1>8. ASSUME NEW x \in S
      PROVE  /\ at[x] \in Stacks(ps) /\ at[x] # << >> /\ ScanRow(t, at[x]) = <<x, m[x]>>
             /\ CursorNext(t, at[x]) = IF pos(x) < Len(s) THEN <<Frame(p, pos(x))>> ELSE << >>
  <2> HIDE DEF s, ps
  <2> QED BY <1>5, <1>7
<1>9. ASSUME NEW i \in 1..Len(s) PROVE s[i].key \in S /\ at[s[i].key] = <<Frame(p, i - 1)>>
  BY <1>4, <1>6
<1>10. CursorStart(t) = IF s = << >> THEN << >> ELSE <<Frame(p, 0)>>
  BY <1>1, <1>2, LeftmostIsLeaf, DiveGoesDown DEF CursorStart
<1> DEFINE K(i) == s[i].key
<1>11. \A i, j \in 1..Len(s) : i < j => K(i) < K(j)
  BY <1>3 DEF CellsAscend
<1>12. \A i \in 1..Len(s) : K(i) \in S /\ K(i) \in Int /\ at[K(i)] = <<Frame(p, i - 1)>>
  BY <1>4, <1>9
<1>13. \A x \in S : pos(x) \in 1..Len(s) /\ K(pos(x)) = x
  BY <1>5
<1> HIDE DEF at, s, ps, K
<1>14. ASSUME S = {} PROVE CursorStart(t) = << >>
  <2>1. Len(s) = 0
    <3>1. ASSUME Len(s) # 0 PROVE FALSE
      <4>1. 1 \in 1..Len(s)
        BY <1>3, <3>1
      <4> QED BY <1>12, <1>14, <4>1
    <3> QED BY <3>1
  <2>2. s = << >>
    BY <1>3, <2>1, EmptySeq
  <2> QED BY <1>10, <2>2
<1>15. ASSUME NEW x \in S, \A y \in S : x <= y PROVE CursorStart(t) = at[x]
  <2>1. 1 \in 1..Len(s) /\ s # << >>
    <3>1. pos(x) \in 1..Len(s)
      BY <1>13
    <3>2. 1 \in 1..Len(s)
      BY <1>3, <3>1
    <3>3. Len(s) # 0
      BY <3>2
    <3>4. Len(<< >>) = 0
      OBVIOUS
    <3> QED BY <3>2, <3>3, <3>4
  <2>2. pos(x) = 1
    <3>1. ASSUME 1 < pos(x) PROVE FALSE
      <4>1. K(1) < x /\ K(1) \in S
        BY <1>11, <1>12, <1>13, <2>1, <3>1
      <4>2. x <= K(1) /\ x \in Int /\ K(1) \in Int
        BY <1>4, <1>12, <1>15, <4>1, <2>1
      <4> QED BY <4>1, <4>2
    <3> QED BY <1>3, <1>13, <3>1
  <2>3. at[x] = <<Frame(p, 1 - 1)>>
    BY <1>12, <1>13, <2>1, <2>2
  <2> QED BY <1>10, <2>1, <2>3
<1>16. ASSUME NEW x \in S, \A y \in S : y <= x PROVE CursorNext(t, at[x]) = << >>
  <2>1. pos(x) \in 1..Len(s) /\ K(pos(x)) = x /\ x \in Int
    BY <1>4, <1>13
  <2>2. ~(pos(x) < Len(s))
    <3>1. ASSUME pos(x) < Len(s) PROVE FALSE
      <4>1. Len(s) \in 1..Len(s)
        BY <1>3, <2>1, <3>1
      <4>2. x < K(Len(s)) /\ K(Len(s)) \in S /\ K(Len(s)) \in Int
        BY <1>11, <1>12, <2>1, <3>1, <4>1
      <4>3. K(Len(s)) <= x
        BY <1>16, <4>2
      <4> QED BY <2>1, <4>2, <4>3
    <3> QED BY <3>1
  <2> QED BY <1>8, <2>2
<1>17. ASSUME NEW x \in S, NEW y \in S, x < y, \A z \in S : ~(x < z /\ z < y)
       PROVE  CursorNext(t, at[x]) = at[y]
  <2> DEFINE i == pos(x)
             j == pos(y)
  <2>1. i \in 1..Len(s) /\ K(i) = x /\ j \in 1..Len(s) /\ K(j) = y /\ x \in Int /\ y \in Int
    BY <1>4, <1>13
  <2> HIDE DEF i, j
  <2>2. i < j
    <3>1. ~(j < i) /\ i # j
      BY <1>11, <1>17, <2>1
    <3> QED BY <1>3, <2>1, <3>1
  <2>3. j = i + 1
    <3>1. ASSUME i + 1 < j PROVE FALSE
      <4>1. i + 1 \in 1..Len(s) /\ i < i + 1
        BY <1>3, <2>1, <3>1
      <4>2. x < K(i + 1) /\ K(i + 1) < y /\ K(i + 1) \in S
        BY <1>11, <1>12, <2>1, <3>1, <4>1
      <4> QED BY <1>17, <4>2
    <3> QED BY <1>3, <2>1, <2>2, <3>1
  <2>4. i < Len(s) /\ j - 1 = i
    BY <1>3, <2>1, <2>3
  <2>5. CursorNext(t, at[x]) = <<Frame(p, i)>>
    BY <1>8, <2>4 DEF i
  <2>6. at[y] = <<Frame(p, i)>>
    BY <1>12, <2>1, <2>4
  <2> QED BY <2>5, <2>6
<1>18. at \in [S -> Stacks(ps)]
  BY <1>8 DEF at
<1>19. Visits(t, m, at)
  BY <1>8, <1>14, <1>15, <1>16, <1>17, <1>18 DEF Visits, ps
<1> QED BY <1>1, <1>4, <1>19, ScanInOrder DEF ps

-----------------------------------------------------------------------------
(* A tree of one page: its root, a leaf.                                   *)
OnePage(t) == IsTree(t) /\ Len(t.pages) = 1

(* Its page is a leaf: an internal page would be its own child.            *)
LEMMA OneLeaf ==
    ASSUME NEW t, OnePage(t)
    PROVE  /\ t.root = 1 /\ t.pages \in Seq(Page) /\ DOMAIN t.pages = {1} /\ t.pages[1].leaf
           /\ t.pages[1].cells \in Seq(CellSet) /\ CellsAscend(t.pages[1].cells)
<1>1. PICK h : Good(t.pages, h)
  BY DEF IsTree, OnePage
<1>2. t.pages \in Seq(Page) /\ DOMAIN t.pages = 1..Len(t.pages) /\ Len(t.pages) = 1
  BY <1>1 DEF Good, OnePage
<1>3. t.root = 1 /\ DOMAIN t.pages = {1}
  <2>1. \A p : p \in 1..1 <=> p = 1
    OBVIOUS
  <2>2. t.root \in 1..1
    BY <1>2 DEF IsTree, OnePage
  <2> QED BY <1>2, <2>1, <2>2
<1>4. 1 \in 1..Len(t.pages) /\ \A p \in 1..Len(t.pages) : p = 1
  BY <1>2
<1>5. ASSUME ~t.pages[1].leaf PROVE FALSE
  <2> DEFINE pg == t.pages[1]
  <2>1. Len(pg.cells) \in Nat
    BY <1>1, <1>4, GoodPage
  <2>2. 0 \in SlotsOf(pg)
    BY <1>5, <2>1 DEF SlotsOf
  <2>3. Child(pg, 0) \in KidsOf(pg)
    BY <2>2 DEF KidsOf
  <2>4. Child(pg, 0) \in 1..Len(t.pages) /\ h[Child(pg, 0)] < h[1] /\ h[1] \in Nat
    BY <1>1, <1>4, <2>3, KidIsPage, GoodPage
  <2>5. Child(pg, 0) = 1
    BY <1>4, <2>4
  <2> QED BY <2>4, <2>5
<1>6. t.pages[1].leaf
  BY <1>5
<1>7. t.pages[1].cells \in Seq(CellSet) /\ CellsAscend(t.pages[1].cells)
  BY <1>1, <1>4, <1>6, PageIsLeafOf DEF LeafCells
<1> QED BY <1>2, <1>3, <1>6, <1>7

LeafMapOf(tr) ==
    [k \in {tr.pages[s[1]].cells[s[2]].key : s \in SlotsIn(tr.pages)} |->
        LET s == CHOOSE s \in SlotsIn(tr.pages) : tr.pages[s[1]].cells[s[2]].key = k
        IN  tr.pages[s[1]].cells[s[2]].val]

(* LeafMap, as an operator on trees.                                       *)
LEMMA LeafMapIs == LeafMap = LeafMapOf(tree) /\ LeafMap' = LeafMapOf(tree')
<1>1. LeafMap = LeafMapOf(tree)
  BY DEF LeafMap, RowSlots, RowAt, Leaves, Pages, LeafMapOf, SlotsIn
<1>2. LeafMap' = LeafMapOf(tree')
  BY DEF LeafMap, RowSlots, RowAt, Leaves, Pages, LeafMapOf, SlotsIn
<1> QED BY <1>1, <1>2

(* The rows on the leaves of ps are those of the map m.                    *)
MapIs(ps, m) ==
    /\ m = [x \in DOMAIN m |-> m[x]]
    /\ \A x : /\ Count(ps, x) = IF x \in DOMAIN m THEN 1 ELSE 0
              /\ x \in DOMAIN m => ValsOf(ps, x) = {m[x]}

(* On one leaf, every key has one row at most.                             *)
LEMMA MapOfLeaf ==
    ASSUME NEW t, OnePage(t)
    PROVE  RowsAre(t.pages[1].cells, LeafMapOf(t)) /\ MapIs(t.pages, LeafMapOf(t))
<1> DEFINE ps == t.pages
           s == ps[1].cells
           m == LeafMapOf(t)
           S == SlotsIn(ps)
           key(e) == ps[e[1]].cells[e[2]].key
           val(e) == ps[e[1]].cells[e[2]].val
           slot(x) == CHOOSE e \in S : key(e) = x
<1>1. DOMAIN ps = {1} /\ ps[1].leaf /\ s \in Seq(CellSet) /\ CellsAscend(s) /\ Len(ps) = 1
  BY OneLeaf DEF OnePage
<1>2. S = {1} \X (1..Len(s))
  <2>1. DOMAIN s = 1..Len(s)
    BY <1>1
  <2>2. {q \in DOMAIN ps : ps[q].leaf} = {1}
    BY <1>1
  <2>3. S = UNION {{p} \X DOMAIN ps[p].cells : p \in {1}}
    BY <2>2 DEF SlotsIn
  <2>4. UNION {{p} \X DOMAIN ps[p].cells : p \in {1}} = {1} \X DOMAIN s
    OBVIOUS
  <2> QED BY <2>1, <2>3, <2>4
<1>3. \A e : e \in S <=> e = <<1, e[2]>> /\ e[2] \in 1..Len(s)
  BY <1>2
<1>4. \A i \in 1..Len(s) : <<1, i>> \in S /\ key(<<1, i>>) = s[i].key /\ val(<<1, i>>) = s[i].val
  BY <1>2
<1>5. \A e \in S : e[2] \in 1..Len(s) /\ key(e) = s[e[2]].key /\ val(e) = s[e[2]].val
  BY <1>3
<1>6. m = [x \in {key(e) : e \in S} |-> val(slot(x))]
  BY DEF LeafMapOf
<1> HIDE DEF m, S, key, val, s, ps
<1>7. DOMAIN m = {key(e) : e \in S} /\ m = [x \in DOMAIN m |-> m[x]]
  <2> HIDE DEF slot
  <2> QED BY <1>6
<1>8. ASSUME NEW i \in 1..Len(s) PROVE s[i].key \in DOMAIN m /\ m[s[i].key] = s[i].val
  <2> DEFINE x == s[i].key
             e == slot(x)
  <2>1. x \in DOMAIN m
    BY <1>4, <1>7
  <2>2. e \in S /\ key(e) = x
    BY <1>4
  <2> HIDE DEF slot
  <2>3. m[x] = val(e)
    BY <1>6, <1>7, <2>1
  <2> DEFINE j == e[2]
  <2>4. j \in 1..Len(s) /\ s[j].key = x /\ m[x] = s[j].val
    BY <1>5, <2>2, <2>3
  <2> HIDE DEF e, j
  <2>5. j = i
    BY <1>1, <2>4, OneCellPerKey
  <2> QED BY <2>1, <2>4, <2>5
<1>9. ASSUME NEW x \in DOMAIN m PROVE \E i \in 1..Len(s) : s[i].key = x /\ s[i].val = m[x]
  <2>1. PICK e \in S : key(e) = x
    BY <1>7
  <2> QED BY <1>5, <1>8, <2>1
<1>10. RowsAre(s, m)
  <2> SUFFICES ASSUME NEW x, NEW w PROVE Has(s, x, w) <=> x \in DOMAIN m /\ w = m[x]
    BY DEF RowsAre
  <2>1. ASSUME Has(s, x, w) PROVE x \in DOMAIN m /\ w = m[x]
    <3>1. PICK i \in 1..Len(s) : s[i].key = x /\ s[i].val = w
      BY <2>1 DEF Has
    <3> QED BY <1>8, <3>1
  <2>2. ASSUME x \in DOMAIN m, w = m[x] PROVE Has(s, x, w)
    BY <1>9, <2>2 DEF Has
  <2> QED BY <2>1, <2>2
<1>11. \A x, w : On(ps[1], x, w) <=> x \in DOMAIN m /\ w = m[x]
  BY <1>1, <1>10 DEF RowsAre, On, s
<1>12. \A p : p \in 1..Len(ps) <=> p = 1
  BY <1>1
<1>13. ASSUME NEW x \in DOMAIN m PROVE m[x] \in Val
  <2>1. PICK i \in 1..Len(s) : s[i].val = m[x]
    BY <1>9
  <2>2. s[i] \in CellSet
    BY <1>1
  <2> QED BY <2>1, <2>2 DEF CellSet
<1>14. ASSUME NEW x
       PROVE  /\ Count(ps, x) = IF x \in DOMAIN m THEN 1 ELSE 0
              /\ x \in DOMAIN m => ValsOf(ps, x) = {m[x]}
  <2>1. Holders(ps, x) = IF x \in DOMAIN m THEN {1} ELSE {}
    BY <1>11, <1>12 DEF Holders, Holds
  <2>2. Cardinality({1}) = 1
    BY FS_Singleton
  <2>3. Cardinality({}) = 0
    BY FS_EmptySet
  <2>4. Count(ps, x) = IF x \in DOMAIN m THEN 1 ELSE 0
    BY <2>1, <2>2, <2>3 DEF Count
  <2>5. ASSUME x \in DOMAIN m PROVE ValsOf(ps, x) = {m[x]}
    BY <1>11, <1>12, <1>13, <2>5 DEF ValsOf
  <2> QED BY <2>4, <2>5
<1> QED BY <1>7, <1>10, <1>14 DEF MapIs, m, s, ps

(* When the rows of pages are a map before and after a row is put, the map *)
(* is written at its key.                                                  *)
LEMMA MapPut ==
    ASSUME NEW ps, NEW qs, Len(qs) \in Nat, NEW m, NEW n, MapIs(ps, m), MapIs(qs, n),
           NEW k, NEW v, RowPut(ps, qs, k, v)
    PROVE  n = Written(m, k, v)
<1> DEFINE w == [x \in DOMAIN m \union {k} |-> IF x = k THEN v ELSE m[x]]
<1>1. \A x : x # k => Count(qs, x) = Count(ps, x) /\ ValsOf(qs, x) = ValsOf(ps, x)
  BY DEF RowPut, SameRows
<1>2. ASSUME NEW x, x # k PROVE (x \in DOMAIN n <=> x \in DOMAIN m) /\ (x \in DOMAIN m => n[x] = m[x])
  <2>1. x \in DOMAIN n <=> x \in DOMAIN m
    BY <1>1, <1>2 DEF MapIs
  <2>2. ASSUME x \in DOMAIN m PROVE n[x] = m[x]
    <3>1. {n[x]} = {m[x]}
      BY <1>1, <1>2, <2>1, <2>2 DEF MapIs
    <3> QED BY <3>1
  <2> QED BY <2>1, <2>2
<1>3. k \in DOMAIN n /\ n[k] = v
  <2>1. v \in ValsOf(qs, k)
    BY DEF RowPut
  <2>2. ASSUME k \notin DOMAIN n PROVE FALSE
    <3>1. Count(qs, k) = 0
      BY <2>2 DEF MapIs
    <3>2. Holders(qs, k) # {}
      BY <2>1 DEF ValsOf, Holders, Holds
    <3>3. IsFiniteSet(Holders(qs, k))
      BY CountIsNumber
    <3> QED BY <3>1, <3>2, <3>3, FS_EmptySet DEF Count
  <2>3. ValsOf(qs, k) = {n[k]}
    BY <2>2 DEF MapIs
  <2> QED BY <2>1, <2>2, <2>3
<1>4. DOMAIN n = DOMAIN m \union {k}
  BY <1>2, <1>3
<1>5. \A x \in DOMAIN n : n[x] = w[x]
  BY <1>2, <1>3, <1>4
<1>6. DOMAIN w = DOMAIN n /\ w = [x \in DOMAIN w |-> w[x]]
  BY <1>4
<1>7. n = [x \in DOMAIN n |-> n[x]]
  BY DEF MapIs
<1> HIDE DEF w
<1>8. n = w
  BY <1>5, <1>6, <1>7
<1> QED BY <1>8 DEF w, Written

Without(m, k) == [x \in DOMAIN m \ {k} |-> m[x]]

(* When a row is taken, the map loses its key.                             *)
LEMMA MapTaken ==
    ASSUME NEW ps, NEW qs, NEW m, NEW n, MapIs(ps, m), MapIs(qs, n), NEW k, RowTaken(ps, qs, k)
    PROVE  k \in DOMAIN m /\ n = Without(m, k)
<1> DEFINE w == [x \in DOMAIN m \ {k} |-> m[x]]
<1>1. \A x : x # k => Count(qs, x) = Count(ps, x) /\ ValsOf(qs, x) = ValsOf(ps, x)
  BY DEF RowTaken, SameRows
<1>2. ASSUME NEW x, x # k PROVE (x \in DOMAIN n <=> x \in DOMAIN m) /\ (x \in DOMAIN m => n[x] = m[x])
  <2>1. x \in DOMAIN n <=> x \in DOMAIN m
    BY <1>1, <1>2 DEF MapIs
  <2>2. ASSUME x \in DOMAIN m PROVE n[x] = m[x]
    <3>1. {n[x]} = {m[x]}
      BY <1>1, <1>2, <2>1, <2>2 DEF MapIs
    <3> QED BY <3>1
  <2> QED BY <2>1, <2>2
<1>3. k \notin DOMAIN n /\ k \in DOMAIN m
  <2>1. Count(qs, k) - Count(ps, k) = -1
    BY DEF RowTaken
  <2>2. /\ Count(ps, k) = IF k \in DOMAIN m THEN 1 ELSE 0
        /\ Count(qs, k) = IF k \in DOMAIN n THEN 1 ELSE 0
    BY DEF MapIs
  <2> QED BY <2>1, <2>2
<1>4. DOMAIN n = DOMAIN m \ {k}
  BY <1>2, <1>3
<1>5. \A x \in DOMAIN n : n[x] = w[x]
  BY <1>2, <1>3, <1>4
<1>6. DOMAIN w = DOMAIN n /\ w = [x \in DOMAIN w |-> w[x]]
  BY <1>4
<1>7. n = [x \in DOMAIN n |-> n[x]]
  BY DEF MapIs
<1> HIDE DEF w
<1>8. n = w
  BY <1>5, <1>6, <1>7
<1> QED BY <1>3, <1>8 DEF w, Without

(* What a search of the one page answers.                                  *)
LEMMA OnePageSearch ==
    ASSUME NEW t, OnePage(t), NEW k \in Key
    PROVE  LET m == LeafMapOf(t)
           IN  /\ PathTo(t.pages, t.root, k) = <<1>>
               /\ Meets(t, k) = IF k \in DOMAIN m THEN 1 ELSE NoPage
               /\ Found(t, k) = IF k \in DOMAIN m THEN <<<<k, m[k]>>>> ELSE << >>
               /\ ~DeleteFails(t, k)
<1> DEFINE m == LeafMapOf(t)
           s == t.pages[1].cells
           ks == Keys(t.pages[1])
           a == Search(ks, k)
           path == PathTo(t.pages, t.root, k)
<1>1. PICK h : Good(t.pages, h)
  BY DEF IsTree, OnePage
<1>2. /\ t.root = 1 /\ t.pages \in Seq(Page) /\ 1 \in 1..Len(t.pages) /\ t.pages[1].leaf
      /\ s \in Seq(CellSet) /\ CellsAscend(s)
      /\ \A p \in 1..Len(t.pages) : p = 1
  BY OneLeaf DEF OnePage
<1>3. t.pages[1] \in Page
  BY <1>2
<1>4. ks \in Seq(Int) /\ Len(ks) = Len(s) /\ \A i \in 1..Len(s) : ks[i] = s[i].key
  BY <1>3, KeysOfPage
<1>5. Ascends(ks)
  BY <1>2, <1>3, KeysAscend
<1>6. IsAnswer(ks, k, a) /\ IsPlace(ks, k, a) /\ k \in Int
  <2>1. k \in Int
    BY TreeAssumption
  <2> HIDE DEF ks
  <2> QED BY <1>4, <1>5, <2>1, SearchAnswers
<1>7. RowsAre(s, m) /\ MapIs(t.pages, m)
  BY MapOfLeaf
<1>8. /\ a.found \in BOOLEAN /\ (a.found <=> k \in DOMAIN m)
      /\ a.found => s[a.idx + 1].val = m[k]
  <2> HIDE DEF m, s, ks, a
  <2>0. \A i \in 1..Len(s) : s[i].key \in DOMAIN m /\ m[s[i].key] = s[i].val
    BY <1>2, <1>7, RowsOfCells
  <2>1. ASSUME a.found PROVE k \in DOMAIN m /\ s[a.idx + 1].val = m[k]
    <3>1. a.idx \in 0..Len(ks) /\ a.idx < Len(ks) /\ ks[a.idx + 1] = k
      BY <1>6, <2>1 DEF IsAnswer
    <3> DEFINE i == a.idx + 1
    <3>2. i \in 1..Len(s) /\ s[i].key = k
      BY <1>4, <3>1
    <3> HIDE DEF i
    <3>3. k \in DOMAIN m /\ s[i].val = m[k]
      BY <2>0, <3>2
    <3> QED BY <3>3 DEF i
  <2>2. ASSUME ~a.found, k \in DOMAIN m PROVE FALSE
    <3>1. PICK i \in 1..Len(s) : s[i].key = k
      BY <1>2, <1>7, <2>2, RowsOfCells
    <3>2. ks[i] = k /\ i \in 1..Len(ks)
      BY <1>4, <3>1
    <3>3. a.idx \in Int
      BY <1>6 DEF IsAnswer
    <3>4. i <= a.idx \/ i > a.idx
      BY <3>2, <3>3
    <3>5. ks[i] < k \/ k < ks[i]
      BY <1>6, <2>2, <3>2, <3>4 DEF IsPlace
    <3> QED BY <1>6, <3>2, <3>5
  <2>3. a.found \in BOOLEAN
    BY <1>6 DEF IsAnswer
  <2> QED BY <2>1, <2>2, <2>3
<1>9. path = <<1>> /\ Len(path) = 1 /\ path[1] = 1
  <2>1. IsPath(t.pages, k, 1, path)
    BY <1>1, <1>2, PathFound
  <2> HIDE DEF path
  <2>2. path \in Seq(1..Len(t.pages)) /\ path # << >> /\ path[1] = 1
    BY <2>1 DEF IsPath
  <2>3. Len(path) \in Nat \ {0}
    BY <2>2, EmptySeq
  <2>4. ASSUME Len(path) # 1 PROVE FALSE
    <3> DEFINE n == Len(path)
    <3>0. n \in Nat \ {0} /\ n # 1
      BY <2>3, <2>4
    <3> HIDE DEF n
    <3>00. n - 1 \in Nat /\ n - 1 >= 1
      BY <3>0
    <3>1. 1 \in 1..(Len(path) - 1)
      BY <3>00 DEF n
    <3> QED BY <1>2, <2>1, <2>2, <3>1 DEF IsPath
  <2>5. <<1>> \in Seq(1..Len(t.pages)) /\ Len(<<1>>) = 1 /\ <<1>>[1] = 1
    BY <1>2
  <2>6. ASSUME NEW i \in 1..Len(path) PROVE path[i] = <<1>>[i]
    BY <2>2, <2>4
  <2>7. path = <<1>>
    BY <2>2, <2>4, <2>5, <2>6, SeqEqual
  <2> QED BY <2>2, <2>4, <2>7
<1> DEFINE has == {i \in DOMAIN path : Search(Keys(t.pages[path[i]]), k).found}
<1>10. Meets(t, k) = IF has = {} THEN NoPage ELSE path[CHOOSE i \in has : \A j \in has : i <= j]
  BY DEF Meets
<1>11. has = IF a.found THEN {1} ELSE {}
  <2> HIDE DEF path
  <2>1. DOMAIN path = {1}
    BY <1>9
  <2>2. Search(Keys(t.pages[path[1]]), k).found = a.found
    BY <1>9
  <2> HIDE DEF a
  <2> QED BY <2>1, <2>2
<1>12. Meets(t, k) = IF a.found THEN 1 ELSE NoPage
  <2> HIDE DEF has, a, path
  <2>1. CASE ~a.found
    BY <1>10, <1>11, <2>1
  <2>2. CASE a.found
    <3>1. has = {1}
      BY <1>11, <2>2
    <3>2. (CHOOSE i \in has : \A j \in has : i <= j) = 1
      BY <3>1
    <3> QED BY <1>9, <1>10, <2>2, <3>1, <3>2
  <2> QED BY <2>1, <2>2
<1>13. Found(t, k) = IF a.found THEN <<<<k, s[a.idx + 1].val>>>> ELSE << >>
  <2>1. Last(path) = 1
    <3> HIDE DEF path
    <3> QED BY <1>9 DEF Last
  <2> QED BY <2>1 DEF Found
<1>14. ~DeleteFails(t, k)
  BY <1>2, <1>12 DEF DeleteFails, NoPage
<1> HIDE DEF a, m
<1> QED BY <1>8, <1>9, <1>12, <1>13, <1>14 DEF m

-----------------------------------------------------------------------------
(* The bounds under which IsMap is about every behaviour.                  *)
OneEmptyPage == MaxPage = 1 /\ Loads = {<< >>}

MapInv == OneEmptyPage /\ TreeInv /\ Len(tree.pages) = 1

(* KVMap has the same list of rows.                                        *)
LEMMA RowListIs == ASSUME NEW m PROVE Map!RowsOf(m) = RowList(m)
BY DEF Map!RowsOf, RowList, Map!Cardinality, Cardinality

(* The tree starts empty.                                                  *)
LEMMA MapInit == OneEmptyPage /\ Init => MapInv /\ Map!Init
<1> SUFFICES ASSUME OneEmptyPage, Init PROVE MapInv /\ Map!Init
  OBVIOUS
<1> DEFINE e == << >>
<1>1. tree = Loaded(e) /\ done = TRUE /\ rows = e
  BY DEF Init, OneEmptyPage
<1>2. e \in Seq(Key) /\ Len(e) = 0
  OBVIOUS
<1>3. tree = EmptyTree
  <2> HIDE DEF e
  <2> QED BY <1>1, <1>2, LoadedIsTree
<1>4. TreeInv
  BY InitTree
<1>5. tree.pages = <<Leaf(e)>> /\ Len(tree.pages) = 1 /\ tree.pages[1].cells = e
  BY <1>3 DEF EmptyTree, Leaf
<1> DEFINE m == LeafMapOf(tree)
           s == tree.pages[1].cells
<1>6. RowsAre(s, m) /\ m = [x \in DOMAIN m |-> m[x]]
  BY <1>4, <1>5, MapOfLeaf DEF OnePage, TreeInv, MapIs
<1> HIDE DEF m
<1>7. \A x, w : ~Has(e, x, w)
  BY DEF Has
<1>8. DOMAIN m = {}
  <2>1. s = e
    BY <1>5
  <2> HIDE DEF s, e
  <2>2. RowsAre(e, m)
    BY <1>6, <2>1
  <2> QED BY <1>7, <2>2 DEF RowsAre
<1>9. m = << >>
  BY <1>6, <1>8
<1>10. LeafMap = << >>
  BY <1>9, LeafMapIs DEF m
<1> QED BY <1>1, <1>4, <1>5, <1>10 DEF MapInv, Map!Init

(* An insertion that leaves one page writes the map.                       *)
LEMMA MapInsert ==
    ASSUME MapInv, NEW k \in Key, NEW v \in Val, Insert(k, v)
    PROVE  MapInv' /\ Map!Insert(k, v)
<1> DEFINE m == LeafMapOf(tree)
           u == Inserted(tree, k, v)
           n == LeafMapOf(u)
<1>1. TreeInv' /\ OnePage(tree)
  BY InsertTree DEF MapInv, TreeInv, OnePage
<1>2. /\ tree' = u /\ Len(u.pages) <= 1 /\ done' = TRUE /\ rows' = << >>
  BY DEF Insert, OneEmptyPage, MapInv
<1>3. IsTree(u) /\ RowPut(tree.pages, u.pages, k, v)
  BY <1>1, InsertionKeepsTree DEF OnePage
<1> HIDE DEF u
<1>4. OnePage(u)
  <2>1. u.pages \in Seq(Page) /\ u.root \in 1..Len(u.pages)
    BY <1>3 DEF IsTree
  <2> DEFINE N == Len(u.pages)
  <2>2. N \in Nat /\ u.root \in 1..N /\ N <= 1
    BY <1>2, <2>1
  <2> HIDE DEF N
  <2>3. N = 1
    BY <2>2
  <2> QED BY <1>3, <2>3 DEF OnePage, N
<1>5. MapIs(tree.pages, m) /\ MapIs(u.pages, n)
  BY <1>1, <1>4, MapOfLeaf
<1>6. Len(tree.pages) \in Nat
  BY <1>1 DEF OnePage
<1> HIDE DEF m, n
<1>7. n = Written(m, k, v)
  <2>1. Len(u.pages) \in Nat
    BY <1>4 DEF OnePage
  <2> QED BY <1>3, <1>5, <2>1, MapPut
<1>8. LeafMap = m /\ LeafMap' = n
  BY <1>2, LeafMapIs DEF m, n
<1>9. MapInv'
  BY <1>1, <1>2, <1>4 DEF MapInv, OnePage, OneEmptyPage
<1> QED BY <1>2, <1>7, <1>8, <1>9 DEF Map!Insert, Written

(* A deletion removes its key from the map.                                *)
LEMMA MapDelete ==
    ASSUME MapInv, NEW k \in Key, Delete(k)
    PROVE  MapInv' /\ Map!Delete(k)
<1> DEFINE m == LeafMapOf(tree)
           u == Deleted(tree, k)
           n == LeafMapOf(u)
<1>1. TreeInv' /\ OnePage(tree)
  BY DeleteTree DEF MapInv, TreeInv, OnePage
<1>2. /\ tree' = u /\ done' = TRUE /\ rows' = << >>
      /\ Meets(tree, k) # NoPage /\ ~DeleteFails(tree, k)
  BY DEF Delete
<1>3. tree.pages[Meets(tree, k)].leaf
  <2>1. Meets(tree, k) = 1
    BY <1>1, <1>2, OnePageSearch
  <2> QED BY <1>1, <2>1, OneLeaf
<1>4. IsTree(u) /\ Len(u.pages) = 1 /\ RowTaken(tree.pages, u.pages, k)
  BY <1>1, <1>2, <1>3, DeletionKeepsTree DEF OnePage
<1> HIDE DEF u
<1>5. OnePage(u)
  BY <1>4 DEF OnePage
<1>6. MapIs(tree.pages, m) /\ MapIs(u.pages, n)
  BY <1>1, <1>5, MapOfLeaf
<1> HIDE DEF m, n
<1>7. k \in DOMAIN m /\ n = Without(m, k)
  BY <1>4, <1>6, MapTaken
<1>8. LeafMap = m /\ LeafMap' = n
  BY <1>2, LeafMapIs DEF m, n
<1>9. MapInv'
  BY <1>1, <1>2, <1>4 DEF MapInv, OneEmptyPage
<1> QED BY <1>2, <1>7, <1>8, <1>9 DEF Map!Delete, Without

(* A deletion is refused exactly when the map does not have the key.       *)
LEMMA MapMiss ==
    ASSUME MapInv, NEW k \in Key, DeleteMiss(k) \/ DeleteError(k)
    PROVE  Map!Delete(k)
<1> DEFINE m == LeafMapOf(tree)
<1>1. OnePage(tree)
  BY DEF MapInv, TreeInv, OnePage
<1>2. ~DeleteFails(tree, k) /\ Meets(tree, k) = IF k \in DOMAIN m THEN 1 ELSE NoPage
  BY <1>1, OnePageSearch
<1>3. DeleteMiss(k)
  BY <1>2 DEF DeleteError
<1>4. Meets(tree, k) = NoPage /\ done' = FALSE /\ rows' = << >> /\ tree' = tree
  BY <1>3 DEF DeleteMiss
<1>5. MapIs(tree.pages, m)
  BY <1>1, MapOfLeaf
<1>6. LeafMap = m /\ LeafMap' = m
  BY <1>4, LeafMapIs
<1> HIDE DEF m
<1>7. k \notin DOMAIN m
  BY <1>2, <1>4 DEF NoPage
<1>8. m = [x \in DOMAIN m |-> m[x]]
  BY <1>5 DEF MapIs
<1>9. m = [x \in DOMAIN m \ {k} |-> m[x]]
  <2>1. DOMAIN m \ {k} = DOMAIN m
    BY <1>7
  <2> QED BY <1>8, <2>1
<1>10. done' = (k \in DOMAIN m)
  <2>1. done' = FALSE
    BY <1>4
  <2>2. (k \in DOMAIN m) = FALSE
    BY <1>7
  <2> QED BY <2>1, <2>2
<1> QED BY <1>4, <1>6, <1>9, <1>10 DEF Map!Delete

(* Searches and scans return what the map does, and leave it alone.        *)
LEMMA MapReads ==
    ASSUME MapInv, Reads
    PROVE  Map!Next
<1> DEFINE m == LeafMapOf(tree)
<1>1. OnePage(tree) /\ tree' = tree
  BY DEF MapInv, TreeInv, OnePage, Reads, Get, Scan
<1>2. LeafMap = m /\ LeafMap' = m
  BY <1>1, LeafMapIs
<1>3. ASSUME Scan PROVE Map!Scan
  <2>1. RowsAre(tree.pages[1].cells, m)
    BY <1>1, MapOfLeaf
  <2>2. IsTree(tree) /\ tree.root = 1 /\ tree.pages[1].leaf
    BY <1>1, OneLeaf DEF OnePage
  <2> HIDE DEF m
  <2>3. Scanned(tree) = RowList(m)
    BY <2>1, <2>2, LeafScans
  <2>4. rows' = RowList(m) /\ done' = TRUE
    BY <1>3, <2>3 DEF Scan
  <2>5. Map!RowsOf(m) = RowList(m)
    BY RowListIs
  <2> QED BY <1>2, <2>4, <2>5 DEF Map!Scan
<1>4. ASSUME NEW k \in Key, Get(k) PROVE Map!Get(k)
  <2>1. Found(tree, k) = IF k \in DOMAIN m THEN <<<<k, m[k]>>>> ELSE << >>
    BY <1>1, OnePageSearch
  <2> HIDE DEF m
  <2> DEFINE one == <<<<k, m[k]>>>>
  <2>2. one # << >>
    OBVIOUS
  <2> HIDE DEF one
  <2>3. Found(tree, k) = IF k \in DOMAIN m THEN one ELSE << >>
    BY <2>1 DEF one
  <2>4. rows' = Found(tree, k) /\ done' = (Found(tree, k) # << >>)
    BY <1>4 DEF Get
  <2>5. done' = (k \in DOMAIN m)
    BY <2>2, <2>3, <2>4
  <2> QED BY <1>2, <2>1, <2>4, <2>5 DEF Map!Get
<1> QED BY <1>3, <1>4 DEF Reads, Map!Next

LEMMA MapStep ==
    MapInv /\ [Changes \/ Reads]_vars => MapInv' /\ [Map!Next]_(Map!vars)
<1> SUFFICES ASSUME MapInv, [Changes \/ Reads]_vars PROVE MapInv' /\ [Map!Next]_(Map!vars)
  OBVIOUS
<1>1. CASE \E k \in Key, v \in Val : Insert(k, v)
  BY <1>1, MapInsert DEF Map!Next
<1>2. CASE \E k \in Key : Delete(k)
  BY <1>2, MapDelete DEF Map!Next
<1>3. TreeInv'
  BY StepTree DEF MapInv
<1>4. ASSUME tree' = tree PROVE MapInv'
  BY <1>3, <1>4 DEF MapInv, OneEmptyPage
<1>5. CASE \E k \in Key : DeleteMiss(k) \/ DeleteError(k)
  <2>1. tree' = tree
    BY <1>5 DEF DeleteMiss, DeleteError
  <2> QED BY <1>4, <1>5, <2>1, MapMiss DEF Map!Next
<1>6. CASE Reads
  <2>1. tree' = tree
    BY <1>6 DEF Reads, Scan, Get
  <2> QED BY <1>4, <1>6, <2>1, MapReads
<1>7. CASE UNCHANGED vars
  <2>1. tree' = tree /\ done' = done /\ rows' = rows
    BY <1>7 DEF vars
  <2>2. LeafMap' = LeafMap
    BY <2>1, LeafMapIs
  <2> QED BY <1>4, <2>1, <2>2 DEF Map!vars
<1> QED BY <1>1, <1>2, <1>5, <1>6, <1>7 DEF Changes

(* As long as the tree is one page, it is a map: searches, scans,          *)
(* insertions, replacements and deletions, refused deletions too, do and   *)
(* return what they would with a map (Insert, Search, Delete, Scan).       *)
THEOREM OnePageIsMap == OneEmptyPage /\ Spec => IsMap
<1>1. OneEmptyPage /\ Init => Map!Init /\ MapInv
  BY MapInit
<1>2. MapInv /\ [Changes \/ Reads]_vars => MapInv' /\ [Map!Next]_(Map!vars)
  BY MapStep
<1> QED BY <1>1, <1>2, PTL DEF Spec, IsMap, Map!Spec

-----------------------------------------------------------------------------
(* The lists of cells L[0], ..., L[n], read one after the other, are the   *)
(* rows of the map m in the order of their keys.                           *)
Appears(n, L, x, w) == \E j \in 0..n : Has(L[j], x, w)

Before(a, b) == \A i \in 1..Len(a), j \in 1..Len(b) : a[i].key < b[j].key

Spread(n, L, m) ==
    /\ n \in Nat /\ L \in [0..n -> Seq(CellSet)]
    /\ \A j \in 0..n : CellsAscend(L[j]) /\ (n > 0 => L[j] # << >>)
    /\ \A i, j \in 0..n : i < j => Before(L[i], L[j])
    /\ \A x, w : Appears(n, L, x, w) <=> x \in DOMAIN m /\ w = m[x]

(* They have the keys of the map, each once.                               *)
LEMMA SpreadKeys ==
    ASSUME NEW n, NEW L, NEW m, Spread(n, L, m)
    PROVE  /\ n \in 0..n /\ \A j \in 0..n : j \in Nat /\ L[j] \in Seq(CellSet) /\ Len(L[j]) \in Nat
           /\ \A j \in 0..n : \A i \in 1..Len(L[j]) :
                L[j][i].key \in DOMAIN m /\ L[j][i].key \in Int /\ m[L[j][i].key] = L[j][i].val
           /\ \A x \in DOMAIN m : \E j \in 0..n : \E i \in 1..Len(L[j]) : L[j][i].key = x /\ L[j][i].val = m[x]
<1>1. n \in 0..n /\ \A j \in 0..n : j \in Nat /\ L[j] \in Seq(CellSet) /\ Len(L[j]) \in Nat
  BY DEF Spread
<1>2. \A c \in CellSet : c.key \in Int
  BY TreeAssumption DEF CellSet
<1>3. ASSUME NEW j \in 0..n, NEW i \in 1..Len(L[j])
      PROVE  L[j][i].key \in DOMAIN m /\ L[j][i].key \in Int /\ m[L[j][i].key] = L[j][i].val
  <2>1. Has(L[j], L[j][i].key, L[j][i].val)
    BY DEF Has
  <2>2. Appears(n, L, L[j][i].key, L[j][i].val)
    BY <2>1 DEF Appears
  <2>3. L[j][i] \in CellSet
    BY <1>1
  <2> QED BY <1>2, <2>2, <2>3 DEF Spread
<1>4. ASSUME NEW x \in DOMAIN m
      PROVE  \E j \in 0..n : \E i \in 1..Len(L[j]) : L[j][i].key = x /\ L[j][i].val = m[x]
  <2>1. Appears(n, L, x, m[x])
    BY DEF Spread
  <2> QED BY <2>1 DEF Appears, Has
<1> QED BY <1>1, <1>3, <1>4

(* A list with one more cell at its end.                                   *)
LEMMA AppendedCells ==
    ASSUME NEW s \in Seq(CellSet), CellsAscend(s), NEW c \in CellSet,
           \A i \in 1..Len(s) : s[i].key < c.key
    PROVE  /\ Append(s, c) \in Seq(CellSet) /\ Append(s, c) # << >> /\ Len(Append(s, c)) = Len(s) + 1
           /\ \A i \in 1..(Len(s) + 1) : Append(s, c)[i] = IF i = Len(s) + 1 THEN c ELSE s[i]
           /\ CellsAscend(Append(s, c))
           /\ \A x, w : Has(Append(s, c), x, w) <=> Has(s, x, w) \/ (x = c.key /\ w = c.val)
<1> DEFINE t == Append(s, c)
           N == Len(s)
<1>1. N \in Nat /\ t \in Seq(CellSet) /\ t # << >> /\ Len(t) = N + 1
      /\ \A i \in 1..(N + 1) : t[i] = IF i = N + 1 THEN c ELSE s[i]
  <2>1. N \in Nat /\ t \in Seq(CellSet) /\ Len(t) = N + 1 /\ Len(t) # 0 /\ Len(<< >>) = 0
    OBVIOUS
  <2>2. /\ \A i \in 1..N : t[i] = s[i]
        /\ t[N + 1] = c
    BY AppendProperties
  <2>3. \A i \in 1..(N + 1) : i = N + 1 \/ i \in 1..N
    BY <2>1
  <2>4. \A i \in 1..N : i # N + 1
    BY <2>1
  <2> HIDE DEF t
  <2> QED BY <2>1, <2>2, <2>3, <2>4
<1> HIDE DEF t, N
<1>2. CellsAscend(t)
  <2> SUFFICES ASSUME NEW i \in 1..(N + 1), NEW j \in 1..(N + 1), i < j PROVE t[i].key < t[j].key
    BY <1>1 DEF CellsAscend
  <2>1. i \in 1..N /\ t[i] = s[i]
    BY <1>1
  <2>2. CASE j = N + 1
    BY <1>1, <2>1, <2>2 DEF N
  <2>3. CASE j # N + 1
    <3>1. j \in 1..N /\ t[j] = s[j]
      BY <1>1, <2>3
    <3> QED BY <2>1, <3>1 DEF CellsAscend, N
  <2> QED BY <2>2, <2>3
<1>3. ASSUME NEW x, NEW w PROVE Has(t, x, w) <=> Has(s, x, w) \/ (x = c.key /\ w = c.val)
  <2>1. ASSUME NEW i \in 1..(N + 1), t[i].key = x, t[i].val = w
        PROVE  Has(s, x, w) \/ (x = c.key /\ w = c.val)
    <3>1. CASE i = N + 1
      BY <1>1, <2>1, <3>1
    <3>2. CASE i # N + 1
      <4>1. i \in 1..N /\ t[i] = s[i]
        BY <1>1, <3>2
      <4> QED BY <2>1, <4>1 DEF Has, N
    <3> QED BY <3>1, <3>2
  <2>2. ASSUME Has(s, x, w) PROVE Has(t, x, w)
    <3>1. PICK i \in 1..N : s[i].key = x /\ s[i].val = w
      BY <2>2 DEF Has, N
    <3>2. i \in 1..(N + 1) /\ i # N + 1
      BY <1>1
    <3>3. t[i] = s[i]
      BY <1>1, <3>2
    <3> QED BY <1>1, <3>1, <3>2, <3>3 DEF Has
  <2>3. ASSUME x = c.key, w = c.val PROVE Has(t, x, w)
    <3>1. N + 1 \in 1..(N + 1)
      BY <1>1
    <3>2. t[N + 1] = c
      BY <1>1, <3>1
    <3> QED BY <1>1, <2>3, <3>1, <3>2 DEF Has
  <2>4. Has(t, x, w) => Has(s, x, w) \/ (x = c.key /\ w = c.val)
    BY <1>1, <2>1 DEF Has
  <2> QED BY <2>2, <2>3, <2>4
<1> QED BY <1>1, <1>2, <1>3 DEF t, N

(* The last list takes a cell with a key above all others.                 *)
Lengthened(n, L, c) == [L EXCEPT ![n] = Append(L[n], c)]

LEMMA SpreadGrows ==
    ASSUME NEW n, NEW L, NEW m, Spread(n, L, m), NEW c \in CellSet, NEW k, NEW v, c.key = k, c.val = v,
           \A x \in DOMAIN m : x < k
    PROVE  /\ Spread(n, Lengthened(n, L, c), Written(m, k, v))
           /\ \A j \in 0..n : L[j] # << >> => Lengthened(n, L, c)[j][1] = L[j][1]
<1> DEFINE s == L[n]
           t == Append(s, c)
           M == Lengthened(n, L, c)
           w2 == Written(m, k, v)
<1>1. /\ n \in 0..n /\ n \in Nat /\ \A j \in 0..n : j \in Nat /\ L[j] \in Seq(CellSet) /\ Len(L[j]) \in Nat
      /\ L \in [0..n -> Seq(CellSet)]
  BY SpreadKeys DEF Spread
<1>2. \A j \in 0..n : \A i \in 1..Len(L[j]) : L[j][i].key \in DOMAIN m /\ L[j][i].key < k
  BY SpreadKeys
<1>3. /\ t \in Seq(CellSet) /\ t # << >> /\ Len(t) = Len(s) + 1
      /\ \A i \in 1..(Len(s) + 1) : t[i] = IF i = Len(s) + 1 THEN c ELSE s[i]
      /\ CellsAscend(t)
      /\ \A x, w : Has(t, x, w) <=> Has(s, x, w) \/ (x = k /\ w = v)
  <2>1. CellsAscend(s) /\ s \in Seq(CellSet) /\ \A i \in 1..Len(s) : s[i].key < c.key
    BY <1>1, <1>2 DEF Spread
  <2> HIDE DEF s
  <2> QED BY <2>1, AppendedCells
<1>4. M \in [0..n -> Seq(CellSet)] /\ M[n] = t /\ \A j \in 0..n : j # n => M[j] = L[j]
  <2> HIDE DEF t
  <2>1. M = [L EXCEPT ![n] = t]
    BY DEF Lengthened, t
  <2> HIDE DEF M
  <2> QED BY <1>1, <1>3, <2>1
<1> HIDE DEF M, t
<1>5. ASSUME NEW j \in 0..n PROVE CellsAscend(M[j]) /\ (n > 0 => M[j] # << >>)
  <2>1. CASE j = n
    BY <1>3, <1>4, <2>1
  <2>2. CASE j # n
    BY <1>4, <2>2 DEF Spread
  <2> QED BY <2>1, <2>2
<1>6. ASSUME NEW i \in 0..n, NEW j \in 0..n, i < j PROVE Before(M[i], M[j])
  <2>1. i # n /\ M[i] = L[i]
    BY <1>1, <1>4, <1>6
  <2>2. CASE j # n
    BY <1>4, <1>6, <2>1, <2>2 DEF Spread
  <2>3. CASE j = n
    <3> SUFFICES ASSUME NEW a \in 1..Len(L[i]), NEW b \in 1..(Len(s) + 1) PROVE L[i][a].key < t[b].key
      BY <1>3, <1>4, <2>1, <2>3 DEF Before
    <3>1. CASE b = Len(s) + 1
      <4>1. t[b] = c
        BY <1>3, <3>1
      <4> QED BY <1>2, <4>1
    <3>2. CASE b # Len(s) + 1
      <4>1. b \in 1..Len(s)
        BY <1>1, <3>2
      <4>2. t[b] = s[b]
        BY <1>3, <3>2
      <4>3. Before(L[i], L[n])
        BY <1>6, <2>3 DEF Spread
      <4> QED BY <4>1, <4>2, <4>3 DEF Before
    <3> QED BY <3>1, <3>2
  <2> QED BY <2>2, <2>3
<1>7. ASSUME NEW x, NEW w PROVE Appears(n, M, x, w) <=> x \in DOMAIN w2 /\ w = w2[x]
  <2>1. Appears(n, M, x, w) <=> Appears(n, L, x, w) \/ (x = k /\ w = v)
    <3>1. ASSUME NEW j \in 0..n, Has(M[j], x, w) PROVE Appears(n, L, x, w) \/ (x = k /\ w = v)
      <4>1. CASE j = n
        BY <1>1, <1>3, <1>4, <3>1, <4>1 DEF Appears
      <4>2. CASE j # n
        BY <1>4, <3>1, <4>2 DEF Appears
      <4> QED BY <4>1, <4>2
    <3>2. ASSUME NEW j \in 0..n, Has(L[j], x, w) PROVE Appears(n, M, x, w)
      <4>1. CASE j = n
        BY <1>1, <1>3, <1>4, <3>2, <4>1 DEF Appears
      <4>2. CASE j # n
        BY <1>4, <3>2, <4>2 DEF Appears
      <4> QED BY <4>1, <4>2
    <3>3. ASSUME x = k, w = v PROVE Appears(n, M, x, w)
      <4>1. Has(t, x, w)
        BY <1>3, <3>3
      <4> QED BY <1>1, <1>4, <4>1 DEF Appears
    <3> QED BY <3>1, <3>2, <3>3 DEF Appears
  <2>2. Appears(n, L, x, w) <=> x \in DOMAIN m /\ w = m[x]
    BY DEF Spread
  <2>3. DOMAIN w2 = DOMAIN m \union {k} /\ \A y \in DOMAIN w2 : w2[y] = IF y = k THEN v ELSE m[y]
    BY DEF Written
  <2>4. x \in DOMAIN m => x # k
    <3>1. ASSUME k \in DOMAIN m PROVE FALSE
      <4>1. k \in Int
        BY TreeAssumption DEF CellSet
      <4>2. k < k
        BY <3>1
      <4> QED BY <4>1, <4>2
    <3> QED BY <3>1
  <2> HIDE DEF w2
  <2> QED BY <2>1, <2>2, <2>3, <2>4
<1>8. Spread(n, M, w2)
  BY <1>1, <1>4, <1>5, <1>6, <1>7 DEF Spread
<1>9. ASSUME NEW j \in 0..n, L[j] # << >> PROVE M[j][1] = L[j][1]
  <2>1. CASE j = n
    <3>1. Len(s) \in Nat /\ Len(s) # 0
      BY <1>1, <1>9, <2>1, EmptySeq
    <3>2. 1 \in 1..(Len(s) + 1) /\ 1 # Len(s) + 1
      BY <3>1
    <3>3. t[1] = s[1]
      BY <1>3, <3>2
    <3> QED BY <1>4, <2>1, <3>3
  <2>2. CASE j # n
    BY <1>4, <2>2
  <2> QED BY <2>1, <2>2
<1> QED BY <1>8, <1>9 DEF M

(* The last list is cut in two.                                            *)
Cut(n, L, mid) ==
    [j \in 0..(n + 1) |-> IF j < n THEN L[j]
                          ELSE IF j = n THEN SubSeq(L[n], 1, mid)
                          ELSE SubSeq(L[n], mid + 1, Len(L[n]))]

LEMMA SpreadSplits ==
    ASSUME NEW n, NEW L, NEW m, Spread(n, L, m), NEW mid \in 1..(Len(L[n]) - 1)
    PROVE  /\ Spread(n + 1, Cut(n, L, mid), m)
           /\ \A j \in 0..n : Cut(n, L, mid)[j][1] = L[j][1]
           /\ Cut(n, L, mid)[n + 1][1] = L[n][mid + 1]
           /\ Len(Cut(n, L, mid)[n]) = mid /\ Len(Cut(n, L, mid)[n + 1]) = Len(L[n]) - mid
<1> DEFINE s == L[n]
           N == Len(s)
           l == SubSeq(s, 1, mid)
           r == SubSeq(s, mid + 1, N)
           M == Cut(n, L, mid)
<1>1. /\ n \in 0..n /\ n \in Nat /\ \A j \in 0..n : j \in Nat /\ L[j] \in Seq(CellSet) /\ Len(L[j]) \in Nat
      /\ L \in [0..n -> Seq(CellSet)]
  BY SpreadKeys DEF Spread
<1>2. N \in Nat /\ mid \in Nat /\ mid < N /\ mid > 0 /\ s \in Seq(CellSet) /\ CellsAscend(s)
  BY <1>1 DEF Spread
<1>3. /\ l \in Seq(CellSet) /\ Len(l) = mid /\ CellsAscend(l)
      /\ \A i \in 1..mid : l[i] = s[i]
  <2> DEFINE a == 1
  <2>1. a \in 1..(Len(s) + 1) /\ mid \in 0..Len(s) /\ a <= mid /\ mid - a + 1 = mid
        /\ \A i \in 1..mid : a + i - 1 = i
    BY <1>2
  <2> HIDE DEF s, a
  <2>2. /\ SubSeq(s, a, mid) \in Seq(CellSet)
        /\ Len(SubSeq(s, a, mid)) = IF a <= mid THEN mid - a + 1 ELSE 0
        /\ \A i \in 1..(mid - a + 1) : SubSeq(s, a, mid)[i] = s[a + i - 1]
        /\ CellsAscend(s) => CellsAscend(SubSeq(s, a, mid))
    BY <1>2, <2>1, PartOfCells
  <2> QED BY <1>2, <2>1, <2>2 DEF a
<1>4. /\ r \in Seq(CellSet) /\ Len(r) = N - mid /\ CellsAscend(r)
      /\ \A i \in 1..(N - mid) : r[i] = s[mid + i]
  <2> DEFINE a == mid + 1
  <2>1. a \in 1..(Len(s) + 1) /\ N \in 0..Len(s) /\ a <= N /\ N - a + 1 = N - mid
        /\ \A i \in 1..(N - mid) : a + i - 1 = mid + i
    BY <1>2
  <2> HIDE DEF s, a
  <2>2. /\ SubSeq(s, a, N) \in Seq(CellSet)
        /\ Len(SubSeq(s, a, N)) = IF a <= N THEN N - a + 1 ELSE 0
        /\ \A i \in 1..(N - a + 1) : SubSeq(s, a, N)[i] = s[a + i - 1]
        /\ CellsAscend(s) => CellsAscend(SubSeq(s, a, N))
    BY <1>2, <2>1, PartOfCells
  <2> QED BY <1>2, <2>1, <2>2 DEF a
<1>5. /\ n + 1 \in Nat /\ n + 1 \in 0..(n + 1) /\ n \in 0..(n + 1)
      /\ \A j \in 0..(n + 1) : j < n \/ j = n \/ j = n + 1
      /\ \A j \in 0..(n + 1) : j < n => j \in 0..n /\ j # n
      /\ \A j \in 0..n : j \in 0..(n + 1)
      /\ ~(n < n) /\ ~(n + 1 < n) /\ n + 1 # n
      /\ \A j \in 0..n : j < n \/ j = n
  BY <1>1
<1>6. M[n] = l /\ M[n + 1] = r /\ \A j \in 0..(n + 1) : j < n => M[j] = L[j]
  BY <1>5 DEF Cut
<1>7. M \in [0..(n + 1) -> Seq(CellSet)]
  <2> HIDE DEF l, r, s
  <2>1. M = [j \in 0..(n + 1) |-> IF j < n THEN L[j] ELSE IF j = n THEN l ELSE r]
    BY DEF Cut, l, r, s
  <2>2. \A j \in 0..(n + 1) : (IF j < n THEN L[j] ELSE IF j = n THEN l ELSE r) \in Seq(CellSet)
    BY <1>1, <1>3, <1>4, <1>5
  <2> HIDE DEF M
  <2> QED BY <2>1, <2>2
<1>8. Halves(s, l, r)
  <2> HIDE DEF l, r, s
  <2>1. Len(l) \in Nat /\ Len(r) \in Nat /\ Len(s) = Len(l) + Len(r)
    BY <1>2, <1>3, <1>4 DEF N
  <2> QED BY <1>3, <1>4, <2>1 DEF Halves
<1>9. \A x, w : Has(l, x, w) \/ Has(r, x, w) <=> Has(s, x, w)
  <2> HIDE DEF l, r, s
  <2> QED BY <1>2, <1>8, HalvesHave
<1>10. l # << >> /\ r # << >>
  <2>1. Len(l) # 0 /\ Len(r) # 0 /\ Len(<< >>) = 0
    BY <1>2, <1>3, <1>4
  <2> HIDE DEF l, r
  <2> QED BY <2>1
<1> HIDE DEF M, l, r
<1>11. ASSUME NEW j \in 0..(n + 1) PROVE CellsAscend(M[j]) /\ (n + 1 > 0 => M[j] # << >>)
  <2>1. CASE j < n
    <3>1. j \in 0..n /\ M[j] = L[j] /\ n > 0
      BY <1>1, <1>5, <1>6, <2>1
    <3> QED BY <3>1 DEF Spread
  <2>2. CASE j = n
    BY <1>3, <1>6, <1>10, <2>2
  <2>3. CASE j = n + 1
    BY <1>4, <1>6, <1>10, <2>3
  <2> QED BY <1>5, <2>1, <2>2, <2>3
<1>12. ASSUME NEW i \in 0..(n + 1), NEW j \in 0..(n + 1), i < j PROVE Before(M[i], M[j])
  <2>1. CASE j < n
    <3>1. i < n /\ i \in 0..n /\ j \in 0..n
      BY <1>5, <1>12, <2>1
    <3> QED BY <1>6, <1>12, <2>1, <3>1 DEF Spread
  <2>2. CASE i < n /\ ~(j < n)
    <3>1. M[i] = L[i] /\ Before(L[i], s)
      BY <1>5, <1>6, <2>2 DEF Spread
    <3>2. Before(L[i], l)
      <4>1. \A b \in 1..Len(l) : b \in 1..Len(s) /\ l[b] = s[b]
        BY <1>2, <1>3
      <4> QED BY <3>1, <4>1 DEF Before
    <3>3. Before(L[i], r)
      <4>1. \A b \in 1..Len(r) : mid + b \in 1..Len(s) /\ r[b] = s[mid + b]
        BY <1>2, <1>4
      <4> QED BY <3>1, <4>1 DEF Before
    <3> QED BY <1>5, <1>6, <2>2, <3>1, <3>2, <3>3
  <2>3. CASE ~(i < n)
    <3>1. i = n /\ j = n + 1
      BY <1>1, <1>12, <2>3
    <3>2. ASSUME NEW a \in 1..Len(l), NEW b \in 1..Len(r) PROVE l[a].key < r[b].key
      <4>1. a \in 1..N /\ mid + b \in 1..N /\ a < mid + b /\ l[a] = s[a] /\ r[b] = s[mid + b]
        BY <1>2, <1>3, <1>4
      <4> HIDE DEF s
      <4> QED BY <1>2, <4>1 DEF CellsAscend, N
    <3> QED BY <1>6, <3>1, <3>2 DEF Before
  <2> QED BY <2>1, <2>2, <2>3
<1>13. ASSUME NEW x, NEW w PROVE Appears(n + 1, M, x, w) <=> Appears(n, L, x, w)
  <2>1. ASSUME NEW j \in 0..(n + 1), Has(M[j], x, w) PROVE Appears(n, L, x, w)
    <3>1. CASE j < n
      <4>1. j \in 0..n /\ M[j] = L[j]
        BY <1>5, <1>6, <3>1
      <4> QED BY <2>1, <4>1 DEF Appears
    <3>2. CASE ~(j < n)
      <4>1. Has(s, x, w)
        BY <1>5, <1>6, <1>9, <2>1, <3>2
      <4> QED BY <1>1, <4>1 DEF Appears
    <3> QED BY <3>1, <3>2
  <2>2. ASSUME NEW j \in 0..n, Has(L[j], x, w) PROVE Appears(n + 1, M, x, w)
    <3>1. CASE j < n
      <4>1. j \in 0..(n + 1) /\ M[j] = L[j]
        BY <1>5, <1>6, <3>1
      <4> QED BY <2>2, <4>1 DEF Appears
    <3>2. CASE j = n
      <4>1. Has(M[n], x, w) \/ Has(M[n + 1], x, w)
        BY <1>6, <1>9, <2>2, <3>2
      <4> QED BY <1>5, <4>1 DEF Appears
    <3> QED BY <1>5, <3>1, <3>2
  <2> QED BY <2>1, <2>2 DEF Appears
<1>14. Spread(n + 1, M, m)
  <2> DEFINE n2 == n + 1
  <2>1. \A x, w : Appears(n2, M, x, w) <=> x \in DOMAIN m /\ w = m[x]
    BY <1>13 DEF Spread
  <2>2. n2 \in Nat /\ M \in [0..n2 -> Seq(CellSet)] /\ \A j \in 0..n2 : CellsAscend(M[j]) /\ (n2 > 0 => M[j] # << >>)
    BY <1>5, <1>7, <1>11
  <2>3. \A i, j \in 0..n2 : i < j => Before(M[i], M[j])
    BY <1>12
  <2> HIDE DEF n2
  <2>4. Spread(n2, M, m)
    BY <2>1, <2>2, <2>3 DEF Spread
  <2> QED BY <2>4 DEF n2
<1>15. ASSUME NEW j \in 0..n PROVE M[j][1] = L[j][1]
  <2>1. CASE j < n
    <3>1. M[j] = L[j]
      BY <1>5, <1>6, <2>1
    <3> QED BY <3>1
  <2>2. CASE j = n
    <3>1. 1 \in 1..mid
      BY <1>2
    <3> QED BY <1>3, <1>6, <2>2, <3>1
  <2> QED BY <1>5, <2>1, <2>2
<1>16. M[n + 1][1] = s[mid + 1]
  <2>1. 1 \in 1..(N - mid)
    BY <1>2
  <2> QED BY <1>4, <1>6, <2>1
<1> QED BY <1>3, <1>4, <1>6, <1>14, <1>15, <1>16 DEF M

(* The key x stands in list j, as cell i.                                  *)
StandsAt(n, L, x, j, i) == j \in 0..n /\ i \in 1..Len(L[j]) /\ L[j][i].key = x

LEMMA PlacesInOrder ==
    ASSUME NEW n, NEW L, NEW m, Spread(n, L, m),
           NEW x, NEW a, NEW i, StandsAt(n, L, x, a, i), NEW y, NEW b, NEW j, StandsAt(n, L, y, b, j)
    PROVE  /\ a < b \/ (a = b /\ i < j) => x < y
           /\ x = y => a = b /\ i = j
           /\ x < y => a < b \/ (a = b /\ i < j)
           /\ x \in Int /\ y \in Int /\ x \in DOMAIN m /\ y \in DOMAIN m
           /\ a \in Int /\ b \in Int /\ i \in Int /\ j \in Int
<1>1. /\ a \in 0..n /\ b \in 0..n /\ i \in 1..Len(L[a]) /\ j \in 1..Len(L[b]) /\ n \in Nat
      /\ L[a][i].key = x /\ L[b][j].key = y
  BY DEF StandsAt, Spread
<1>2. a \in Int /\ b \in Int /\ i \in Int /\ j \in Int /\ Len(L[a]) \in Nat /\ Len(L[b]) \in Nat
  BY <1>1, SpreadKeys
<1>3. x \in Int /\ y \in Int /\ x \in DOMAIN m /\ y \in DOMAIN m
  BY <1>1, SpreadKeys
<1>4. /\ a < b => x < y
      /\ b < a => y < x
  <2>1. a < b => Before(L[a], L[b])
    BY <1>1 DEF Spread
  <2>2. b < a => Before(L[b], L[a])
    BY <1>1 DEF Spread
  <2> QED BY <1>1, <2>1, <2>2 DEF Before
<1>5. a = b => (i < j => x < y) /\ (j < i => y < x)
  <2>1. CellsAscend(L[a])
    BY <1>1 DEF Spread
  <2> QED BY <1>1, <2>1 DEF CellsAscend
<1>6. i = j /\ a = b => x = y
  BY <1>1
<1> QED BY <1>2, <1>3, <1>4, <1>5, <1>6

(* The first, the last and the next key of the map.                        *)
LEMMA PlacesOfSpread ==
    ASSUME NEW n, NEW L, NEW m, Spread(n, L, m), n > 0, NEW x, NEW a, NEW i, StandsAt(n, L, x, a, i)
    PROVE  /\ (\A y \in DOMAIN m : x <= y) => a = 0 /\ i = 1
           /\ (\A y \in DOMAIN m : y <= x) => a = n /\ i = Len(L[a])
           /\ \A y, b, j :
                StandsAt(n, L, y, b, j) /\ x < y /\ (\A z \in DOMAIN m : ~(x < z /\ z < y))
                  => \/ i < Len(L[a]) /\ b = a /\ j = i + 1
                     \/ i = Len(L[a]) /\ a < n /\ b = a + 1 /\ j = 1
<1>1. n \in Nat /\ a \in 0..n /\ i \in 1..Len(L[a]) /\ \A q \in 0..n : Len(L[q]) \in Nat /\ Len(L[q]) >= 1
  <2>1. n \in Nat /\ a \in 0..n /\ i \in 1..Len(L[a])
    BY DEF StandsAt, Spread
  <2>2. \A q \in 0..n : Len(L[q]) \in Nat /\ L[q] # << >> /\ L[q] \in Seq(CellSet)
    BY SpreadKeys DEF Spread
  <2>3. \A q \in 0..n : Len(L[q]) # 0
    BY <2>2, EmptySeq
  <2> QED BY <2>1, <2>2, <2>3
<1>2. ASSUME NEW q \in 0..n, NEW p \in 1..Len(L[q]) PROVE StandsAt(n, L, L[q][p].key, q, p)
  BY DEF StandsAt
<1>3. ASSUME \A y \in DOMAIN m : x <= y PROVE a = 0 /\ i = 1
  <2> DEFINE y == L[0][1].key
  <2>1. StandsAt(n, L, y, 0, 1)
    BY <1>1, <1>2
  <2> HIDE DEF y
  <2>2. ~(y < x) /\ y \in DOMAIN m /\ y \in Int /\ x \in Int
    <3>1. y \in DOMAIN m /\ y \in Int /\ x \in Int
      BY <2>1, PlacesInOrder
    <3> QED BY <1>3, <3>1
  <2>3. ~(0 < a) /\ ~(0 = a /\ 1 < i)
    BY <2>1, <2>2, PlacesInOrder
  <2> QED BY <1>1, <2>3
<1>4. ASSUME \A y \in DOMAIN m : y <= x PROVE a = n /\ i = Len(L[a])
  <2> DEFINE e == Len(L[n])
             y == L[n][e].key
  <2>1. e \in 1..Len(L[n]) /\ n \in 0..n
    BY <1>1
  <2>2. StandsAt(n, L, y, n, e)
    BY <1>2, <2>1
  <2> HIDE DEF y
  <2>3. ~(x < y)
    <3>1. y \in DOMAIN m /\ y \in Int /\ x \in Int
      BY <2>2, PlacesInOrder
    <3> QED BY <1>4, <3>1
  <2>4. ~(a < n) /\ ~(a = n /\ i < e)
    BY <2>2, <2>3, PlacesInOrder
  <2> QED BY <1>1, <2>4
<1>5. ASSUME NEW y, NEW b, NEW j, StandsAt(n, L, y, b, j), x < y, \A z \in DOMAIN m : ~(x < z /\ z < y)
      PROVE  \/ i < Len(L[a]) /\ b = a /\ j = i + 1
             \/ i = Len(L[a]) /\ a < n /\ b = a + 1 /\ j = 1
  <2>1. b \in 0..n /\ j \in 1..Len(L[b]) /\ (a < b \/ (a = b /\ i < j))
    <3>1. a < b \/ (a = b /\ i < j)
      BY <1>5, PlacesInOrder
    <3> QED BY <1>5, <3>1 DEF StandsAt
  <2>2. ASSUME NEW z, NEW c, NEW e, StandsAt(n, L, z, c, e), a < c \/ (a = c /\ i < e)
        PROVE  ~(c < b) /\ ~(c = b /\ e < j)
    <3>1. x < z /\ z \in DOMAIN m
      BY <2>2, PlacesInOrder
    <3>2. ~(z < y)
      BY <1>5, <3>1
    <3> QED BY <1>5, <2>2, <3>2, PlacesInOrder
  <2>3. CASE i < Len(L[a])
    <3> DEFINE e == i + 1
    <3>1. e \in 1..Len(L[a]) /\ i < e
      BY <1>1, <2>3
    <3>2. StandsAt(n, L, L[a][e].key, a, e)
      BY <1>1, <1>2, <3>1
    <3>3. ~(a < b) /\ ~(a = b /\ e < j)
      BY <2>2, <3>1, <3>2
    <3> QED BY <1>1, <2>1, <2>3, <3>3
  <2>4. CASE ~(i < Len(L[a]))
    <3>1. i = Len(L[a])
      BY <1>1, <2>4
    <3>2. a < b
      BY <1>1, <2>1, <2>4
    <3> DEFINE c == a + 1
    <3>3. c \in 0..n /\ a < c /\ 1 \in 1..Len(L[c]) /\ a < n
      <4>1. c \in 0..n /\ a < c /\ a < n
        BY <1>1, <2>1, <3>2
      <4> HIDE DEF c
      <4> QED BY <1>1, <4>1
    <3>4. StandsAt(n, L, L[c][1].key, c, 1)
      BY <1>2, <3>3
    <3>5. ~(c < b) /\ ~(c = b /\ 1 < j)
      BY <2>2, <3>3, <3>4
    <3>6. b = c
      BY <1>1, <2>1, <3>2, <3>5
    <3>7. j = 1
      BY <1>1, <2>1, <3>5, <3>6
    <3> QED BY <3>1, <3>3, <3>6, <3>7
  <2> QED BY <2>3, <2>4
<1> QED BY <1>3, <1>4, <1>5

-----------------------------------------------------------------------------
(* A tree the pages of which hold the lists L[0], ..., L[n]: the root is a *)
(* leaf, or it is the only internal page and each of its cells has the     *)
(* first key of the leaf to its right.                                     *)
Flat(t, n, L) == n = 0 /\ t.pages[t.root] = LeafOf(L[0], Len(L[0]))

Twofold(t, n, L) ==
    LET pg == t.pages[t.root]
    IN  /\ ~pg.leaf /\ Len(pg.cells) = n
        /\ \A j \in 0..n : t.pages[Child(pg, j)] = LeafOf(L[j], Len(L[j]))
        /\ \A i \in 1..n : pg.cells[i].key = L[i][1].key

(* The cursor of cell i of the list j.                                     *)
StackAt(t, j, i) == <<Frame(t.root, j), Frame(Child(t.pages[t.root], j), i - 1)>>

LEMMA TwoFrames == ASSUME NEW a, NEW b PROVE Append(<<a>>, b) = <<a, b>> /\ <<a>> \o <<b>> = <<a, b>>
<1> DEFINE R == {a, b}
           s == <<a>>
           u == <<b>>
           w == <<a, b>>
<1>1. s \in Seq(R) /\ u \in Seq(R) /\ w \in Seq(R) /\ a \in R /\ b \in R
  OBVIOUS
<1>2. Len(s) = 1 /\ Len(u) = 1 /\ Len(w) = 2 /\ s[1] = a /\ u[1] = b /\ w[1] = a /\ w[2] = b
  OBVIOUS
<1> HIDE DEF s, u, w, R
<1>3. Append(s, b) \in Seq(R) /\ Len(Append(s, b)) = 2 /\ Append(s, b)[1] = a /\ Append(s, b)[2] = b
  <2>1. /\ Append(s, b) \in Seq(R) /\ Len(Append(s, b)) = Len(s) + 1 /\ Append(s, b)[Len(s) + 1] = b
        /\ \A i \in 1..Len(s) : Append(s, b)[i] = s[i]
    BY <1>1, AppendProperties
  <2>2. Len(s) + 1 = 2 /\ 1 \in 1..Len(s)
    BY <1>2
  <2> QED BY <1>2, <2>1, <2>2
<1>4. s \o u \in Seq(R) /\ Len(s \o u) = 2 /\ (s \o u)[1] = a /\ (s \o u)[2] = b
  <2>1. /\ s \o u \in Seq(R) /\ Len(s \o u) = Len(s) + Len(u)
        /\ \A i \in 1..(Len(s) + Len(u)) : (s \o u)[i] = IF i <= Len(s) THEN s[i] ELSE u[i - Len(s)]
    BY <1>1, ConcatProperties
  <2>2. Len(s) + Len(u) = 2 /\ 1 \in 1..2 /\ 2 \in 1..2 /\ 1 <= Len(s) /\ ~(2 <= Len(s)) /\ 2 - Len(s) = 1
    BY <1>2
  <2> QED BY <1>2, <2>1, <2>2
<1>5. \A i \in 1..2 : i = 1 \/ i = 2
  OBVIOUS
<1>6. Append(s, b) = w
  <2>1. \A i \in 1..Len(w) : Append(s, b)[i] = w[i]
    BY <1>2, <1>3, <1>5
  <2> QED BY <1>1, <1>2, <1>3, <2>1, SeqEqual
<1>7. s \o u = w
  <2>1. \A i \in 1..Len(w) : (s \o u)[i] = w[i]
    BY <1>2, <1>4, <1>5
  <2> QED BY <1>1, <1>2, <1>4, <2>1, SeqEqual
<1> QED BY <1>6, <1>7 DEF s, u, w

(* Each key of the map has a place.                                        *)
LEMMA KeyHasPlace ==
    ASSUME NEW n, NEW L, NEW m, Spread(n, L, m)
    PROVE  /\ \A x \in DOMAIN m : \E z : StandsAt(n, L, x, z[1], z[2])
           /\ \A x, j, i : StandsAt(n, L, x, j, i) => m[x] = L[j][i].val /\ x \in DOMAIN m
           /\ DOMAIN m \in SUBSET Int
<1>1. ASSUME NEW x \in DOMAIN m PROVE x \in Int /\ \E z : StandsAt(n, L, x, z[1], z[2])
  <2>1. PICK j \in 0..n : \E i \in 1..Len(L[j]) : L[j][i].key = x /\ L[j][i].val = m[x]
    BY SpreadKeys
  <2>2. PICK i \in 1..Len(L[j]) : L[j][i].key = x
    BY <2>1
  <2>3. StandsAt(n, L, x, <<j, i>>[1], <<j, i>>[2])
    BY <2>2 DEF StandsAt
  <2>4. x \in Int
    BY <2>2, SpreadKeys
  <2> QED BY <2>3, <2>4
<1>2. ASSUME NEW x, NEW j, NEW i, StandsAt(n, L, x, j, i) PROVE m[x] = L[j][i].val /\ x \in DOMAIN m
  BY <1>2, SpreadKeys DEF StandsAt
<1> QED BY <1>1, <1>2

(* A twofold tree that has the rows of m.                                  *)
Fan(t, h, n, L, m) ==
    Good(t.pages, h) /\ t.root \in 1..Len(t.pages) /\ Twofold(t, n, L) /\ Spread(n, L, m)

FanPage(t, n, L, j) ==
    /\ Child(t.pages[t.root], j) \in 1..Len(t.pages)
    /\ Child(t.pages[t.root], j) \in KidsOf(t.pages[t.root])
    /\ t.pages[Child(t.pages[t.root], j)] = LeafOf(L[j], Len(L[j]))
    /\ L[j] # << >> /\ L[j] \in Seq(CellSet) /\ Len(L[j]) \in Nat /\ Len(L[j]) >= 1 /\ CellsAscend(L[j])

(* What the root of a twofold tree is, and its leaves.                     *)
LEMMA TwofoldPages ==
    ASSUME NEW t, NEW h, NEW n, NEW L, NEW m, Fan(t, h, n, L, m)
    PROVE  /\ n \in Nat /\ n > 0 /\ 0 \in 0..n
           /\ ~t.pages[t.root].leaf /\ Len(t.pages[t.root].cells) = n
           /\ \A j \in 0..n : FanPage(t, n, L, j)
<1>0. Good(t.pages, h) /\ t.root \in 1..Len(t.pages) /\ Twofold(t, n, L) /\ Spread(n, L, m)
  BY DEF Fan
<1> DEFINE pg == t.pages[t.root]
<1>1. /\ ~pg.leaf /\ Len(pg.cells) = n
      /\ \A j \in 0..n : t.pages[Child(pg, j)] = LeafOf(L[j], Len(L[j]))
  BY <1>0 DEF Twofold
<1>2. pg.cells # << >> /\ pg.cells \in Seq(CellSet) /\ Len(pg.cells) \in Nat
  BY <1>0, <1>1, PageIsInternalOf
<1>3. n \in Nat /\ n > 0
  <2> HIDE DEF pg
  <2>1. Len(pg.cells) # 0
    BY <1>2, EmptySeq
  <2> QED BY <1>1, <1>2, <2>1
<1>4. ASSUME NEW j \in 0..n PROVE Child(pg, j) \in KidsOf(pg) /\ Child(pg, j) \in 1..Len(t.pages)
  <2>1. Child(pg, j) \in KidsOf(pg)
    BY <1>1 DEF KidsOf, SlotsOf
  <2> QED BY <1>0, <2>1, KidIsPage
<1>5. ASSUME NEW j \in 0..n
      PROVE  /\ L[j] # << >> /\ L[j] \in Seq(CellSet) /\ Len(L[j]) \in Nat /\ Len(L[j]) >= 1 /\ CellsAscend(L[j])
  <2>1. L[j] # << >> /\ L[j] \in Seq(CellSet) /\ Len(L[j]) \in Nat /\ CellsAscend(L[j])
    BY <1>0, <1>3, SpreadKeys DEF Spread
  <2>2. Len(L[j]) # 0
    BY <2>1, EmptySeq
  <2> QED BY <2>1, <2>2
<1>6. 0 \in 0..n
  BY <1>3
<1> QED BY <1>1, <1>3, <1>4, <1>5, <1>6 DEF FanPage

(* The cursor goes through the lists one after the other.                  *)
LEMMA CursorWalks ==
    ASSUME NEW t, NEW h, NEW n, NEW L, NEW m, Fan(t, h, n, L, m), NEW j \in 0..n, NEW i \in 1..Len(L[j])
    PROVE  /\ StackAt(t, j, i) \in Stacks(t.pages) /\ StackAt(t, j, i) # << >>
           /\ ScanRow(t, StackAt(t, j, i)) = <<L[j][i].key, L[j][i].val>>
           /\ CursorNext(t, StackAt(t, j, i)) = IF i < Len(L[j]) THEN StackAt(t, j, i + 1)
                                                ELSE IF j < n THEN StackAt(t, j + 1, 1) ELSE << >>
<1> DEFINE ps == t.pages
           r == t.root
           pg == ps[r]
           q == Child(pg, j)
           a == i - 1
           e == << >>
<1>0. Good(t.pages, h) /\ r \in 1..Len(ps)
  BY DEF Fan
<1>1. /\ n \in Nat /\ n > 0 /\ ~pg.leaf /\ Len(pg.cells) = n
      /\ \A d \in 0..n : /\ Child(pg, d) \in 1..Len(ps)
                         /\ ps[Child(pg, d)] = LeafOf(L[d], Len(L[d]))
                         /\ L[d] # << >> /\ Len(L[d]) \in Nat /\ Len(L[d]) >= 1
  BY TwofoldPages DEF FanPage
<1>2. ps[q].leaf /\ ps[q].cells = L[j] /\ q \in 1..Len(ps)
  <2>1. q \in 1..Len(ps) /\ ps[q] = LeafOf(L[j], Len(L[j]))
    BY <1>1
  <2> HIDE DEF q, ps
  <2> QED BY <2>1 DEF LeafOf
<1>3. a \in Nat /\ a + 1 = i /\ (a < Len(L[j])) /\ j \in Nat /\ j + 1 \in Nat
  BY <1>1
<1> HIDE DEF a
<1>4. /\ Frame(r, j) \in Frames(ps) /\ <<Frame(r, j)>> \in Stacks(ps)
      /\ Frame(q, a) \in Frames(ps) /\ Frame(q, a).page = q /\ Frame(q, a).idx = a
      /\ e \in Stacks(ps)
  <2>1. Frame(r, j) \in Frames(ps) /\ <<Frame(r, j)>> \in Stacks(ps)
    BY <1>0, <1>3, FrameIs
  <2>2. Frame(q, a) \in Frames(ps) /\ Frame(q, a).page = q /\ Frame(q, a).idx = a
    <3>1. Good(ps, h) /\ q \in 1..Len(ps) /\ a \in Nat
      BY <1>0, <1>2, <1>3
    <3> HIDE DEF q, ps, pg
    <3>2. /\ Frame(q, a) \in Frames(ps) /\ <<Frame(q, a)>> \in Stacks(ps)
          /\ Frame(q, a).page = q /\ Frame(q, a).idx = a
      BY <3>1, FrameIs
    <3> QED BY <3>2
  <2> QED BY <2>1, <2>2 DEF Stacks
<1>5. StackAt(t, j, i) = Append(<<Frame(r, j)>>, Frame(q, a))
  BY TwoFrames DEF StackAt, a
<1>6. Append(<<Frame(r, j)>>, Frame(q, a)) \in Stacks(ps) /\ Append(<<Frame(r, j)>>, Frame(q, a)) # << >>
      /\ Last(Append(<<Frame(r, j)>>, Frame(q, a))) = Frame(q, a)
  <2> DEFINE f == Frame(r, j)
             g == Frame(q, a)
  <2>1. f \in Frames(ps) /\ g \in Frames(ps)
    BY <1>4
  <2> HIDE DEF f, g, ps
  <2>2. <<f, g>> \in Seq(Frames(ps)) /\ <<f, g>> # << >> /\ <<f, g>>[Len(<<f, g>>)] = g
    BY <2>1
  <2>3. Append(<<f>>, g) = <<f, g>>
    BY TwoFrames
  <2> QED BY <2>2, <2>3 DEF f, g, Stacks, Last
<1>7. ScanRow(t, StackAt(t, j, i)) = <<L[j][i].key, L[j][i].val>>
  <2> DEFINE s == StackAt(t, j, i)
  <2>1. Last(s).page = q /\ Last(s).idx = a
    BY <1>4, <1>5, <1>6
  <2> HIDE DEF s, q
  <2>2. CursorCell(t, s) = L[j][i]
    BY <1>2, <1>3, <2>1 DEF CursorCell
  <2> QED BY <2>2 DEF ScanRow, s
<1>8. CursorNext(t, StackAt(t, j, i)) =
        IF i < Len(L[j]) THEN Append(<<Frame(r, j)>>, Frame(q, a + 1)) ELSE CursorNext(t, <<Frame(r, j)>>)
  <2> HIDE DEF q, pg
  <2>1. CursorNext(t, Append(<<Frame(r, j)>>, Frame(q, a))) =
          IF a + 1 < Len(ps[q].cells) THEN Append(<<Frame(r, j)>>, Frame(q, a + 1)) ELSE CursorNext(t, <<Frame(r, j)>>)
    <3> DEFINE u == <<Frame(r, j)>>
    <3>1. u \in Stacks(t.pages) /\ Good(t.pages, h) /\ q \in 1..Len(t.pages) /\ a \in Nat /\ t.pages[q].leaf
      BY <1>0, <1>2, <1>3, <1>4
    <3> HIDE DEF u
    <3>2. CursorNext(t, Append(u, Frame(q, a))) =
            IF a + 1 < Len(t.pages[q].cells) THEN Append(u, Frame(q, a + 1)) ELSE CursorNext(t, u)
      BY <3>1, CursorMoves
    <3> QED BY <3>2 DEF u
  <2> QED BY <1>2, <1>3, <1>5, <2>1
<1>9. CursorNext(t, <<Frame(r, j)>>) = IF j < n THEN <<Frame(r, j + 1)>> \o Dive(ps, Child(pg, j + 1)) ELSE << >>
  <2> DEFINE b == j + 1
  <2>1. /\ Append(e, Frame(r, j)) = <<Frame(r, j)>> /\ Append(e, Frame(r, b)) = <<Frame(r, b)>>
    OBVIOUS
  <2> HIDE DEF e, b
  <2>2. CursorNext(t, Append(e, Frame(r, j))) =
          IF b <= Len(pg.cells) THEN Append(e, Frame(r, b)) \o Dive(ps, Child(pg, b)) ELSE CursorNext(t, e)
    <3>1. /\ e \in Stacks(t.pages) /\ Good(t.pages, h) /\ r \in 1..Len(t.pages) /\ j \in Nat /\ ~t.pages[r].leaf
          /\ b = j + 1 /\ pg = t.pages[r]
      BY <1>0, <1>1, <1>3, <1>4 DEF b, e
    <3> HIDE DEF pg, r, ps
    <3>2. CursorNext(t, Append(e, Frame(r, j))) =
            IF j + 1 <= Len(t.pages[r].cells)
            THEN Append(e, Frame(r, j + 1)) \o Dive(t.pages, Child(t.pages[r], j + 1))
            ELSE CursorNext(t, e)
      BY <3>1, CursorMoves
    <3> QED BY <3>1, <3>2 DEF ps
  <2>3. CursorNext(t, e) = << >>
    BY <1>0, CursorMoves DEF e
  <2>4. b <= Len(pg.cells) <=> j < n
    BY <1>1, <1>3 DEF b
  <2> HIDE DEF pg
  <2> QED BY <2>1, <2>2, <2>3, <2>4 DEF b
<1>10. CASE i < Len(L[j])
  <2>1. StackAt(t, j, i + 1) = Append(<<Frame(r, j)>>, Frame(q, a + 1))
    <3>1. (i + 1) - 1 = a + 1
      BY <1>3
    <3> QED BY <3>1, TwoFrames DEF StackAt
  <2> QED BY <1>5, <1>6, <1>7, <1>8, <1>10, <2>1
<1>11. CASE ~(i < Len(L[j])) /\ j < n
  <2> DEFINE b == j + 1
             qb == Child(pg, b)
  <2>1. b \in 0..n
    BY <1>1, <1>3, <1>11
  <2>2. qb \in 1..Len(ps) /\ ps[qb] = LeafOf(L[b], Len(L[b])) /\ L[b] # << >>
    BY <1>1, <2>1
  <2>3. Dive(ps, qb) = <<Frame(qb, 0)>>
    <3> HIDE DEF qb, b
    <3>1. ps[qb].leaf /\ ps[qb].cells # << >>
      BY <2>2 DEF LeafOf
    <3> QED BY <1>0, <2>2, <3>1, DiveGoesDown
  <2>4. StackAt(t, b, 1) = <<Frame(r, b)>> \o <<Frame(qb, 0)>>
    <3>1. 1 - 1 = 0
      OBVIOUS
    <3> QED BY <3>1, TwoFrames DEF StackAt
  <2>5. CursorNext(t, StackAt(t, j, i)) = StackAt(t, b, 1)
    BY <1>8, <1>9, <1>11, <2>3, <2>4
  <2> QED BY <1>5, <1>6, <1>7, <1>11, <2>5
<1>12. CASE ~(i < Len(L[j])) /\ ~(j < n)
  BY <1>5, <1>6, <1>7, <1>8, <1>9, <1>12
<1> QED BY <1>10, <1>11, <1>12

(* It starts at the first cell of the first list.                          *)
LEMMA WalkStarts ==
    ASSUME NEW t, NEW h, NEW n, NEW L, NEW m, Fan(t, h, n, L, m)
    PROVE  CursorStart(t) = StackAt(t, 0, 1)
<1> DEFINE ps == t.pages
           r == t.root
           pg == ps[r]
           q == Child(pg, 0)
<1>0. Good(ps, h) /\ r \in 1..Len(ps)
  BY DEF Fan
<1>1. /\ n \in Nat /\ n > 0 /\ ~pg.leaf /\ Len(pg.cells) = n
      /\ q \in 1..Len(ps) /\ ps[q] = LeafOf(L[0], Len(L[0])) /\ L[0] # << >>
  <2>1. FanPage(t, n, L, 0)
    BY TwofoldPages
  <2> QED BY <2>1, TwofoldPages DEF FanPage
<1>2. q = pg.cells[1].left
  <2>1. ~(0 >= Len(pg.cells)) /\ 0 + 1 = 1
    BY <1>1
  <2> QED BY <2>1 DEF Child
<1> HIDE DEF q
<1>3. ps[q].leaf /\ ps[q].cells # << >>
  BY <1>1 DEF LeafOf
<1>4. Leftmost(ps, r) = q
  <2>1. ~ps[r].leaf /\ q = ps[r].cells[1].left /\ ps[q].leaf /\ q \in 1..Len(ps)
    BY <1>1, <1>2, <1>3
  <2> HIDE DEF pg, ps, r
  <2>2. Leftmost(ps, r) = Leftmost(ps, ps[r].cells[1].left)
    BY <1>0, <2>1, LeftmostIsLeaf
  <2>3. Leftmost(ps, q) = q
    BY <1>0, <2>1, LeftmostIsLeaf
  <2> QED BY <2>1, <2>2, <2>3
<1>5. Dive(ps, q) = <<Frame(q, 0)>>
  BY <1>0, <1>1, <1>3, DiveGoesDown
<1>6. Dive(ps, r) = <<Frame(r, 0)>> \o <<Frame(q, 0)>>
  <2>1. Dive(ps, r) = <<Frame(r, 0)>> \o Dive(ps, ps[r].cells[1].left)
    <3>1. Good(ps, h) /\ r \in 1..Len(ps) /\ ~ps[r].leaf
      BY <1>0, <1>1
    <3> HIDE DEF ps, r, pg
    <3> QED BY <3>1, DiveGoesDown
  <2>2. ps[r].cells[1].left = q
    BY <1>2
  <2> HIDE DEF ps, r, pg
  <2> QED BY <1>5, <2>1, <2>2
<1>7. StackAt(t, 0, 1) = <<Frame(r, 0)>> \o <<Frame(q, 0)>>
  <2>1. 1 - 1 = 0
    OBVIOUS
  <2> QED BY <2>1, TwoFrames DEF StackAt, q
<1> QED BY <1>3, <1>4, <1>6, <1>7 DEF CursorStart

(* So a twofold tree is scanned list by list.                              *)
LEMMA TwofoldScans ==
    ASSUME NEW t, IsTree(t), NEW n, NEW L, NEW m, Twofold(t, n, L), Spread(n, L, m), IsFiniteSet(DOMAIN m)
    PROVE  Scanned(t) = RowList(m)
<1> DEFINE S == DOMAIN m
           IsAt(x, z) == StandsAt(n, L, x, z[1], z[2])
           pos == [x \in S |-> CHOOSE z : IsAt(x, z)]
           at == [x \in S |-> StackAt(t, pos[x][1], pos[x][2])]
<1>1. PICK h : Good(t.pages, h)
  BY DEF IsTree
<1>2. Fan(t, h, n, L, m)
  BY <1>1 DEF IsTree, Fan
<1>3. n \in Nat /\ n > 0
  BY <1>2, TwofoldPages
<1>4. ASSUME NEW x \in S PROVE StandsAt(n, L, x, pos[x][1], pos[x][2])
  <2>1. \E z : IsAt(x, z)
    BY KeyHasPlace
  <2>2. pos[x] = CHOOSE z : IsAt(x, z)
    OBVIOUS
  <2> HIDE DEF IsAt, pos
  <2>3. IsAt(x, pos[x])
    BY <2>1, <2>2
  <2> QED BY <2>3 DEF IsAt
<1>5. \A x \in S : at[x] = StackAt(t, pos[x][1], pos[x][2])
  OBVIOUS
<1> HIDE DEF pos, at, IsAt
<1>6. ASSUME NEW x \in S
      PROVE  /\ at[x] \in Stacks(t.pages) /\ at[x] # << >> /\ ScanRow(t, at[x]) = <<x, m[x]>>
             /\ CursorNext(t, at[x]) = IF pos[x][2] < Len(L[pos[x][1]]) THEN StackAt(t, pos[x][1], pos[x][2] + 1)
                                       ELSE IF pos[x][1] < n THEN StackAt(t, pos[x][1] + 1, 1) ELSE << >>
  <2> DEFINE j == pos[x][1]
             i == pos[x][2]
  <2>1. j \in 0..n /\ i \in 1..Len(L[j]) /\ L[j][i].key = x
    BY <1>4 DEF StandsAt
  <2>2. at[x] = StackAt(t, j, i)
    BY <1>5
  <2> HIDE DEF j, i
  <2>3. m[x] = L[j][i].val
    BY <2>1, KeyHasPlace DEF StandsAt
  <2>4. /\ StackAt(t, j, i) \in Stacks(t.pages) /\ StackAt(t, j, i) # << >>
        /\ ScanRow(t, StackAt(t, j, i)) = <<L[j][i].key, L[j][i].val>>
        /\ CursorNext(t, StackAt(t, j, i)) = IF i < Len(L[j]) THEN StackAt(t, j, i + 1)
                                             ELSE IF j < n THEN StackAt(t, j + 1, 1) ELSE << >>
    BY <1>2, <2>1, CursorWalks
  <2> QED BY <2>1, <2>2, <2>3, <2>4 DEF j, i
<1>7. S # {}
  <2>1. 0 \in 0..n /\ Len(L[0]) \in Nat /\ Len(L[0]) >= 1
    BY <1>2, TwofoldPages DEF FanPage
  <2>2. StandsAt(n, L, L[0][1].key, 0, 1)
    BY <2>1 DEF StandsAt
  <2> QED BY <2>2, KeyHasPlace
<1>8. ASSUME NEW x \in S, \A y \in S : x <= y PROVE CursorStart(t) = at[x]
  <2>1. pos[x][1] = 0 /\ pos[x][2] = 1
    BY <1>3, <1>4, <1>8, PlacesOfSpread
  <2> QED BY <1>2, <1>5, <2>1, WalkStarts
<1>9. ASSUME NEW x \in S, \A y \in S : y <= x PROVE CursorNext(t, at[x]) = << >>
  <2>1. pos[x][1] = n /\ pos[x][2] = Len(L[pos[x][1]])
    BY <1>3, <1>4, <1>9, PlacesOfSpread
  <2>2. Len(L[n]) \in Nat
    BY <1>3, SpreadKeys
  <2>3. ~(n < n) /\ ~(Len(L[n]) < Len(L[n]))
    BY <1>3, <2>2
  <2> QED BY <1>6, <2>1, <2>3
<1>10. ASSUME NEW x \in S, NEW y \in S, x < y, \A z \in S : ~(x < z /\ z < y)
       PROVE  CursorNext(t, at[x]) = at[y]
  <2> DEFINE a == pos[x][1]
             i == pos[x][2]
             b == pos[y][1]
             j == pos[y][2]
  <2>1. StandsAt(n, L, x, a, i) /\ StandsAt(n, L, y, b, j)
    BY <1>4
  <2>2. at[y] = StackAt(t, b, j)
    BY <1>5
  <2>3. CursorNext(t, at[x]) = IF i < Len(L[a]) THEN StackAt(t, a, i + 1)
                               ELSE IF a < n THEN StackAt(t, a + 1, 1) ELSE << >>
    BY <1>6
  <2> HIDE DEF a, i, b, j
  <2>4. \/ i < Len(L[a]) /\ b = a /\ j = i + 1
        \/ i = Len(L[a]) /\ a < n /\ b = a + 1 /\ j = 1
    BY <1>3, <1>10, <2>1, PlacesOfSpread
  <2>5. a \in 0..n /\ Len(L[a]) \in Nat
    <3>1. a \in 0..n
      BY <2>1 DEF StandsAt
    <3> QED BY <3>1, SpreadKeys
  <2>6. i = Len(L[a]) => ~(i < Len(L[a]))
    BY <2>5
  <2> QED BY <2>2, <2>3, <2>4, <2>6
<1>11. at \in [S -> Stacks(t.pages)]
  BY <1>6 DEF at
<1>12. Visits(t, m, at)
  BY <1>6, <1>7, <1>8, <1>9, <1>10, <1>11 DEF Visits
<1>13. S \in SUBSET Int
  BY KeyHasPlace
<1> QED BY <1>1, <1>12, <1>13, ScanInOrder

LEMMA FlatScans ==
    ASSUME NEW t, IsTree(t), NEW n, NEW L, NEW m, Flat(t, n, L), Spread(n, L, m)
    PROVE  Scanned(t) = RowList(m)
<1>1. n = 0 /\ t.pages[t.root].leaf /\ t.pages[t.root].cells = L[0]
  BY DEF Flat, LeafOf
<1>2. RowsAre(L[0], m)
  <2> SUFFICES ASSUME NEW x, NEW w PROVE Has(L[0], x, w) <=> x \in DOMAIN m /\ w = m[x]
    BY DEF RowsAre
  <2>1. Appears(n, L, x, w) <=> x \in DOMAIN m /\ w = m[x]
    BY DEF Spread
  <2>2. Appears(n, L, x, w) <=> Has(L[0], x, w)
    <3>1. \A j \in 0..n : j = 0
      BY <1>1
    <3>2. 0 \in 0..n
      BY <1>1
    <3> QED BY <3>1, <3>2 DEF Appears
  <2> QED BY <2>1, <2>2
<1> QED BY <1>1, <1>2, LeafScans

-----------------------------------------------------------------------------
(* A key above those of a page is looked for behind its last cell.         *)
LEMMA SearchedLast ==
    ASSUME NEW pg \in Page, NEW k \in Key, CellsAscend(pg.cells), \A i \in 1..Len(pg.cells) : pg.cells[i].key < k
    PROVE  Search(Keys(pg), k).idx = Len(pg.cells) /\ ~Search(Keys(pg), k).found
<1> DEFINE ks == Keys(pg)
           s == pg.cells
           a == Search(ks, k)
<1>1. ks \in Seq(Int) /\ Len(ks) = Len(s) /\ Len(s) \in Nat /\ \A i \in 1..Len(s) : ks[i] = s[i].key
  <2>1. Len(s) \in Nat
    BY DEF Page
  <2> QED BY <2>1, KeysOfPage
<1>2. Ascends(ks) /\ k \in Int
  BY KeysAscend, TreeAssumption
<1>3. \A i \in 1..Len(s) : ks[i] < k
  BY <1>1
<1> HIDE DEF ks, s, a
<1>4. IsAnswer(ks, k, a) /\ IsPlace(ks, k, a)
  BY <1>1, <1>2, SearchAnswers DEF a
<1>5. a.idx \in 0..Len(s) /\ a.found \in BOOLEAN
  BY <1>1, <1>4 DEF IsAnswer
<1>6. \A i \in 1..Len(s) : ks[i] \in Int
  BY <1>1
<1>7. ~a.found
  <2>1. ASSUME a.found PROVE FALSE
    <3>1. a.idx < Len(s) /\ ks[a.idx + 1] = k
      BY <1>1, <1>4, <2>1 DEF IsAnswer
    <3>2. a.idx + 1 \in 1..Len(s)
      BY <1>1, <1>5, <3>1
    <3>3. k < k
      BY <1>3, <3>1, <3>2
    <3> QED BY <1>2, <3>3
  <2> QED BY <2>1
<1>8. a.idx = Len(s)
  <2>1. ASSUME a.idx < Len(s) PROVE FALSE
    <3> DEFINE i == a.idx + 1
    <3>1. i \in 1..Len(s) /\ i > a.idx
      BY <1>1, <1>5, <2>1
    <3> HIDE DEF i
    <3>2. k < ks[i] /\ ks[i] < k
      BY <1>1, <1>3, <1>4, <1>7, <3>1 DEF IsPlace
    <3> QED BY <1>2, <1>6, <3>1, <3>2
  <2> QED BY <1>1, <1>5, <2>1
<1> QED BY <1>7, <1>8 DEF a, ks, s

(* insertSorted puts it last.                                              *)
LEMMA SortedLast ==
    ASSUME NEW s \in Seq(CellSet), NEW c \in CellSet, \A i \in 1..Len(s) : s[i].key < c.key
    PROVE  InsertSorted(s, c) = Append(s, c)
<1>1. \A i \in 1..Len(s) : ~(c.key < s[i].key)
  <2>1. \A x \in CellSet : x.key \in Int
    BY TreeAssumption DEF CellSet
  <2>2. \A i \in 1..Len(s) : s[i] \in CellSet
    OBVIOUS
  <2> QED BY <2>1, <2>2
<1>2. DOMAIN s = 1..Len(s)
  OBVIOUS
<1>3. {i \in DOMAIN s : c.key < s[i].key} = {}
  BY <1>1, <1>2
<1> QED BY <1>3 DEF InsertSorted

LEMMA InsertedLast ==
    ASSUME NEW S, NEW s \in Seq(S), NEW c \in S
    PROVE  InsertAt(s, Len(s) + 1, c) = Append(s, c)
<1> DEFINE i == Len(s) + 1
           a == InsertAt(s, i, c)
           b == Append(s, c)
<1>1. Len(s) \in Nat /\ i \in 1..(Len(s) + 1)
  OBVIOUS
<1>2. a \in Seq(S) /\ ShiftedIn(a, s, i, c)
  <2> HIDE DEF i
  <2> QED BY <1>1, InsertAtProperties
<1>3. /\ b \in Seq(S) /\ Len(b) = Len(s) + 1 /\ b[Len(s) + 1] = c
      /\ \A j \in 1..Len(s) : b[j] = s[j]
  BY AppendProperties
<1>4. Len(a) = Len(s) + 1 /\ \A j \in 1..Len(a) : a[j] = IF j < i THEN s[j] ELSE IF j = i THEN c ELSE s[j - 1]
  <2> HIDE DEF a, i
  <2> QED BY <1>1, <1>2 DEF ShiftedIn
<1> HIDE DEF a, b
<1>5. ASSUME NEW j \in 1..Len(a) PROVE a[j] = b[j]
  <2>1. CASE j = i
    BY <1>3, <1>4, <2>1
  <2>2. CASE j # i
    <3>1. j < i /\ j \in 1..Len(s)
      BY <1>1, <1>4, <2>2
    <3> QED BY <1>3, <1>4, <3>1
  <2> QED BY <2>1, <2>2
<1>6. a = b
  <2>1. Len(a) = Len(b)
    BY <1>3, <1>4
  <2> QED BY <1>2, <1>3, <1>5, <2>1, SeqEqual
<1> QED BY <1>6 DEF a, b

(* What an insertion at the end of leaf p returns, the cells being t then. *)
LeafEnded(ps, p, t, mid) ==
    Append([ps EXCEPT ![p] = LeafOf(SubSeq(t, 1, mid), mid)],
           LeafOf(SubSeq(t, mid + 1, Len(t)), Len(t) - mid))

LeafAppended(ps, p, t, b) ==
    \/ b = Unsplit([ps EXCEPT ![p] = LeafOf(t, Len(t))])
    \/ \E mid \in 1..(Len(t) - 1) : b = Split(LeafEnded(ps, p, t, mid), t[mid + 1], Len(ps) + 1)

LEMMA LeafAppends ==
    ASSUME NEW ps, NEW h, Good(ps, h), NEW p \in 1..Len(ps), NEW s, ps[p] = LeafOf(s, Len(s)),
           NEW k \in Key, NEW v \in Val, \A i \in 1..Len(s) : s[i].key < k
    PROVE  LeafAppended(ps, p, Append(s, Cell(k, v, NoPage)), InsertLeaf(ps, p, k, v))
<1> DEFINE c == Cell(k, v, NoPage)
           t == Append(s, c)
           at == Search(Keys(ps[p]), k)
<1>1. ps[p].leaf = TRUE /\ ps[p].cells = s /\ ps[p].laid = Len(s) /\ ps[p].right = NoPage
  BY DEF LeafOf
<1>2. ps[p] \in Page /\ LeafCells(s) /\ s \in Seq(CellSet) /\ Len(s) \in Nat /\ ps \in Seq(Page)
  BY <1>1, GoodPage, PageIsLeafOf DEF Good
<1>3. c \in CellSet /\ c.key = k
  BY DEF Cell, CellSet, NoPage
<1>4. at.idx = Len(s) /\ ~at.found
  BY <1>1, <1>2, SearchedLast DEF LeafCells
<1>5. t \in Seq(CellSet) /\ Len(t) = Len(s) + 1 /\ Len(t) \in Nat
  BY <1>2, <1>3
<1> HIDE DEF c, at
<1>6. InsertSorted(s, c) = t
  BY <1>2, <1>3, SortedLast
<1>7. InsertLeaf(ps, p, k, v) = IF Full(ps[p]) THEN SplitLeaf(ps, p, c)
                                ELSE Unsplit([ps EXCEPT ![p] = Placed(ps[p], at.idx, c)])
  BY <1>4 DEF InsertLeaf, at, c
<1> HIDE DEF t
<1>8. CASE ~Full(ps[p])
  <2> DEFINE n == Len(s)
  <2>1. InsertAt(s, n + 1, c) = t
    BY <1>2, <1>3, InsertedLast DEF t
  <2>2. Placed(ps[p], at.idx, c) = [leaf |-> ps[p].leaf, cells |-> InsertAt(ps[p].cells, at.idx + 1, c),
                                    right |-> ps[p].right, laid |-> ps[p].laid + 1]
    BY <1>2, PlacedIs
  <2>3. Placed(ps[p], at.idx, c) = LeafOf(t, Len(t))
    BY <1>1, <1>4, <1>5, <2>1, <2>2 DEF LeafOf
  <2> QED BY <1>7, <1>8, <2>3 DEF LeafAppended, t, c
<1>9. CASE Full(ps[p])
  <2> DEFINE mid == Len(t) \div 2
             l == SubSeq(t, 1, mid)
             r == SubSeq(t, mid + 1, Len(t))
             rest == Len(t) - mid
  <2>1. Len(s) >= 4
    BY <1>1, <1>2, <1>9, FullHasFour
  <2>2. mid \in 1..(Len(t) - 1) /\ mid \in Nat /\ rest \in Nat /\ mid \in 0..Len(t) /\ mid >= 1 /\ mid + 1 <= Len(t)
    BY <1>2, <1>5, <2>1
  <2> HIDE DEF mid
  <2>3. Len(l) = mid
    <3> DEFINE a == 1
    <3>1. a \in 1..(Len(t) + 1) /\ a <= mid /\ mid - a + 1 = mid
      BY <1>5, <2>2
    <3> HIDE DEF a
    <3>2. Len(SubSeq(t, a, mid)) = IF a <= mid THEN mid - a + 1 ELSE 0
      BY <1>5, <2>2, <3>1, PartOfCells
    <3> QED BY <3>1, <3>2 DEF a
  <2>4. Len(r) = rest
    <3> DEFINE a == mid + 1
               e == Len(t)
    <3>1. a \in 1..(Len(t) + 1) /\ e \in 0..Len(t) /\ a <= e /\ e - a + 1 = rest
      BY <1>5, <2>2
    <3> HIDE DEF a, e, rest
    <3>2. Len(SubSeq(t, a, e)) = IF a <= e THEN e - a + 1 ELSE 0
      BY <1>5, <3>1, PartOfCells
    <3> QED BY <3>1, <3>2 DEF a, e
  <2> HIDE DEF l, r, rest
  <2>5. Refilled(ps[p], l) = LeafOf(l, mid)
    BY <1>1, <1>2, <2>3, RefilledIs DEF LeafOf
  <2>6. Leaf(r) = LeafOf(r, rest)
    BY <2>4 DEF Leaf, LeafOf
  <2>7. SplitLeaf(ps, p, c) = Split(LeafEnded(ps, p, t, mid), t[mid + 1], Len(ps) + 1)
    <3>1. SplitLeaf(ps, p, c) = Split(Append([ps EXCEPT ![p] = Refilled(ps[p], l)], Leaf(r)), t[mid + 1], Len(ps) + 1)
      <4>1. InsertSorted(ps[p].cells, c) = t
        BY <1>1, <1>6
      <4>2. SplitLeaf(ps, p, c) =
              Split(Append([ps EXCEPT ![p] = Refilled(ps[p], SubSeq(t, 1, mid))],
                           Leaf(SubSeq(t, mid + 1, Len(t)))),
                    t[mid + 1], Len(ps) + 1)
        BY <4>1 DEF SplitLeaf, mid
      <4> QED BY <4>2 DEF l, r
    <3>2. LeafEnded(ps, p, t, mid) = Append([ps EXCEPT ![p] = LeafOf(l, mid)], LeafOf(r, rest))
      BY DEF LeafEnded, l, r, rest
    <3> QED BY <2>5, <2>6, <3>1, <3>2
  <2>8. InsertLeaf(ps, p, k, v) = Split(LeafEnded(ps, p, t, mid), t[mid + 1], Len(ps) + 1)
    BY <1>7, <1>9, <2>7
  <2>9. LeafAppended(ps, p, t, InsertLeaf(ps, p, k, v))
    <3> DEFINE b == InsertLeaf(ps, p, k, v)
    <3>1. b = Split(LeafEnded(ps, p, t, mid), t[mid + 1], Len(ps) + 1)
      BY <2>8
    <3> HIDE DEF b
    <3>2. LeafAppended(ps, p, t, b)
      BY <2>2, <3>1 DEF LeafAppended
    <3> QED BY <3>2 DEF b
  <2> QED BY <2>9 DEF t, c
<1> QED BY <1>8, <1>9

-----------------------------------------------------------------------------
(* The tree is of one page, of a root and its leaves, or higher.           *)
Tall(t) == \E h : Good(t.pages, h) /\ h[t.root] >= 2

Shape(t, m) == Tall(t) \/ \E n, L : (Flat(t, n, L) \/ Twofold(t, n, L)) /\ Spread(n, L, m)

(* A higher tree stays so.                                                 *)
LEMMA TallGrows ==
    ASSUME NEW t, IsTree(t), Tall(t), NEW k \in Key, NEW v \in Val
    PROVE  Tall(Inserted(t, k, v))
<1>1. PICK h : Good(t.pages, h) /\ h[t.root] >= 2
  BY DEF Tall
<1>2. PICK path, below : IsInsertion(t, k, v, path, below)
  BY InsertedIs
<1>3. PICK g : /\ Good(Inserted(t, k, v).pages, g)
               /\ g[Inserted(t, k, v).root] = IF below[1].split THEN h[t.root] + 1 ELSE h[t.root]
  BY <1>1, <1>2, InsertionGrowsTree
<1>4. h[t.root] \in Nat
  BY <1>1, GoodPage DEF IsTree
<1>5. g[Inserted(t, k, v).root] >= 2
  BY <1>1, <1>3, <1>4
<1> QED BY <1>3, <1>5 DEF Tall

(* The pages when the cells t of a split leaf are divided.                 *)
LEMMA PagesEnded ==
    ASSUME NEW S, NEW ps \in Seq(S), NEW p \in 1..Len(ps), NEW t, NEW mid
    PROVE  LET qs == LeafEnded(ps, p, t, mid)
           IN  /\ Len(qs) = Len(ps) + 1 /\ \A q \in 1..Len(ps) : q # p => qs[q] = ps[q]
               /\ qs[p] = LeafOf(SubSeq(t, 1, mid), mid)
               /\ qs[Len(ps) + 1] = LeafOf(SubSeq(t, mid + 1, Len(t)), Len(t) - mid)
<1> DEFINE a == LeafOf(SubSeq(t, 1, mid), mid)
           b == LeafOf(SubSeq(t, mid + 1, Len(t)), Len(t) - mid)
           R == S \union {a, b}
           one == [ps EXCEPT ![p] = a]
<1>0. LeafEnded(ps, p, t, mid) = Append(one, b)
  BY DEF LeafEnded
<1> HIDE DEF a, b
<1>1. Len(ps) \in Nat /\ ps \in Seq(R) /\ a \in R /\ b \in R
  OBVIOUS
<1> HIDE DEF R
<1>2. one \in Seq(R) /\ Len(one) = Len(ps) /\ \A q \in 1..Len(ps) : one[q] = IF q = p THEN a ELSE ps[q]
  BY <1>1, ExceptSeq
<1> HIDE DEF one
<1> DEFINE two == Append(one, b)
<1>3. Len(two) = Len(one) + 1 /\ two[Len(one) + 1] = b /\ \A q \in 1..Len(one) : two[q] = one[q]
  BY <1>1, <1>2, AppendProperties
<1> HIDE DEF two
<1>4. Len(two) = Len(ps) + 1 /\ two[Len(ps) + 1] = b /\ two[p] = a /\ \A q \in 1..Len(ps) : q # p => two[q] = ps[q]
  BY <1>2, <1>3
<1> QED BY <1>0, <1>4 DEF a, b, two

(* The lists after a key above all others has come to the last of them.    *)
LEMMA ListsGrow ==
    ASSUME NEW n, NEW L, NEW m, Spread(n, L, m), NEW k \in Key, NEW v \in Val, \A x \in DOMAIN m : x < k,
           NEW M, M = Lengthened(n, L, Cell(k, v, NoPage))
    PROVE  /\ Spread(n, M, Written(m, k, v)) /\ M[n] = Append(L[n], Cell(k, v, NoPage))
           /\ \A j \in 0..n : j # n => M[j] = L[j]
           /\ \A j \in 0..n : L[j] # << >> => M[j][1] = L[j][1]
           /\ \A i \in 1..Len(L[n]) : L[n][i].key < k
           /\ Cell(k, v, NoPage) \in CellSet /\ n \in 0..n /\ n \in Nat
<1> DEFINE c == Cell(k, v, NoPage)
<1>1. c \in CellSet /\ c.key = k /\ c.val = v
  BY DEF Cell, CellSet, NoPage
<1>2. n \in 0..n /\ n \in Nat /\ L \in [0..n -> Seq(CellSet)]
  BY SpreadKeys DEF Spread
<1> HIDE DEF c
<1>3. Spread(n, M, Written(m, k, v)) /\ \A j \in 0..n : L[j] # << >> => M[j][1] = L[j][1]
  <2>1. /\ Spread(n, Lengthened(n, L, c), Written(m, k, v))
        /\ \A j \in 0..n : L[j] # << >> => Lengthened(n, L, c)[j][1] = L[j][1]
    BY <1>1, SpreadGrows
  <2> QED BY <2>1 DEF c
<1>4. M[n] = Append(L[n], c) /\ \A j \in 0..n : j # n => M[j] = L[j]
  <2> DEFINE t == Append(L[n], c)
  <2>1. M = [L EXCEPT ![n] = t]
    BY DEF Lengthened, c
  <2> HIDE DEF t
  <2>2. M[n] = t /\ \A j \in 0..n : j # n => M[j] = L[j]
    BY <1>2, <2>1
  <2> QED BY <2>2 DEF t
<1>5. \A i \in 1..Len(L[n]) : L[n][i].key < k
  BY <1>2, SpreadKeys
<1> QED BY <1>1, <1>2, <1>3, <1>4, <1>5 DEF c

(* And after the last list has been cut in two.                            *)
CutLists(n, M, w, mid) ==
    LET t == M[n]
        C == Cut(n, M, mid)
        e == n + 1
    IN  /\ Spread(e, C, w) /\ C[n] = SubSeq(t, 1, mid) /\ C[e] = SubSeq(t, mid + 1, Len(t))
        /\ \A j \in 0..n : j < n => C[j] = M[j]
        /\ \A j \in 0..n : C[j][1] = M[j][1]
        /\ C[e][1] = t[mid + 1] /\ Len(C[n]) = mid /\ Len(C[e]) = Len(t) - mid

LEMMA ListsCut ==
    ASSUME NEW n, NEW M, NEW w, Spread(n, M, w), NEW mid \in 1..(Len(M[n]) - 1)
    PROVE  CutLists(n, M, w, mid)
<1> DEFINE t == M[n]
<1>1. /\ Spread(n + 1, Cut(n, M, mid), w)
      /\ \A j \in 0..n : Cut(n, M, mid)[j][1] = M[j][1]
      /\ Cut(n, M, mid)[n + 1][1] = M[n][mid + 1]
      /\ Len(Cut(n, M, mid)[n]) = mid /\ Len(Cut(n, M, mid)[n + 1]) = Len(M[n]) - mid
  BY SpreadSplits
<1>2. n \in Nat
  BY DEF Spread
<1>3. Cut(n, M, mid)[n] = SubSeq(t, 1, mid)
  <2>1. n \in 0..(n + 1) /\ ~(n < n)
    BY <1>2
  <2> QED BY <2>1 DEF Cut
<1>4. Cut(n, M, mid)[n + 1] = SubSeq(t, mid + 1, Len(t))
  <2>1. n + 1 \in 0..(n + 1) /\ ~(n + 1 < n) /\ n + 1 # n
    BY <1>2
  <2> QED BY <2>1 DEF Cut
<1>5. \A j \in 0..n : j < n => Cut(n, M, mid)[j] = M[j]
  <2>1. \A j \in 0..n : j \in 0..(n + 1)
    BY <1>2
  <2> QED BY <2>1 DEF Cut
<1> QED BY <1>1, <1>3, <1>4, <1>5 DEF CutLists

-----------------------------------------------------------------------------
(* The way to a leaf that is the root, or a child of the root.             *)
LEMMA FlatWay ==
    ASSUME NEW t, NEW k, NEW v, NEW path, NEW below, IsInsertion(t, k, v, path, below), t.pages[t.root].leaf
    PROVE  below[1] = InsertLeaf(t.pages, t.root, k, v)
<1> DEFINE ps == t.pages
           L == Len(path)
<1>1. /\ path \in Seq(1..Len(ps)) /\ path # << >> /\ path[1] = t.root
      /\ \A i \in 1..(L - 1) : ~ps[path[i]].leaf /\ path[i + 1] = NextDown(ps, path[i], k)
      /\ \A i \in 1..L : below[i] = Returned(ps, k, v, path, i, below)
  BY DEF IsInsertion, IsPath
<1>2. L \in Nat \ {0}
  BY <1>1, EmptySeq
<1> HIDE DEF L, ps
<1>3. L = 1
  <2>1. ASSUME L # 1 PROVE FALSE
    <3>1. 1 \in 1..(L - 1)
      BY <1>2, <2>1
    <3> QED BY <1>1, <3>1 DEF ps
  <2> QED BY <2>1
<1>4. 1 \in 1..L /\ 1 = Len(path)
  BY <1>3 DEF L
<1>5. below[1] = Returned(ps, k, v, path, 1, below)
  BY <1>1, <1>4
<1> QED BY <1>1, <1>4, <1>5 DEF Returned, ps

LEMMA TwofoldWay ==
    ASSUME NEW t, NEW k, NEW v, NEW path, NEW below, IsInsertion(t, k, v, path, below), ~t.pages[t.root].leaf,
           NEW kid, kid = NextDown(t.pages, t.root, k), t.pages[kid].leaf,
           NEW b, b = InsertLeaf(t.pages, kid, k, v)
    PROVE  below[1] = IF b.split THEN AddChild(b, t.root, kid, k) ELSE b
<1> DEFINE ps == t.pages
           L == Len(path)
<1>1. /\ path \in Seq(1..Len(ps)) /\ path # << >> /\ path[1] = t.root /\ ps[path[L]].leaf
      /\ \A i \in 1..(L - 1) : ~ps[path[i]].leaf /\ path[i + 1] = NextDown(ps, path[i], k)
      /\ \A i \in 1..L : below[i] = Returned(ps, k, v, path, i, below)
  BY DEF IsInsertion, IsPath
<1>2. L \in Nat \ {0}
  BY <1>1, EmptySeq
<1> HIDE DEF L, ps
<1>3. L # 1
  BY <1>1 DEF ps
<1>4. 1 \in 1..(L - 1) /\ 1 \in 1..L /\ 2 \in 1..L /\ 1 + 1 = 2
  BY <1>2, <1>3
<1>5. path[2] = kid
  BY <1>1, <1>4 DEF ps
<1>6. L = 2
  <2>1. ASSUME L # 2 PROVE FALSE
    <3>1. 2 \in 1..(L - 1)
      BY <1>2, <1>3, <2>1
    <3> QED BY <1>1, <1>5, <3>1 DEF ps
  <2> QED BY <2>1
<1>7. below[1] = Returned(ps, k, v, path, 1, below) /\ below[2] = Returned(ps, k, v, path, 2, below)
  BY <1>1, <1>4
<1>8. Len(path) = 2
  BY <1>6 DEF L
<1>9. below[2] = b
  BY <1>5, <1>7, <1>8 DEF Returned, ps
<1>10. below[1] = IF below[1 + 1].split THEN AddChild(below[1 + 1], path[1], path[1 + 1], k) ELSE below[1 + 1]
  BY <1>7, <1>8 DEF Returned
<1> QED BY <1>1, <1>4, <1>5, <1>9, <1>10

(* A key above all others goes into a tree of one page.                    *)
LEMMA FlatAppends ==
    ASSUME NEW t, IsTree(t), NEW n, NEW L, NEW m, Flat(t, n, L), Spread(n, L, m),
           NEW k \in Key, NEW v \in Val, \A x \in DOMAIN m : x < k
    PROVE  Shape(Inserted(t, k, v), Written(m, k, v))
<1> DEFINE ps == t.pages
           r == t.root
           c == Cell(k, v, NoPage)
           s == Append(L[0], c)
           M == Lengthened(n, L, c)
           w == Written(m, k, v)
           N == Len(ps)
           new == Inserted(t, k, v)
<1>1. PICK h : Good(ps, h)
  BY DEF IsTree
<1>2. r \in 1..N /\ ps \in Seq(Page) /\ N \in Nat /\ r \in Nat
  BY DEF IsTree
<1>3. n = 0 /\ ps[r] = LeafOf(L[0], Len(L[0])) /\ ps[r].leaf
  BY DEF Flat, LeafOf
<1>4. /\ Spread(n, M, w) /\ M[0] = s /\ \A i \in 1..Len(L[0]) : L[0][i].key < k
  BY <1>3, ListsGrow
<1>5. PICK path, below : IsInsertion(t, k, v, path, below)
  BY InsertedIs
<1>6. below[1] = InsertLeaf(ps, r, k, v)
  BY <1>3, <1>5, FlatWay
<1>7. LeafAppended(ps, r, s, below[1])
  BY <1>1, <1>2, <1>3, <1>4, <1>6, LeafAppends
<1>8. new = UnderRoot(r, below[1])
  BY <1>5 DEF IsInsertion
<1> HIDE DEF ps, r, s, M, w, new, c
<1>9. CASE below[1] = Unsplit([ps EXCEPT ![r] = LeafOf(s, Len(s))])
  <2>1. new.root = r /\ new.pages = [ps EXCEPT ![r] = LeafOf(s, Len(s))]
    BY <1>8, <1>9 DEF Unsplit, UnderRoot
  <2>2. new.pages[r] = LeafOf(s, Len(s))
    BY <1>2, <2>1 DEF N
  <2>3. Flat(new, n, M)
    BY <1>3, <1>4, <2>1, <2>2 DEF Flat
  <2> QED BY <1>4, <2>3 DEF Shape, new, w
<1>10. ASSUME NEW mid \in 1..(Len(s) - 1), below[1] = Split(LeafEnded(ps, r, s, mid), s[mid + 1], N + 1)
       PROVE  Shape(new, w)
  <2> DEFINE qs == LeafEnded(ps, r, s, mid)
             sep == s[mid + 1]
             pg == Internal(<<Cell(sep.key, sep.val, r)>>, N + 1)
             C == Cut(n, M, mid)
             e == n + 1
  <2>1. /\ Len(qs) = N + 1 /\ qs[r] = LeafOf(SubSeq(s, 1, mid), mid)
        /\ qs[N + 1] = LeafOf(SubSeq(s, mid + 1, Len(s)), Len(s) - mid)
    BY <1>2, PagesEnded DEF N
  <2>2. /\ Spread(e, C, w) /\ C[n] = SubSeq(s, 1, mid) /\ C[e] = SubSeq(s, mid + 1, Len(s))
        /\ C[e][1] = s[mid + 1] /\ Len(C[n]) = mid /\ Len(C[e]) = Len(s) - mid
    <3>1. M[n] = s
      BY <1>3, <1>4
    <3>2. CutLists(n, M, w, mid)
      <4>1. mid \in 1..(Len(M[n]) - 1)
        BY <1>10, <3>1
      <4> QED BY <1>4, <4>1, ListsCut
    <3> HIDE DEF e, C
    <3> QED BY <3>1, <3>2 DEF e, C, CutLists
  <2>3. below[1].split = TRUE /\ below[1].pages = qs /\ below[1].key = sep.key /\ below[1].val = sep.val
        /\ below[1].page = N + 1
    <3> HIDE DEF qs, sep
    <3> QED BY <1>10 DEF Split, qs, sep
  <2>4. new.root = N + 2 /\ new.pages = Append(qs, pg)
    <3>1. (N + 1) + 1 = N + 2
      BY <1>2
    <3> HIDE DEF qs, sep
    <3> QED BY <1>8, <2>1, <2>3, <3>1 DEF UnderRoot
  <2>5. IsTree(new)
    BY InsertionKeepsTree DEF new
  <2>6. new.pages \in Seq(Page) /\ Len(new.pages) \in Nat
    BY <2>5 DEF IsTree
  <2> HIDE DEF qs, pg
  <2>7. new.pages[N + 2] = pg /\ new.pages[r] = qs[r] /\ new.pages[N + 1] = qs[N + 1]
    <3>1. DOMAIN qs = 1..(N + 1) /\ qs \in Seq({qs[q] : q \in 1..(N + 1)})
      <4>1. \E S : qs \in Seq(S)
        <5> DEFINE a == LeafOf(SubSeq(s, 1, mid), mid)
                   b == LeafOf(SubSeq(s, mid + 1, Len(s)), Len(s) - mid)
        <5>1. qs = Append([ps EXCEPT ![r] = a], b)
          BY DEF qs, LeafEnded
        <5> HIDE DEF a, b
        <5>2. ps \in Seq(Page \union {a, b}) /\ a \in Page \union {a, b} /\ b \in Page \union {a, b}
          BY <1>2
        <5> DEFINE R == Page \union {a, b}
        <5> HIDE DEF R
        <5>3. [ps EXCEPT ![r] = a] \in Seq(R)
          BY <1>2, <5>2, ExceptSeq DEF R, N
        <5>4. qs \in Seq(R)
          BY <5>1, <5>2, <5>3, AppendProperties DEF R
        <5> QED BY <5>4
      <4> QED BY <2>1, <4>1
    <3> DEFINE S == {qs[q] : q \in 1..(N + 1)} \union {pg}
    <3>2. qs \in Seq(S) /\ pg \in S
      BY <3>1
    <3> HIDE DEF S
    <3>3. Append(qs, pg)[Len(qs) + 1] = pg /\ \A i \in 1..Len(qs) : Append(qs, pg)[i] = qs[i]
      BY <3>2, AppendProperties
    <3>4. Len(qs) + 1 = N + 2 /\ r \in 1..Len(qs) /\ N + 1 \in 1..Len(qs)
      BY <1>2, <2>1
    <3> QED BY <2>4, <3>3, <3>4
  <2>8. pg.leaf = FALSE /\ Len(pg.cells) = 1 /\ pg.cells[1].left = r /\ pg.right = N + 1 /\ pg.cells[1].key = sep.key
    <3> DEFINE d == Cell(sep.key, sep.val, r)
    <3>1. d.left = r /\ d.key = sep.key
      BY DEF Cell
    <3> HIDE DEF d
    <3>2. pg = [leaf |-> FALSE, cells |-> <<d>>, right |-> N + 1, laid |-> Len(<<d>>)]
      BY DEF pg, Internal, d
    <3> QED BY <3>1, <3>2
  <2>9. Child(pg, 0) = r /\ Child(pg, 1) = N + 1
    <3>1. ~(0 >= 1) /\ 1 >= 1 /\ 0 + 1 = 1
      OBVIOUS
    <3> QED BY <2>8, <3>1 DEF Child
  <2>10. e = 1 /\ \A j \in 0..e : j = 0 \/ j = 1
    BY <1>3
  <2> HIDE DEF C, e, sep
  <2>11. /\ new.pages[Child(pg, 0)] = LeafOf(C[0], Len(C[0]))
         /\ new.pages[Child(pg, 1)] = LeafOf(C[1], Len(C[1]))
    BY <1>3, <2>1, <2>2, <2>7, <2>9, <2>10
  <2>12. \A j \in 0..e : new.pages[Child(pg, j)] = LeafOf(C[j], Len(C[j]))
    BY <2>10, <2>11
  <2>13. \A i \in 1..e : pg.cells[i].key = C[i][1].key
    <3>1. \A i \in 1..e : i = 1
      BY <2>10
    <3> QED BY <2>2, <2>8, <2>10, <3>1 DEF sep
  <2>14. new.pages[new.root] = pg
    BY <2>4, <2>7
  <2>15. Twofold(new, e, C)
    BY <2>8, <2>10, <2>12, <2>13, <2>14 DEF Twofold
  <2> QED BY <2>2, <2>15 DEF Shape
<1>11. (\E mid \in 1..(Len(s) - 1) : below[1] = Split(LeafEnded(ps, r, s, mid), s[mid + 1], N + 1))
       \/ below[1] = Unsplit([ps EXCEPT ![r] = LeafOf(s, Len(s))])
  BY <1>7 DEF LeafAppended, N
<1> QED BY <1>9, <1>10, <1>11 DEF new, w

-----------------------------------------------------------------------------
(* The root of a fan of leaves, and q, the last of them.                   *)
FanRoot(ps, pg, n, L, q) ==
    /\ n \in Nat /\ n > 0 /\ pg \in Page /\ ~pg.leaf /\ Len(pg.cells) = n /\ pg.laid = n /\ pg.right = q
    /\ \A j \in 0..n : /\ Child(pg, j) \in 1..Len(ps) /\ ps[Child(pg, j)] = LeafOf(L[j], Len(L[j]))
                      /\ ps[Child(pg, j)].leaf /\ L[j] # << >> /\ (q = Child(pg, j) => j = n)
    /\ Child(pg, n) = q /\ q \in 1..Len(ps) /\ q \in Nat /\ ps[q].leaf /\ ps[q] = LeafOf(L[n], Len(L[n]))
    /\ \A i \in 1..n : pg.cells[i].key = L[i][1].key

Above(m, k) == \A x \in DOMAIN m : x < k

AtLast(ps, r, n, L, k) ==
    /\ FanRoot(ps, ps[r], n, L, ps[r].right) /\ ps \in Seq(Page) /\ r \in 1..Len(ps) /\ Len(ps) \in Nat
    /\ Search(Keys(ps[r]), k).idx = n /\ NextDown(ps, r, k) = ps[r].right

(* A key above all others is on its way to the last leaf.                  *)
LEMMA LastLeaf ==
    ASSUME NEW t, NEW h, NEW n, NEW L, NEW m, Fan(t, h, n, L, m), NEW k \in Key, Above(m, k)
    PROVE  AtLast(t.pages, t.root, n, L, k)
<1> DEFINE pg == t.pages[t.root]
<1> SUFFICES
           /\ Search(Keys(pg), k).idx = n /\ NextDown(t.pages, t.root, k) = pg.right /\ Child(pg, n) = pg.right
           /\ \A j \in 0..n : pg.right = Child(pg, j) => j = n
           /\ \A i \in 1..n : pg.cells[i].key = L[i][1].key
           /\ pg \in Page /\ pg.leaf = FALSE /\ pg.cells \in Seq(CellSet) /\ Len(pg.cells) = n /\ pg.laid = n
  <2>0. Good(t.pages, h) /\ t.root \in 1..Len(t.pages) /\ t.pages \in Seq(Page) /\ Len(t.pages) \in Nat
    BY DEF Fan, Good
  <2>1. n \in Nat /\ n > 0 /\ n \in 0..n /\ \A j \in 0..n : FanPage(t, n, L, j)
    BY TwofoldPages
  <2> DEFINE ps == t.pages
             q == pg.right
  <2>3. ASSUME NEW j \in 0..n
        PROVE  /\ Child(pg, j) \in 1..Len(ps) /\ ps[Child(pg, j)] = LeafOf(L[j], Len(L[j]))
               /\ ps[Child(pg, j)].leaf /\ L[j] # << >>
    <3>1. Child(pg, j) \in 1..Len(ps) /\ ps[Child(pg, j)] = LeafOf(L[j], Len(L[j])) /\ L[j] # << >>
      BY <2>1 DEF FanPage
    <3> QED BY <3>1 DEF LeafOf
  <2>4. q \in 1..Len(ps) /\ q \in Nat /\ ps[q].leaf /\ ps[q] = LeafOf(L[n], Len(L[n]))
    <3>1. Child(pg, n) = q
      OBVIOUS
    <3> HIDE DEF q, pg, ps
    <3>2. q \in 1..Len(ps) /\ ps[q].leaf /\ ps[q] = LeafOf(L[n], Len(L[n]))
      BY <2>1, <2>3, <3>1
    <3> QED BY <2>0, <3>2 DEF ps
  <2>5. FanRoot(ps, pg, n, L, q)
    BY <2>1, <2>3, <2>4 DEF FanRoot
  <2> QED BY <2>0, <2>5 DEF AtLast
<1>0. Good(t.pages, h) /\ t.root \in 1..Len(t.pages) /\ Twofold(t, n, L) /\ Spread(n, L, m)
  BY DEF Fan
<1>1. n \in Nat /\ n > 0 /\ ~pg.leaf /\ Len(pg.cells) = n /\ \A j \in 0..n : FanPage(t, n, L, j)
  BY TwofoldPages
<1>2. pg \in Page /\ pg.leaf = FALSE /\ pg.cells \in Seq(CellSet) /\ pg.laid = n
  BY <1>0, <1>1, PageIsInternalOf
<1>3. \A i \in 1..n : pg.cells[i].key = L[i][1].key
  BY <1>0 DEF Twofold
<1>4. \A i \in 1..n : StandsAt(n, L, L[i][1].key, i, 1)
  <2> SUFFICES ASSUME NEW i \in 1..n PROVE StandsAt(n, L, L[i][1].key, i, 1)
    OBVIOUS
  <2>1. i \in 0..n
    BY <1>1
  <2>2. Len(L[i]) \in Nat /\ Len(L[i]) >= 1
    BY <1>1, <2>1 DEF FanPage
  <2> QED BY <2>1, <2>2 DEF StandsAt
<1>5. \A i \in 1..n : pg.cells[i].key < k
  <2> SUFFICES ASSUME NEW i \in 1..n PROVE pg.cells[i].key < k
    OBVIOUS
  <2>1. StandsAt(n, L, L[i][1].key, i, 1)
    BY <1>4
  <2>2. L[i][1].key \in DOMAIN m
    BY <1>0, <2>1, KeyHasPlace
  <2> QED BY <1>3, <2>2 DEF Above
<1>6. CellsAscend(pg.cells)
  <2> SUFFICES ASSUME NEW i \in 1..n, NEW j \in 1..n, i < j PROVE pg.cells[i].key < pg.cells[j].key
    BY <1>1 DEF CellsAscend
  <2> DEFINE x == L[i][1].key
             y == L[j][1].key
             u == 1
  <2>1. StandsAt(n, L, x, i, u) /\ StandsAt(n, L, y, j, u)
    BY <1>4
  <2> HIDE DEF x, y, u
  <2>2. x < y
    BY <1>0, <2>1, PlacesInOrder
  <2> QED BY <1>3, <2>2 DEF x, y
<1>7. Search(Keys(pg), k).idx = n
  BY <1>1, <1>2, <1>5, <1>6, SearchedLast
<1>8. Child(pg, n) = pg.right
  BY <1>1 DEF Child
<1>9. NextDown(t.pages, t.root, k) = pg.right
  BY <1>7, <1>8 DEF NextDown
<1>10. \A j \in 0..n : pg.right = Child(pg, j) => j = n
  <2>1. OwnKids(pg)
    BY <1>0 DEF Good, Apart
  <2>2. SlotsOf(pg) = 0..n /\ n \in 0..n
    BY <1>1 DEF SlotsOf
  <2> QED BY <1>8, <2>1, <2>2 DEF OwnKids
<1> QED BY <1>1, <1>2, <1>3, <1>7, <1>8, <1>9, <1>10

(* The root after a new page f has come to its right, with the cell c.     *)
Widened(q, pg, n, f, c) ==
    /\ q.leaf = FALSE /\ Len(q.cells) = n + 1 /\ q.cells[n + 1].key = c.key
    /\ \A i \in 1..n : q.cells[i] = pg.cells[i]
    /\ \A j \in 0..n : Child(q, j) = Child(pg, j)
    /\ Child(q, n + 1) = f

LEMMA RootWidens ==
    ASSUME NEW pg \in Page, pg.leaf = FALSE, pg.cells \in Seq(CellSet), NEW n, Len(pg.cells) = n,
           NEW f \in Nat, NEW c \in CellSet, c.left = pg.right
    PROVE  Widened(Placed([pg EXCEPT !.right = f], n, c), pg, n, f, c)
<1> DEFINE p2 == [pg EXCEPT !.right = f]
           q == Placed(p2, n, c)
<1>1. p2 \in Page /\ p2.leaf = FALSE /\ p2.cells = pg.cells /\ p2.right = f
  BY DEF Page
<1>2. n \in Nat /\ pg.cells \in Seq(CellSet)
  OBVIOUS
<1> HIDE DEF p2
<1>3. q = [leaf |-> p2.leaf, cells |-> InsertAt(p2.cells, n + 1, c), right |-> p2.right, laid |-> p2.laid + 1]
  BY <1>1, PlacedIs
<1> HIDE DEF q
<1> DEFINE s == Append(pg.cells, c)
           u == pg.cells
<1>4. InsertAt(pg.cells, n + 1, c) = s
  <2>1. InsertAt(u, Len(u) + 1, c) = Append(u, c)
    <3>1. u \in Seq(CellSet)
      OBVIOUS
    <3> HIDE DEF u
    <3> QED BY <3>1, InsertedLast
  <2> QED BY <2>1
<1>5. Len(s) = n + 1 /\ s[n + 1] = c /\ \A i \in 1..n : s[i] = pg.cells[i]
  <2>1. Len(Append(u, c)) = Len(u) + 1 /\ Append(u, c)[Len(u) + 1] = c /\ \A i \in 1..Len(u) : Append(u, c)[i] = u[i]
    <3>1. u \in Seq(CellSet)
      OBVIOUS
    <3> HIDE DEF u
    <3> QED BY <3>1, AppendProperties
  <2> QED BY <2>1
<1> HIDE DEF s
<1>6. q.leaf = FALSE /\ q.cells = s /\ q.right = f
  <2>1. q.leaf = p2.leaf
    BY <1>3
  <2>2. q.cells = InsertAt(pg.cells, n + 1, c) /\ q.right = p2.right
    BY <1>1, <1>3
  <2> QED BY <1>1, <1>4, <2>1, <2>2
<1>7. ASSUME NEW j \in 0..n PROVE Child(q, j) = Child(pg, j)
  <2>1. CASE j = n
    <3>1. Child(pg, n) = pg.right
      BY <1>2 DEF Child
    <3>2. Child(q, n) = s[n + 1].left
      <4>1. ~(n >= n + 1)
        BY <1>2
      <4> QED BY <1>5, <1>6, <4>1 DEF Child
    <3> QED BY <1>5, <2>1, <3>1, <3>2
  <2>2. CASE j # n
    <3>1. ~(j >= n) /\ ~(j >= n + 1) /\ j + 1 \in 1..n
      BY <1>2, <2>2
    <3> QED BY <1>5, <1>6, <3>1 DEF Child
  <2> QED BY <2>1, <2>2
<1>8. Child(q, n + 1) = f
  <2>1. n + 1 >= n + 1
    BY <1>2
  <2> QED BY <1>5, <1>6, <2>1 DEF Child
<1>9. q.leaf = FALSE /\ Len(q.cells) = n + 1 /\ q.cells[n + 1].key = c.key /\ \A i \in 1..n : q.cells[i] = pg.cells[i]
  BY <1>5, <1>6
<1>10. Widened(q, pg, n, f, c)
  BY <1>7, <1>8, <1>9 DEF Widened
<1> QED BY <1>10 DEF q, p2

-----------------------------------------------------------------------------
(* What the root makes of the split of its last child.                     *)
AddedLast(b, r, q, k, pg, n) ==
    LET add == AddChild(b, r, q, k)
    IN  \/ add.split = TRUE
        \/ add = Unsplit([b.pages EXCEPT ![r] = Placed([pg EXCEPT !.right = b.page], n, Cell(b.key, b.val, q))])

LEMMA LastChildAdded ==
    ASSUME NEW b, NEW r, NEW q, NEW k, NEW pg \in Page, b.pages[r] = pg, NEW n \in Nat, Len(pg.cells) = n,
           Search(Keys(pg), k).idx = n
    PROVE  AddedLast(b, r, q, k, pg, n)
<1> DEFINE p2 == [pg EXCEPT !.right = b.page]
           c == Cell(b.key, b.val, q)
<1>1. Len(pg.cells) >= Len(pg.cells) /\ p2.cells = pg.cells
  BY DEF Page
<1>2. AddChild(b, r, q, k) = IF Full(p2) THEN SplitInternal([b.pages EXCEPT ![r] = p2], r, c)
                             ELSE Unsplit([b.pages EXCEPT ![r] = Placed(p2, Len(p2.cells), c)])
  <2>1. p2 = IF Search(Keys(b.pages[r]), k).idx >= Len(b.pages[r].cells) THEN [b.pages[r] EXCEPT !.right = b.page]
             ELSE [b.pages[r] EXCEPT !.cells[Search(Keys(b.pages[r]), k).idx + 1].left = b.page]
    BY <1>1
  <2> HIDE <1>1
  <2> QED BY <2>1 DEF AddChild
<1>3. SplitInternal([b.pages EXCEPT ![r] = p2], r, c).split = TRUE
  <2> DEFINE qs == [b.pages EXCEPT ![r] = p2]
  <2> HIDE DEF qs
  <2>1. SplitInternal(qs, r, c).split = TRUE
    BY DEF SplitInternal, Split
  <2> QED BY <2>1 DEF qs
<1> HIDE DEF c, p2
<1>4. \/ AddChild(b, r, q, k).split = TRUE
      \/ AddChild(b, r, q, k) = Unsplit([b.pages EXCEPT ![r] = Placed(p2, n, c)])
  BY <1>1, <1>2, <1>3
<1> QED BY <1>4 DEF AddedLast, p2, c

(* Lists before the last as they were, and the first cell of each.         *)
SameStarts(n, L, C) ==
    /\ \A j \in 0..n : j # n => C[j] = L[j]
    /\ \A j \in 0..n : L[j] # << >> => C[j][1] = L[j][1]

Taken(new, ps, r, q, a) == new.root = r /\ new.pages = [ps EXCEPT ![q] = a]

(* The leaves after the last of them has taken a cell.                     *)
LEMMA LastLeafTakes ==
    ASSUME NEW ps \in Seq(Page), NEW r \in 1..Len(ps), NEW pg, pg = ps[r], NEW n, NEW L, NEW q,
           FanRoot(ps, pg, n, L, q), NEW M, SameStarts(n, L, M), NEW new,
           Taken(new, ps, r, q, LeafOf(M[n], Len(M[n])))
    PROVE  Twofold(new, n, M)
<1>1. /\ n \in Nat /\ n > 0 /\ ~pg.leaf /\ Len(pg.cells) = n /\ q \in 1..Len(ps) /\ ps[q].leaf /\ Child(pg, n) = q
      /\ \A j \in 0..n : /\ Child(pg, j) \in 1..Len(ps) /\ ps[Child(pg, j)] = LeafOf(L[j], Len(L[j]))
                        /\ L[j] # << >> /\ (q = Child(pg, j) => j = n)
      /\ \A i \in 1..n : pg.cells[i].key = L[i][1].key
  BY DEF FanRoot
<1> DEFINE a == LeafOf(M[n], Len(M[n]))
<1>2. /\ \A j \in 0..n : j # n => M[j] = L[j]
      /\ \A j \in 0..n : L[j] # << >> => M[j][1] = L[j][1]
  BY DEF SameStarts
<1>3. new.root = r /\ new.pages = [ps EXCEPT ![q] = a]
  BY DEF Taken
<1> HIDE DEF a
<1>5. new.pages[q] = a /\ \A x \in 1..Len(ps) : x # q => new.pages[x] = ps[x]
  BY <1>1, <1>3
<1>6. r # q
  BY <1>1
<1>7. new.pages[new.root] = pg
  BY <1>3, <1>5, <1>6
<1>8. ASSUME NEW j \in 0..n PROVE new.pages[Child(pg, j)] = LeafOf(M[j], Len(M[j]))
  <2>1. CASE j = n
    BY <1>1, <1>5, <2>1 DEF a
  <2>2. CASE j # n
    <3>1. Child(pg, j) # q /\ M[j] = L[j]
      BY <1>1, <1>2, <2>2
    <3> QED BY <1>1, <1>5, <3>1
  <2> QED BY <2>1, <2>2
<1>9. \A i \in 1..n : pg.cells[i].key = M[i][1].key
  <2>1. \A i \in 1..n : i \in 0..n
    BY <1>1
  <2>2. \A i \in 1..n : M[i][1] = L[i][1]
    BY <1>1, <1>2, <2>1
  <2> QED BY <1>1, <2>2
<1> QED BY <1>1, <1>7, <1>8, <1>9 DEF Twofold

(* The pages after the split of page q, with a new page to the left of r.  *)
Ended(new, ps, r, q, f, a, b, top) ==
    /\ new[r] = top /\ new[q] = a /\ new[f] = b
    /\ \A x \in 1..Len(ps) : x # q /\ x # r => new[x] = ps[x]

LEMMA EndedRoot ==
    ASSUME NEW ps \in Seq(Page), NEW r \in 1..Len(ps), NEW q \in 1..Len(ps), r # q,
           NEW a, NEW b, NEW top
    PROVE  Ended([Append([ps EXCEPT ![q] = a], b) EXCEPT ![r] = top], ps, r, q, Len(ps) + 1, a, b, top)
<1> DEFINE R == Page \union {a, b}
           one == [ps EXCEPT ![q] = a]
           f == Len(ps) + 1
           qs == Append(one, b)
           new == [qs EXCEPT ![r] = top]
<1>1. ps \in Seq(R) /\ a \in R /\ b \in R
  OBVIOUS
<1> HIDE DEF R
<1>2. one \in Seq(R) /\ Len(one) = Len(ps) /\ one[q] = a /\ \A x \in 1..Len(ps) : x # q => one[x] = ps[x]
  BY <1>1, ExceptSeq
<1>3. qs = Append(one, b)
  OBVIOUS
<1> HIDE DEF one, qs
<1>4. /\ Append(one, b) \in Seq(R) /\ Len(Append(one, b)) = Len(one) + 1 /\ Append(one, b)[Len(one) + 1] = b
      /\ \A x \in 1..Len(one) : Append(one, b)[x] = one[x]
  BY <1>1, <1>2, AppendProperties
<1>5. DOMAIN qs = 1..f /\ qs[f] = b /\ \A x \in 1..Len(ps) : qs[x] = one[x]
  <2>1. qs \in Seq(R) /\ Len(qs) = f
    BY <1>2, <1>3, <1>4
  <2>2. DOMAIN qs = 1..f
    BY <2>1
  <2> QED BY <1>2, <1>3, <1>4, <2>2
<1>6. Len(ps) \in Nat
  OBVIOUS
<1>9. new = [qs EXCEPT ![r] = top]
  OBVIOUS
<1> HIDE DEF new
<1>7. r \in 1..f /\ f \in 1..f /\ f # r /\ q \in 1..f /\ \A x \in 1..Len(ps) : x \in 1..f
  BY <1>6
<1>8. new[r] = top /\ \A x \in 1..f : x # r => new[x] = qs[x]
  BY <1>5, <1>7, <1>9
<1>10. Ended(new, ps, r, q, f, a, b, top)
  BY <1>2, <1>5, <1>7, <1>8 DEF Ended
<1> QED BY <1>10 DEF new, qs, one

(* A fan, its last leaf in two: top is the root and the page f is the new one. *)
Widening(ps, r, pg, n, L, q, e, C, f, top, c, new) ==
    /\ pg = ps[r] /\ FanRoot(ps, pg, n, L, q) /\ Len(ps) \in Nat /\ e = n + 1 /\ SameStarts(n, L, C)
    /\ c.key = C[e][1].key /\ Widened(top, pg, n, f, c) /\ new.root = r
    /\ Ended(new.pages, ps, r, q, f, LeafOf(C[n], Len(C[n])), LeafOf(C[e], Len(C[e])), top)

LEMMA FanWidens ==
    ASSUME NEW ps, NEW r, NEW pg, NEW n, NEW L, NEW q, NEW e, NEW C, NEW f, NEW top, NEW c, NEW new,
           Widening(ps, r, pg, n, L, q, e, C, f, top, c, new)
    PROVE  Twofold(new, e, C)
<1>0. /\ pg = ps[r] /\ FanRoot(ps, pg, n, L, q) /\ Len(ps) \in Nat /\ e = n + 1 /\ SameStarts(n, L, C)
      /\ c.key = C[e][1].key /\ Widened(top, pg, n, f, c) /\ new.root = r
      /\ Ended(new.pages, ps, r, q, f, LeafOf(C[n], Len(C[n])), LeafOf(C[e], Len(C[e])), top)
  BY DEF Widening
<1>1. /\ n \in Nat /\ n > 0 /\ ~pg.leaf /\ Child(pg, n) = q
      /\ \A j \in 0..n : /\ Child(pg, j) \in 1..Len(ps) /\ ps[Child(pg, j)] = LeafOf(L[j], Len(L[j]))
                        /\ ps[Child(pg, j)].leaf /\ L[j] # << >> /\ (q = Child(pg, j) => j = n)
      /\ \A i \in 1..n : pg.cells[i].key = L[i][1].key
  BY <1>0 DEF FanRoot
<1> DEFINE qs == new.pages
<1>2. /\ qs[r] = top /\ qs[q] = LeafOf(C[n], Len(C[n])) /\ qs[f] = LeafOf(C[e], Len(C[e]))
      /\ \A x \in 1..Len(ps) : x # q /\ x # r => qs[x] = ps[x]
  BY <1>0 DEF Ended
<1>3. /\ top.leaf = FALSE /\ Len(top.cells) = e /\ top.cells[e].key = C[e][1].key
      /\ \A i \in 1..n : top.cells[i] = pg.cells[i]
      /\ \A j \in 0..n : Child(top, j) = Child(pg, j)
      /\ Child(top, e) = f
  BY <1>0 DEF Widened
<1>4. /\ \A j \in 0..n : j # n => C[j] = L[j]
      /\ \A j \in 0..n : L[j] # << >> => C[j][1] = L[j][1]
  BY <1>0 DEF SameStarts
<1> HIDE DEF qs
<1>5. ASSUME NEW j \in 0..e PROVE qs[Child(top, j)] = LeafOf(C[j], Len(C[j]))
  <2>1. CASE j = e
    BY <1>0, <1>2, <1>3, <2>1
  <2>2. CASE j = n
    <3>1. j \in 0..n
      BY <1>0, <1>1, <2>2
    <3> QED BY <1>1, <1>2, <1>3, <2>2, <3>1
  <2>3. CASE j # e /\ j # n
    <3>1. j \in 0..n
      BY <1>0, <1>1, <2>3
    <3>2. C[j] = L[j] /\ Child(top, j) = Child(pg, j) /\ Child(pg, j) # q
      BY <1>0, <1>1, <1>3, <1>4, <2>3, <3>1
    <3>3. Child(pg, j) # r /\ Child(pg, j) \in 1..Len(ps)
      BY <1>0, <1>1, <3>1
    <3> QED BY <1>1, <1>2, <3>1, <3>2, <3>3
  <2> QED BY <1>0, <2>1, <2>2, <2>3
<1>6. ASSUME NEW i \in 1..e PROVE top.cells[i].key = C[i][1].key
  <2>1. CASE i = e
    BY <1>3, <2>1
  <2>2. CASE i # e
    <3>1. i \in 1..n /\ i \in 0..n
      BY <1>0, <1>1, <2>2
    <3>2. L[i] # << >>
      BY <1>0, <1>1, <3>1
    <3>3. C[i][1] = L[i][1] /\ top.cells[i] = pg.cells[i]
      BY <1>3, <1>4, <3>1, <3>2
    <3> QED BY <1>1, <3>1, <3>3
  <2> QED BY <2>1, <2>2
<1>7. new.pages[new.root] = top
  BY <1>0, <1>2 DEF qs
<1> QED BY <1>3, <1>5, <1>6, <1>7 DEF Twofold, qs

-----------------------------------------------------------------------------
(* A fan is one page high, so a split of its root makes a higher tree.     *)
LEMMA FanHeight ==
    ASSUME NEW t, NEW h, NEW n, NEW L, NEW m, Fan(t, h, n, L, m)
    PROVE  h[t.root] \in Nat /\ h[t.root] + 1 >= 2
<1> DEFINE r == t.root
           ps == t.pages
           q == Child(ps[r], 0)
<1>1. Good(ps, h) /\ r \in 1..Len(ps)
  BY DEF Fan
<1>2. q \in KidsOf(ps[r])
  <2>1. FanPage(t, n, L, 0)
    BY TwofoldPages
  <2> QED BY <2>1 DEF FanPage
<1> HIDE DEF r, ps, q
<1>3. h[r] = h[q] + 1 /\ q \in 1..Len(ps)
  BY <1>1, <1>2, KidIsPage
<1>4. h[q] \in Nat
  BY <1>1, <1>3, GoodPage
<1> QED BY <1>3, <1>4 DEF r

LEMMA UnderUnsplit ==
    ASSUME NEW r, NEW ps
    PROVE  UnderRoot(r, Unsplit(ps)).root = r /\ UnderRoot(r, Unsplit(ps)).pages = ps
BY DEF UnderRoot, Unsplit

(* A key above all others comes to the last leaf, which takes it.          *)
LEMMA TwofoldTakes ==
    ASSUME NEW ps, NEW r, NEW n, NEW L, NEW k, AtLast(ps, r, n, L, k), NEW s, NEW M, M[n] = s, SameStarts(n, L, M),
           NEW new, NEW b, b = Unsplit([ps EXCEPT ![ps[r].right] = LeafOf(s, Len(s))]), new = UnderRoot(r, b)
    PROVE  Twofold(new, n, M)
<1> DEFINE pg == ps[r]
           q == pg.right
           a == LeafOf(s, Len(s))
<1>1. FanRoot(ps, pg, n, L, q) /\ ps \in Seq(Page) /\ r \in 1..Len(ps)
  BY DEF AtLast
<1>2. new.root = r /\ new.pages = [ps EXCEPT ![q] = a]
  BY UnderUnsplit
<1>3. Taken(new, ps, r, q, a)
  BY <1>2 DEF Taken
<1>4. Taken(new, ps, r, q, LeafOf(M[n], Len(M[n])))
  BY <1>3
<1> HIDE DEF q, a
<1> QED BY <1>1, <1>4, LastLeafTakes

(* It is split, and the root has room for the new page.                    *)
CutAt(n, C, s, mid) ==
    /\ C[n] = SubSeq(s, 1, mid) /\ C[n + 1] = SubSeq(s, mid + 1, Len(s))
    /\ C[n + 1][1] = s[mid + 1] /\ Len(C[n]) = mid /\ Len(C[n + 1]) = Len(s) - mid

WasSplit(b, ps, q, s, mid) ==
    b.pages = LeafEnded(ps, q, s, mid) /\ b.page = Len(ps) + 1 /\ b.key = s[mid + 1].key /\ b.val = s[mid + 1].val

LEMMA LeafEndedKeeps ==
    ASSUME NEW ps \in Seq(Page), NEW q \in 1..Len(ps), NEW s, NEW mid, NEW r \in 1..Len(ps), r # q
    PROVE  LeafEnded(ps, q, s, mid)[r] = ps[r]
BY PagesEnded

LEMMA TwofoldSplits ==
    ASSUME NEW ps, NEW r, NEW n, NEW L, NEW k, AtLast(ps, r, n, L, k), NEW s, NEW mid, s[mid + 1] \in CellSet,
           NEW C, SameStarts(n, L, C), CutAt(n, C, s, mid), NEW b, WasSplit(b, ps, ps[r].right, s, mid),
           NEW new, new = UnderRoot(r, AddChild(b, r, ps[r].right, k)), ~AddChild(b, r, ps[r].right, k).split
    PROVE  Twofold(new, n + 1, C)
<1> DEFINE e == n + 1
           f == Len(ps) + 1
           q == ps[r].right
           pg == ps[r]
           qs == LeafEnded(ps, q, s, mid)
           d == s[mid + 1]
           c == Cell(d.key, d.val, q)
           p2 == [pg EXCEPT !.right = f]
           top == Placed(p2, n, c)
           x == LeafOf(C[n], Len(C[n]))
           y == LeafOf(C[e], Len(C[e]))
           add == AddChild(b, r, q, k)
<1>1. /\ FanRoot(ps, pg, n, L, q) /\ ps \in Seq(Page) /\ r \in 1..Len(ps) /\ Len(ps) \in Nat
      /\ Search(Keys(pg), k).idx = n
  BY DEF AtLast
<1>2. /\ n \in Nat /\ ~pg.leaf /\ Len(pg.cells) = n /\ q \in 1..Len(ps) /\ ps[q].leaf /\ q \in Nat
      /\ pg \in Page /\ pg.right = q
  <2> HIDE DEF pg
  <2> QED BY <1>1 DEF FanRoot
<1>3. f \in Nat /\ r # q /\ pg.leaf = FALSE /\ pg.cells \in Seq(CellSet)
  <2>1. pg.leaf = FALSE /\ pg.cells \in Seq(CellSet)
    BY <1>2 DEF Page
  <2>2. r # q
    BY <1>2
  <2>3. f \in Nat
    BY <1>1
  <2> QED BY <2>1, <2>2, <2>3
<1>4. d \in CellSet
  OBVIOUS
<1>6. b.pages = qs /\ b.page = f /\ b.key = d.key /\ b.val = d.val
  <2> HIDE DEF qs, q
  <2> QED BY DEF WasSplit, qs, q
<1>7. qs = Append([ps EXCEPT ![q] = x], y)
  <2> HIDE DEF pg, q
  <2> QED BY DEF LeafEnded, CutAt
<1>8. qs[r] = pg
  <2> HIDE DEF q, pg
  <2>1. LeafEnded(ps, q, s, mid)[r] = ps[r]
    BY <1>1, <1>2, <1>3, LeafEndedKeeps
  <2> QED BY <2>1 DEF pg
<1>13. d = C[e][1]
  BY DEF CutAt
<1>14. pg = ps[r]
  OBVIOUS
<1>15. new = UnderRoot(r, add) /\ ~add.split
  OBVIOUS
<1> HIDE DEF d, q
<1>5. c \in CellSet /\ c.key = d.key /\ c.left = q
  BY <1>2, <1>4 DEF Cell, CellSet
<1> HIDE DEF qs, x, y
<1>9. add = Unsplit([qs EXCEPT ![r] = top])
  <2>1. b.pages[r] = pg
    BY <1>6, <1>8
  <2> HIDE DEF pg
  <2>2. AddedLast(b, r, q, k, pg, n)
    BY <1>1, <1>2, <2>1, LastChildAdded
  <2>3. p2 = [pg EXCEPT !.right = b.page] /\ c = Cell(b.key, b.val, q)
    BY <1>6
  <2> HIDE DEF p2, c
  <2>4. \/ add.split = TRUE
        \/ add = Unsplit([qs EXCEPT ![r] = Placed(p2, n, c)])
    BY <1>6, <2>2, <2>3 DEF AddedLast
  <2> QED BY <1>15, <2>4
<1>10. new.root = r /\ new.pages = [qs EXCEPT ![r] = top]
  <2> HIDE DEF top, add
  <2>1. new = UnderRoot(r, Unsplit([qs EXCEPT ![r] = top]))
    BY <1>9, <1>15
  <2> QED BY <2>1, UnderUnsplit
<1>11. Widened(top, pg, n, f, c)
  <2> HIDE DEF pg, c, f
  <2> QED BY <1>2, <1>3, <1>5, RootWidens
<1> HIDE DEF top, p2
<1>12. Ended(new.pages, ps, r, q, f, x, y, top)
  <2>1. Ended([Append([ps EXCEPT ![q] = x], y) EXCEPT ![r] = top], ps, r, q, Len(ps) + 1, x, y, top)
    BY <1>1, <1>2, <1>3, EndedRoot
  <2> QED BY <1>7, <1>10, <2>1
<1>16. c.key = C[e][1].key /\ e = n + 1
  BY <1>5, <1>13
<1>17. Ended(new.pages, ps, r, q, f, LeafOf(C[n], Len(C[n])), LeafOf(C[e], Len(C[e])), top)
  BY <1>12 DEF x, y
<1> HIDE DEF pg, c, f, e, add
<1>18. Twofold(new, e, C)
  <2>1. Widening(ps, r, pg, n, L, q, e, C, f, top, c, new)
    BY <1>1, <1>10, <1>11, <1>14, <1>16, <1>17 DEF Widening
  <2> QED BY <2>1, FanWidens
<1> QED BY <1>18 DEF e

-----------------------------------------------------------------------------
(* The insertion of a key above all others comes to the last leaf.         *)
LEMMA AppendGoesLast ==
    ASSUME NEW t, IsTree(t), NEW h, NEW n, NEW L, NEW m, Fan(t, h, n, L, m), NEW k \in Key, NEW v \in Val, Above(m, k),
           NEW path, NEW below, IsInsertion(t, k, v, path, below), NEW q, q = t.pages[t.root].right,
           NEW b, b = InsertLeaf(t.pages, q, k, v)
    PROVE  /\ AtLast(t.pages, t.root, n, L, k)
           /\ below[1] = IF b.split THEN AddChild(b, t.root, q, k) ELSE b
           /\ LeafAppended(t.pages, q, Append(L[n], Cell(k, v, NoPage)), b)
<1> DEFINE ps == t.pages
           r == t.root
<1>1. AtLast(ps, r, n, L, k)
  BY LastLeaf
<1>2. FanRoot(ps, ps[r], n, L, q) /\ NextDown(ps, r, k) = q
  BY <1>1 DEF AtLast
<1>3. q \in 1..Len(ps) /\ ps[q].leaf /\ ps[q] = LeafOf(L[n], Len(L[n])) /\ ~ps[r].leaf /\ n \in Nat
  BY <1>2 DEF FanRoot
<1>4. below[1] = IF b.split THEN AddChild(b, r, q, k) ELSE b
  <2>1. q = NextDown(t.pages, t.root, k) /\ ~t.pages[t.root].leaf /\ t.pages[q].leaf
    BY <1>2, <1>3
  <2> HIDE DEF ps, r
  <2>2. below[1] = IF b.split THEN AddChild(b, t.root, q, k) ELSE b
    BY <2>1, TwofoldWay
  <2> QED BY <2>2 DEF r
<1>5. \A i \in 1..Len(L[n]) : L[n][i].key < k
  <2>1. Spread(n, L, m)
    BY DEF Fan
  <2>2. \A i \in 1..Len(L[n]) : L[n][i].key \in DOMAIN m
    BY <2>1, SpreadKeys
  <2> QED BY <2>2 DEF Above
<1>6. LeafAppended(ps, q, Append(L[n], Cell(k, v, NoPage)), b)
  <2>1. Good(ps, h)
    BY DEF Fan
  <2> DEFINE s == L[n]
  <2>2. ps[q] = LeafOf(s, Len(s)) /\ \A i \in 1..Len(s) : s[i].key < k
    BY <1>3, <1>5
  <2> HIDE DEF ps, s
  <2>3. LeafAppended(ps, q, Append(s, Cell(k, v, NoPage)), InsertLeaf(ps, q, k, v))
    BY <1>3, <2>1, <2>2, LeafAppends
  <2> QED BY <2>3 DEF s, ps
<1> QED BY <1>1, <1>4, <1>6

(* The lists with the new cell, and the last of them cut in two.           *)
AppendedLists(n, L, w, s) ==
    /\ \E M : Spread(n, M, w) /\ M[n] = s /\ SameStarts(n, L, M)
    /\ \A mid \in 1..(Len(s) - 1) :
         /\ \E C : Spread(n + 1, C, w) /\ SameStarts(n, L, C) /\ CutAt(n, C, s, mid)
         /\ s[mid + 1] \in CellSet

LEMMA ListsAppend ==
    ASSUME NEW n, NEW L, NEW m, Spread(n, L, m), NEW k \in Key, NEW v \in Val, Above(m, k)
    PROVE  AppendedLists(n, L, Written(m, k, v), Append(L[n], Cell(k, v, NoPage)))
<1> DEFINE s == Append(L[n], Cell(k, v, NoPage))
<1> DEFINE c == Cell(k, v, NoPage)
           M == Lengthened(n, L, c)
           w == Written(m, k, v)
<1>1. /\ Spread(n, M, w) /\ M[n] = s
      /\ \A j \in 0..n : j # n => M[j] = L[j]
      /\ \A j \in 0..n : L[j] # << >> => M[j][1] = L[j][1]
      /\ n \in Nat
  <2>1. \A x \in DOMAIN m : x < k
    BY DEF Above
  <2> HIDE DEF M
  <2>2. M = Lengthened(n, L, Cell(k, v, NoPage))
    BY DEF M
  <2> QED BY <2>1, <2>2, ListsGrow
<1> HIDE DEF M, w, c, s
<1>2. SameStarts(n, L, M)
  BY <1>1 DEF SameStarts
<1>3. s \in Seq(CellSet)
  <2>1. n \in 0..n /\ M \in [0..n -> Seq(CellSet)]
    BY <1>1 DEF Spread
  <2> QED BY <1>1, <2>1
<1>4. ASSUME NEW mid \in 1..(Len(s) - 1)
      PROVE  /\ \E C : Spread(n + 1, C, w) /\ SameStarts(n, L, C) /\ CutAt(n, C, s, mid)
             /\ s[mid + 1] \in CellSet
  <2> DEFINE C == Cut(n, M, mid)
             e == n + 1
  <2> HIDE DEF C, e
  <2>1. C = Cut(n, M, mid) /\ e = n + 1
    BY DEF C, e
  <2>7. CutLists(n, M, w, mid)
    <3>1. Len(M[n]) = Len(s)
      BY <1>1
    <3>2. mid \in 1..(Len(M[n]) - 1)
      BY <3>1
    <3> QED BY <1>1, <3>2, ListsCut
  <2>2. /\ Spread(e, C, w) /\ C[n] = SubSeq(s, 1, mid) /\ C[e] = SubSeq(s, mid + 1, Len(s))
        /\ \A j \in 0..n : j < n => C[j] = M[j]
        /\ \A j \in 0..n : C[j][1] = M[j][1]
        /\ C[e][1] = s[mid + 1] /\ Len(C[n]) = mid /\ Len(C[e]) = Len(s) - mid
    BY <1>1, <2>1, <2>7 DEF CutLists
  <2>3. SameStarts(n, L, C)
    <3>1. \A j \in 0..n : j # n => j < n
      BY <1>1
    <3> QED BY <1>1, <2>2, <3>1 DEF SameStarts
  <2>4. CutAt(n, C, s, mid)
    BY <2>1, <2>2 DEF CutAt
  <2>5. s[mid + 1] \in CellSet
    <3>1. mid + 1 \in 1..Len(s)
      BY <1>3
    <3> QED BY <1>3, <3>1
  <2>6. Spread(n + 1, C, w)
    BY <2>1, <2>2
  <2> QED BY <2>3, <2>4, <2>5, <2>6
<1>5. AppendedLists(n, L, w, s)
  BY <1>1, <1>2, <1>4 DEF AppendedLists
<1> QED BY <1>5 DEF w, s

(* A fan takes a key above all others, and is a fan or a higher tree then.  *)
LEMMA TwofoldAppends ==
    ASSUME NEW t, IsTree(t), NEW n, NEW L, NEW m, Twofold(t, n, L), Spread(n, L, m),
           NEW k \in Key, NEW v \in Val, \A x \in DOMAIN m : x < k
    PROVE  Shape(Inserted(t, k, v), Written(m, k, v))
<1> DEFINE ps == t.pages
           r == t.root
           q == ps[r].right
           s == Append(L[n], Cell(k, v, NoPage))
           w == Written(m, k, v)
           new == Inserted(t, k, v)
           b == InsertLeaf(ps, q, k, v)
<1>1. PICK h : Good(t.pages, h)
  BY DEF IsTree
<1>2. Fan(t, h, n, L, m) /\ Above(m, k)
  BY <1>1 DEF IsTree, Fan, Above
<1>3. PICK path, below : IsInsertion(t, k, v, path, below)
  BY InsertedIs
<1>4. new = UnderRoot(r, below[1])
  BY <1>3 DEF IsInsertion
<1>5. /\ AtLast(ps, r, n, L, k)
      /\ below[1] = IF b.split THEN AddChild(b, r, q, k) ELSE b
      /\ LeafAppended(ps, q, s, b)
  <2>1. q = t.pages[t.root].right /\ b = InsertLeaf(t.pages, q, k, v)
    OBVIOUS
  <2> HIDE DEF q, b
  <2> QED BY <1>2, <1>3, <2>1, AppendGoesLast
<1>6. /\ \E M : Spread(n, M, w) /\ M[n] = s /\ SameStarts(n, L, M)
      /\ \A mid \in 1..(Len(s) - 1) :
           /\ \E C : Spread(n + 1, C, w) /\ SameStarts(n, L, C) /\ CutAt(n, C, s, mid)
           /\ s[mid + 1] \in CellSet
  <2>1. AppendedLists(n, L, w, s)
    BY <1>2, ListsAppend
  <2> HIDE DEF s, w
  <2> QED BY <2>1 DEF AppendedLists
<1> HIDE DEF s, b, w, new
<1>7. CASE b = Unsplit([ps EXCEPT ![q] = LeafOf(s, Len(s))])
  <2>1. PICK M : Spread(n, M, w) /\ M[n] = s /\ SameStarts(n, L, M)
    BY <1>6
  <2>2. ~b.split
    BY <1>7 DEF Unsplit
  <2>3. new = UnderRoot(r, b)
    BY <1>4, <1>5, <2>2
  <2>4. Twofold(new, n, M)
    <3>1. b = Unsplit([ps EXCEPT ![ps[r].right] = LeafOf(s, Len(s))])
      BY <1>7
    <3> HIDE DEF ps, r
    <3> QED BY <1>5, <2>1, <2>3, <3>1, TwofoldTakes
  <2> QED BY <2>1, <2>4 DEF Shape, new, w
<1>8. ASSUME NEW mid \in 1..(Len(s) - 1), b = Split(LeafEnded(ps, q, s, mid), s[mid + 1], Len(ps) + 1)
      PROVE  Shape(new, w)
  <2>1. PICK C : Spread(n + 1, C, w) /\ SameStarts(n, L, C) /\ CutAt(n, C, s, mid)
    BY <1>6
  <2>2. s[mid + 1] \in CellSet
    BY <1>6
  <2>3. b.split = TRUE /\ WasSplit(b, ps, q, s, mid)
    BY <1>8 DEF Split, WasSplit
  <2>4. below[1] = AddChild(b, r, q, k)
    BY <1>5, <2>3
  <2>5. CASE below[1].split
    <3>1. PICK g : /\ Good(new.pages, g)
                   /\ g[new.root] = IF below[1].split THEN h[t.root] + 1 ELSE h[t.root]
      BY <1>1, <1>3, InsertionGrowsTree DEF new
    <3>2. h[t.root] + 1 >= 2
      BY <1>2, FanHeight
    <3>3. Tall(new)
      BY <2>5, <3>1, <3>2 DEF Tall
    <3> QED BY <3>3 DEF Shape
  <2>6. CASE ~below[1].split
    <3>1. /\ WasSplit(b, ps, ps[r].right, s, mid) /\ new = UnderRoot(r, AddChild(b, r, ps[r].right, k))
          /\ ~AddChild(b, r, ps[r].right, k).split
      BY <1>4, <2>3, <2>4, <2>6
    <3> HIDE DEF ps, r
    <3>2. Twofold(new, n + 1, C)
      BY <1>5, <2>1, <2>2, <3>1, TwofoldSplits
    <3> QED BY <2>1, <3>2 DEF Shape
  <2> QED BY <2>5, <2>6
<1>9. b = Unsplit([ps EXCEPT ![q] = LeafOf(s, Len(s))])
      \/ \E mid \in 1..(Len(s) - 1) : b = Split(LeafEnded(ps, q, s, mid), s[mid + 1], Len(ps) + 1)
  BY <1>5 DEF LeafAppended
<1> QED BY <1>7, <1>8, <1>9 DEF new, w

(* Keys stored in ascending order keep the shape.                          *)
LEMMA ShapeGrows ==
    ASSUME NEW t, IsTree(t), NEW m, Shape(t, m), NEW k \in Key, NEW v \in Val, \A x \in DOMAIN m : x < k
    PROVE  Shape(Inserted(t, k, v), Written(m, k, v))
<1>1. CASE Tall(t)
  BY <1>1, TallGrows DEF Shape
<1>2. ASSUME NEW n, NEW L, Flat(t, n, L), Spread(n, L, m)
      PROVE  Shape(Inserted(t, k, v), Written(m, k, v))
  BY <1>2, FlatAppends
<1>3. ASSUME NEW n, NEW L, Twofold(t, n, L), Spread(n, L, m)
      PROVE  Shape(Inserted(t, k, v), Written(m, k, v))
  BY <1>3, TwofoldAppends
<1>4. Tall(t) \/ \E n, L : (Flat(t, n, L) \/ Twofold(t, n, L)) /\ Spread(n, L, m)
  BY DEF Shape
<1> QED BY <1>1, <1>2, <1>3, <1>4

-----------------------------------------------------------------------------
(* The keys of the first n cells of a load, each with the value of a load. *)
LoadedMap(load, n) == [k \in {load[i] : i \in 1..n} |-> AnyVal]

LEMMA LoadedMapGrows ==
    ASSUME NEW load \in Seq(Key), NEW n \in Nat, n < Len(load)
    PROVE  Written(LoadedMap(load, n), load[n + 1], AnyVal) = LoadedMap(load, n + 1)
<1> DEFINE S == {load[i] : i \in 1..n}
           R == {load[i] : i \in 1..(n + 1)}
           k == load[n + 1]
<1>1. R = S \union {k}
  <2>1. \A i \in 1..(n + 1) : i \in 1..n \/ i = n + 1
    OBVIOUS
  <2>2. \A i \in 1..n : i \in 1..(n + 1)
    OBVIOUS
  <2>3. n + 1 \in 1..(n + 1)
    OBVIOUS
  <2> QED BY <2>1, <2>2, <2>3
<1> HIDE DEF S, R, k
<1> DEFINE m == [x \in S |-> AnyVal]
<1>2. Written(m, k, AnyVal) = [x \in R |-> AnyVal]
  BY <1>1 DEF Written
<1> QED BY <1>2 DEF LoadedMap, S, R, k

(* A table whose load rises has the shape of an appended one.              *)
LEMMA LoadedShape ==
    ASSUME NEW load \in Seq(Key), \A i, j \in DOMAIN load : i < j => load[i] < load[j]
    PROVE  Shape(Loaded(load), [k \in ToSet(load) |-> AnyVal])
<1> DEFINE L == Len(load)
<1>1. PICK up : Loading(load, up)
  BY LoadedByInsertions
<1>2. /\ up[0] = EmptyTree /\ Loaded(load) = up[L] /\ L \in Nat
      /\ \A n \in Nat : n < L => up[n + 1] = Inserted(up[n], load[n + 1], AnyVal) /\ load[n + 1] \in Key
  BY <1>1 DEF Loading
<1>3. AnyVal \in Val
  BY TreeAssumption DEF AnyVal
<1>4. DOMAIN load = 1..L
  OBVIOUS
<1> DEFINE Done == {n \in Nat : n <= L => IsTree(up[n]) /\ Shape(up[n], LoadedMap(load, n))}
<1>5. 0 \in Done
  <2> DEFINE e == << >>
             l == [j \in 0..0 |-> e]
             m == LoadedMap(load, 0)
  <2>1. e \in Seq(CellSet) /\ Len(e) = 0 /\ \A i \in 1..Len(e) : FALSE
    OBVIOUS
  <2>2. EmptyTree.pages[EmptyTree.root] = LeafOf(e, Len(e))
    BY DEF EmptyTree, Leaf, LeafOf
  <2>3. DOMAIN m = {}
    <3>1. 1..0 = {}
      OBVIOUS
    <3> QED BY <3>1 DEF LoadedMap
  <2> HIDE DEF e, m
  <2>4. l \in [0..0 -> Seq(CellSet)] /\ l[0] = e /\ \A j \in 0..0 : j = 0
    BY <2>1
  <2> HIDE DEF l
  <2>5. CellsAscend(e)
    BY <2>1 DEF CellsAscend
  <2>6. ASSUME NEW x, NEW w PROVE ~Appears(0, l, x, w)
    BY <2>1, <2>4 DEF Appears, Has
  <2>7. Spread(0, l, m)
    BY <2>3, <2>4, <2>5, <2>6 DEF Spread
  <2>8. Flat(EmptyTree, 0, l)
    BY <2>2, <2>4 DEF Flat
  <2>9. Shape(EmptyTree, m)
    BY <2>7, <2>8 DEF Shape
  <2> QED BY <1>2, <2>9, EmptyIsTree DEF m
<1>6. ASSUME NEW n \in Nat, n \in Done PROVE n + 1 \in Done
  <2> SUFFICES ASSUME n + 1 <= L PROVE IsTree(up[n + 1]) /\ Shape(up[n + 1], LoadedMap(load, n + 1))
    OBVIOUS
  <2>1. n < L /\ n <= L
    BY <1>2
  <2> DEFINE t == up[n]
             k == load[n + 1]
             m == LoadedMap(load, n)
  <2>2. IsTree(t) /\ Shape(t, m)
    BY <1>6, <2>1
  <2>3. k \in Key /\ up[n + 1] = Inserted(t, k, AnyVal)
    BY <1>2, <2>1
  <2>4. \A x \in DOMAIN m : x < k
    <3>1. \A i \in 1..n : i \in DOMAIN load /\ n + 1 \in DOMAIN load /\ i < n + 1
      BY <1>2, <1>4
    <3>2. \A i \in 1..n : load[i] < load[n + 1]
      BY <3>1
    <3> QED BY <3>2 DEF LoadedMap
  <2>5. Written(m, k, AnyVal) = LoadedMap(load, n + 1)
    BY <2>1, LoadedMapGrows
  <2> HIDE DEF t, k, m
  <2>6. IsTree(Inserted(t, k, AnyVal))
    BY <1>3, <2>2, <2>3, InsertionKeepsTree
  <2>7. Shape(Inserted(t, k, AnyVal), Written(m, k, AnyVal))
    BY <1>3, <2>2, <2>3, <2>4, ShapeGrows
  <2> QED BY <2>3, <2>5, <2>6, <2>7
<1>7. Nat \subseteq Done
  <2> HIDE DEF Done
  <2> QED BY <1>5, <1>6, SetInduction
<1>8. Shape(up[L], LoadedMap(load, L))
  <2> HIDE DEF L
  <2>1. L \in Done /\ L <= L
    <3> HIDE DEF Done
    <3> QED BY <1>2, <1>7
  <2> QED BY <2>1
<1>9. LoadedMap(load, L) = [k \in ToSet(load) |-> AnyVal]
  <2>1. ToSet(load) = {load[i] : i \in 1..L}
    BY <1>4 DEF ToSet
  <2> QED BY <2>1 DEF LoadedMap
<1> QED BY <1>2, <1>8, <1>9

(* A tree that is higher has no leaf under its root.                       *)
LEMMA TallIsNotLow ==
    ASSUME IsTree(tree), Tall(tree)
    PROVE  ~Height2
<1> DEFINE ps == tree.pages
           r == tree.root
           q == Child(ps[r], 0)
<1>1. PICK h : Good(ps, h) /\ h[r] >= 2
  BY DEF Tall
<1>2. r \in 1..Len(ps)
  BY DEF IsTree
<1>3. ~ps[r].leaf
  <2>1. ps[r].leaf => h[r] = 0
    BY <1>1, <1>2 DEF Good, Ranked
  <2>2. ~(0 >= 2)
    OBVIOUS
  <2> QED BY <1>1, <2>1, <2>2
<1>4. 0 \in 0..Len(ps[r].cells)
  BY <1>1, <1>2, GoodPage
<1>5. 0 \in Slots(r) /\ 0 \in SlotsOf(ps[r])
  BY <1>3, <1>4 DEF Slots, SlotsOf
<1>6. q \in KidsOf(ps[r])
  BY <1>5 DEF KidsOf
<1> HIDE DEF q, ps, r
<1>7. q \in 1..Len(ps) /\ h[r] = h[q] + 1
  BY <1>1, <1>2, <1>6, KidIsPage
<1>8. ~ps[q].leaf
  <2>1. ps[q].leaf => h[q] = 0
    BY <1>1, <1>7 DEF Good, Ranked
  <2>2. ~(0 + 1 >= 2)
    OBVIOUS
  <2> QED BY <1>1, <1>7, <2>1, <2>2
<1> QED BY <1>5, <1>8 DEF Height2, q, ps, r

-----------------------------------------------------------------------------
(* The inductive invariant of tables filled in ascending order.            *)
AppendInv ==
    /\ TreeInv /\ IsFiniteSet(DOMAIN stored)
    /\ appended => Shape(tree, stored)

LEMMA InitAppend == Init => AppendInv
<1> SUFFICES ASSUME Init PROVE AppendInv
  OBVIOUS
<1>1. PICK load \in Loads :
         /\ tree = Loaded(load)
         /\ stored = [k \in ToSet(load) |-> AnyVal]
         /\ appended = \A i, j \in DOMAIN load : i < j => load[i] < load[j]
  BY DEF Init
<1>2. load \in Seq(Key)
  BY TreeAssumption
<1>3. IsFiniteSet(DOMAIN stored)
  <2>1. IsFiniteSet(1..Len(load))
    <3>1. Len(load) \in Nat
      BY <1>2
    <3> QED BY <3>1, FS_Interval
  <2>2. IsFiniteSet({load[i] : i \in 1..Len(load)})
    <3> DEFINE S == {load[i] : i \in 1..Len(load)}
    <3>1. load \in [1..Len(load) -> S]
      BY <1>2
    <3>2. \A x \in S : \E i \in 1..Len(load) : load[i] = x
      OBVIOUS
    <3> HIDE DEF S
    <3>3. load \in Surjection(1..Len(load), S)
      BY <3>1, <3>2, Fun_IsSurj
    <3>4. IsFiniteSet(S)
      BY <2>1, <3>3, FS_Surjection
    <3> QED BY <3>4 DEF S
  <2>3. DOMAIN stored = {load[i] : i \in 1..Len(load)}
    BY <1>1, <1>2 DEF ToSet
  <2> QED BY <2>2, <2>3
<1>4. appended => Shape(tree, stored)
  <2> SUFFICES ASSUME appended PROVE Shape(tree, stored)
    OBVIOUS
  <2>1. \A i, j \in DOMAIN load : i < j => load[i] < load[j]
    <3> DEFINE rising == \A i, j \in DOMAIN load : i < j => load[i] < load[j]
    <3>1. appended = rising
      BY <1>1
    <3> HIDE DEF rising
    <3>2. rising
      BY <3>1
    <3> QED BY <3>2 DEF rising
  <2>2. Shape(Loaded(load), [k \in ToSet(load) |-> AnyVal])
    BY <1>2, <2>1, LoadedShape
  <2> QED BY <1>1, <2>2
<1> QED BY <1>3, <1>4, InitTree DEF AppendInv

LEMMA StepAppend == AppendInv /\ [Changes \/ Reads]_vars => AppendInv'
<1> SUFFICES ASSUME AppendInv, [Changes \/ Reads]_vars PROVE AppendInv'
  OBVIOUS
<1>1. TreeInv /\ TreeInv' /\ IsFiniteSet(DOMAIN stored) /\ (appended => Shape(tree, stored))
  BY StepTree DEF AppendInv
<1>2. ASSUME NEW k \in Key, NEW v \in Val, Insert(k, v) PROVE AppendInv'
  <2>1. tree' = Inserted(tree, k, v) /\ stored' = Written(stored, k, v)
    BY <1>2 DEF Insert
  <2>2. IsFiniteSet(DOMAIN stored')
    <3>1. DOMAIN Written(stored, k, v) = DOMAIN stored \union {k}
      BY DEF Written
    <3> QED BY <1>1, <2>1, <3>1, FS_AddElement
  <2>3. ASSUME appended' PROVE Shape(tree', stored')
    <3> DEFINE above == \A x \in DOMAIN stored : x < k
    <3>1. appended' = (appended /\ above)
      BY <1>2 DEF Insert
    <3> HIDE DEF above
    <3>2. appended /\ above
      BY <2>3, <3>1
    <3>3. \A x \in DOMAIN stored : x < k
      BY <3>2 DEF above
    <3>4. IsTree(tree) /\ Shape(tree, stored)
      BY <1>1, <3>2 DEF TreeInv
    <3>5. Shape(Inserted(tree, k, v), Written(stored, k, v))
      BY <3>3, <3>4, ShapeGrows
    <3> QED BY <2>1, <3>5
  <2> QED BY <1>1, <2>2, <2>3 DEF AppendInv
<1>3. ASSUME NEW k \in Key, Delete(k) PROVE AppendInv'
  <2>1. stored' = [x \in DOMAIN stored \ {k} |-> stored[x]] /\ appended' = FALSE
    BY <1>3 DEF Delete
  <2>2. IsFiniteSet(DOMAIN stored')
    <3>1. DOMAIN stored' \subseteq DOMAIN stored
      BY <2>1
    <3> QED BY <1>1, <3>1, FS_Subset
  <2> QED BY <1>1, <2>1, <2>2 DEF AppendInv
<1>4. ASSUME UNCHANGED <<tree, stored, appended>> PROVE AppendInv'
  BY <1>1, <1>4 DEF AppendInv
<1>5. CASE \E k \in Key : DeleteMiss(k) \/ DeleteError(k)
  BY <1>4, <1>5 DEF DeleteMiss, DeleteError
<1>6. CASE Reads
  BY <1>4, <1>6 DEF Reads, Scan, Get
<1>7. CASE UNCHANGED vars
  BY <1>4, <1>7 DEF vars
<1> QED BY <1>2, <1>3, <1>5, <1>6, <1>7 DEF Changes

(* A table filled in ascending order scans completely through every split  *)
(* of its leaves, until an internal page has been split (insertLeaf,       *)
(* splitLeaf, insertInto, Cursor.Next).                                    *)
THEOREM AppendedTablesScan == Spec => []AppendedScans
<1>1. AppendInv => AppendedScans
  <2> SUFFICES ASSUME AppendInv, appended, Height2 PROVE ScanComplete
    BY DEF AppendedScans
  <2>1. IsTree(tree) /\ IsFiniteSet(DOMAIN stored) /\ Shape(tree, stored)
    BY DEF AppendInv, TreeInv
  <2>2. ~Tall(tree)
    BY <2>1, TallIsNotLow
  <2>3. PICK n, L : (Flat(tree, n, L) \/ Twofold(tree, n, L)) /\ Spread(n, L, stored)
    BY <2>1, <2>2 DEF Shape
  <2>4. CASE Flat(tree, n, L)
    <3>1. Scanned(tree) = RowList(stored)
      BY <2>1, <2>3, <2>4, FlatScans
    <3> QED BY <3>1, RowListIs DEF ScanComplete
  <2>5. CASE Twofold(tree, n, L)
    <3>1. Scanned(tree) = RowList(stored)
      BY <2>1, <2>3, <2>5, TwofoldScans
    <3> QED BY <3>1, RowListIs DEF ScanComplete
  <2> QED BY <2>3, <2>4, <2>5
<1> QED BY <1>1, InitAppend, StepAppend, PTL DEF Spec
=============================================================================
