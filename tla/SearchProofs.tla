---------------------------- MODULE SearchProofs ----------------------------
(* The binary search is exact on a sorted page of any number of cells and  *)
(* never leaves the page, sorted or not.  The search for a match of a      *)
(* pattern is exact for every text and every pattern.                      *)
EXTENDS PageSearch, Patterns, ListLemmas

(* The bounds enclose the key: all cells before lo are smaller, all cells  *)
(* after hi are greater.                                                   *)
LoopInv ==
    /\ TypeOK
    /\ lo \in 0..Len(keys) /\ hi \in -1..(Len(keys) - 1)
    /\ result # "found" => lo <= hi + 1
    /\ result = "absent" => lo = hi + 1
    /\ result = "found" => lo < Len(keys) /\ keys[lo + 1] = key
    /\ Sorted(keys) /\ result # "found" =>
         /\ \A i \in 1..Len(keys) : i <= lo => keys[i] < key
         /\ \A i \in 1..Len(keys) : i > hi + 1 => key < keys[i]

LEMMA KeyFacts ==
    ASSUME TypeOK
    PROVE  /\ Len(keys) \in Nat /\ DOMAIN keys = 1..Len(keys)
           /\ \A i \in 1..Len(keys) : keys[i] \in Int
           /\ key \in Int
  BY KeysAssumption, LenProperties, ElementOfSeq DEF TypeOK

LEMMA LoopInit == Init => LoopInv
<1> SUFFICES ASSUME Init PROVE LoopInv
  OBVIOUS
<1>1. TypeOK /\ Len(keys) \in Nat
  <2>1. keys \in Seq(Key) /\ Len(keys) \in Nat
    BY KeysAssumption, LenProperties DEF Init
  <2> QED BY <2>1 DEF Init, TypeOK
<1> QED BY <1>1 DEF Init, LoopInv

LEMMA LoopStep == LoopInv /\ [Next]_vars => LoopInv'
<1> SUFFICES ASSUME LoopInv, [Next]_vars PROVE LoopInv'
  OBVIOUS
<1>1. /\ Len(keys) \in Nat /\ DOMAIN keys = 1..Len(keys)
      /\ \A i \in 1..Len(keys) : keys[i] \in Int
      /\ key \in Int /\ lo \in Nat /\ hi \in Int
  BY KeyFacts DEF LoopInv, TypeOK
<1>2. ASSUME Probing PROVE Mid \in 0..(Len(keys) - 1) /\ lo <= Mid /\ Mid <= hi
  BY <1>1, <1>2 DEF Probing, Mid, LoopInv
<1>3. CASE Hit
  BY <1>1, <1>2, <1>3 DEF Hit, LoopInv, TypeOK, Probing
<1>4. CASE GoLeft
  <2>1. UNCHANGED <<keys, key, lo, result>> /\ hi' = Mid - 1 /\ result = "none"
    BY <1>4 DEF GoLeft, Probing
  <2>2. ASSUME Sorted(keys), NEW i \in 1..Len(keys), i > hi' + 1
        PROVE  key < keys[i]
    <3>1. Mid + 1 \in 1..Len(keys) /\ Mid + 1 <= i
      BY <1>1, <1>2, <1>4, <2>1, <2>2 DEF GoLeft
    <3>2. keys[Mid + 1] <= keys[i]
      BY <1>1, <2>2, <3>1 DEF Sorted
    <3> QED BY <1>1, <1>4, <3>1, <3>2 DEF GoLeft
  <2>3. hi' \in -1..(Len(keys) - 1) /\ lo <= hi' + 1
    BY <1>1, <1>2, <1>4, <2>1 DEF GoLeft
  <2> QED BY <1>1, <2>1, <2>2, <2>3 DEF LoopInv, TypeOK, Sorted
<1>5. CASE GoRight
  <2>1. UNCHANGED <<keys, key, hi, result>> /\ lo' = Mid + 1 /\ result = "none"
    BY <1>5 DEF GoRight, Probing
  <2>2. ASSUME Sorted(keys), NEW i \in 1..Len(keys), i <= lo'
        PROVE  keys[i] < key
    <3>1. Mid + 1 \in 1..Len(keys) /\ i <= Mid + 1
      BY <1>1, <1>2, <1>5, <2>1, <2>2 DEF GoRight
    <3>2. keys[i] <= keys[Mid + 1]
      BY <1>1, <2>2, <3>1 DEF Sorted
    <3> QED BY <1>1, <1>5, <3>1, <3>2 DEF GoRight
  <2>3. lo' \in 0..Len(keys) /\ lo' <= hi + 1
    BY <1>1, <1>2, <1>5, <2>1 DEF GoRight
  <2> QED BY <1>1, <2>1, <2>2, <2>3 DEF LoopInv, TypeOK, Sorted
<1>6. CASE Miss
  BY <1>1, <1>6 DEF Miss, LoopInv, TypeOK, Sorted
<1>7. CASE UNCHANGED vars
  BY <1>7 DEF vars, LoopInv, TypeOK, Sorted
<1> QED BY <1>3, <1>4, <1>5, <1>6, <1>7 DEF Next

(* The search of a sorted page finds a key exactly when it is there, and    *)
(* otherwise the place where it belongs (sqlgo_page_binary_search).         *)
THEOREM SearchIsExact == Spec => []SearchExact
<1>1. LoopInv => SearchExact
  <2> SUFFICES ASSUME LoopInv PROVE SearchExact
    OBVIOUS
  <2>1. Len(keys) \in Nat /\ DOMAIN keys = 1..Len(keys)
    BY KeyFacts DEF LoopInv
  <2> QED BY <2>1 DEF LoopInv, SearchExact
<1> QED BY <1>1, LoopInit, LoopStep, PTL DEF Spec

(* The search never reads outside the pointer array, in whatever order the  *)
(* cells of the page are.                                                   *)
THEOREM SearchStaysInPage == Spec => []SearchInBounds
<1>1. LoopInv => SearchInBounds
  <2> SUFFICES ASSUME LoopInv PROVE SearchInBounds
    OBVIOUS
  <2>1. Len(keys) \in Nat /\ lo \in Nat /\ hi \in Int
    BY KeyFacts DEF LoopInv, TypeOK
  <2> QED BY <2>1 DEF LoopInv, SearchInBounds, Probing, Mid
<1> QED BY <1>1, LoopInit, LoopStep, PTL DEF Spec

(* While the loop runs, what Search returns for the whole page is what it   *)
(* would return for the bounds that are left.                               *)
Follows ==
    \E f : /\ IsLoop(keys, key, f)
           /\ Search(keys, key) = IF result = "none" THEN f[<<lo, hi>>]
                                  ELSE [idx |-> lo, found |-> result = "found"]

LEMMA FollowsInit == Init /\ LoopInv => Follows
<1> SUFFICES ASSUME Init, LoopInv PROVE Follows
  OBVIOUS
<1>1. keys \in Seq(Int) /\ key \in Int
  BY KeyFacts, KeysAssumption DEF LoopInv, TypeOK
<1>2. PICK f : IsLoop(keys, key, f) /\ Search(keys, key) = f[<<0, Len(keys) - 1>>]
  BY <1>1, SearchIsRecursive
<1> QED BY <1>2 DEF Init, Follows

LEMMA FollowsStep == LoopInv /\ Follows /\ [Next]_vars => Follows'
<1> SUFFICES ASSUME LoopInv, Follows, [Next]_vars PROVE Follows'
  OBVIOUS
<1>1. /\ Len(keys) \in Nat /\ \A i \in 1..Len(keys) : keys[i] \in Int
      /\ key \in Int /\ lo \in Nat /\ hi \in Int
  BY KeyFacts DEF LoopInv, TypeOK
<1>2. PICK f : /\ IsLoop(keys, key, f)
               /\ Search(keys, key) = IF result = "none" THEN f[<<lo, hi>>]
                                      ELSE [idx |-> lo, found |-> result = "found"]
  BY DEF Follows
<1>3. UNCHANGED <<keys, key>>
  BY DEF Next, Hit, GoLeft, GoRight, Miss, vars
<1>4. SUFFICES Search(keys, key) = IF result' = "none" THEN f[<<lo', hi'>>]
                                   ELSE [idx |-> lo', found |-> result' = "found"]
  BY <1>2, <1>3 DEF Follows
<1>5. f[<<lo, hi>>] = FromBounds(keys, key, <<lo, hi>>, f)
  <2>1. <<lo, hi>> \in Bounds(keys)
    BY DEF LoopInv, Bounds
  <2> QED BY <1>2, <2>1 DEF IsLoop
<1>6. ASSUME Probing PROVE keys[Mid + 1] \in Int /\ lo <= hi /\ result = "none"
  <2>1. Mid + 1 \in 1..Len(keys)
    BY <1>1, <1>6 DEF Probing, Mid, LoopInv
  <2> QED BY <1>1, <1>6, <2>1 DEF Probing
<1>7. CASE Hit
  <2>1. f[<<lo, hi>>] = [idx |-> Mid, found |-> TRUE]
    BY <1>1, <1>5, <1>6, <1>7 DEF Hit, Mid, FromBounds
  <2> QED BY <1>2, <1>6, <1>7, <2>1 DEF Hit
<1>8. CASE GoLeft
  <2>1. f[<<lo, hi>>] = f[<<lo, Mid - 1>>]
    BY <1>1, <1>5, <1>6, <1>8 DEF GoLeft, Mid, FromBounds
  <2> QED BY <1>2, <1>6, <1>8, <2>1 DEF GoLeft
<1>9. CASE GoRight
  <2>1. f[<<lo, hi>>] = f[<<Mid + 1, hi>>]
    BY <1>1, <1>5, <1>6, <1>9 DEF GoRight, Mid, FromBounds
  <2> QED BY <1>2, <1>6, <1>9, <2>1 DEF GoRight
<1>10. CASE Miss
  <2>1. f[<<lo, hi>>] = [idx |-> lo, found |-> FALSE]
    BY <1>1, <1>5, <1>10 DEF Miss, FromBounds
  <2> QED BY <1>2, <1>10, <2>1 DEF Miss
<1>11. CASE UNCHANGED vars
  BY <1>2, <1>11 DEF vars
<1> QED BY <1>7, <1>8, <1>9, <1>10, <1>11 DEF Next

(* The B-tree searches a page in one step with the function Search: on any  *)
(* page, sorted or not, that is what the loop of sqlgo_page_binary_search   *)
(* comes to.                                                                *)
THEOREM FunctionIsLoop == Spec => []SearchIsLoop
<1>1. Follows => SearchIsLoop
  BY DEF Follows, SearchIsLoop
<1> QED BY <1>1, LoopInit, LoopStep, FollowsInit, FollowsStep, PTL DEF Spec

-----------------------------------------------------------------------------
(* The items of patterns.                                                  *)
Items == [many : BOOLEAN, of : SUBSET Int]

(* Every item is followed by one further on, or by the end.                *)
Onward(item, next) ==
    /\ item \in Seq(Items)
    /\ \A j \in 1..Len(item) : next[j] \in (j + 1)..(Len(item) + 1)

(* What a matcher does with n characters taken and the item at j next, if  *)
(* f is what it does later.                                                *)
Trial(s, item, next, n, j, f) ==
    IF j > Len(item) THEN n = Len(s)
    ELSE IF item[j].many THEN \E k \in n..Len(s) : f[<<k, next[j]>>]
    ELSE n < Len(s) /\ s[n + 1] \in item[j].of /\ f[<<n + 1, next[j]>>]

IsTrial(s, item, next, f) ==
    \A n \in 0..Len(s), j \in 1..(Len(item) + 1) : f[<<n, j>>] <=> Trial(s, item, next, n, j, f)

(* There is a function that does what a matcher does from every place on.  *)
LEMMA TrialExists ==
    ASSUME NEW s \in Seq(Int), NEW item, NEW next, Onward(item, next)
    PROVE  \E f \in [Places(s, item) -> BOOLEAN] : IsTrial(s, item, next, f)
<1> DEFINE D == Places(s, item)
           R == BOOLEAN
           step == [x \in D \X [D -> R] |-> Trial(s, item, next, x[1][1], x[1][2], x[2])]
           size == [d \in D |-> Len(item) + 1 - d[2]]
<1>1. /\ Len(s) \in Nat /\ Len(item) \in Nat
      /\ \A j \in 1..Len(item) : next[j] \in (j + 1)..(Len(item) + 1)
  BY DEF Onward
<1>2. ASSUME NEW d \in D
      PROVE  d[1] \in 0..Len(s) /\ d[2] \in 1..(Len(item) + 1) /\ d = <<d[1], d[2]>>
  BY DEF Places
<1>3. ASSUME NEW n \in 0..Len(s), NEW j \in 1..(Len(item) + 1)
      PROVE  /\ <<n, j>> \in D /\ size[<<n, j>>] = Len(item) + 1 - j
             /\ j <= Len(item) => \A k \in n..Len(s) : <<k, next[j]>> \in D /\ size[<<k, next[j]>>] < size[<<n, j>>]
  <2>1. \A k \in 0..Len(s), l \in 1..(Len(item) + 1) : <<k, l>> \in D /\ size[<<k, l>>] = Len(item) + 1 - l
    BY DEF Places
  <2>2. ASSUME j <= Len(item) PROVE next[j] \in (j + 1)..(Len(item) + 1)
    BY <1>1, <2>2
  <2> HIDE DEF D, size
  <2> QED BY <1>1, <2>1, <2>2
<1>4. size \in [D -> Nat]
  <2> SUFFICES ASSUME NEW d \in D PROVE Len(item) + 1 - d[2] \in Nat
    OBVIOUS
  <2> QED BY <1>1, <1>2
<1>5. step \in MeasuredSteps(D, R)
  <2>1. ASSUME NEW n, NEW j, NEW f PROVE Trial(s, item, next, n, j, f) \in BOOLEAN
    BY DEF Trial
  <2> QED BY <2>1 DEF MeasuredSteps
<1>6. LooksBelow(D, R, size, step)
  <2> SUFFICES ASSUME NEW d \in D, NEW f \in [D -> R], NEW g \in [D -> R],
                      \A e \in D : size[e] < size[d] => f[e] = g[e]
               PROVE  step[<<d, f>>] = step[<<d, g>>]
    <3> HIDE DEF D, R, size, step
    <3> QED BY DEF LooksBelow
  <2>1. PICK n \in 0..Len(s), j \in 1..(Len(item) + 1) : d = <<n, j>> /\ n = d[1] /\ j = d[2]
    BY <1>2
  <2>2. step[<<d, f>>] = Trial(s, item, next, n, j, f) /\ step[<<d, g>>] = Trial(s, item, next, n, j, g)
    <3>1. \A h \in [D -> R] : <<d, h>> \in D \X [D -> R] /\ <<d, h>>[1] = d /\ <<d, h>>[2] = h
      OBVIOUS
    <3>2. \A h \in [D -> R] : step[<<d, h>>] = Trial(s, item, next, n, j, h)
      <4> HIDE DEF D, R
      <4> QED BY <2>1, <3>1
    <3> QED BY <3>2
  <2>3. j <= Len(item) => \A k \in n..Len(s) : f[<<k, next[j]>>] = g[<<k, next[j]>>]
    <3> HIDE DEF D, R, size, step
    <3> QED BY <1>3, <2>1
  <2>4. Trial(s, item, next, n, j, f) = Trial(s, item, next, n, j, g)
    <3> HIDE DEF D, R, size, step
    <3>1. CASE j > Len(item)
      BY <3>1 DEF Trial
    <3>2. CASE j <= Len(item) /\ item[j].many
      BY <1>1, <2>3, <3>2 DEF Trial
    <3>3. CASE j <= Len(item) /\ ~item[j].many
      <4>1. n < Len(s) => f[<<n + 1, next[j]>>] = g[<<n + 1, next[j]>>]
        <5> SUFFICES ASSUME n < Len(s) PROVE f[<<n + 1, next[j]>>] = g[<<n + 1, next[j]>>]
          OBVIOUS
        <5>1. n + 1 \in n..Len(s)
          BY <1>1
        <5> QED BY <2>3, <3>3, <5>1
      <4> QED BY <1>1, <3>3, <4>1 DEF Trial
    <3> QED BY <1>1, <3>1, <3>2, <3>3
  <2> QED BY <2>2, <2>4
<1>7. PICK f \in [D -> R] : \A d \in D : f[d] = step[<<d, f>>]
  <2> DEFINE base == TRUE
  <2>1. base \in R
    OBVIOUS
  <2> HIDE DEF D, R, size, step, base
  <2> QED BY <1>4, <1>5, <1>6, <2>1, MeasuredRecursion
<1>8. ASSUME NEW n \in 0..Len(s), NEW j \in 1..(Len(item) + 1)
      PROVE  f[<<n, j>>] <=> Trial(s, item, next, n, j, f)
  <2>1. <<n, j>> \in D /\ f[<<n, j>>] = step[<<<<n, j>>, f>>]
    BY <1>3, <1>7
  <2>2. <<<<n, j>>, f>> \in D \X [D -> R] /\ <<n, j>>[1] = n /\ <<n, j>>[2] = j
    BY <2>1
  <2>3. step[<<<<n, j>>, f>>] = Trial(s, item, next, n, j, f)
    <3> HIDE DEF D
    <3> QED BY <2>2
  <2> HIDE DEF step
  <2> QED BY <2>1, <2>3
<1> HIDE DEF step
<1> QED BY <1>8 DEF IsTrial

-----------------------------------------------------------------------------
Rest(item, next, j, g) == IF j > Len(item) THEN << >> ELSE <<item[j]>> \o g[next[j]]

(* g lists the items that are read from each position on.                  *)
IsListing(item, next, g) ==
    \A j \in 1..(Len(item) + 1) : g[j] \in Seq(Items) /\ g[j] = Rest(item, next, j, g)

LEMMA ListingExists ==
    ASSUME NEW item, NEW next, Onward(item, next)
    PROVE  \E g : IsListing(item, next, g) /\ InTurn(item, next) = g[1]
<1> DEFINE D == 1..(Len(item) + 1)
           R == Seq(Items)
           step == [x \in D \X [D -> R] |-> Rest(item, next, x[1], x[2])]
           size == [d \in D |-> Len(item) + 1 - d]
           base == << >>
<1>1. /\ Len(item) \in Nat /\ base \in R
      /\ \A j \in 1..Len(item) : item[j] \in Items /\ next[j] \in (j + 1)..(Len(item) + 1)
  BY DEF Onward
<1>2. ASSUME NEW j \in D
      PROVE  /\ size[j] \in Nat /\ size[j] = Len(item) + 1 - j
             /\ j <= Len(item) => item[j] \in Items /\ next[j] \in D /\ size[next[j]] < size[j]
  BY <1>1
<1>3. size \in [D -> Nat]
  BY <1>1
<1>4. ASSUME NEW j \in D, NEW g, j <= Len(item) => g[next[j]] \in R
      PROVE  Rest(item, next, j, g) \in R
  <2>1. CASE j > Len(item)
    BY <1>1, <2>1 DEF Rest
  <2>2. CASE j <= Len(item)
    <3>1. <<item[j]>> \o g[next[j]] \in Seq(Items)
      <4>1. <<item[j]>> \in Seq(Items)
        <5>1. \A x \in Items : <<x>> \in Seq(Items)
          OBVIOUS
        <5>2. item[j] \in Items
          BY <1>2, <2>2
        <5> HIDE DEF D, R, step, size, base
        <5> QED BY <5>1, <5>2
      <4>2. g[next[j]] \in Seq(Items)
        BY <1>4, <2>2
      <4> QED BY <4>1, <4>2, ConcatProperties
    <3> QED BY <1>1, <2>2, <3>1 DEF Rest
  <2> QED BY <1>1, <2>1, <2>2
<1>5. step \in MeasuredSteps(D, R)
  <2> SUFFICES ASSUME NEW j \in D, NEW g \in [D -> R] PROVE Rest(item, next, j, g) \in R
    BY DEF MeasuredSteps
  <2>1. j <= Len(item) => g[next[j]] \in R
    BY <1>2
  <2> HIDE DEF D, R
  <2> QED BY <1>4, <2>1
<1>6. LooksBelow(D, R, size, step)
  <2> SUFFICES ASSUME NEW j \in D, NEW f \in [D -> R], NEW g \in [D -> R],
                      \A e \in D : size[e] < size[j] => f[e] = g[e]
               PROVE  step[<<j, f>>] = step[<<j, g>>]
    <3> HIDE DEF D, R, size, step
    <3> QED BY DEF LooksBelow
  <2>1. j <= Len(item) => f[next[j]] = g[next[j]]
    <3> HIDE DEF D, R, size
    <3> QED BY <1>2
  <2>2. Rest(item, next, j, f) = Rest(item, next, j, g)
    BY <1>1, <2>1 DEF Rest
  <2>3. \A h \in [D -> R] : step[<<j, h>>] = Rest(item, next, j, h)
    <3> HIDE DEF D, R
    <3> QED OBVIOUS
  <2> QED BY <2>2, <2>3
<1>7. PICK f \in [D -> R] : \A j \in D : f[j] = step[<<j, f>>]
  <2> HIDE DEF D, R, base, size, step
  <2> QED BY <1>1, <1>3, <1>5, <1>6, MeasuredRecursion
<1> DEFINE IsIt(g) == g = [j \in D |-> Rest(item, next, j, g)]
           it == CHOOSE g : IsIt(g)
<1>8. IsIt(it)
  <2>1. \A j \in D : f[j] = Rest(item, next, j, f)
    <3> HIDE DEF D, R
    <3> QED BY <1>7
  <2>2. IsIt(f)
    <3> HIDE DEF D, step
    <3> QED BY <1>7, <2>1
  <2> HIDE DEF IsIt
  <2> QED BY <2>2
<1>9. InTurn(item, next) = it[1]
  BY DEF InTurn, Rest
<1>10. \A j \in D : it[j] = Rest(item, next, j, it)
  <2> HIDE DEF it, D
  <2> QED BY <1>8
<1> HIDE DEF it, IsIt, step, base
<1> DEFINE Known == {k \in Nat : \A j \in D : size[j] < k => it[j] \in R}
<1>11. 0 \in Known
  BY <1>2
<1>12. ASSUME NEW k \in Nat, k \in Known PROVE k + 1 \in Known
  <2> SUFFICES ASSUME NEW j \in D, size[j] < k + 1 PROVE it[j] \in R
    OBVIOUS
  <2>1. j <= Len(item) => it[next[j]] \in R
    <3>1. j <= Len(item) => next[j] \in D /\ size[next[j]] \in Nat /\ size[next[j]] < size[j] /\ size[j] \in Nat
      BY <1>2
    <3> HIDE DEF D, R, size
    <3> QED BY <1>12, <3>1
  <2> HIDE DEF D, R, size
  <2> QED BY <1>4, <1>10, <2>1
<1>13. Nat \subseteq Known
  <2> HIDE DEF Known
  <2> QED BY <1>11, <1>12, SetInduction
<1>14. ASSUME NEW j \in D PROVE it[j] \in R
  <2>1. size[j] + 1 \in Known /\ size[j] < size[j] + 1
    BY <1>2, <1>13
  <2> HIDE DEF D, R, size
  <2> QED BY <2>1
<1>15. IsListing(item, next, it)
  BY <1>10, <1>14 DEF IsListing
<1> QED BY <1>9, <1>15

-----------------------------------------------------------------------------
(* The characters from n + 1 to k are a piece for an item.                 *)
IsPiece(s, n, k, it) == n <= k /\ (it.many \/ (k = n + 1 /\ s[k] \in it.of))

Start(n, ends, i) == IF i = 1 THEN n ELSE ends[i - 1]

Fits(s, n, items, ends) ==
    /\ ends \in [1..Len(items) -> 0..Len(s)]
    /\ Start(n, ends, Len(items) + 1) = Len(s)
    /\ \A i \in 1..Len(items) : IsPiece(s, Start(n, ends, i), ends[i], items[i])

(* What is left of a text after n characters falls into pieces.            *)
FallsFrom(s, n, items) == \E ends : Fits(s, n, items, ends)

LEMMA NothingFalls ==
    ASSUME NEW s \in Seq(Int), NEW n \in 0..Len(s)
    PROVE  FallsFrom(s, n, << >>) <=> n = Len(s)
<1>1. ASSUME n = Len(s) PROVE FallsFrom(s, n, << >>)
  <2>1. Fits(s, n, << >>, [i \in 1..0 |-> 0])
    BY <1>1 DEF Fits, Start
  <2> QED BY <2>1 DEF FallsFrom
<1> QED BY <1>1 DEF FallsFrom, Fits, Start

(* it, and then the items of rest.                                         *)
Leads(it, rest, items) ==
    /\ Len(rest) \in Nat /\ Len(items) = Len(rest) + 1 /\ items[1] = it
    /\ \A i \in 1..Len(rest) : items[i + 1] = rest[i]

LEMMA LeadsOn ==
    ASSUME NEW it \in Items, NEW rest \in Seq(Items)
    PROVE  Leads(it, rest, <<it>> \o rest)
<1>1. <<it>> \in Seq(Items) /\ Len(<<it>>) = 1 /\ <<it>>[1] = it /\ Len(rest) \in Nat
  OBVIOUS
<1> HIDE DEF Items
<1> DEFINE one == <<it>>
<1>2. one \in Seq(Items) /\ Len(one) = 1 /\ one[1] = it
  BY <1>1
<1> HIDE DEF one
<1>3. /\ Len(one \o rest) = Len(one) + Len(rest)
      /\ \A i \in 1..(Len(one) + Len(rest)) : (one \o rest)[i] = IF i <= Len(one) THEN one[i] ELSE rest[i - Len(one)]
  BY <1>2, ConcatProperties, Zenon
<1>4. Leads(it, rest, one \o rest)
  BY <1>1, <1>2, <1>3 DEF Leads
<1> QED BY <1>4 DEF one

LEMMA FallsOnward ==
    ASSUME NEW s \in Seq(Int), NEW it, NEW rest, NEW items, Leads(it, rest, items), NEW n \in 0..Len(s)
    PROVE  FallsFrom(s, n, items) <=> \E k \in n..Len(s) : IsPiece(s, n, k, it) /\ FallsFrom(s, k, rest)
<1>1. Len(s) \in Nat
  OBVIOUS
<1>2. ASSUME NEW ends, Fits(s, n, items, ends)
      PROVE  \E k \in n..Len(s) : IsPiece(s, n, k, it) /\ FallsFrom(s, k, rest)
  <2> DEFINE k == ends[1]
             after == [i \in 1..Len(rest) |-> ends[i + 1]]
  <2>1. k \in n..Len(s) /\ IsPiece(s, n, k, it)
    BY <1>1, <1>2 DEF Fits, Start, Leads, IsPiece
  <2>2. after \in [1..Len(rest) -> 0..Len(s)]
    BY <1>2 DEF Fits, Leads
  <2>3. \A i \in 1..(Len(rest) + 1) : Start(k, after, i) = ends[i] /\ Start(n, ends, i + 1) = ends[i]
    BY DEF Start, Leads
  <2>4. Start(k, after, Len(rest) + 1) = Len(s)
    <3>1. Len(rest) + 1 \in 1..(Len(rest) + 1) /\ Len(items) = Len(rest) + 1
      BY DEF Leads
    <3>2. Start(n, ends, Len(items) + 1) = Len(s)
      BY <1>2 DEF Fits
    <3> HIDE DEF after, k
    <3> QED BY <2>3, <3>1, <3>2
  <2>5. ASSUME NEW i \in 1..Len(rest) PROVE IsPiece(s, Start(k, after, i), after[i], rest[i])
    <3>1. /\ i + 1 \in 1..Len(items) /\ items[i + 1] = rest[i]
          /\ Start(n, ends, i + 1) = Start(k, after, i) /\ after[i] = ends[i + 1]
      BY <2>3 DEF Leads
    <3>2. \A j \in 1..Len(items) : IsPiece(s, Start(n, ends, j), ends[j], items[j])
      BY <1>2 DEF Fits
    <3> HIDE DEF after, k
    <3> QED BY <3>1, <3>2
  <2> HIDE DEF after, k
  <2>6. Fits(s, k, rest, after)
    BY <2>2, <2>4, <2>5 DEF Fits
  <2> QED BY <2>1, <2>6 DEF FallsFrom
<1>3. ASSUME NEW k \in n..Len(s), IsPiece(s, n, k, it), NEW after, Fits(s, k, rest, after)
      PROVE  FallsFrom(s, n, items)
  <2> DEFINE ends == [i \in 1..Len(items) |-> IF i = 1 THEN k ELSE after[i - 1]]
  <2>1. ends \in [1..Len(items) -> 0..Len(s)]
    BY <1>1, <1>3 DEF Fits, Leads
  <2>2. /\ Len(items) = Len(rest) + 1 /\ Len(rest) \in Nat
        /\ \A i \in 1..Len(items) : ends[i] = Start(k, after, i) /\ Start(n, ends, i + 1) = ends[i]
    BY DEF Start, Leads
  <2>3. Start(n, ends, Len(items) + 1) = Len(s)
    BY <1>3, <2>2 DEF Fits
  <2>4. ASSUME NEW i \in 1..Len(items) PROVE IsPiece(s, Start(n, ends, i), ends[i], items[i])
    <3>1. CASE i = 1
      <4>1. Start(n, ends, 1) = n /\ ends[1] = k /\ items[1] = it
        BY <2>2 DEF Start, Leads
      <4> HIDE DEF ends
      <4> QED BY <1>3, <3>1, <4>1
    <3>2. CASE i # 1
      <4>1. /\ i - 1 \in 1..Len(rest) /\ items[i] = rest[i - 1]
            /\ ends[i] = after[i - 1] /\ Start(n, ends, i) = Start(k, after, i - 1)
        <5>1. i - 1 \in 1..Len(rest) /\ (i - 1) + 1 = i
          BY <2>2, <3>2
        <5>2. items[i] = rest[i - 1]
          BY <5>1 DEF Leads
        <5>3. ends[i] = after[i - 1]
          BY <3>2
        <5>4. Start(n, ends, (i - 1) + 1) = ends[i - 1] /\ ends[i - 1] = Start(k, after, i - 1)
          <6>1. i - 1 \in 1..Len(items)
            BY <2>2, <5>1
          <6> HIDE DEF ends
          <6> QED BY <2>2, <6>1
        <5> HIDE DEF ends
        <5> QED BY <5>1, <5>2, <5>3, <5>4
      <4>2. \A j \in 1..Len(rest) : IsPiece(s, Start(k, after, j), after[j], rest[j])
        BY <1>3 DEF Fits
      <4> HIDE DEF ends
      <4> QED BY <4>1, <4>2
    <3> QED BY <3>1, <3>2
  <2> HIDE DEF ends
  <2>5. Fits(s, n, items, ends)
    BY <2>1, <2>3, <2>4 DEF Fits
  <2> QED BY <2>5 DEF FallsFrom
<1> QED BY <1>2, <1>3 DEF FallsFrom

(* A function that tries finds the pieces for the items.                   *)
LEMMA TrialFindsPieces ==
    ASSUME NEW s \in Seq(Int), NEW item, NEW next, Onward(item, next),
           NEW f, IsTrial(s, item, next, f)
    PROVE  f[<<0, 1>>] <=> FallsFrom(s, 0, InTurn(item, next))
<1>1. PICK g : IsListing(item, next, g) /\ InTurn(item, next) = g[1]
  BY ListingExists
<1>2. /\ Len(s) \in Nat /\ Len(item) \in Nat
      /\ \A j \in 1..Len(item) : item[j] \in Items /\ next[j] \in (j + 1)..(Len(item) + 1)
  BY DEF Onward
<1> DEFINE Known == {m \in Nat : \A j \in 1..(Len(item) + 1), n \in 0..Len(s) :
                        Len(item) + 1 - j < m => (f[<<n, j>>] <=> FallsFrom(s, n, g[j]))}
<1>3. 0 \in Known
  BY <1>2
<1>4. ASSUME NEW m \in Nat, m \in Known PROVE m + 1 \in Known
  <2> SUFFICES ASSUME NEW j \in 1..(Len(item) + 1), NEW n \in 0..Len(s), Len(item) + 1 - j < m + 1
               PROVE  f[<<n, j>>] <=> FallsFrom(s, n, g[j])
    BY <1>4
  <2>1. (f[<<n, j>>] <=> Trial(s, item, next, n, j, f)) /\ g[j] = Rest(item, next, j, g)
    BY <1>1 DEF IsTrial, IsListing
  <2>2. CASE j > Len(item)
    <3>1. g[j] = << >> /\ (f[<<n, j>>] <=> n = Len(s))
      BY <2>1, <2>2 DEF Trial, Rest
    <3>2. FallsFrom(s, n, << >>) <=> n = Len(s)
      BY NothingFalls
    <3> QED BY <3>1, <3>2
  <2>3. CASE j <= Len(item)
    <3>1. /\ item[j] \in Items /\ next[j] \in 1..(Len(item) + 1)
          /\ Len(item) + 1 - next[j] < m /\ g[next[j]] \in Seq(Items)
      BY <1>1, <1>2, <2>3 DEF IsListing
    <3>2. g[j] = <<item[j]>> \o g[next[j]]
      <4>1. ~(j > Len(item))
        BY <1>2, <2>3
      <4> QED BY <2>1, <4>1, Zenon DEF Rest
    <3>3. Leads(item[j], g[next[j]], g[j])
      BY <3>1, <3>2, LeadsOn
    <3>4. FallsFrom(s, n, g[j]) <=> \E k \in n..Len(s) : IsPiece(s, n, k, item[j]) /\ FallsFrom(s, k, g[next[j]])
      BY <3>3, FallsOnward
    <3>5. \A k \in 0..Len(s) : f[<<k, next[j]>>] <=> FallsFrom(s, k, g[next[j]])
      BY <1>4, <3>1
    <3>6. Trial(s, item, next, n, j, f) <=> \E k \in n..Len(s) : IsPiece(s, n, k, item[j]) /\ f[<<k, next[j]>>]
      <4>1. CASE item[j].many
        BY <1>2, <2>3, <4>1 DEF Trial, IsPiece
      <4>2. CASE ~item[j].many
        <5>1. ASSUME Trial(s, item, next, n, j, f)
              PROVE  \E k \in n..Len(s) : IsPiece(s, n, k, item[j]) /\ f[<<k, next[j]>>]
          <6>1. n + 1 \in n..Len(s) /\ s[n + 1] \in item[j].of /\ f[<<n + 1, next[j]>>]
            BY <1>2, <2>3, <4>2, <5>1 DEF Trial
          <6>2. IsPiece(s, n, n + 1, item[j])
            BY <6>1 DEF IsPiece
          <6> QED BY <6>1, <6>2
        <5>2. ASSUME NEW k \in n..Len(s), IsPiece(s, n, k, item[j]), f[<<k, next[j]>>]
              PROVE  Trial(s, item, next, n, j, f)
          <6>1. k = n + 1 /\ s[k] \in item[j].of
            BY <4>2, <5>2 DEF IsPiece
          <6> QED BY <1>2, <2>3, <4>2, <5>2, <6>1 DEF Trial
        <5> QED BY <5>1, <5>2
      <4> QED BY <4>1, <4>2
    <3>7. \A k \in n..Len(s) : f[<<k, next[j]>>] <=> FallsFrom(s, k, g[next[j]])
      BY <1>2, <3>5
    <3> QED BY <2>1, <3>4, <3>6, <3>7
  <2> QED BY <1>2, <2>2, <2>3
<1>5. Nat \subseteq Known
  <2> HIDE DEF Known
  <2> QED BY <1>3, <1>4, SetInduction
<1>6. Len(item) + 1 \in Known /\ 1 \in 1..(Len(item) + 1) /\ 0 \in 0..Len(s) /\ Len(item) + 1 - 1 < Len(item) + 1
  BY <1>2, <1>5
<1> QED BY <1>1, <1>6

LEMMA FallsIntoIsFalls ==
    ASSUME NEW s \in Seq(Int), NEW items \in Seq(Items)
    PROVE  FallsInto(s, items) <=> FallsFrom(s, 0, items)
<1>1. DOMAIN items = 1..Len(items) /\ Len(items) \in Nat /\ Len(s) \in Nat
  OBVIOUS
<1>2. ASSUME NEW ends \in [DOMAIN items -> 0..Len(s)]
      PROVE  Fits(s, 0, items, ends) <=>
               LET start(i) == IF i = 1 THEN 0 ELSE ends[i - 1]
               IN  /\ start(Len(items) + 1) = Len(s)
                   /\ \A i \in DOMAIN items :
                          /\ start(i) <= ends[i]
                          /\ items[i].many \/ (ends[i] = start(i) + 1 /\ s[ends[i]] \in items[i].of)
  BY <1>1 DEF Fits, Start, IsPiece
<1>3. \A ends : Fits(s, 0, items, ends) => ends \in [DOMAIN items -> 0..Len(s)]
  BY <1>1 DEF Fits
<1> QED BY <1>2, <1>3 DEF FallsInto, FallsFrom

LEMMA InTurnIsList ==
    ASSUME NEW item, NEW next, Onward(item, next)
    PROVE  InTurn(item, next) \in Seq(Items)
<1>1. PICK g : IsListing(item, next, g) /\ InTurn(item, next) = g[1]
  BY ListingExists
<1>2. 1 \in 1..(Len(item) + 1)
  BY DEF Onward
<1> QED BY <1>1, <1>2 DEF IsListing

-----------------------------------------------------------------------------
(* What LikeMatch does from a place on, if f is what it does later.        *)
LikeFrom(s, p, esc, n, j, f) ==
    \/ j > Len(p) /\ n = Len(s)
    \/ Escapes(p, j, esc) /\ n < Len(s) /\ s[n + 1] = p[j + 1] /\ f[<<n + 1, j + 2>>]
    \/ IsPercent(p, j, esc) /\ (j = Len(p) \/ LikeAny(s, n, j, f))
    \/ /\ j <= Len(p) /\ ~Escapes(p, j, esc) /\ p[j] # Percent
       /\ n < Len(s) /\ p[j] \in {s[n + 1], Underscore} /\ f[<<n + 1, j + 1>>]

LikeList(s, p, esc) == [j \in DOMAIN p |-> LikeItem(p, j, esc, CharsOf(s))]
LikeNext(p, esc) == [j \in DOMAIN p |-> IF Escapes(p, j, esc) THEN j + 2 ELSE j + 1]

LEMMA LikeOnward ==
    ASSUME NEW s \in Seq(Int), NEW p \in Seq(Int), NEW esc \in Int
    PROVE  Onward(LikeList(s, p, esc), LikeNext(p, esc)) /\ Len(LikeList(s, p, esc)) = Len(p)
<1>1. Len(p) \in Nat /\ DOMAIN p = 1..Len(p) /\ (\A j \in 1..Len(p) : p[j] \in Int) /\ CharsOf(s) \subseteq Int
  BY DEF CharsOf
<1>2. ASSUME NEW j \in 1..Len(p) PROVE LikeItem(p, j, esc, CharsOf(s)) \in Items
  <2>1. \A S \in SUBSET Int : OneOf(S) \in Items
    BY DEF OneOf, Items
  <2>2. Anything \in Items
    BY DEF Anything, Items
  <2>3. Escapes(p, j, esc) => p[j + 1] \in Int
    BY <1>1 DEF Escapes
  <2> QED BY <1>1, <2>1, <2>2, <2>3 DEF LikeItem
<1>3. LikeList(s, p, esc) \in [1..Len(p) -> Items]
  BY <1>1, <1>2 DEF LikeList
<1>4. LikeList(s, p, esc) \in Seq(Items) /\ Len(LikeList(s, p, esc)) = Len(p)
  <2> DEFINE l == LikeList(s, p, esc)
  <2>1. l \in [1..Len(p) -> Items]
    BY <1>3
  <2> HIDE DEF l, Items
  <2>2. l \in Seq(Items) /\ Len(l) = Len(p)
    BY <1>1, <2>1
  <2> QED BY <2>2 DEF l
<1>5. \A j \in 1..Len(p) : LikeNext(p, esc)[j] \in (j + 1)..(Len(p) + 1)
  BY <1>1 DEF LikeNext, Escapes
<1> QED BY <1>4, <1>5 DEF Onward

(* The matcher tries what the items ask for.                               *)
LEMMA LikeTries ==
    ASSUME NEW s, NEW p, NEW esc, Len(s) \in Nat, Len(p) \in Nat,
           NEW n \in 0..Len(s), NEW j \in 1..(Len(p) + 1),
           NEW f, f[<<Len(s), Len(p) + 1>>],
           NEW item, NEW next, Len(item) = Len(p),
           NEW Chars, n < Len(s) => s[n + 1] \in Chars,
           j <= Len(p) => /\ item[j] = LikeItem(p, j, esc, Chars)
                          /\ next[j] = IF Escapes(p, j, esc) THEN j + 2 ELSE j + 1
    PROVE  LikeFrom(s, p, esc, n, j, f) <=> Trial(s, item, next, n, j, f)
<1>1. CASE j > Len(p)
  <2>1. ~Escapes(p, j, esc) /\ ~IsPercent(p, j, esc)
    BY <1>1 DEF Escapes, IsPercent
  <2> QED BY <1>1, <2>1 DEF LikeFrom, Trial
<1>2. CASE j <= Len(p)
  <2>1. CASE Escapes(p, j, esc)
    <3>1. item[j].many = FALSE /\ item[j].of = {p[j + 1]} /\ next[j] = j + 2
      BY <1>2, <2>1 DEF LikeItem, OneOf
    <3>2. ~IsPercent(p, j, esc)
      BY <2>1 DEF IsPercent
    <3> QED BY <1>2, <2>1, <3>1, <3>2 DEF LikeFrom, Trial
  <2>2. CASE IsPercent(p, j, esc)
    <3>1. item[j].many = TRUE /\ next[j] = j + 1
      BY <1>2, <2>2 DEF LikeItem, Anything, IsPercent
    <3>2. LikeFrom(s, p, esc, n, j, f) <=> (j = Len(p) \/ LikeAny(s, n, j, f))
      BY <1>2, <2>2 DEF LikeFrom, IsPercent
    <3>3. Trial(s, item, next, n, j, f) <=> LikeAny(s, n, j, f)
      <4>1. ~(j > Len(item)) /\ item[j].many
        BY <1>2, <3>1
      <4>2. Trial(s, item, next, n, j, f) <=> \E k \in n..Len(s) : f[<<k, next[j]>>]
        BY <4>1 DEF Trial
      <4> QED BY <3>1, <4>2 DEF LikeAny
    <3>4. j = Len(p) => LikeAny(s, n, j, f)
      <4>1. Len(s) \in n..Len(s)
        OBVIOUS
      <4> QED BY <4>1 DEF LikeAny
    <3> QED BY <3>2, <3>3, <3>4
  <2>3. CASE ~Escapes(p, j, esc) /\ p[j] # Percent
    <3>1. item[j].many = FALSE /\ item[j].of = (IF p[j] = Underscore THEN Chars ELSE {p[j]}) /\ next[j] = j + 1
      <4>1. \A S : OneOf(S).many = FALSE /\ OneOf(S).of = S
        BY DEF OneOf
      <4>2. item[j] = OneOf(IF p[j] = Underscore THEN Chars ELSE {p[j]}) /\ next[j] = j + 1
        BY <1>2, <2>3 DEF LikeItem
      <4> QED BY <4>1, <4>2
    <3>2. ~IsPercent(p, j, esc)
      BY <2>3 DEF IsPercent
    <3>3. n < Len(s) => (s[n + 1] \in item[j].of <=> p[j] \in {s[n + 1], Underscore})
      BY <3>1
    <3> QED BY <1>2, <2>3, <3>1, <3>2, <3>3 DEF LikeFrom, Trial
  <2> QED BY <1>2, <2>1, <2>2, <2>3 DEF IsPercent
<1> QED BY <1>1, <1>2

IsLike(s, p, esc, f) ==
    \A n \in 0..Len(s), j \in 1..(Len(p) + 1) : f[<<n, j>>] <=> LikeFrom(s, p, esc, n, j, f)

LEMMA LikeIsTrial ==
    ASSUME NEW s \in Seq(Int), NEW p \in Seq(Int), NEW esc \in Int, NEW f
    PROVE  IsLike(s, p, esc, f) <=> IsTrial(s, LikeList(s, p, esc), LikeNext(p, esc), f)
<1> DEFINE item == LikeList(s, p, esc)
           next == LikeNext(p, esc)
           Chars == CharsOf(s)
<1>1. Len(s) \in Nat /\ Len(p) \in Nat /\ Len(item) = Len(p)
  BY LikeOnward
<1>2. /\ \A n \in 0..Len(s) : n < Len(s) => s[n + 1] \in Chars
      /\ \A j \in 1..Len(p) : /\ item[j] = LikeItem(p, j, esc, Chars)
                              /\ next[j] = IF Escapes(p, j, esc) THEN j + 2 ELSE j + 1
  <2>1. DOMAIN p = 1..Len(p) /\ DOMAIN s = 1..Len(s)
    OBVIOUS
  <2>2. \A i \in DOMAIN s : s[i] \in Chars
    BY DEF CharsOf
  <2>3. \A n \in 0..Len(s) : n < Len(s) => s[n + 1] \in Chars
    <3> SUFFICES ASSUME NEW n \in 0..Len(s), n < Len(s) PROVE s[n + 1] \in Chars
      OBVIOUS
    <3>1. n + 1 \in DOMAIN s
      BY <1>1, <2>1
    <3> HIDE DEF Chars
    <3> QED BY <2>2, <3>1
  <2>4. \A j \in DOMAIN p : /\ item[j] = LikeItem(p, j, esc, Chars)
                            /\ next[j] = IF Escapes(p, j, esc) THEN j + 2 ELSE j + 1
    BY DEF LikeList, LikeNext
  <2> QED BY <2>1, <2>3, <2>4
<1> HIDE DEF item, next, Chars
<1>3. ASSUME f[<<Len(s), Len(p) + 1>>], NEW n \in 0..Len(s), NEW j \in 1..(Len(p) + 1)
      PROVE  LikeFrom(s, p, esc, n, j, f) <=> Trial(s, item, next, n, j, f)
  <2>1. j <= Len(p) => j \in 1..Len(p)
    BY <1>1
  <2> QED BY <1>1, <1>2, <1>3, <2>1, LikeTries
<1>4. Len(s) \in 0..Len(s) /\ Len(p) + 1 \in 1..(Len(p) + 1)
  BY <1>1
<1>5. IsLike(s, p, esc, f) => f[<<Len(s), Len(p) + 1>>]
  <2>1. LikeFrom(s, p, esc, Len(s), Len(p) + 1, f)
    BY <1>1 DEF LikeFrom
  <2> QED BY <1>4, <2>1 DEF IsLike
<1>6. IsTrial(s, item, next, f) => f[<<Len(s), Len(p) + 1>>]
  <2>1. Trial(s, item, next, Len(s), Len(p) + 1, f)
    BY <1>1 DEF Trial
  <2> QED BY <1>1, <1>4, <2>1 DEF IsTrial
<1>7. IsLike(s, p, esc, f) <=> IsTrial(s, item, next, f)
  BY <1>1, <1>3, <1>5, <1>6 DEF IsLike, IsTrial
<1> QED BY <1>7 DEF item, next

(* LIKE accepts what falls into pieces.                                    *)
LEMMA LikeFindsPieces ==
    ASSUME NEW s \in Seq(Int), NEW p \in Seq(Int), NEW esc \in Int
    PROVE  LikeMatch(s, p, esc) <=> FallsInto(s, LikeItems(p, esc, CharsOf(s)))
<1> DEFINE item == LikeList(s, p, esc)
           next == LikeNext(p, esc)
           D == Places(s, p)
           IsIt(f) == f = [at \in D |-> LikeFrom(s, p, esc, at[1], at[2], f)]
           it == CHOOSE f : IsIt(f)
<1>1. Onward(item, next) /\ Len(item) = Len(p)
  BY LikeOnward
<1>2. Places(s, item) = D
  BY <1>1 DEF Places
<1>3. /\ \A d \in D : d[1] \in 0..Len(s) /\ d[2] \in 1..(Len(p) + 1) /\ d = <<d[1], d[2]>>
      /\ \A n \in 0..Len(s), j \in 1..(Len(p) + 1) : <<n, j>> \in D /\ <<n, j>>[1] = n /\ <<n, j>>[2] = j
  BY DEF Places
<1>4. PICK f \in [D -> BOOLEAN] : IsTrial(s, item, next, f)
  BY <1>1, <1>2, TrialExists
<1>5. IsLike(s, p, esc, f)
  BY <1>4, LikeIsTrial
<1>6. \A d \in D : f[d] = LikeFrom(s, p, esc, d[1], d[2], f)
  <2> SUFFICES ASSUME NEW d \in D PROVE f[d] = LikeFrom(s, p, esc, d[1], d[2], f)
    OBVIOUS
  <2>1. f[<<d[1], d[2]>>] <=> LikeFrom(s, p, esc, d[1], d[2], f)
    BY <1>3, <1>5 DEF IsLike
  <2>2. f[d] \in BOOLEAN /\ LikeFrom(s, p, esc, d[1], d[2], f) \in BOOLEAN /\ f[d] = f[<<d[1], d[2]>>]
    BY <1>3, <1>4 DEF LikeFrom
  <2> QED BY <2>1, <2>2
<1>7. IsIt(it)
  <2>1. IsIt(f)
    <3> HIDE DEF D
    <3> QED BY <1>4, <1>6
  <2> HIDE DEF IsIt
  <2> QED BY <2>1
<1>8. LikeMatch(s, p, esc) = it[<<0, 1>>]
  BY DEF LikeMatch, LikeFrom
<1>9. IsLike(s, p, esc, it)
  <2>1. \A d \in D : it[d] = LikeFrom(s, p, esc, d[1], d[2], it)
    <3> HIDE DEF it, D
    <3> QED BY <1>7
  <2> HIDE DEF it, IsIt, D
  <2> SUFFICES ASSUME NEW n \in 0..Len(s), NEW j \in 1..(Len(p) + 1)
               PROVE  it[<<n, j>>] <=> LikeFrom(s, p, esc, n, j, it)
    BY DEF IsLike
  <2>2. PICK d \in D : d = <<n, j>> /\ d[1] = n /\ d[2] = j
    BY <1>3
  <2>3. it[d] = LikeFrom(s, p, esc, n, j, it)
    BY <2>1, <2>2
  <2> QED BY <2>2, <2>3
<1>10. IsTrial(s, item, next, it)
  <2> HIDE DEF it
  <2> QED BY <1>9, LikeIsTrial
<1>11. LikeItems(p, esc, CharsOf(s)) = InTurn(item, next)
  BY DEF LikeItems, LikeList, LikeNext
<1>12. it[<<0, 1>>] <=> FallsFrom(s, 0, InTurn(item, next))
  <2> HIDE DEF it, item, next
  <2> QED BY <1>1, <1>10, TrialFindsPieces
<1>13. InTurn(item, next) \in Seq(Items)
  BY <1>1, InTurnIsList
<1>14. FallsInto(s, InTurn(item, next)) <=> FallsFrom(s, 0, InTurn(item, next))
  BY <1>13, FallsIntoIsFalls
<1> HIDE DEF it, item, next
<1> QED BY <1>8, <1>11, <1>12, <1>14

-----------------------------------------------------------------------------
EndFrom(p, k, f) == IF k > Len(p) THEN k ELSE IF p[k] = Close THEN k + 1 ELSE f[AfterMember(p, k)]

(* A class ends behind where it began, and within the pattern.             *)
LEMMA ClassEnds ==
    ASSUME NEW p \in Seq(Int), NEW i \in 1..(Len(p) + 1)
    PROVE  ClassEnd(p, i) \in i..(Len(p) + 1)
<1> DEFINE D == 1..(Len(p) + 1)
           R == D
           step == [x \in D \X [D -> R] |-> EndFrom(p, x[1], x[2])]
           size == [d \in D |-> Len(p) + 1 - d]
           base == 1
<1>1. Len(p) \in Nat
  OBVIOUS
<1>2. ASSUME NEW k \in D
      PROVE  /\ size[k] \in Nat /\ size[k] = Len(p) + 1 - k
             /\ k <= Len(p) => /\ k + 1 \in D
                               /\ AfterMember(p, k) \in D /\ k < AfterMember(p, k)
                               /\ size[AfterMember(p, k)] < size[k]
  <2>1. k <= Len(p) => AfterMember(p, k) \in (k + 1)..(Len(p) + 1)
    BY <1>1 DEF AfterMember, IsRange
  <2> QED BY <1>1, <2>1
<1>3. size \in [D -> Nat] /\ base \in R
  BY <1>1
<1>4. ASSUME NEW k \in D, NEW g \in [D -> R] PROVE EndFrom(p, k, g) \in R
  <2>1. k <= Len(p) => g[AfterMember(p, k)] \in D /\ k + 1 \in D
    <3> HIDE DEF D, size
    <3> QED BY <1>2
  <2> QED BY <1>1, <2>1 DEF EndFrom
<1>5. step \in MeasuredSteps(D, R)
  BY <1>4 DEF MeasuredSteps
<1>6. LooksBelow(D, R, size, step)
  <2> SUFFICES ASSUME NEW k \in D, NEW f \in [D -> R], NEW g \in [D -> R],
                      \A e \in D : size[e] < size[k] => f[e] = g[e]
               PROVE  step[<<k, f>>] = step[<<k, g>>]
    <3> HIDE DEF D, R, size, step
    <3> QED BY DEF LooksBelow
  <2>1. k <= Len(p) => f[AfterMember(p, k)] = g[AfterMember(p, k)]
    <3> HIDE DEF D, size
    <3> QED BY <1>2
  <2>2. EndFrom(p, k, f) = EndFrom(p, k, g)
    BY <1>1, <2>1 DEF EndFrom
  <2>3. \A h \in [D -> R] : step[<<k, h>>] = EndFrom(p, k, h)
    <3> HIDE DEF D
    <3> QED OBVIOUS
  <2> QED BY <2>2, <2>3
<1>7. PICK f \in [D -> R] : \A k \in D : f[k] = step[<<k, f>>]
  <2> HIDE DEF D, R, base, size, step
  <2> QED BY <1>3, <1>5, <1>6, MeasuredRecursion
<1> DEFINE IsIt(g) == g = [k \in D |-> EndFrom(p, k, g)]
           it == CHOOSE g : IsIt(g)
<1>8. IsIt(it)
  <2>1. \A k \in D : f[k] = EndFrom(p, k, f)
    <3> HIDE DEF D
    <3> QED BY <1>7
  <2>2. IsIt(f)
    <3> HIDE DEF D, step
    <3> QED BY <1>7, <2>1
  <2> HIDE DEF IsIt
  <2> QED BY <2>2
<1>9. ClassEnd(p, i) = it[i]
  BY DEF ClassEnd, EndFrom
<1>10. \A k \in D : it[k] = EndFrom(p, k, it)
  <2> HIDE DEF it, D
  <2> QED BY <1>8
<1> HIDE DEF it, IsIt, step, base
<1> DEFINE Known == {m \in Nat : \A k \in D : size[k] < m => it[k] \in k..(Len(p) + 1)}
<1>11. 0 \in Known
  BY <1>2
<1>12. ASSUME NEW m \in Nat, m \in Known PROVE m + 1 \in Known
  <2> SUFFICES ASSUME NEW k \in D, size[k] < m + 1 PROVE it[k] \in k..(Len(p) + 1)
    OBVIOUS
  <2>1. it[k] = EndFrom(p, k, it)
    BY <1>10
  <2>2. CASE k > Len(p)
    BY <1>1, <2>1, <2>2 DEF EndFrom
  <2>3. CASE k <= Len(p) /\ p[k] = Close
    BY <1>1, <2>1, <2>3 DEF EndFrom
  <2>4. CASE k <= Len(p) /\ p[k] # Close
    <3> DEFINE l == AfterMember(p, k)
    <3>1. l \in D /\ k < l /\ size[l] < size[k] /\ size[l] \in Nat /\ size[k] \in Nat
      BY <1>2, <2>4
    <3>2. it[k] = it[l]
      BY <1>1, <2>1, <2>4 DEF EndFrom
    <3> HIDE DEF l
    <3>3. size[l] < m
      <4> HIDE DEF size
      <4> QED BY <3>1
    <3>4. it[l] \in l..(Len(p) + 1)
      <4> HIDE DEF D, size
      <4> QED BY <1>12, <3>1, <3>3
    <3> QED BY <1>1, <3>1, <3>2, <3>4
  <2> QED BY <1>1, <2>2, <2>3, <2>4
<1>13. Nat \subseteq Known
  <2> HIDE DEF Known
  <2> QED BY <1>11, <1>12, SetInduction
<1>14. size[i] + 1 \in Known /\ size[i] < size[i] + 1
  BY <1>2, <1>13
<1> QED
  <2> HIDE DEF size
  <2> QED BY <1>9, <1>14

LEMMA AfterClassIsAfter ==
    ASSUME NEW p \in Seq(Int), NEW j \in 1..Len(p)
    PROVE  AfterClass(p, j) \in (j + 1)..(Len(p) + 1)
<1>1. Len(p) \in Nat
  OBVIOUS
<1>2. ClassFrom(p, j) \in (j + 1)..(Len(p) + 1)
  BY <1>1 DEF ClassFrom, Negates
<1> DEFINE i == ClassFrom(p, j)
<1> HIDE DEF i
<1>3. i \in 1..(Len(p) + 1) /\ j + 1 <= i
  BY <1>1, <1>2 DEF i
<1>4. ClassEnd(p, i) \in i..(Len(p) + 1)
  BY <1>3, ClassEnds
<1>5. ClassEnd(p, i) \in (j + 1)..(Len(p) + 1)
  BY <1>1, <1>3, <1>4
<1> QED BY <1>5 DEF AfterClass, i

GlobFrom(s, p, n, j, f) ==
    \/ j > Len(p) /\ n = Len(s)
    \/ /\ j <= Len(p) /\ p[j] = Star
       /\ j = Len(p) \/ \E i \in n..Len(s) : f[<<i, j + 1>>]
    \/ /\ j <= Len(p) /\ p[j] = Open
       /\ n < Len(s) /\ TakesClass(s[n + 1], p, j) /\ f[<<n + 1, AfterClass(p, j)>>]
    \/ /\ j <= Len(p) /\ p[j] \notin {Star, Open}
       /\ n < Len(s) /\ p[j] \in {s[n + 1], Question} /\ f[<<n + 1, j + 1>>]

GlobList(s, p) == [j \in DOMAIN p |-> GlobItem(p, j, CharsOf(s))]
GlobNext(p) == [j \in DOMAIN p |-> IF p[j] = Open THEN AfterClass(p, j) ELSE j + 1]

LEMMA GlobOnward ==
    ASSUME NEW s \in Seq(Int), NEW p \in Seq(Int)
    PROVE  Onward(GlobList(s, p), GlobNext(p)) /\ Len(GlobList(s, p)) = Len(p)
<1>1. Len(p) \in Nat /\ DOMAIN p = 1..Len(p) /\ (\A j \in 1..Len(p) : p[j] \in Int) /\ CharsOf(s) \subseteq Int
  BY DEF CharsOf
<1>2. ASSUME NEW j \in 1..Len(p) PROVE GlobItem(p, j, CharsOf(s)) \in Items
  <2>1. \A S \in SUBSET Int : OneOf(S) \in Items
    BY DEF OneOf, Items
  <2>2. Anything \in Items
    BY DEF Anything, Items
  <2> DEFINE C == CharsOf(s)
             K == {c \in C : TakesClass(c, p, j)}
  <2>3. C \in SUBSET Int /\ K \in SUBSET Int /\ {p[j]} \in SUBSET Int
    BY <1>1
  <2>4. GlobItem(p, j, C) \in {Anything, OneOf(C), OneOf(K), OneOf({p[j]})}
    BY DEF GlobItem, Question, Open
  <2> HIDE DEF C, K
  <2>5. GlobItem(p, j, C) \in Items
    BY <2>1, <2>2, <2>3, <2>4
  <2> QED BY <2>5 DEF C
<1>3. GlobList(s, p) \in [1..Len(p) -> Items]
  BY <1>1, <1>2 DEF GlobList
<1>4. GlobList(s, p) \in Seq(Items) /\ Len(GlobList(s, p)) = Len(p)
  <2> DEFINE l == GlobList(s, p)
  <2>1. l \in [1..Len(p) -> Items]
    BY <1>3
  <2> HIDE DEF l, Items
  <2>2. l \in Seq(Items) /\ Len(l) = Len(p)
    BY <1>1, <2>1
  <2> QED BY <2>2 DEF l
<1>5. ASSUME NEW j \in 1..Len(p) PROVE GlobNext(p)[j] \in (j + 1)..(Len(p) + 1)
  <2>1. GlobNext(p)[j] = IF p[j] = Open THEN AfterClass(p, j) ELSE j + 1
    BY <1>1 DEF GlobNext
  <2>2. AfterClass(p, j) \in (j + 1)..(Len(p) + 1)
    BY AfterClassIsAfter
  <2> QED BY <1>1, <2>1, <2>2
<1> QED BY <1>4, <1>5 DEF Onward

LEMMA GlobTries ==
    ASSUME NEW s, NEW p, Len(s) \in Nat, Len(p) \in Nat,
           NEW n \in 0..Len(s), NEW j \in 1..(Len(p) + 1),
           NEW f, f[<<Len(s), Len(p) + 1>>],
           NEW item, NEW next, Len(item) = Len(p),
           NEW Chars, n < Len(s) => s[n + 1] \in Chars,
           j <= Len(p) => /\ item[j] = GlobItem(p, j, Chars)
                          /\ next[j] = IF p[j] = Open THEN AfterClass(p, j) ELSE j + 1
    PROVE  GlobFrom(s, p, n, j, f) <=> Trial(s, item, next, n, j, f)
<1>0. Star # Open /\ Question # Open /\ Question # Star
  BY DEF Star, Open, Question
<1>1. CASE j > Len(p)
  BY <1>1 DEF GlobFrom, Trial
<1>2. CASE j <= Len(p)
  <2>0. \A S : OneOf(S).many = FALSE /\ OneOf(S).of = S
    BY DEF OneOf
  <2>1. CASE p[j] = Open
    <3> DEFINE K == {c \in Chars : TakesClass(c, p, j)}
    <3>1. item[j] = OneOf(K) /\ next[j] = AfterClass(p, j)
      BY <1>0, <1>2, <2>1 DEF GlobItem
    <3>2. n < Len(s) => (s[n + 1] \in K <=> TakesClass(s[n + 1], p, j))
      OBVIOUS
    <3> HIDE DEF K
    <3>3. item[j].many = FALSE /\ item[j].of = K
      BY <2>0, <3>1
    <3> QED BY <1>0, <1>2, <2>1, <3>1, <3>2, <3>3 DEF GlobFrom, Trial
  <2>2. CASE p[j] = Star
    <3>1. item[j].many = TRUE /\ next[j] = j + 1
      BY <1>0, <1>2, <2>2 DEF GlobItem, Anything
    <3>2. GlobFrom(s, p, n, j, f) <=> (j = Len(p) \/ \E i \in n..Len(s) : f[<<i, j + 1>>])
      BY <1>0, <1>2, <2>2 DEF GlobFrom
    <3>3. Trial(s, item, next, n, j, f) <=> \E i \in n..Len(s) : f[<<i, j + 1>>]
      <4>1. ~(j > Len(item)) /\ item[j].many
        BY <1>2, <3>1
      <4>2. Trial(s, item, next, n, j, f) <=> \E k \in n..Len(s) : f[<<k, next[j]>>]
        BY <4>1 DEF Trial
      <4> QED BY <3>1, <4>2
    <3>4. j = Len(p) => \E i \in n..Len(s) : f[<<i, j + 1>>]
      <4>1. Len(s) \in n..Len(s)
        OBVIOUS
      <4> QED BY <4>1
    <3> QED BY <3>2, <3>3, <3>4
  <2>3. CASE p[j] \notin {Star, Open}
    <3>1. item[j] = OneOf(IF p[j] = Question THEN Chars ELSE {p[j]}) /\ next[j] = j + 1
      BY <1>0, <1>2, <2>3 DEF GlobItem
    <3>2. item[j].many = FALSE /\ item[j].of = IF p[j] = Question THEN Chars ELSE {p[j]}
      BY <2>0, <3>1
    <3>3. n < Len(s) => (s[n + 1] \in item[j].of <=> p[j] \in {s[n + 1], Question})
      BY <3>2
    <3> QED BY <1>2, <2>3, <3>1, <3>2, <3>3 DEF GlobFrom, Trial
  <2> QED BY <2>1, <2>2, <2>3
<1> QED BY <1>1, <1>2

IsGlob(s, p, f) ==
    \A n \in 0..Len(s), j \in 1..(Len(p) + 1) : f[<<n, j>>] <=> GlobFrom(s, p, n, j, f)

LEMMA GlobIsTrial ==
    ASSUME NEW s \in Seq(Int), NEW p \in Seq(Int), NEW f
    PROVE  IsGlob(s, p, f) <=> IsTrial(s, GlobList(s, p), GlobNext(p), f)
<1> DEFINE item == GlobList(s, p)
           next == GlobNext(p)
           Chars == CharsOf(s)
<1>1. Len(s) \in Nat /\ Len(p) \in Nat /\ Len(item) = Len(p)
  BY GlobOnward
<1>2. /\ \A n \in 0..Len(s) : n < Len(s) => s[n + 1] \in Chars
      /\ \A j \in 1..Len(p) : /\ item[j] = GlobItem(p, j, Chars)
                              /\ next[j] = IF p[j] = Open THEN AfterClass(p, j) ELSE j + 1
  <2>1. DOMAIN p = 1..Len(p) /\ DOMAIN s = 1..Len(s)
    OBVIOUS
  <2>2. \A i \in DOMAIN s : s[i] \in Chars
    BY DEF CharsOf
  <2>3. \A n \in 0..Len(s) : n < Len(s) => s[n + 1] \in Chars
    <3> SUFFICES ASSUME NEW n \in 0..Len(s), n < Len(s) PROVE s[n + 1] \in Chars
      OBVIOUS
    <3>1. n + 1 \in DOMAIN s
      BY <1>1, <2>1
    <3> HIDE DEF Chars
    <3> QED BY <2>2, <3>1
  <2>4. \A j \in DOMAIN p : /\ item[j] = GlobItem(p, j, Chars)
                            /\ next[j] = IF p[j] = Open THEN AfterClass(p, j) ELSE j + 1
    BY DEF GlobList, GlobNext
  <2> QED BY <2>1, <2>3, <2>4
<1> HIDE DEF item, next, Chars
<1>3. ASSUME f[<<Len(s), Len(p) + 1>>], NEW n \in 0..Len(s), NEW j \in 1..(Len(p) + 1)
      PROVE  GlobFrom(s, p, n, j, f) <=> Trial(s, item, next, n, j, f)
  <2>1. j <= Len(p) => j \in 1..Len(p)
    BY <1>1
  <2> QED BY <1>1, <1>2, <1>3, <2>1, GlobTries
<1>4. Len(s) \in 0..Len(s) /\ Len(p) + 1 \in 1..(Len(p) + 1)
  BY <1>1
<1>5. IsGlob(s, p, f) => f[<<Len(s), Len(p) + 1>>]
  <2>1. GlobFrom(s, p, Len(s), Len(p) + 1, f)
    BY <1>1 DEF GlobFrom
  <2> QED BY <1>4, <2>1 DEF IsGlob
<1>6. IsTrial(s, item, next, f) => f[<<Len(s), Len(p) + 1>>]
  <2>1. Trial(s, item, next, Len(s), Len(p) + 1, f)
    BY <1>1 DEF Trial
  <2> QED BY <1>1, <1>4, <2>1 DEF IsTrial
<1>7. IsGlob(s, p, f) <=> IsTrial(s, item, next, f)
  BY <1>1, <1>3, <1>5, <1>6 DEF IsGlob, IsTrial
<1> QED BY <1>7 DEF item, next

(* GLOB accepts what falls into pieces.                                    *)
LEMMA GlobFindsPieces ==
    ASSUME NEW s \in Seq(Int), NEW p \in Seq(Int)
    PROVE  GlobMatch(s, p) <=> FallsInto(s, GlobItems(p, CharsOf(s)))
<1> DEFINE item == GlobList(s, p)
           next == GlobNext(p)
           D == Places(s, p)
           IsIt(f) == f = [at \in D |-> GlobFrom(s, p, at[1], at[2], f)]
           it == CHOOSE f : IsIt(f)
<1>1. Onward(item, next) /\ Len(item) = Len(p)
  BY GlobOnward
<1>2. Places(s, item) = D
  BY <1>1 DEF Places
<1>3. /\ \A d \in D : d[1] \in 0..Len(s) /\ d[2] \in 1..(Len(p) + 1) /\ d = <<d[1], d[2]>>
      /\ \A n \in 0..Len(s), j \in 1..(Len(p) + 1) : <<n, j>> \in D /\ <<n, j>>[1] = n /\ <<n, j>>[2] = j
  BY DEF Places
<1>4. PICK f \in [D -> BOOLEAN] : IsTrial(s, item, next, f)
  BY <1>1, <1>2, TrialExists
<1>5. IsGlob(s, p, f)
  BY <1>4, GlobIsTrial
<1>6. \A d \in D : f[d] = GlobFrom(s, p, d[1], d[2], f)
  <2> SUFFICES ASSUME NEW d \in D PROVE f[d] = GlobFrom(s, p, d[1], d[2], f)
    OBVIOUS
  <2>1. f[<<d[1], d[2]>>] <=> GlobFrom(s, p, d[1], d[2], f)
    BY <1>3, <1>5 DEF IsGlob
  <2>2. f[d] \in BOOLEAN /\ GlobFrom(s, p, d[1], d[2], f) \in BOOLEAN /\ f[d] = f[<<d[1], d[2]>>]
    BY <1>3, <1>4 DEF GlobFrom
  <2> QED BY <2>1, <2>2
<1>7. IsIt(it)
  <2>1. IsIt(f)
    <3> HIDE DEF D
    <3> QED BY <1>4, <1>6
  <2> HIDE DEF IsIt
  <2> QED BY <2>1
<1>8. GlobMatch(s, p) = it[<<0, 1>>]
  BY DEF GlobMatch, GlobFrom
<1>9. IsGlob(s, p, it)
  <2>1. \A d \in D : it[d] = GlobFrom(s, p, d[1], d[2], it)
    <3> HIDE DEF it, D
    <3> QED BY <1>7
  <2> HIDE DEF it, IsIt, D
  <2> SUFFICES ASSUME NEW n \in 0..Len(s), NEW j \in 1..(Len(p) + 1)
               PROVE  it[<<n, j>>] <=> GlobFrom(s, p, n, j, it)
    BY DEF IsGlob
  <2>2. PICK d \in D : d = <<n, j>> /\ d[1] = n /\ d[2] = j
    BY <1>3
  <2>3. it[d] = GlobFrom(s, p, n, j, it)
    BY <2>1, <2>2
  <2> QED BY <2>2, <2>3
<1>10. IsTrial(s, item, next, it)
  <2> HIDE DEF it
  <2> QED BY <1>9, GlobIsTrial
<1>11. GlobItems(p, CharsOf(s)) = InTurn(item, next)
  BY DEF GlobItems, GlobList, GlobNext
<1>12. it[<<0, 1>>] <=> FallsFrom(s, 0, InTurn(item, next))
  <2> HIDE DEF it, item, next
  <2> QED BY <1>1, <1>10, TrialFindsPieces
<1>13. InTurn(item, next) \in Seq(Items)
  BY <1>1, InTurnIsList
<1>14. FallsInto(s, InTurn(item, next)) <=> FallsFrom(s, 0, InTurn(item, next))
  BY <1>13, FallsIntoIsFalls
<1> HIDE DEF it, item, next
<1> QED BY <1>8, <1>11, <1>12, <1>14

(* Both matchers accept a text if and only if it falls into pieces for the *)
(* items of the pattern, whatever the text and the pattern                 *)
(* (sqlLikeMatch, globMatchRunes).                                         *)
THEOREM MatchersFindPieces ==
    \A s, p \in Seq(Int) : input = Pair(s, p) => MatchIsPieces
<1> SUFFICES ASSUME NEW s \in Seq(Int), NEW p \in Seq(Int), input = Pair(s, p) PROVE MatchIsPieces
  OBVIOUS
<1>1. input.text = s /\ input.pattern = p
  BY DEF Pair
<1>2. Backslash \in Int /\ CharsOf(p) \subseteq Int
  BY DEF Backslash, CharsOf
<1>3. MatchesPieces(s, p)
  BY <1>2, LikeFindsPieces, GlobFindsPieces DEF MatchesPieces
<1> QED BY <1>1, <1>3 DEF MatchIsPieces
=============================================================================
