----------------------------- MODULE ListLemmas -----------------------------
(***************************************************************************)
(* What inserting into and removing from a sequence does to its length and *)
(* to each position: the facts every proof about a pointer array, a stack  *)
(* of savepoints or a queue rests on.  Then induction and recursion in the *)
(* form the provers can use, of a set and not of a formula, and with them  *)
(* what Search, a recursive function, returns.                             *)
(***************************************************************************)
EXTENDS KeySearch, SequencesExt, SequenceTheorems, WellFoundedInduction, TLAPS

(* The list t is s with e put in at position i; s without position i.       *)
ShiftedIn(t, s, i, e) ==
    /\ Len(t) = Len(s) + 1
    /\ \A j \in 1..(Len(s) + 1) :
         t[j] = IF j < i THEN s[j] ELSE IF j = i THEN e ELSE s[j - 1]

ShiftedOut(t, s, i) ==
    /\ Len(t) = Len(s) - 1
    /\ \A j \in 1..(Len(s) - 1) : t[j] = IF j < i THEN s[j] ELSE s[j + 1]

(* Inserting shifts what stands at or after the position, and nothing else. *)
LEMMA InsertAtProperties ==
    ASSUME NEW S, NEW s \in Seq(S), NEW i \in 1..(Len(s) + 1), NEW e \in S
    PROVE  InsertAt(s, i, e) \in Seq(S) /\ ShiftedIn(InsertAt(s, i, e), s, i, e)
<1> DEFINE l == SubSeq(s, 1, i - 1)
           r == SubSeq(s, i, Len(s))
<1>1. Len(s) \in Nat /\ \A j \in 1..Len(s) : s[j] \in S
  BY LenProperties, ElementOfSeq
<1>2. /\ l \in Seq(S) /\ Len(l) = i - 1
      /\ \A j \in 1..(i - 1) : l[j] = s[j]
  <2>1. /\ l \in Seq(S) /\ Len(l) = IF 1 <= i - 1 THEN (i - 1) - 1 + 1 ELSE 0
        /\ \A j \in 1..((i - 1) - 1 + 1) : l[j] = s[1 + j - 1]
    <3>1. \A j \in 1..(i - 1) : s[j] \in S
      BY <1>1
    <3>2. 1 \in Int /\ i - 1 \in Int
      OBVIOUS
    <3> HIDE DEF l
    <3> QED BY <3>1, <3>2, SubSeqProperties DEF l
  <2> HIDE DEF l
  <2> QED BY <2>1
<1>3. /\ r \in Seq(S) /\ Len(r) = Len(s) - i + 1
      /\ \A j \in 1..(Len(s) - i + 1) : r[j] = s[i + j - 1]
  <2>1. /\ r \in Seq(S) /\ Len(r) = IF i <= Len(s) THEN Len(s) - i + 1 ELSE 0
        /\ \A j \in 1..(Len(s) - i + 1) : r[j] = s[i + j - 1]
    <3>1. \A j \in i..Len(s) : s[j] \in S
      BY <1>1
    <3>2. i \in Int /\ Len(s) \in Int
      BY <1>1
    <3> HIDE DEF r
    <3> QED BY <3>1, <3>2, SubSeqProperties DEF r
  <2> HIDE DEF r
  <2> QED BY <2>1, <1>1
<1>4. <<e>> \in Seq(S) /\ Len(<<e>>) = 1 /\ <<e>>[1] = e
  OBVIOUS
<1> DEFINE m == l \o <<e>>
<1>5. /\ m \in Seq(S) /\ Len(m) = i
      /\ \A j \in 1..i : m[j] = IF j <= i - 1 THEN s[j] ELSE e
  <2> HIDE DEF l
  <2>1. /\ m \in Seq(S) /\ Len(m) = Len(l) + Len(<<e>>)
        /\ \A j \in 1..(Len(l) + Len(<<e>>)) :
             m[j] = IF j <= Len(l) THEN l[j] ELSE <<e>>[j - Len(l)]
    BY <1>2, <1>4, ConcatProperties
  <2> HIDE DEF m
  <2>2. Len(l) + Len(<<e>>) = i
    BY <1>2, <1>4
  <2>3. \A j \in 1..i : m[j] = IF j <= i - 1 THEN s[j] ELSE e
    BY <2>1, <2>2, <1>2, <1>4
  <2> QED BY <2>1, <2>2, <2>3
<1>6. /\ m \o r \in Seq(S) /\ Len(m \o r) = Len(m) + Len(r)
      /\ \A j \in 1..(Len(m) + Len(r)) :
           (m \o r)[j] = IF j <= Len(m) THEN m[j] ELSE r[j - Len(m)]
  <2> HIDE DEF m, r
  <2> QED BY <1>3, <1>5, ConcatProperties
<1>7. InsertAt(s, i, e) = m \o r
  BY DEF InsertAt
<1> HIDE DEF l, m, r
<1>8. Len(m) + Len(r) = Len(s) + 1
  BY <1>5, <1>3, <1>1
<1>9. ASSUME NEW j \in 1..(Len(s) + 1)
      PROVE  (m \o r)[j] = IF j < i THEN s[j]
                           ELSE IF j = i THEN e ELSE s[j - 1]
  <2>1. CASE j <= i
    BY <2>1, <1>5, <1>6, <1>8, <1>1
  <2>2. CASE j > i
    <3>1. (m \o r)[j] = r[j - i]
      BY <2>2, <1>5, <1>6, <1>8, <1>1
    <3>2. j - i \in 1..(Len(s) - i + 1) /\ i + (j - i) - 1 = j - 1
      BY <2>2, <1>1
    <3>3. r[j - i] = s[i + (j - i) - 1]
      BY <3>2, <1>3
    <3> QED BY <3>1, <3>2, <3>3, <2>2, <1>1
  <2>3. j <= i \/ j > i
    BY <1>1
  <2> QED BY <2>1, <2>2, <2>3, Zenon
<1> QED BY <1>6, <1>7, <1>8, <1>9 DEF ShiftedIn

(* Removing shifts what stands after the position, and nothing else.       *)
LEMMA RemoveAtProperties ==
    ASSUME NEW S, NEW s \in Seq(S), NEW i \in 1..Len(s)
    PROVE  RemoveAt(s, i) \in Seq(S) /\ ShiftedOut(RemoveAt(s, i), s, i)
<1> DEFINE l == SubSeq(s, 1, i - 1)
           r == SubSeq(s, i + 1, Len(s))
<1>1. Len(s) \in Nat /\ \A j \in 1..Len(s) : s[j] \in S
  BY LenProperties, ElementOfSeq
<1>2. /\ l \in Seq(S) /\ Len(l) = i - 1
      /\ \A j \in 1..(i - 1) : l[j] = s[j]
  <2>1. /\ l \in Seq(S) /\ Len(l) = IF 1 <= i - 1 THEN (i - 1) - 1 + 1 ELSE 0
        /\ \A j \in 1..((i - 1) - 1 + 1) : l[j] = s[1 + j - 1]
    <3>1. \A j \in 1..(i - 1) : s[j] \in S
      BY <1>1
    <3>2. 1 \in Int /\ i - 1 \in Int
      OBVIOUS
    <3> HIDE DEF l
    <3> QED BY <3>1, <3>2, SubSeqProperties DEF l
  <2> HIDE DEF l
  <2> QED BY <2>1
<1>3. /\ r \in Seq(S) /\ Len(r) = Len(s) - i
      /\ \A j \in 1..(Len(s) - i) : r[j] = s[i + j]
  <2>1. /\ r \in Seq(S) /\ Len(r) = IF i + 1 <= Len(s) THEN Len(s) - (i + 1) + 1 ELSE 0
        /\ \A j \in 1..(Len(s) - (i + 1) + 1) : r[j] = s[(i + 1) + j - 1]
    <3>1. \A j \in (i + 1)..Len(s) : s[j] \in S
      BY <1>1
    <3>2. i + 1 \in Int /\ Len(s) \in Int
      BY <1>1
    <3> HIDE DEF r
    <3> QED BY <3>1, <3>2, SubSeqProperties DEF r
  <2> HIDE DEF r
  <2> QED BY <2>1, <1>1
<1>4. /\ l \o r \in Seq(S) /\ Len(l \o r) = Len(l) + Len(r)
      /\ \A j \in 1..(Len(l) + Len(r)) :
           (l \o r)[j] = IF j <= Len(l) THEN l[j] ELSE r[j - Len(l)]
  <2> HIDE DEF l, r
  <2> QED BY <1>2, <1>3, ConcatProperties
<1>5. RemoveAt(s, i) = l \o r
  BY DEF RemoveAt
<1> HIDE DEF l, r
<1>6. Len(l) + Len(r) = Len(s) - 1
  BY <1>2, <1>3, <1>1
<1>7. ASSUME NEW j \in 1..(Len(s) - 1)
      PROVE  (l \o r)[j] = IF j < i THEN s[j] ELSE s[j + 1]
  <2>1. CASE j < i
    BY <2>1, <1>2, <1>4, <1>6, <1>1
  <2>2. CASE j >= i
    <3>1. (l \o r)[j] = r[j - (i - 1)]
      BY <2>2, <1>2, <1>4, <1>6, <1>1
    <3>2. j - (i - 1) \in 1..(Len(s) - i) /\ i + (j - (i - 1)) = j + 1
      BY <2>2, <1>1
    <3>3. r[j - (i - 1)] = s[i + (j - (i - 1))]
      BY <3>2, <1>3
    <3> QED BY <3>1, <3>2, <3>3, <2>2, <1>1
  <2>3. j < i \/ j >= i
    BY <1>1
  <2> QED BY <2>1, <2>2, <2>3, Zenon
<1> QED BY <1>4, <1>5, <1>6, <1>7 DEF ShiftedOut

-----------------------------------------------------------------------------
(* Products grow with their factors.                                     *)
LEMMA TimesGrows ==
    ASSUME NEW a \in Nat, NEW b \in Nat, NEW c \in Nat, a <= b
    PROVE  c * a \in Nat /\ c * b \in Nat /\ c * a <= c * b
<1>1. PICK d \in Nat : b = a + d
  <2>1. b - a \in Nat /\ b = a + (b - a)
    OBVIOUS
  <2> QED BY <2>1
<1>2. c * b = c * a + c * d
  BY <1>1
<1>3. c * a \in Nat /\ c * d \in Nat
  OBVIOUS
<1> QED BY <1>2, <1>3

(* A set of natural numbers that is not empty has a least element.         *)
LEMMA LeastNumber ==
    ASSUME NEW S, S \subseteq Nat, S # {}
    PROVE  \E x \in S : \A y \in S : x <= y
<1> DEFINE R == {p \in Nat \X Nat : p[1] < p[2]}
<1>1. IsWellFoundedOn(R, Nat)
  BY NatLessThanWellFounded DEF OpToRel
<1>2. \E x \in S : \A y \in S : <<y, x>> \notin R
  <2> HIDE DEF R
  <2> QED BY <1>1, WFMin
<1>3. PICK x \in S : \A y \in S : <<y, x>> \notin R
  BY <1>2
<1>4. ASSUME NEW y \in S PROVE x <= y
  <2>1. x \in Nat /\ y \in Nat /\ <<y, x>> \notin R
    BY <1>3
  <2> QED BY <2>1
<1> QED BY <1>4

(* Induction: a set that has 0 and, with n, also n + 1 has every number.   *)
LEMMA SetInduction ==
    ASSUME NEW S, 0 \in S, \A n \in Nat : n \in S => n + 1 \in S
    PROVE  Nat \subseteq S
<1> SUFFICES ASSUME Nat \ S # {} PROVE FALSE
  OBVIOUS
<1>1. PICK x \in Nat \ S : \A y \in Nat \ S : x <= y
  <2>1. Nat \ S \subseteq Nat
    OBVIOUS
  <2> QED BY <2>1, LeastNumber
<1>2. x - 1 \in Nat /\ x - 1 < x
  BY <1>1
<1>3. x - 1 \in S
  BY <1>1, <1>2
<1> QED BY <1>1, <1>2, <1>3

StepsOf(S) == [Nat \X S -> S]

(* Recursion over the natural numbers: a function with the given first     *)
(* value and the given step exists.  (The step is a function, not an       *)
(* operator, so that the lemma can be instantiated.)                       *)
LEMMA RecursionExists ==
    ASSUME NEW S, NEW base \in S, NEW step \in StepsOf(S)
    PROVE  \E f \in [Nat -> S] : f[0] = base /\ \A n \in Nat : f[n + 1] = step[<<n, f[n]>>]
<1> USE DEF StepsOf
<1> DEFINE Upto(f, n) == f[0] = base /\ \A m \in Nat : m < n => f[m + 1] = step[<<m, f[m]>>]
           Done == {n \in Nat : \E f \in [Nat -> S] : Upto(f, n)}
           Same == {n \in Nat : \A f, g \in [Nat -> S] : Upto(f, n) /\ Upto(g, n) => f[n] = g[n]}
<1>1. 0 \in Done
  <2>1. [n \in Nat |-> base] \in [Nat -> S] /\ Upto([n \in Nat |-> base], 0)
    OBVIOUS
  <2> QED BY <2>1
<1>2. ASSUME NEW n \in Nat, n \in Done PROVE n + 1 \in Done
  <2>1. PICK f \in [Nat -> S] : Upto(f, n)
    BY <1>2
  <2> DEFINE g == [f EXCEPT ![n + 1] = step[<<n, f[n]>>]]
  <2>2. step[<<n, f[n]>>] \in S
    OBVIOUS
  <2>3. g \in [Nat -> S] /\ g[n + 1] = step[<<n, f[n]>>] /\ \A m \in Nat : m # n + 1 => g[m] = f[m]
    BY <2>2
  <2> HIDE DEF g
  <2>4. Upto(g, n + 1)
    <3>1. g[0] = base
      BY <2>1, <2>3
    <3>2. ASSUME NEW m \in Nat, m < n + 1 PROVE g[m + 1] = step[<<m, g[m]>>]
      <4>1. CASE m = n
        BY <4>1, <2>3
      <4>2. CASE m < n
        <5>1. g[m + 1] = f[m + 1] /\ g[m] = f[m]
          BY <4>2, <2>3
        <5> QED BY <5>1, <4>2, <2>1
      <4> QED BY <3>2, <4>1, <4>2
    <3> QED BY <3>1, <3>2
  <2> QED BY <2>3, <2>4
<1>3. Nat \subseteq Done
  <2> HIDE DEF Done
  <2> QED BY <1>1, <1>2, SetInduction
<1>4. 0 \in Same
  OBVIOUS
<1>5. ASSUME NEW n \in Nat, n \in Same PROVE n + 1 \in Same
  <2>1. ASSUME NEW f \in [Nat -> S], NEW g \in [Nat -> S], Upto(f, n + 1), Upto(g, n + 1)
        PROVE  f[n + 1] = g[n + 1]
    <3>1. Upto(f, n) /\ Upto(g, n)
      BY <2>1
    <3>2. f[n] = g[n]
      BY <1>5, <3>1
    <3>3. f[n + 1] = step[<<n, f[n]>>] /\ g[n + 1] = step[<<n, g[n]>>]
      <4>1. n < n + 1
        OBVIOUS
      <4> QED BY <2>1, <4>1
    <3> QED BY <3>2, <3>3
  <2> QED BY <2>1
<1>6. Nat \subseteq Same
  <2> HIDE DEF Same
  <2> QED BY <1>4, <1>5, SetInduction
<1> DEFINE Nth(n) == CHOOSE f \in [Nat -> S] : Upto(f, n)
           h == [n \in Nat |-> Nth(n)[n]]
<1>7. \A n \in Nat : Nth(n) \in [Nat -> S] /\ Upto(Nth(n), n)
  BY <1>3
<1> HIDE DEF Nth
<1>8. h \in [Nat -> S]
  BY <1>7
<1>9. h[0] = base
  <2>1. Nth(0)[0] = base
    BY <1>7, Zenon
  <2> QED BY <2>1
<1>10. ASSUME NEW n \in Nat PROVE h[n + 1] = step[<<n, h[n]>>]
  <2>1. Upto(Nth(n + 1), n) /\ Upto(Nth(n), n)
    BY <1>7
  <2>2. Nth(n + 1)[n] = Nth(n)[n]
    BY <1>6, <1>7, <2>1
  <2>3. Nth(n + 1)[n + 1] = step[<<n, Nth(n + 1)[n]>>]
    BY <1>7
  <2> QED BY <2>2, <2>3
<1> QED BY <1>8, <1>9, <1>10

FoldsOf(S, T) == [S \X T -> S]

(* The same along a sequence: the values that a fold of it passes through. *)
LEMMA FoldExists ==
    ASSUME NEW S, NEW T, NEW w \in Seq(T), NEW base \in S, NEW step \in FoldsOf(S, T)
    PROVE  \E f \in [0..Len(w) -> S] :
              f[0] = base /\ \A n \in 1..Len(w) : f[n] = step[<<f[n - 1], w[n]>>]
<1> USE DEF FoldsOf
<1>1. Len(w) \in Nat /\ \A n \in 1..Len(w) : w[n] \in T
  OBVIOUS
<1> DEFINE onward == [p \in Nat \X S |-> IF p[1] + 1 \in 1..Len(w) THEN step[<<p[2], w[p[1] + 1]>>] ELSE p[2]]
<1>2. onward \in [Nat \X S -> S]
  <2>1. ASSUME NEW p \in Nat \X S
        PROVE  (IF p[1] + 1 \in 1..Len(w) THEN step[<<p[2], w[p[1] + 1]>>] ELSE p[2]) \in S
    <3>1. p[2] \in S /\ p[1] \in Nat
      OBVIOUS
    <3>2. ASSUME p[1] + 1 \in 1..Len(w) PROVE step[<<p[2], w[p[1] + 1]>>] \in S
      <4>1. <<p[2], w[p[1] + 1]>> \in S \X T
        BY <1>1, <3>1, <3>2
      <4> QED BY <4>1
    <3> QED BY <3>1, <3>2, Zenon
  <2> QED BY <2>1
<1>3. PICK g \in [Nat -> S] : g[0] = base /\ \A n \in Nat : g[n + 1] = onward[<<n, g[n]>>]
  <2> HIDE DEF onward
  <2>1. onward \in StepsOf(S)
    BY <1>2 DEF StepsOf
  <2> QED BY <2>1, RecursionExists
<1> DEFINE f == [n \in 0..Len(w) |-> g[n]]
<1>4. f \in [0..Len(w) -> S] /\ f[0] = base
  <2>1. 0 \in 0..Len(w) /\ \A n \in 0..Len(w) : n \in Nat
    BY <1>1
  <2> QED BY <2>1, <1>3
<1>5. ASSUME NEW n \in 1..Len(w) PROVE f[n] = step[<<f[n - 1], w[n]>>]
  <2>1. n - 1 \in Nat /\ (n - 1) + 1 = n /\ n \in 0..Len(w) /\ n - 1 \in 0..Len(w)
    BY <1>1
  <2>2. g[n] = onward[<<n - 1, g[n - 1]>>] /\ g[n - 1] \in S
    <3> HIDE DEF onward
    <3> QED BY <2>1, <1>3
  <2>3. onward[<<n - 1, g[n - 1]>>] = step[<<g[n - 1], w[n]>>]
    BY <2>1, <2>2
  <2> QED BY <2>1, <2>2, <2>3
<1> QED BY <1>4, <1>5

MeasuredSteps(D, R) == [D \X [D -> R] -> R]

(* A step looks only at the values of members smaller than its own.        *)
LooksBelow(D, R, size, step) ==
    \A d \in D : \A f, g \in [D -> R] :
       (\A e \in D : size[e] < size[d] => f[e] = g[e]) => step[<<d, f>>] = step[<<d, g>>]

(* Recursion over a set whose members have sizes: a function exists each   *)
(* value of which is a step from the values at smaller members.            *)
LEMMA MeasuredRecursion ==
    ASSUME NEW D, NEW R, NEW base \in R, NEW size \in [D -> Nat], NEW step \in MeasuredSteps(D, R),
           LooksBelow(D, R, size, step)
    PROVE  \E f \in [D -> R] : \A d \in D : f[d] = step[<<d, f>>]
<1> USE DEF MeasuredSteps, LooksBelow
<1> DEFINE S == [D -> R]
           first == [d \in D |-> base]
           after(f) == [d \in D |-> step[<<d, f>>]]
           onward == [p \in Nat \X S |-> after(p[2])]
<1>1. first \in S /\ onward \in [Nat \X S -> S]
  <2>1. ASSUME NEW f \in [D -> R] PROVE after(f) \in [D -> R]
    OBVIOUS
  <2>2. \A p \in Nat \X S : after(p[2]) \in S
    <3> HIDE DEF after
    <3> QED BY <2>1
  <2>3. onward \in [Nat \X S -> S]
    <3> HIDE DEF S, after
    <3> QED BY <2>2
  <2> QED BY <2>3
<1>2. PICK g \in [Nat -> S] : g[0] = first /\ \A n \in Nat : g[n + 1] = onward[<<n, g[n]>>]
  <2> HIDE DEF S, first, onward
  <2>1. onward \in StepsOf(S)
    BY <1>1 DEF StepsOf
  <2> QED BY <1>1, <2>1, RecursionExists
<1>3. ASSUME NEW n \in Nat PROVE g[n] \in S /\ g[n + 1] = after(g[n])
  <2>1. g[n] \in S /\ g[n + 1] = onward[<<n, g[n]>>]
    <3> HIDE DEF S, onward
    <3> QED BY <1>2
  <2>2. onward[<<n, g[n]>>] = after(g[n])
    <3> HIDE DEF S, after
    <3>1. <<n, g[n]>> \in Nat \X S /\ <<n, g[n]>>[2] = g[n]
      BY <2>1
    <3> QED BY <3>1
  <2> HIDE DEF S, after, onward
  <2> QED BY <2>1, <2>2
<1>4. \A n \in Nat : \A d \in D : g[n + 1][d] = step[<<d, g[n]>>]
  <2> SUFFICES ASSUME NEW n \in Nat, NEW d \in D PROVE g[n + 1][d] = step[<<d, g[n]>>]
    OBVIOUS
  <2>1. g[n + 1] = after(g[n])
    <3> HIDE DEF after, S, onward
    <3> QED BY <1>3
  <2>2. after(g[n])[d] = step[<<d, g[n]>>]
    OBVIOUS
  <2> HIDE DEF after, S, onward
  <2> QED BY <2>1, <2>2
<1> HIDE DEF S
<1> DEFINE Still == {n \in Nat : \A d \in D : size[d] < n => g[n + 1][d] = g[n][d]}
<1>5. 0 \in Still
  OBVIOUS
<1>6. ASSUME NEW n \in Nat, n \in Still PROVE n + 1 \in Still
  <2> SUFFICES ASSUME NEW d \in D, size[d] < n + 1 PROVE g[n + 2][d] = g[n + 1][d]
    OBVIOUS
  <2>1. \A e \in D : size[e] < size[d] => g[n + 1][e] = g[n][e]
    BY <1>6
  <2>2. g[n + 1] \in [D -> R] /\ g[n] \in [D -> R]
    BY <1>3 DEF S
  <2>3. step[<<d, g[n + 1]>>] = step[<<d, g[n]>>]
    BY <2>1, <2>2
  <2>4. g[n + 2][d] = step[<<d, g[n + 1]>>] /\ g[n + 1][d] = step[<<d, g[n]>>]
    <3>1. n + 1 \in Nat /\ (n + 1) + 1 = n + 2
      OBVIOUS
    <3> QED BY <1>4, <3>1
  <2> QED BY <2>3, <2>4
<1>7. Nat \subseteq Still
  <2> HIDE DEF Still
  <2> QED BY <1>5, <1>6, SetInduction
<1> DEFINE f == [d \in D |-> g[size[d] + 1][d]]
           Settled == {n \in Nat : \A d \in D : size[d] < n => g[n][d] = f[d]}
<1>8. 0 \in Settled
  OBVIOUS
<1>9. ASSUME NEW n \in Nat, n \in Settled PROVE n + 1 \in Settled
  <2> SUFFICES ASSUME NEW d \in D, size[d] < n + 1 PROVE g[n + 1][d] = f[d]
    OBVIOUS
  <2>1. CASE size[d] < n
    BY <2>1, <1>7, <1>9
  <2>2. CASE size[d] = n
    BY <2>2
  <2> QED BY <2>1, <2>2
<1>10. Nat \subseteq Settled
  <2> HIDE DEF Settled
  <2> QED BY <1>8, <1>9, SetInduction
<1>11. f \in [D -> R]
  BY <1>3 DEF S
<1>12. ASSUME NEW d \in D PROVE f[d] = step[<<d, f>>]
  <2>1. g[size[d]] \in [D -> R]
    BY <1>3 DEF S
  <2>2. \A e \in D : size[e] < size[d] => g[size[d]][e] = f[e]
    BY <1>10
  <2>3. f[d] = step[<<d, g[size[d]]>>]
    BY <1>4
  <2> HIDE DEF f
  <2> QED BY <1>11, <2>1, <2>2, <2>3
<1> QED BY <1>11, <1>12

-----------------------------------------------------------------------------
Answers(ks) == [idx : 0..Len(ks), found : BOOLEAN]

(* What the loop returns from bounds b, when f is what it returns later.   *)
FromBounds(ks, k, b, f) ==
    LET mid == (b[1] + b[2]) \div 2
    IN  IF b[1] > b[2] THEN [idx |-> b[1], found |-> FALSE]
        ELSE IF k = ks[mid + 1] THEN [idx |-> mid, found |-> TRUE]
        ELSE IF k < ks[mid + 1] THEN f[<<b[1], mid - 1>>]
        ELSE f[<<mid + 1, b[2]>>]

(* f gives, for all bounds, what the loop returns from there.              *)
IsLoop(ks, k, f) ==
    /\ f \in [Bounds(ks) -> Answers(ks)]
    /\ \A b \in Bounds(ks) : f[b] = FromBounds(ks, k, b, f)

(* The number of cells between bounds.                                     *)
Span(b) == IF b[1] > b[2] THEN 0 ELSE b[2] - b[1] + 1

(* Each pass leaves fewer cells to search.                                 *)
LEMMA BoundsShrink ==
    ASSUME NEW ks \in Seq(Int), NEW b \in Bounds(ks)
    PROVE  /\ Span(b) \in Nat
           /\ b[1] \in 0..Len(ks) /\ b[2] \in -1..(Len(ks) - 1) /\ b = <<b[1], b[2]>>
           /\ b[1] <= b[2] =>
                /\ ((b[1] + b[2]) \div 2) \in 0..(Len(ks) - 1)
                /\ <<b[1], ((b[1] + b[2]) \div 2) - 1>> \in Bounds(ks)
                /\ <<((b[1] + b[2]) \div 2) + 1, b[2]>> \in Bounds(ks)
                /\ Span(<<b[1], ((b[1] + b[2]) \div 2) - 1>>) < Span(b)
                /\ Span(<<((b[1] + b[2]) \div 2) + 1, b[2]>>) < Span(b)
<1>1. Len(ks) \in Nat
  OBVIOUS
<1>2. b[1] \in 0..Len(ks) /\ b[2] \in -1..(Len(ks) - 1) /\ b = <<b[1], b[2]>>
  BY DEF Bounds
<1>3. ASSUME NEW l \in 0..Len(ks), NEW h \in -1..(Len(ks) - 1), NEW mid, mid = (l + h) \div 2, l <= h
      PROVE  /\ mid \in 0..(Len(ks) - 1) /\ l <= mid /\ mid <= h
             /\ <<l, mid - 1>> \in Bounds(ks)
             /\ <<mid + 1, h>> \in Bounds(ks)
             /\ Span(<<l, mid - 1>>) < Span(<<l, h>>)
             /\ Span(<<mid + 1, h>>) < Span(<<l, h>>)
  <2>1. mid \in 0..(Len(ks) - 1) /\ l <= mid /\ mid <= h
    BY <1>1, <1>3
  <2>2. <<l, mid - 1>> \in Bounds(ks) /\ <<mid + 1, h>> \in Bounds(ks)
    BY <1>1, <2>1 DEF Bounds
  <2>3. Span(<<l, mid - 1>>) < Span(<<l, h>>) /\ Span(<<mid + 1, h>>) < Span(<<l, h>>)
    BY <1>1, <1>3, <2>1 DEF Span
  <2> QED BY <2>1, <2>2, <2>3
<1>4. Span(b) \in Nat
  BY <1>1, <1>2 DEF Span
<1>5. ASSUME b[1] <= b[2]
      PROVE  /\ ((b[1] + b[2]) \div 2) \in 0..(Len(ks) - 1)
             /\ <<b[1], ((b[1] + b[2]) \div 2) - 1>> \in Bounds(ks)
             /\ <<((b[1] + b[2]) \div 2) + 1, b[2]>> \in Bounds(ks)
             /\ Span(<<b[1], ((b[1] + b[2]) \div 2) - 1>>) < Span(<<b[1], b[2]>>)
             /\ Span(<<((b[1] + b[2]) \div 2) + 1, b[2]>>) < Span(<<b[1], b[2]>>)
  BY <1>2, <1>3, <1>5
<1> QED BY <1>2, <1>4, <1>5

(* Search is what a function that follows the loop gives for a whole page. *)
LEMMA SearchIsRecursive ==
    ASSUME NEW ks \in Seq(Int), NEW k \in Int
    PROVE  \E f : IsLoop(ks, k, f) /\ Search(ks, k) = f[<<0, Len(ks) - 1>>]
<1> DEFINE D == Bounds(ks)
           R == Answers(ks)
           step == [x \in D \X [D -> R] |-> FromBounds(ks, k, x[1], x[2])]
           base == [idx |-> 0, found |-> FALSE]
           size == [b \in D |-> Span(b)]
<1>1. Len(ks) \in Nat /\ \A i \in 1..Len(ks) : ks[i] \in Int
  OBVIOUS
<1>0. ASSUME NEW b \in Bounds(ks)
      PROVE  /\ Span(b) \in Nat /\ b[1] \in Int /\ b[2] \in Int /\ b[1] \in 0..Len(ks)
             /\ b[1] <= b[2] => ((b[1] + b[2]) \div 2) \in 0..(Len(ks) - 1)
  <2>1. /\ Span(b) \in Nat /\ b[1] \in 0..Len(ks) /\ b[2] \in -1..(Len(ks) - 1)
        /\ b[1] <= b[2] => ((b[1] + b[2]) \div 2) \in 0..(Len(ks) - 1)
    BY BoundsShrink
  <2> QED BY <1>1, <2>1
<1>2. base \in R
  BY <1>1 DEF Answers
<1>3. size \in [D -> Nat]
  BY BoundsShrink
<1>4. ASSUME NEW b \in D, NEW f \in [D -> R]
      PROVE  FromBounds(ks, k, b, f) \in R
  <2>1. ASSUME b[1] <= b[2]
        PROVE  /\ f[<<b[1], ((b[1] + b[2]) \div 2) - 1>>] \in R
               /\ f[<<((b[1] + b[2]) \div 2) + 1, b[2]>>] \in R
    <3>1. /\ <<b[1], ((b[1] + b[2]) \div 2) - 1>> \in D
          /\ <<((b[1] + b[2]) \div 2) + 1, b[2]>> \in D
      BY <2>1, BoundsShrink
    <3> HIDE DEF D, R
    <3> QED BY <3>1
  <2>2. b[1] > b[2] => [idx |-> b[1], found |-> FALSE] \in R
    BY <1>0 DEF Answers
  <2>3. b[1] <= b[2] => [idx |-> (b[1] + b[2]) \div 2, found |-> TRUE] \in R
    BY <1>0 DEF Answers
  <2>4. b[1] \in Int /\ b[2] \in Int
    BY <1>0
  <2> HIDE DEF R, D
  <2> QED BY <2>1, <2>2, <2>3, <2>4 DEF FromBounds
<1>5. step \in MeasuredSteps(D, R)
  BY <1>4 DEF MeasuredSteps
<1>6. ASSUME NEW b \in D, NEW f \in [D -> R], NEW g \in [D -> R],
             \A e \in D : size[e] < size[b] => f[e] = g[e]
      PROVE  step[<<b, f>>] = step[<<b, g>>]
  <2>1. FromBounds(ks, k, b, f) = FromBounds(ks, k, b, g)
    <3>1. \A e \in D : Span(e) < Span(b) => f[e] = g[e]
      BY <1>6
    <3>2. ASSUME b[1] <= b[2]
          PROVE  /\ f[<<b[1], ((b[1] + b[2]) \div 2) - 1>>] = g[<<b[1], ((b[1] + b[2]) \div 2) - 1>>]
                 /\ f[<<((b[1] + b[2]) \div 2) + 1, b[2]>>] = g[<<((b[1] + b[2]) \div 2) + 1, b[2]>>]
      <4>1. /\ <<b[1], ((b[1] + b[2]) \div 2) - 1>> \in D
            /\ <<((b[1] + b[2]) \div 2) + 1, b[2]>> \in D
            /\ Span(<<b[1], ((b[1] + b[2]) \div 2) - 1>>) < Span(b)
            /\ Span(<<((b[1] + b[2]) \div 2) + 1, b[2]>>) < Span(b)
        BY <3>2, BoundsShrink
      <4> HIDE DEF D, R, size
      <4> QED BY <3>1, <4>1
    <3>3. b[1] \in Int /\ b[2] \in Int
      BY <1>0
    <3> HIDE DEF D, R, size
    <3> QED BY <3>2, <3>3 DEF FromBounds
  <2> QED BY <2>1
<1>7. PICK f \in [D -> R] : \A b \in D : f[b] = step[<<b, f>>]
  <2>1. LooksBelow(D, R, size, step)
    <3> HIDE DEF D, R, size, step
    <3> QED BY <1>6 DEF LooksBelow
  <2> HIDE DEF D, R, base, size, step
  <2> QED BY <2>1, <1>2, <1>3, <1>5, MeasuredRecursion
<1>8. IsLoop(ks, k, f)
  BY <1>7 DEF IsLoop
<1> DEFINE IsIt(g) == g = [b \in Bounds(ks) |-> FromBounds(ks, k, b, g)]
           it == CHOOSE g : IsIt(g)
<1>9. IsIt(it)
  <2>1. f \in [Bounds(ks) -> Answers(ks)] /\ \A b \in Bounds(ks) : f[b] = FromBounds(ks, k, b, f)
    BY <1>8 DEF IsLoop
  <2>2. IsIt(f)
    BY <2>1
  <2> HIDE DEF IsIt
  <2> QED BY <2>2
<1>10. Search(ks, k) = it[<<0, Len(ks) - 1>>]
  BY DEF Search, FromBounds
<1>11. \A b \in Bounds(ks) : it[b] = FromBounds(ks, k, b, it)
  <2> HIDE DEF it
  <2> QED BY <1>9
<1> HIDE DEF it, IsIt, step, size, base
<1> DEFINE Known == {n \in Nat : \A b \in D : Span(b) < n => it[b] \in R}
<1>12. 0 \in Known
  BY <1>0
<1>13. ASSUME NEW n \in Nat, n \in Known PROVE n + 1 \in Known
  <2> SUFFICES ASSUME NEW b \in D, Span(b) < n + 1 PROVE it[b] \in R
    OBVIOUS
  <2>1. Span(b) \in Nat /\ b[1] \in Int /\ b[2] \in Int
    BY <1>0
  <2>2. ASSUME b[1] <= b[2]
        PROVE  /\ it[<<b[1], ((b[1] + b[2]) \div 2) - 1>>] \in R
               /\ it[<<((b[1] + b[2]) \div 2) + 1, b[2]>>] \in R
    <3>1. /\ <<b[1], ((b[1] + b[2]) \div 2) - 1>> \in D
          /\ <<((b[1] + b[2]) \div 2) + 1, b[2]>> \in D
          /\ Span(<<b[1], ((b[1] + b[2]) \div 2) - 1>>) < Span(b)
          /\ Span(<<((b[1] + b[2]) \div 2) + 1, b[2]>>) < Span(b)
      BY <2>2, BoundsShrink
    <3>2. \A e \in D : Span(e) \in Nat
      BY BoundsShrink
    <3> HIDE DEF D, R
    <3> QED BY <1>13, <2>1, <3>1, <3>2
  <2>3. it[b] = FromBounds(ks, k, b, it)
    BY <1>11
  <2>4. b[1] > b[2] => [idx |-> b[1], found |-> FALSE] \in R
    BY <1>0 DEF Answers
  <2>5. b[1] <= b[2] => [idx |-> (b[1] + b[2]) \div 2, found |-> TRUE] \in R
    BY <1>0 DEF Answers
  <2> HIDE DEF R, D
  <2> QED BY <2>1, <2>2, <2>3, <2>4, <2>5 DEF FromBounds
<1>14. Nat \subseteq Known
  <2> HIDE DEF Known
  <2> QED BY <1>12, <1>13, SetInduction
<1>15. \A b \in D : it[b] \in R
  <2> SUFFICES ASSUME NEW b \in D PROVE it[b] \in R
    OBVIOUS
  <2>1. Span(b) \in Nat /\ Span(b) + 1 \in Nat /\ Span(b) < Span(b) + 1
    BY <1>0
  <2> QED BY <1>14, <2>1
<1>16. it = [b \in Bounds(ks) |-> FromBounds(ks, k, b, it)]
  BY <1>9 DEF IsIt
<1>17. IsLoop(ks, k, it)
  BY <1>11, <1>15, <1>16 DEF IsLoop
<1> QED BY <1>10, <1>17

Ascends(ks) == \A i, j \in 1..Len(ks) : i < j => ks[i] < ks[j]

(* All cells before the bounds are smaller than the key, all after greater. *)
Encloses(ks, k, b) ==
    /\ b[1] <= b[2] + 1
    /\ \A i \in 1..Len(ks) : i <= b[1] => ks[i] < k
    /\ \A i \in 1..Len(ks) : i > b[2] + 1 => k < ks[i]

(* An index of the page or the end of it, and of the key if it was found.  *)
IsAnswer(ks, k, a) ==
    /\ a.idx \in 0..Len(ks) /\ a.found \in BOOLEAN
    /\ a.found => a.idx < Len(ks) /\ ks[a.idx + 1] = k

(* If it was not found, the index is where it belongs.                     *)
IsPlace(ks, k, a) ==
    ~a.found => \A i \in 1..Len(ks) : (i <= a.idx => ks[i] < k) /\ (i > a.idx => k < ks[i])

(* By induction on the number of cells left to search.                     *)
LEMMA LoopAnswers ==
    ASSUME NEW ks \in Seq(Int), NEW k \in Int, NEW f, IsLoop(ks, k, f), NEW d \in Bounds(ks)
    PROVE  IsAnswer(ks, k, f[d]) /\ (Ascends(ks) /\ Encloses(ks, k, d) => IsPlace(ks, k, f[d]))
<1> DEFINE Right(b) == IsAnswer(ks, k, f[b]) /\ (Ascends(ks) /\ Encloses(ks, k, b) => IsPlace(ks, k, f[b]))
           Known == {n \in Nat : \A b \in Bounds(ks) : Span(b) < n => Right(b)}
<1>1. Len(ks) \in Nat /\ \A i \in 1..Len(ks) : ks[i] \in Int
  OBVIOUS
<1>2. ASSUME NEW b \in Bounds(ks) PROVE Span(b) \in Nat
  BY BoundsShrink
<1>3. 0 \in Known
  BY <1>2
<1>4. ASSUME NEW n \in Nat, n \in Known PROVE n + 1 \in Known
  <2> SUFFICES ASSUME NEW b \in Bounds(ks), Span(b) < n + 1 PROVE Right(b)
    OBVIOUS
  <2> HIDE DEF Right
  <2> DEFINE mid == (b[1] + b[2]) \div 2
             left == <<b[1], mid - 1>>
             right == <<mid + 1, b[2]>>
  <2>1. b[1] \in 0..Len(ks) /\ b[2] \in -1..(Len(ks) - 1) /\ b = <<b[1], b[2]>>
    BY BoundsShrink
  <2>2. f[b] = FromBounds(ks, k, b, f)
    BY DEF IsLoop
  <2>3. CASE b[1] > b[2]
    <3>1. f[b] = [idx |-> b[1], found |-> FALSE]
      BY <2>2, <2>3 DEF FromBounds
    <3>2. f[b].idx = b[1] /\ f[b].found = FALSE
      BY <3>1
    <3>3. IsAnswer(ks, k, f[b])
      BY <2>1, <3>2 DEF IsAnswer
    <3>4. ASSUME Encloses(ks, k, b) PROVE IsPlace(ks, k, f[b])
      <4>1. b[1] = b[2] + 1
        BY <1>1, <2>1, <2>3, <3>4 DEF Encloses
      <4> QED BY <1>1, <2>1, <3>2, <3>4, <4>1 DEF Encloses, IsPlace
    <3> QED BY <3>3, <3>4 DEF Right
  <2>4. CASE b[1] <= b[2]
    <3>1. /\ mid \in 0..(Len(ks) - 1) /\ left \in Bounds(ks) /\ right \in Bounds(ks)
          /\ Span(left) < Span(b) /\ Span(right) < Span(b)
      BY <2>4, BoundsShrink
    <3>2. Right(left) /\ Right(right)
      <4>1. Span(left) \in Nat /\ Span(right) \in Nat /\ Span(b) \in Nat
        BY <1>2, <3>1
      <4> HIDE DEF left, right
      <4> QED BY <1>4, <3>1, <4>1
    <3>3. b[1] <= mid /\ mid <= b[2] /\ mid + 1 \in 1..Len(ks) /\ mid \in Int
      BY <1>1, <2>1, <2>4
    <3>7. ks[mid + 1] \in Int
      BY <1>1, <3>3
    <3>4. CASE k = ks[mid + 1]
      <4>1. f[b] = [idx |-> mid, found |-> TRUE]
        BY <1>1, <2>1, <2>2, <2>4, <3>4 DEF FromBounds
      <4> HIDE DEF mid
      <4>2. f[b].idx = mid /\ f[b].found = TRUE
        BY <4>1
      <4>3. mid \in 0..Len(ks) /\ mid < Len(ks)
        BY <1>1, <3>3
      <4>4. IsAnswer(ks, k, f[b])
        BY <3>4, <4>2, <4>3 DEF IsAnswer
      <4>5. IsPlace(ks, k, f[b])
        BY <4>2 DEF IsPlace
      <4> QED BY <4>4, <4>5 DEF Right
    <3>5. CASE k < ks[mid + 1]
      <4>1. f[b] = f[left]
        BY <1>1, <2>1, <2>2, <2>4, <3>5, <3>7 DEF FromBounds
      <4>2. ASSUME Ascends(ks), Encloses(ks, k, b) PROVE Encloses(ks, k, left)
        <5>1. left[1] = b[1] /\ left[2] = mid - 1
          OBVIOUS
        <5> HIDE DEF left, mid
        <5>2. ASSUME NEW i \in 1..Len(ks), i > left[2] + 1 PROVE k < ks[i]
          <6>1. i = mid + 1 \/ mid + 1 < i
            BY <1>1, <3>3, <5>1, <5>2
          <6>2. ks[mid + 1] <= ks[i]
            BY <1>1, <3>3, <4>2, <6>1 DEF Ascends
          <6> QED BY <1>1, <3>3, <3>5, <6>2
        <5> QED BY <2>1, <3>3, <4>2, <5>1, <5>2 DEF Encloses
      <4> HIDE DEF left
      <4> QED BY <3>2, <4>1, <4>2 DEF Right
    <3>6. CASE k > ks[mid + 1]
      <4>1. f[b] = f[right]
        BY <1>1, <2>1, <2>2, <2>4, <3>6, <3>7 DEF FromBounds
      <4>2. ASSUME Ascends(ks), Encloses(ks, k, b) PROVE Encloses(ks, k, right)
        <5>1. right[1] = mid + 1 /\ right[2] = b[2]
          OBVIOUS
        <5> HIDE DEF right, mid
        <5>2. ASSUME NEW i \in 1..Len(ks), i <= right[1] PROVE ks[i] < k
          <6>1. i = mid + 1 \/ i < mid + 1
            BY <1>1, <3>3, <5>1, <5>2
          <6>2. ks[i] <= ks[mid + 1]
            BY <1>1, <3>3, <4>2, <6>1 DEF Ascends
          <6> QED BY <1>1, <3>3, <3>6, <6>2
        <5> QED BY <2>1, <3>3, <4>2, <5>1, <5>2 DEF Encloses
      <4> HIDE DEF right
      <4> QED BY <3>2, <4>1, <4>2 DEF Right
    <3> HIDE DEF mid
    <3> QED BY <3>4, <3>5, <3>6, <3>7
  <2> QED BY <2>1, <2>3, <2>4
<1>5. Nat \subseteq Known
  <2> HIDE DEF Known
  <2> QED BY <1>3, <1>4, SetInduction
<1>6. Span(d) \in Nat /\ Span(d) + 1 \in Nat /\ Span(d) < Span(d) + 1
  BY <1>2
<1>7. Right(d)
  <2> HIDE DEF Right
  <2> QED BY <1>5, <1>6
<1> QED BY <1>7

(* The search of a page returns a place on it, with the key when it says   *)
(* that it was found; on a sorted page that is where the key belongs.      *)
LEMMA SearchAnswers ==
    ASSUME NEW ks \in Seq(Int), NEW k \in Int
    PROVE  IsAnswer(ks, k, Search(ks, k)) /\ (Ascends(ks) => IsPlace(ks, k, Search(ks, k)))
<1>1. PICK f : IsLoop(ks, k, f) /\ Search(ks, k) = f[<<0, Len(ks) - 1>>]
  BY SearchIsRecursive
<1>2. Len(ks) \in Nat
  OBVIOUS
<1> DEFINE b == <<0, Len(ks) - 1>>
<1>3. b \in Bounds(ks)
  BY <1>2 DEF Bounds
<1>4. Encloses(ks, k, b)
  BY <1>2 DEF Encloses
<1>5. IsAnswer(ks, k, f[b]) /\ (Ascends(ks) /\ Encloses(ks, k, b) => IsPlace(ks, k, f[b]))
  <2> HIDE DEF b
  <2> QED BY <1>1, <1>3, LoopAnswers
<1> QED BY <1>1, <1>4, <1>5

-----------------------------------------------------------------------------
(* A sequence that is not empty: its last member and those before it.      *)
LEMMA TopFrame ==
    ASSUME NEW S, NEW s \in Seq(S), s # << >>
    PROVE  Last(s) \in S /\ Front(s) \in Seq(S) /\ Len(Front(s)) = Len(s) - 1
           /\ Len(s) \in Nat \ {0} /\ s = Append(Front(s), Last(s))
<1>1. Len(s) \in Nat \ {0}
  BY EmptySeq
<1>2. Last(s) = s[Len(s)] /\ Last(s) \in S
  BY <1>1 DEF Last
<1>3. /\ Front(s) \in Seq(S) /\ Len(Front(s)) = Len(s) - 1
      /\ \A i \in 1..(Len(s) - 1) : Front(s)[i] = s[i]
  <2> DEFINE n == Len(s) - 1
  <2>1. n \in Nat /\ n <= Len(s) /\ 1 \in 1..(Len(s) + 1) /\ n \in 0..Len(s)
    BY <1>1
  <2>2. /\ SubSeq(s, 1, n) \in Seq(S) /\ Len(SubSeq(s, 1, n)) = n
        /\ \A i \in 1..n : SubSeq(s, 1, n)[i] = s[i]
    <3> HIDE DEF n
    <3> QED BY <2>1
  <2> QED BY <2>2 DEF Front
<1>4. s = Append(Front(s), Last(s))
  <2> DEFINE a == Append(Front(s), Last(s))
  <2>1. /\ a \in Seq(S) /\ Len(a) = Len(s) /\ a[Len(s)] = s[Len(s)]
        /\ \A i \in 1..(Len(s) - 1) : a[i] = Front(s)[i]
    BY <1>1, <1>2, <1>3, AppendProperties
  <2> HIDE DEF a
  <2>2. ASSUME NEW i \in 1..Len(a) PROVE a[i] = s[i]
    <3>1. i = Len(s) \/ i \in 1..(Len(s) - 1)
      BY <1>1, <2>1
    <3> QED BY <1>3, <2>1, <3>1
  <2>3. a = s
    BY <2>1, <2>2, SeqEqual
  <2> QED BY <2>3 DEF a
<1> QED BY <1>1, <1>2, <1>3, <1>4

(* What is appended comes last.                                            *)
LEMMA Appended ==
    ASSUME NEW S, NEW r \in Seq(S), NEW f \in S
    PROVE  /\ Append(r, f) \in Seq(S) /\ Append(r, f) # << >>
           /\ Last(Append(r, f)) = f /\ Front(Append(r, f)) = r
<1>1. /\ Append(r, f) \in Seq(S) /\ Len(Append(r, f)) = Len(r) + 1 /\ Len(r) \in Nat
      /\ Append(r, f)[Len(r) + 1] = f
      /\ \A i \in 1..Len(r) : Append(r, f)[i] = r[i]
  OBVIOUS
<1>2. Append(r, f) # << >>
  BY <1>1
<1>3. Last(Append(r, f)) = f
  BY <1>1 DEF Last
<1>4. Front(Append(r, f)) = r
  <2> DEFINE a == Append(r, f)
             b == Append(Front(a), Last(a))
  <2>1. Last(a) \in S /\ Front(a) \in Seq(S) /\ a = b
    BY <1>1, <1>2, TopFrame
  <2>2. Append(r, f) = Append(Front(a), Last(a))
    BY <2>1
  <2> HIDE DEF a
  <2> QED BY <2>1, <2>2, AppendInjective DEF a
<1> QED BY <1>1, <1>2, <1>3, <1>4

(* The members of a set from which finitely many steps lead to a stop, and *)
(* how many.                                                               *)
LEMMA StepsToStop ==
    ASSUME NEW D, NEW nxt \in [D -> D], NEW stop \in D, nxt[stop] = stop
    PROVE  \E E \in SUBSET D, size \in [D -> Nat] :
              /\ stop \in E
              /\ \A s \in D : s \in E <=> nxt[s] \in E
              /\ \A s \in E : s # stop => size[nxt[s]] < size[s]
<1> DEFINE S == SUBSET D
           base == {stop}
           step == [x \in Nat \X S |-> {s \in D : nxt[s] \in x[2]}]
<1>1. base \in S /\ step \in StepsOf(S)
  BY DEF StepsOf
<1>2. PICK T \in [Nat -> S] : T[0] = base /\ \A n \in Nat : T[n + 1] = step[<<n, T[n]>>]
  <2> HIDE DEF S, base, step
  <2> QED BY <1>1, RecursionExists
<1>3. T[0] = {stop} /\ \A n \in Nat : \A s \in D : s \in T[n + 1] <=> nxt[s] \in T[n]
  BY <1>2
<1> DEFINE E == {s \in D : \E n \in Nat : s \in T[n]}
           Nums(s) == {n \in Nat : s \in T[n]}
           Least(s) == CHOOSE n \in Nums(s) : \A m \in Nums(s) : n <= m
           size == [s \in D |-> IF s \in E THEN Least(s) ELSE 0]
<1> HIDE DEF S, base, step
<1>4. stop \in E
  BY <1>3
<1>5. ASSUME NEW s \in D PROVE s \in E <=> nxt[s] \in E
  <2>1. nxt[s] \in D
    OBVIOUS
  <2>2. ASSUME nxt[s] \in E PROVE s \in E
    BY <1>3, <2>2
  <2>3. ASSUME s \in E PROVE nxt[s] \in E
    <3>1. PICK n \in Nat : s \in T[n]
      BY <2>3
    <3>2. CASE n = 0
      BY <1>3, <1>4, <3>1, <3>2
    <3>3. CASE n # 0
      <4>1. n - 1 \in Nat /\ (n - 1) + 1 = n
        BY <3>3
      <4>2. nxt[s] \in T[n - 1]
        BY <1>3, <3>1, <4>1
      <4> QED BY <2>1, <4>1, <4>2
    <3> QED BY <3>2, <3>3
  <2> QED BY <2>2, <2>3
<1>6. ASSUME NEW s \in E PROVE Least(s) \in Nums(s) /\ \A m \in Nums(s) : Least(s) <= m
  <2>1. Nums(s) \subseteq Nat /\ Nums(s) # {}
    OBVIOUS
  <2>2. \E n \in Nums(s) : \A m \in Nums(s) : n <= m
    <3> HIDE DEF Nums
    <3> QED BY <2>1, LeastNumber
  <2> HIDE DEF Nums
  <2> QED BY <2>2
<1>7. size \in [D -> Nat]
  <2>1. ASSUME NEW s \in E PROVE Least(s) \in Nat
    <3>1. Nums(s) \subseteq Nat
      OBVIOUS
    <3> HIDE DEF Nums, Least
    <3> QED BY <1>6, <3>1
  <2> HIDE DEF Least, E
  <2> QED BY <2>1
<1>8. ASSUME NEW s \in E, s # stop PROVE size[nxt[s]] < size[s]
  <2>1. s \in D /\ nxt[s] \in D /\ nxt[s] \in E
    BY <1>5
  <2>2. size[s] = Least(s) /\ size[nxt[s]] = Least(nxt[s])
    <3> HIDE DEF Least, E
    <3> QED BY <2>1
  <2>3. Least(s) \in Nat /\ s \in T[Least(s)]
    <3> HIDE DEF Least
    <3> QED BY <1>6
  <2>4. Least(s) # 0
    <3> HIDE DEF Least
    <3> QED BY <1>3, <1>8, <2>3
  <2>5. Least(s) - 1 \in Nat /\ (Least(s) - 1) + 1 = Least(s) /\ Least(s) - 1 < Least(s)
    <3> HIDE DEF Least
    <3> QED BY <2>3, <2>4
  <2>6. nxt[s] \in T[Least(s) - 1]
    <3> HIDE DEF Least
    <3> QED BY <1>3, <2>1, <2>3, <2>5
  <2>7. Least(s) - 1 \in Nums(nxt[s])
    <3> HIDE DEF Least
    <3> QED BY <2>5, <2>6
  <2>8. Least(nxt[s]) <= Least(s) - 1
    <3> HIDE DEF Least, Nums, E
    <3> QED BY <1>6, <2>1, <2>7
  <2>9. Least(nxt[s]) \in Nat
    <3>1. Least(nxt[s]) \in Nums(nxt[s])
      <4> HIDE DEF Least, Nums, E
      <4> QED BY <1>6, <2>1
    <3> HIDE DEF Least
    <3> QED BY <3>1
  <2> HIDE DEF Least, size
  <2> QED BY <2>2, <2>3, <2>5, <2>8, <2>9
<1> HIDE DEF size
<1>9. E \in SUBSET D
  OBVIOUS
<1> HIDE DEF E
<1> QED BY <1>4, <1>5, <1>7, <1>8, <1>9
=============================================================================
