----------------------------- MODULE PagerProofs -----------------------------
(***************************************************************************)
(* The page cache keeps one entry for a page and keeps to its capacity, in *)
(* every interleaving of any number of goroutines, for every capacity.     *)
(***************************************************************************)
EXTENDS Pager, ListLemmas, FiniteSetTheorems

(* A cache is a sequence of entries of some kind, bounded, no page twice.  *)
SoundCache(c) == (\E S : c \in Seq(S)) /\ IsCache(c, Cap)

Limit == IF Cap > 0 THEN Cap ELSE 1

(* No page twice; no entry of page id; nothing that c does not have.       *)
Unique(c) == \A k, l \in DOMAIN c : c[k].id = c[l].id => k = l
Lacks(c, id) == \A k \in DOMAIN c : c[k].id # id
Among(d, c) == \A k \in DOMAIN d : \E l \in DOMAIN c : d[k] = c[l]

LEMMA CapFacts == Cap \in Nat /\ Limit \in Nat /\ Limit >= 1
  BY PagerAssumption DEF Limit

(* The list d is c with e put before it.                                   *)
Fronted(d, c, e) ==
    /\ Len(d) = Len(c) + 1 /\ d[1] = e
    /\ \A j \in 2..(Len(c) + 1) : d[j] = c[j - 1]

LEMMA PutFrontProperties ==
    ASSUME NEW S, NEW c \in Seq(S), NEW e \in S
    PROVE  PutFront(c, e) \in Seq(S) /\ Fronted(PutFront(c, e), c, e)
<1>1. <<e>> \in Seq(S) /\ Len(<<e>>) = 1 /\ <<e>>[1] = e /\ Len(c) \in Nat
  BY LenProperties
<1> DEFINE p == <<e>> \o c
<1>2. /\ p \in Seq(S) /\ Len(p) = Len(<<e>>) + Len(c)
      /\ \A j \in 1..(Len(<<e>>) + Len(c)) :
           p[j] = IF j <= Len(<<e>>) THEN <<e>>[j] ELSE c[j - Len(<<e>>)]
  BY <1>1, ConcatProperties
<1> HIDE DEF p
<1>3. Len(p) = Len(c) + 1 /\ p[1] = e
  BY <1>1, <1>2
<1>4. \A j \in 2..(Len(c) + 1) : p[j] = c[j - 1]
  BY <1>1, <1>2
<1> QED BY <1>2, <1>3, <1>4 DEF PutFront, Fronted, p

(* Dropping an entry leaves a sound cache without the page of that entry.  *)
LEMMA RemoveKeepsUnique ==
    ASSUME NEW S, NEW c \in Seq(S), NEW i \in 1..Len(c), Unique(c)
    PROVE  /\ RemoveAt(c, i) \in Seq(S) /\ Len(RemoveAt(c, i)) = Len(c) - 1
           /\ Unique(RemoveAt(c, i)) /\ Lacks(RemoveAt(c, i), c[i].id)
           /\ Among(RemoveAt(c, i), c)
<1> DEFINE d == RemoveAt(c, i)
<1>1. d \in Seq(S) /\ ShiftedOut(d, c, i)
  BY RemoveAtProperties
<1> HIDE DEF d
<1>2. Len(c) \in Nat /\ DOMAIN c = 1..Len(c) /\ DOMAIN d = 1..(Len(c) - 1)
  BY <1>1, LenProperties DEF ShiftedOut
<1>3. \A j \in DOMAIN d : j \in 1..(Len(c) - 1) /\ j \in 1..Len(c) /\ j + 1 \in 1..Len(c)
  BY <1>2
<1>4. \A j \in DOMAIN d : d[j] = IF j < i THEN c[j] ELSE c[j + 1]
  BY <1>1, <1>2 DEF ShiftedOut
<1>5. ASSUME NEW k \in DOMAIN d, NEW l \in DOMAIN d, d[k].id = d[l].id
      PROVE  k = l
  BY <1>2, <1>3, <1>4, <1>5 DEF Unique
<1>6. ASSUME NEW k \in DOMAIN d PROVE d[k].id # c[i].id
  BY <1>2, <1>3, <1>4 DEF Unique
<1>7. ASSUME NEW k \in DOMAIN d PROVE \E l \in DOMAIN c : d[k] = c[l]
  BY <1>2, <1>3, <1>4
<1> QED BY <1>1, <1>5, <1>6, <1>7 DEF d, Unique, Lacks, Among, ShiftedOut

(* Putting an entry in front of a cache that lacks its page.               *)
LEMMA PutFrontKeepsUnique ==
    ASSUME NEW S, NEW c \in Seq(S), NEW e \in S, Unique(c), Lacks(c, e.id)
    PROVE  /\ PutFront(c, e) \in Seq(S) /\ Len(PutFront(c, e)) = Len(c) + 1
           /\ Unique(PutFront(c, e))
<1> DEFINE d == PutFront(c, e)
<1>1. /\ d \in Seq(S) /\ Len(d) = Len(c) + 1 /\ d[1] = e
      /\ \A j \in 2..(Len(c) + 1) : d[j] = c[j - 1]
  <2>1. d \in Seq(S) /\ Fronted(d, c, e)
    BY PutFrontProperties
  <2> HIDE DEF d
  <2> QED BY <2>1 DEF Fronted
<1> HIDE DEF d
<1>2. Len(c) \in Nat /\ DOMAIN c = 1..Len(c) /\ DOMAIN d = 1..(Len(c) + 1)
  BY <1>1, LenProperties
<1>3. \A j \in DOMAIN d : j # 1 => j \in 2..(Len(c) + 1) /\ j - 1 \in DOMAIN c
  BY <1>2
<1>4. ASSUME NEW k \in DOMAIN d, NEW l \in DOMAIN d, d[k].id = d[l].id
      PROVE  k = l
  <2>1. CASE k = 1 /\ l = 1
    BY <2>1
  <2>2. CASE k = 1 /\ l # 1
    BY <1>1, <1>3, <1>4, <2>2 DEF Lacks
  <2>3. CASE k # 1 /\ l = 1
    BY <1>1, <1>3, <1>4, <2>3 DEF Lacks
  <2>4. CASE k # 1 /\ l # 1
    <3>1. k - 1 = l - 1
      BY <1>1, <1>3, <1>4, <2>4 DEF Unique
    <3> QED BY <3>1, <1>2
  <2> QED BY <2>1, <2>2, <2>3, <2>4
<1> QED BY <1>1, <1>4 DEF d, Unique

LEMMA AtIsPosition ==
    ASSUME NEW c, NEW id, Has(c, id)
    PROVE  At(c, id) \in DOMAIN c /\ c[At(c, id)].id = id
  BY DEF Has, At

LEMMA TouchedSound ==
    ASSUME NEW c, SoundCache(c), NEW id, Has(c, id)
    PROVE  SoundCache(Touched(c, id))
<1>1. PICK S : c \in Seq(S)
  BY DEF SoundCache
<1> DEFINE i == At(c, id)
           d == RemoveAt(c, i)
           t == PutFront(d, c[i])
<1>2. i \in DOMAIN c /\ DOMAIN c = 1..Len(c) /\ Len(c) \in Nat /\ c[i] \in S
  BY <1>1, AtIsPosition, LenProperties, ElementOfSeq
<1>3. Unique(c)
  BY DEF SoundCache, IsCache, Unique
<1> HIDE DEF i
<1>4. /\ d \in Seq(S) /\ Len(d) = Len(c) - 1
      /\ Unique(d)
      /\ Lacks(d, c[i].id)
  BY <1>1, <1>2, <1>3, RemoveKeepsUnique
<1> HIDE DEF d
<1>5. /\ t \in Seq(S) /\ Len(t) = Len(d) + 1
      /\ Unique(t)
  BY <1>2, <1>4, PutFrontKeepsUnique
<1>6. Len(t) <= Limit
  BY <1>2, <1>4, <1>5, CapFacts DEF SoundCache, IsCache, Limit, Unique
<1>7. Touched(c, id) = t
  BY DEF Touched, d, i
<1> HIDE DEF t
<1> QED BY <1>5, <1>6, <1>7 DEF SoundCache, IsCache, Limit, Unique

LEMMA PutSound ==
    ASSUME NEW c, SoundCache(c), NEW id, NEW page
    PROVE  SoundCache(Put(c, id, page, Cap))
<1>1. PICK S0 : c \in Seq(S0)
  BY DEF SoundCache
<1> DEFINE e == Entry(id, page)
           S == S0 \union {e}
<1>2. c \in Seq(S) /\ e \in S
  BY <1>1, SeqMonotonic
<1>3. e.id = id
  BY DEF Entry
<1> HIDE DEF e, S
<1>4. /\ Unique(c)
      /\ Len(c) <= Limit /\ Len(c) \in Nat /\ DOMAIN c = 1..Len(c)
  BY <1>2, LenProperties DEF SoundCache, IsCache, Limit, Unique
<1>5. CASE Has(c, id)
  <2> DEFINE i == At(c, id)
             d == RemoveAt(c, i)
             t == PutFront(d, e)
  <2>1. i \in 1..Len(c) /\ c[i].id = id
    BY <1>4, <1>5, AtIsPosition
  <2> HIDE DEF i
  <2>2. /\ d \in Seq(S) /\ Len(d) = Len(c) - 1
        /\ Unique(d)
        /\ Lacks(d, c[i].id)
    BY <1>2, <1>4, <2>1, RemoveKeepsUnique
  <2> HIDE DEF d
  <2>3. /\ t \in Seq(S) /\ Len(t) = Len(d) + 1
        /\ Unique(t)
    BY <1>2, <1>3, <2>1, <2>2, PutFrontKeepsUnique
  <2>4. Put(c, id, page, Cap) = t
    BY <1>5 DEF Put, d, i, e
  <2> HIDE DEF t
  <2> QED BY <1>4, <2>1, <2>2, <2>3, <2>4, CapFacts DEF SoundCache, IsCache, Limit, Unique
<1>6. CASE ~Has(c, id) /\ Full(c, Cap)
  <2> DEFINE n == Len(c)
             d == RemoveAt(c, n)
             t == PutFront(d, e)
  <2>1. n \in 1..Len(c)
    BY <1>4, <1>6 DEF Full
  <2> HIDE DEF n
  <2>2. /\ d \in Seq(S) /\ Len(d) = Len(c) - 1
        /\ Unique(d)
        /\ Among(d, c)
    BY <1>2, <1>4, <2>1, RemoveKeepsUnique
  <2> HIDE DEF d
  <2>3. Lacks(d, e.id)
    BY <1>3, <1>6, <2>2 DEF Has, Among, Lacks
  <2>4. /\ t \in Seq(S) /\ Len(t) = Len(d) + 1
        /\ Unique(t)
    BY <1>2, <2>2, <2>3, PutFrontKeepsUnique
  <2>5. Put(c, id, page, Cap) = t
    BY <1>6 DEF Put, d, e, n
  <2> HIDE DEF t
  <2> QED BY <1>4, <2>2, <2>4, <2>5, CapFacts DEF SoundCache, IsCache, Limit, Unique
<1>7. CASE ~Has(c, id) /\ ~Full(c, Cap)
  <2> DEFINE t == PutFront(c, e)
  <2>1. Lacks(c, e.id)
    BY <1>3, <1>7 DEF Has, Lacks
  <2>2. /\ t \in Seq(S) /\ Len(t) = Len(c) + 1
        /\ Unique(t)
    BY <1>2, <1>4, <2>1, PutFrontKeepsUnique
  <2>3. Len(c) + 1 <= Limit
    BY <1>4, <1>7, CapFacts DEF Full, Limit
  <2>4. Put(c, id, page, Cap) = t
    BY <1>7 DEF Put, e
  <2> HIDE DEF t
  <2> QED BY <2>2, <2>3, <2>4 DEF SoundCache, IsCache, Limit, Unique
<1> QED BY <1>5, <1>6, <1>7

-----------------------------------------------------------------------------
LEMMA CacheInit == Init => SoundCache(cache)
<1> SUFFICES ASSUME Init PROVE SoundCache(cache)
  OBVIOUS
<1>1. CASE cache = << >>
  <2>1. << >> \in Seq({}) /\ Len(<< >>) = 0 /\ DOMAIN << >> = {}
    BY EmptySeq, LenProperties
  <2> QED BY <1>1, <2>1, CapFacts DEF SoundCache, IsCache, Limit, Unique
<1>2. CASE cache = <<Entry(SchemaPage, LoadedBuf)>>
  <2> DEFINE e == Entry(SchemaPage, LoadedBuf)
  <2>1. <<e>> \in Seq({e}) /\ Len(<<e>>) = 1 /\ DOMAIN <<e>> = {1}
    OBVIOUS
  <2> HIDE DEF e
  <2>2. cache = <<e>>
    BY <1>2 DEF e
  <2> QED BY <2>1, <2>2, CapFacts DEF SoundCache, IsCache, Limit, Unique
<1> QED BY <1>1, <1>2 DEF Init

LEMMA CacheStep == SoundCache(cache) /\ [Next]_vars => SoundCache(cache')
<1> SUFFICES ASSUME SoundCache(cache), [Next]_vars PROVE SoundCache(cache')
  OBVIOUS
<1>1. ASSUME NEW g \in Proc, NEW id \in Page, GetHit(g, id) PROVE SoundCache(cache')
  BY <1>1, TouchedSound DEF GetHit
<1>2. ASSUME NEW g \in Proc, PutPage(g) PROVE SoundCache(cache')
  <2>1. cache' = Put(cache, want[g], fetched[g], Cap)
    BY <1>2 DEF PutPage, Install
  <2> QED BY <2>1, PutSound
<1>3. ASSUME NEW g \in Proc, PutNew(g) PROVE SoundCache(cache')
  <2>1. cache' = Put(cache, want[g], NewBuf(want[g]), Cap)
    BY <1>3 DEF PutNew, Install
  <2> QED BY <2>1, PutSound
<1>4. CASE Crash
  <2>1. cache' = << >>
    BY <1>4 DEF Crash
  <2>2. << >> \in Seq({}) /\ Len(<< >>) = 0 /\ DOMAIN << >> = {}
    BY EmptySeq, LenProperties
  <2> QED BY <2>1, <2>2, CapFacts DEF SoundCache, IsCache, Limit, Unique
<1>5. ASSUME NEW g \in Proc,
             \/ \E id \in Page : GetMiss(g, id)
             \/ ReadPage(g) \/ ReadFails(g) \/ Allocate(g) \/ Format(g)
             \/ WritePage(g) \/ Clean(g) \/ SkipClean(g)
             \/ \E b \in held[g] : Modify(g, b)
             \/ Release(g) \/ FlushHeader(g) \/ FlushPages(g) \/ FlushNext(g) \/ Sync(g)
      PROVE  SoundCache(cache')
  <2>1. cache' = cache
    BY <1>5 DEF GetMiss, ReadPage, ReadFails, Allocate, Format, WritePage, Clean, SkipClean,
                Modify, Release, FlushHeader, FlushPages, FlushNext, Sync
  <2> QED BY <2>1
<1>6. CASE UNCHANGED vars
  BY <1>6 DEF vars
<1> QED BY <1>1, <1>2, <1>3, <1>4, <1>5, <1>6 DEF Next

(* A page is cached at most once and the cache keeps to its capacity,       *)
(* whatever the goroutines do between a miss and the put that answers it    *)
(* (lruCache.get, lruCache.put, GetPage, AllocatePage).                     *)
THEOREM CacheStaysBounded == Spec => []CacheBounded
<1>1. SoundCache(cache) => CacheBounded
  BY DEF SoundCache, CacheBounded
<1>2. SoundCache(cache) /\ [Next]_vars => SoundCache(cache)'
  BY CacheStep
<1> QED BY <1>1, <1>2, CacheInit, PTL DEF Spec

-----------------------------------------------------------------------------
(***************************************************************************)
(* A single goroutine that reads, writes, allocates and flushes through    *)
(* the page cache loses no update, whatever is evicted and whenever the    *)
(* machine stops, if an operation holds no more pages than the cache has   *)
(* room for.                                                               *)
(***************************************************************************)

OneProcess == (\A g, h \in Proc : g = h) /\ MaxHold <= Cap

(* The page objects of the n entries used last.                            *)
Newest(c, n) == {c[i].page : i \in 1..n}

-----------------------------------------------------------------------------
(* A hit brings its entry to the front and shifts those before it.         *)
LEMMA TouchedShape ==
    ASSUME NEW S, NEW c \in Seq(S), Unique(c), NEW i \in 1..Len(c)
    PROVE  /\ Len(Touched(c, c[i].id)) = Len(c)
           /\ Touched(c, c[i].id)[1] = c[i]
           /\ \A j \in 2..i : Touched(c, c[i].id)[j] = c[j - 1]
           /\ \A j \in (i + 1)..Len(c) : Touched(c, c[i].id)[j] = c[j]
<1>1. Len(c) \in Nat /\ DOMAIN c = 1..Len(c) /\ c[i] \in S
  BY LenProperties, ElementOfSeq
<1>2. At(c, c[i].id) = i
  BY <1>1 DEF At, Unique
<1> DEFINE d == RemoveAt(c, i)
           t == PutFront(d, c[i])
<1>3. d \in Seq(S) /\ ShiftedOut(d, c, i)
  BY RemoveAtProperties
<1> HIDE DEF d
<1>4. Fronted(t, d, c[i])
  BY <1>1, <1>3, PutFrontProperties
<1>5. Touched(c, c[i].id) = t
  BY <1>2 DEF Touched, d
<1> HIDE DEF t
<1>6. Len(d) = Len(c) - 1 /\ Len(t) = Len(c) /\ t[1] = c[i]
  BY <1>1, <1>3, <1>4 DEF Fronted, ShiftedOut
<1>7. ASSUME NEW j \in 2..i PROVE t[j] = c[j - 1]
  <2>1. t[j] = d[j - 1] /\ j - 1 \in 1..(Len(c) - 1) /\ j - 1 < i
    BY <1>1, <1>4, <1>6 DEF Fronted
  <2> QED BY <2>1, <1>3 DEF ShiftedOut
<1>8. ASSUME NEW j \in (i + 1)..Len(c) PROVE t[j] = c[j]
  <2>1. t[j] = d[j - 1] /\ j - 1 \in 1..(Len(c) - 1) /\ ~(j - 1 < i) /\ (j - 1) + 1 = j
    BY <1>1, <1>4, <1>6 DEF Fronted
  <2> QED BY <2>1, <1>3 DEF ShiftedOut
<1> QED BY <1>5, <1>6, <1>7, <1>8

(* A new entry stands in front of all that are kept; when the cache is     *)
(* full the last one is not.                                               *)
Room(c) == IF Full(c, Cap) THEN Len(c) - 1 ELSE Len(c)

LEMMA PutShape ==
    ASSUME NEW S, NEW c \in Seq(S), NEW id, ~Has(c, id), NEW b
    PROVE  /\ Len(Put(c, id, b, Cap)) = Room(c) + 1
           /\ Put(c, id, b, Cap)[1] = Entry(id, b)
           /\ \A j \in 2..(Room(c) + 1) : Put(c, id, b, Cap)[j] = c[j - 1]
<1> DEFINE e == Entry(id, b)
           S1 == S \union {e}
           d == IF Full(c, Cap) THEN RemoveAt(c, Len(c)) ELSE c
           p == PutFront(d, e)
<1>1. c \in Seq(S1) /\ e \in S1 /\ Len(c) \in Nat
  BY SeqMonotonic, LenProperties
<1>2. p = Put(c, id, b, Cap)
  BY DEF Put
<1> HIDE DEF e, S1
<1>3. d \in Seq(S1) /\ Len(d) = Room(c) /\ \A j \in 1..Room(c) : d[j] = c[j]
  <2>1. CASE Full(c, Cap)
    <3>1. Len(c) \in 1..Len(c)
      BY <1>1, <2>1 DEF Full
    <3>2. RemoveAt(c, Len(c)) \in Seq(S1) /\ ShiftedOut(RemoveAt(c, Len(c)), c, Len(c))
      BY <1>1, <3>1, RemoveAtProperties
    <3> QED BY <1>1, <2>1, <3>2 DEF ShiftedOut, Room
  <2>2. CASE ~Full(c, Cap)
    BY <1>1, <2>2 DEF Room
  <2> QED BY <2>1, <2>2
<1> HIDE DEF d
<1>4. Fronted(p, d, e)
  BY <1>1, <1>3, PutFrontProperties
<1> HIDE DEF p
<1>5. Room(c) \in Nat
  BY <1>1 DEF Room, Full
<1>6. ASSUME NEW j \in 2..(Room(c) + 1) PROVE p[j] = c[j - 1]
  BY <1>3, <1>4, <1>5 DEF Fronted
<1> QED BY <1>2, <1>3, <1>4, <1>6 DEF Fronted, e

LEMMA RoomFacts ==
    ASSUME NEW S, NEW c \in Seq(S)
    PROVE  Room(c) \in Nat /\ Len(c) \in Nat /\ Room(c) <= Len(c) /\ Len(c) <= Room(c) + 1 /\ DOMAIN c = 1..Len(c)
  BY LenProperties DEF Room, Full

(* The list t is c with its i-th entry brought to the front.               *)
Moved(t, c, i) ==
    /\ \A j \in DOMAIN t : \E k \in DOMAIN c : t[j] = c[k]
    /\ \A k \in DOMAIN c : \E j \in DOMAIN t : t[j] = c[k]
    /\ \A n \in i..Len(c) : Newest(t, n) = Newest(c, n)
    /\ \A n \in 0..(i - 1) : Newest(t, n + 1) = Newest(c, n) \union {c[i].page}
    /\ Len(t) = Len(c)

LEMMA TouchedEntries ==
    ASSUME NEW S, NEW c \in Seq(S), Unique(c), NEW i \in 1..Len(c),
           NEW t, t = Touched(c, c[i].id), DOMAIN t = 1..Len(t)
    PROVE  Moved(t, c, i)
<1>1. Len(c) \in Nat /\ DOMAIN c = 1..Len(c)
  BY LenProperties
<1>2. /\ DOMAIN t = 1..Len(c) /\ t[1] = c[i]
      /\ \A j \in 2..i : t[j] = c[j - 1]
      /\ \A j \in (i + 1)..Len(c) : t[j] = c[j]
  BY TouchedShape
<1>3. \A j \in DOMAIN t : t[j] = c[IF j = 1 THEN i ELSE IF j <= i THEN j - 1 ELSE j]
  BY <1>1, <1>2
<1>4. \A k \in DOMAIN c : c[k] = t[IF k = i THEN 1 ELSE IF k < i THEN k + 1 ELSE k]
  <2> SUFFICES ASSUME NEW k \in DOMAIN c PROVE c[k] = t[IF k = i THEN 1 ELSE IF k < i THEN k + 1 ELSE k]
    OBVIOUS
  <2>1. CASE k < i
    <3>1. k + 1 \in 2..i /\ (k + 1) - 1 = k
      BY <1>1, <2>1
    <3> QED BY <1>2, <2>1, <3>1
  <2>2. CASE k >= i
    BY <1>1, <1>2, <2>2
  <2> QED BY <1>1, <2>1, <2>2
<1>5. ASSUME NEW n \in i..Len(c) PROVE Newest(t, n) = Newest(c, n)
  <2>1. ASSUME NEW j \in 1..n PROVE t[j].page \in Newest(c, n)
    <3> DEFINE k == IF j = 1 THEN i ELSE IF j <= i THEN j - 1 ELSE j
    <3>1. k \in 1..n /\ t[j] = c[k]
      BY <1>1, <1>2, <1>3
    <3> QED BY <3>1 DEF Newest
  <2>2. ASSUME NEW k \in 1..n PROVE c[k].page \in Newest(t, n)
    <3> DEFINE j == IF k = i THEN 1 ELSE IF k < i THEN k + 1 ELSE k
    <3>1. j \in 1..n /\ t[j] = c[k]
      BY <1>1, <1>4
    <3> QED BY <3>1 DEF Newest
  <2> QED BY <2>1, <2>2 DEF Newest
<1>6. ASSUME NEW n \in 0..(i - 1) PROVE Newest(t, n + 1) = Newest(c, n) \union {c[i].page}
  <2>1. ASSUME NEW j \in 1..(n + 1) PROVE t[j].page \in Newest(c, n) \union {c[i].page}
    <3>1. CASE j = 1
      BY <1>2, <3>1
    <3>2. CASE j # 1
      <4>1. j - 1 \in 1..n /\ t[j] = c[j - 1]
        BY <1>1, <1>2, <3>2, SMTT(20)
      <4> QED BY <4>1 DEF Newest
    <3> QED BY <3>1, <3>2
  <2>2. ASSUME NEW k \in 1..n PROVE c[k].page \in Newest(t, n + 1)
    <3>1. k + 1 \in 1..(n + 1) /\ t[k + 1] = c[k]
      BY <1>1, <1>4
    <3> QED BY <3>1 DEF Newest
  <2>3. c[i].page \in Newest(t, n + 1)
    <3>1. 1 \in 1..(n + 1) /\ t[1].page = c[i].page
      BY <1>2
    <3> QED BY <3>1 DEF Newest
  <2> QED BY <2>1, <2>2, <2>3 DEF Newest
<1>7. ASSUME NEW j \in DOMAIN t PROVE \E k \in DOMAIN c : t[j] = c[k]
  <2> DEFINE k == IF j = 1 THEN i ELSE IF j <= i THEN j - 1 ELSE j
  <2>1. k \in DOMAIN c /\ t[j] = c[k]
    BY <1>1, <1>2, <1>3
  <2> QED BY <2>1
<1>8. ASSUME NEW k \in DOMAIN c PROVE \E j \in DOMAIN t : t[j] = c[k]
  <2> DEFINE j == IF k = i THEN 1 ELSE IF k < i THEN k + 1 ELSE k
  <2>1. j \in DOMAIN t /\ t[j] = c[k]
    BY <1>1, <1>2, <1>4
  <2> QED BY <2>1
<1>9. Len(t) = Len(c)
  BY TouchedShape
<1> QED BY <1>5, <1>6, <1>7, <1>8, <1>9 DEF Moved

(* The list p is c, less what there is no room for, with a new entry.      *)
Extends(p, c, e) ==
    /\ \A j \in DOMAIN p : p[j] = e \/ \E k \in 1..Room(c) : p[j] = c[k]
    /\ \E j \in DOMAIN p : p[j] = e
    /\ \A k \in 1..Room(c) : \E j \in DOMAIN p : p[j] = c[k]
    /\ \A n \in 0..Room(c) : Newest(p, n + 1) = Newest(c, n) \union {e.page}
    /\ Len(p) = Room(c) + 1

LEMMA PutEntries ==
    ASSUME NEW S, NEW c \in Seq(S), NEW id, ~Has(c, id), NEW b,
           NEW p, p = Put(c, id, b, Cap), DOMAIN p = 1..Len(p)
    PROVE  Extends(p, c, Entry(id, b))
<1>1. Room(c) \in Nat /\ Entry(id, b).page = b
  BY RoomFacts DEF Entry
<1>2. /\ DOMAIN p = 1..(Room(c) + 1) /\ p[1] = Entry(id, b)
      /\ \A j \in 2..(Room(c) + 1) : p[j] = c[j - 1]
  BY PutShape, SMTT(20)
<1>3. \A k \in 1..Room(c) : p[k + 1] = c[k] /\ k + 1 \in DOMAIN p
  <2> SUFFICES ASSUME NEW k \in 1..Room(c) PROVE p[k + 1] = c[k] /\ k + 1 \in DOMAIN p
    OBVIOUS
  <2>1. k + 1 \in 2..(Room(c) + 1) /\ (k + 1) - 1 = k
    BY <1>1
  <2> QED BY <1>1, <1>2, <2>1
<1>4. \A j \in DOMAIN p : j # 1 => j - 1 \in 1..Room(c) /\ p[j] = c[j - 1]
  BY <1>1, <1>2
<1>5. ASSUME NEW n \in 0..Room(c) PROVE Newest(p, n + 1) = Newest(c, n) \union {b}
  <2>1. ASSUME NEW j \in 1..(n + 1) PROVE p[j].page \in Newest(c, n) \union {b}
    <3>1. CASE j = 1
      BY <1>1, <1>2, <3>1
    <3>2. CASE j # 1
      <4>1. j - 1 \in 1..n /\ p[j] = c[j - 1]
        <5>1. j \in DOMAIN p /\ j - 1 \in 1..n
          BY <1>1, <1>2, <3>2
        <5> QED BY <1>4, <3>2, <5>1
      <4> QED BY <4>1 DEF Newest
    <3> QED BY <3>1, <3>2
  <2>2. ASSUME NEW k \in 1..n PROVE c[k].page \in Newest(p, n + 1)
    <3>1. k + 1 \in 1..(n + 1) /\ p[k + 1] = c[k]
      BY <1>1, <1>3
    <3> QED BY <3>1 DEF Newest
  <2>3. b \in Newest(p, n + 1)
    <3>1. 1 \in 1..(n + 1) /\ p[1].page = b
      BY <1>1, <1>2
    <3> QED BY <3>1 DEF Newest
  <2> QED BY <2>1, <2>2, <2>3 DEF Newest
<1>6. 1 \in DOMAIN p /\ Len(p) = Room(c) + 1
  BY <1>1, <1>2, PutShape
<1> QED BY <1>1, <1>2, <1>3, <1>4, <1>5, <1>6 DEF Extends

-----------------------------------------------------------------------------
(* The inductive invariant.  The types, and the page objects in use: each  *)
(* is that of another page, cached or in the hands of the process.         *)
Counts == 1..(MaxPage + 1)

TypesInv ==
    /\ disk \in [Page -> (SUBSET Update) \union {NoData}]
    /\ synced \in [Page -> (SUBSET Update) \union {NoData}]
    /\ fileCount \in [written : Counts, synced : Counts] /\ pageCount \in Counts
    /\ pc \in [Proc -> PlaceNames]
    /\ want \in [Proc -> Page \union {0}]
    /\ fetched \in [Proc -> Buf \union {NoBuf}]
    /\ held \in [Proc -> SUBSET Buf] /\ todo \in [Proc -> Seq(Buf)]
    /\ latest \in [Page -> SUBSET Update] /\ flushed \in [Page -> SUBSET Update]
    /\ crashes \in 0..MaxCrashes

Objects(ids) == [id : ids, data : SUBSET Update, dirty : BOOLEAN]

HeapInv ==
    /\ DOMAIN heap \subseteq Buf
    /\ \A b \in DOMAIN heap : heap[b] \in [id : Allocated, data : SUBSET Update, dirty : BOOLEAN]
    /\ \A b \in DOMAIN heap : b[1] = heap[b].id
    /\ \A b, d \in DOMAIN heap : heap[b].id = heap[d].id => b = d
    /\ \A b \in DOMAIN heap : b \in CachedBufs(cache) \/ \E g \in Proc : b = fetched[g]
    /\ \A i \in DOMAIN cache : cache[i].page \in DOMAIN heap /\ heap[cache[i].page].id = cache[i].id

(* What an operation holds are the entries used last, and where there is   *)
(* one more page to come it holds less than the cache has room for.        *)
HeldInv ==
    \A g \in Proc : \E n \in 0..Len(cache) :
        /\ held[g] = Newest(cache, n)
        /\ pc[g] \in {"read", "put", "new"} => n < MaxHold

(* What the process has in its hands at each place in the code.            *)
PlaceInv ==
    \A g \in Proc :
        /\ pc[g] \in {"off", "idle", "read", "new", "format", "header"} => fetched[g] = NoBuf
        /\ pc[g] \notin {"flush", "flushed"} => todo[g] = << >>
        /\ pc[g] \in {"off", "idle", "header", "flush", "flushed"} => want[g] = 0
        /\ pc[g] \in {"read", "put", "new"} => want[g] \in Allocated /\ ~Has(cache, want[g])
        /\ pc[g] = "put" => fetched[g] \in DOMAIN heap /\ heap[fetched[g]].id = want[g] /\ ~heap[fetched[g]].dirty
        /\ pc[g] = "new" => latest[want[g]] = {}
        /\ pc[g] = "format" => want[g] # 0
        /\ pc[g] \in {"write", "written", "format"} /\ want[g] # 0 =>
              want[g] \in Allocated /\ \E b \in held[g] : heap[b].id = want[g]
        /\ pc[g] \in {"write", "written"} => fetched[g] \in DOMAIN heap /\ ~Has(cache, heap[fetched[g]].id)
        /\ pc[g] = "header" => held[g] = {} /\ fileCount.written = pageCount
        /\ pc[g] \in {"flush", "flushed"} =>
              /\ held[g] = {} /\ ToSet(todo[g]) \subseteq CachedBufs(cache)
              /\ fetched[g] \in CachedBufs(cache) \union {NoBuf}
              /\ fileCount.written = pageCount
        /\ pc[g] = "flushed" => fetched[g] # NoBuf

(* A page object has all updates of its page; a clean one, and a page      *)
(* without one, has them in the file too, unless it is being allocated.    *)
OnDisk(id) == disk[id] = latest[id] \/ (disk[id] = NoData /\ latest[id] = {})

DataInv ==
    /\ \A b \in DOMAIN heap : heap[b].data = latest[heap[b].id]
    /\ \A b \in DOMAIN heap : ~heap[b].dirty /\ heap[b].id \in Known => OnDisk(heap[b].id)
    /\ \A g \in Proc : pc[g] \in {"written", "flushed"} => OnDisk(heap[fetched[g]].id)
    /\ \A id \in Known : (\A b \in DOMAIN heap : heap[b].id # id) => OnDisk(id)
    /\ \A id \in Page : id \notin Allocated => latest[id] = {}

(* What FlushAll has still to write; what it has covered is in the file.   *)
FlushInv ==
    /\ \A g \in Proc : pc[g] \in {"flush", "flushed"} =>
          \A b \in DOMAIN heap : heap[b].dirty => b \in ToSet(todo[g]) \/ b = fetched[g]
    /\ \A id \in Page : flushed[id] # {} =>
          /\ flushed[id] \subseteq disk[id] /\ flushed[id] \subseteq synced[id]
          /\ flushed[id] \subseteq latest[id]
          /\ id < fileCount.written /\ id < fileCount.synced /\ id < pageCount

WriterInv ==
    /\ OneProcess /\ SoundCache(cache)
    /\ TypesInv /\ HeapInv /\ HeldInv /\ PlaceInv /\ DataInv /\ FlushInv

-----------------------------------------------------------------------------
LEMMA BoundFacts ==
    /\ Cap \in Nat /\ MaxHold \in Nat \ {0} /\ MaxPage \in Nat \ {0} /\ MaxUpdates \in Nat
    /\ \A b \in Buf : b # NoBuf
    /\ \A d \in SUBSET Update : d # NoData
  BY PagerAssumption DEF Buf, NoBuf, Page, Update, NoData

LEMMA FirstBuf ==
    ASSUME OneProcess, NEW id \in Page
    PROVE  <<id, 1>> \in Buf
<1>1. Cardinality(Proc) \in Nat
  <2> DEFINE P == Proc
  <2>1. P = {} \/ \E g : P = {g}
    BY DEF OneProcess
  <2> HIDE DEF P
  <2>2. CASE P = {}
    BY <2>2, FS_EmptySet DEF P
  <2>3. ASSUME NEW g, P = {g} PROVE Cardinality(P) \in Nat
    <3>1. Cardinality({g}) = 1
      BY FS_Singleton
    <3> QED BY <2>3, <3>1
  <2> QED BY <2>1, <2>2, <2>3 DEF P
<1> DEFINE k == Cardinality(Proc) * (MaxHold + MaxHoldBeside + 2)
<1>2. k \in Nat
  BY <1>1, PagerAssumption
<1> HIDE DEF k
<1>3. 1 \in 1..(k + 1)
  BY <1>2
<1> QED BY <1>3 DEF Buf, k

(* The cache as a set of page objects.                                     *)
LEMMA CachedFacts ==
    ASSUME SoundCache(cache), HeapInv
    PROVE  /\ Len(cache) \in Nat /\ DOMAIN cache = 1..Len(cache)
           /\ Newest(cache, Len(cache)) = CachedBufs(cache)
           /\ \A n \in 0..Len(cache) : Newest(cache, n) \subseteq CachedBufs(cache)
           /\ CachedBufs(cache) \subseteq DOMAIN heap
           /\ \A id : Has(cache, id) <=> \E b \in CachedBufs(cache) : heap[b].id = id
           /\ \A b \in CachedBufs(cache) : PageOf(cache, heap[b].id) = b
<1>1. PICK S : cache \in Seq(S)
  BY DEF SoundCache
<1>2. Len(cache) \in Nat /\ DOMAIN cache = 1..Len(cache)
  BY <1>1, LenProperties
<1>3. \A i \in DOMAIN cache : cache[i].page \in DOMAIN heap /\ heap[cache[i].page].id = cache[i].id
  BY DEF HeapInv
<1>4. ASSUME NEW b \in CachedBufs(cache) PROVE PageOf(cache, heap[b].id) = b
  <2>1. PICK i \in DOMAIN cache : b = cache[i].page
    BY DEF CachedBufs
  <2>2. Has(cache, heap[b].id) /\ cache[i].id = heap[b].id
    BY <1>3, <2>1 DEF Has
  <2>3. At(cache, heap[b].id) = i
    BY <2>2, AtIsPosition DEF SoundCache, IsCache
  <2> QED BY <2>1, <2>3 DEF PageOf
<1>5. \A id : Has(cache, id) <=> \E b \in CachedBufs(cache) : heap[b].id = id
  BY <1>3 DEF Has, CachedBufs
<1>6. Newest(cache, Len(cache)) = CachedBufs(cache)
  BY <1>2 DEF Newest, CachedBufs
<1>7. \A n \in 0..Len(cache) : Newest(cache, n) \subseteq CachedBufs(cache)
  BY <1>2 DEF Newest, CachedBufs
<1>8. CachedBufs(cache) \subseteq DOMAIN heap
  BY <1>3 DEF CachedBufs
<1> QED BY <1>2, <1>4, <1>5, <1>6, <1>7, <1>8

(* The entries are those of different page objects.                        *)
LEMMA NewestSize ==
    ASSUME SoundCache(cache), HeapInv, NEW n \in 0..Len(cache)
    PROVE  IsFiniteSet(Newest(cache, n)) /\ Cardinality(Newest(cache, n)) = n
<1>1. Len(cache) \in Nat /\ DOMAIN cache = 1..Len(cache)
  BY CachedFacts
<1> DEFINE f == [i \in 1..n |-> cache[i].page]
<1>2. \A i, j \in 1..n : cache[i].page = cache[j].page => i = j
  <2>1. \A i \in 1..n : i \in DOMAIN cache
    BY <1>1
  <2> QED BY <2>1 DEF SoundCache, IsCache, HeapInv
<1>3. f \in Bijection(1..n, Newest(cache, n))
  BY <1>2 DEF Bijection, Injection, Surjection, IsInjective, Newest
<1>4. n \in Nat /\ ExistsBijection(1..n, Newest(cache, n))
  BY <1>1, <1>3 DEF ExistsBijection
<1> QED BY <1>4, FS_CountingElements, FS_NatBijection

(* A page without a page object gets its first one.                        *)
LEMMA NewBufIsNew ==
    ASSUME WriterInv, NEW id \in Page, \A b \in DOMAIN heap : heap[b].id # id
    PROVE  NewBuf(id) \in Buf /\ NewBuf(id) \notin DOMAIN heap /\ NewBuf(id)[1] = id
<1> DEFINE b == <<id, 1>>
<1>1. b \in Buf /\ b[1] = id /\ b[2] = 1
  BY FirstBuf DEF WriterInv
<1>2. b \notin DOMAIN heap
  BY <1>1 DEF WriterInv, HeapInv
<1>3. \A c \in Buf : ~(c[2] < 1)
  BY DEF Buf
<1> HIDE DEF b
<1>4. \E x \in Buf : /\ x[1] = id /\ x \notin DOMAIN heap
                     /\ \A c \in Buf : c[1] = id /\ c[2] < x[2] => c \in DOMAIN heap
  BY <1>1, <1>2, <1>3
<1> QED BY <1>4 DEF NewBuf

-----------------------------------------------------------------------------
(* What the invariant says of the properties.                              *)
LEMMA WriterTypes == WriterInv => TypeOK
<1> SUFFICES ASSUME WriterInv PROVE TypeOK
  OBVIOUS
<1>1. Allocated \subseteq Page /\ Counts \subseteq Nat
  BY BoundFacts DEF WriterInv, TypesInv, Counts, Allocated, Page
<1>2. fileCount \in [written : Nat, synced : Nat] /\ pageCount \in Nat
  BY <1>1 DEF WriterInv, TypesInv
<1>3. \A b \in DOMAIN heap : heap[b] \in [id : Page, data : SUBSET Update, dirty : BOOLEAN]
  BY <1>1 DEF WriterInv, HeapInv
<1>4. \A i \in DOMAIN cache : /\ cache[i].id \in Page /\ cache[i].page \in DOMAIN heap
                               /\ heap[cache[i].page].id = cache[i].id
  BY <1>3 DEF WriterInv, HeapInv
<1>5. ASSUME NEW g \in Proc PROVE held[g] \subseteq DOMAIN heap /\ ToSet(todo[g]) \subseteq DOMAIN heap
  <2>1. held[g] \subseteq DOMAIN heap
    BY CachedFacts DEF WriterInv, HeldInv
  <2>2. ToSet(todo[g]) \subseteq CachedBufs(cache) \/ todo[g] = << >>
    BY DEF WriterInv, PlaceInv
  <2>3. ToSet(<< >>) = {}
    BY DEF ToSet
  <2> QED BY <2>1, <2>2, <2>3, CachedFacts DEF WriterInv
<1> QED BY <1>2, <1>3, <1>4, <1>5 DEF WriterInv, TypesInv, HeapInv, TypeOK

LEMMA WriterHolds == WriterInv => HeldIsCached
<1> SUFFICES ASSUME WriterInv, NEW g \in Proc, NEW b \in held[g]
             PROVE  Has(cache, heap[b].id) /\ PageOf(cache, heap[b].id) = b
  BY DEF HeldIsCached
<1>1. b \in CachedBufs(cache)
  BY CachedFacts DEF WriterInv, HeldInv
<1> QED BY <1>1, CachedFacts DEF WriterInv

LEMMA WriterLosesNothing == WriterInv => NoLostUpdate
<1> SUFFICES ASSUME WriterInv, NEW id \in Known
             PROVE  Content(id) = latest[id] \/ (Content(id) = NoData /\ latest[id] = {})
  BY DEF NoLostUpdate
<1>1. CASE Has(cache, id)
  <2>1. PICK b \in CachedBufs(cache) : heap[b].id = id
    BY <1>1, CachedFacts DEF WriterInv
  <2>2. PageOf(cache, id) = b /\ b \in DOMAIN heap
    BY <2>1, CachedFacts DEF WriterInv
  <2> QED BY <1>1, <2>1, <2>2 DEF Content, WriterInv, DataInv
<1>2. CASE ~Has(cache, id) /\ Leaving(id) # {}
  <2> DEFINE g == CHOOSE x \in Leaving(id) : TRUE
  <2>1. g \in Proc /\ pc[g] \in {"write", "written"} /\ heap[fetched[g]].id = id
    <3>1. g \in Leaving(id)
      BY <1>2
    <3> QED BY <3>1 DEF Leaving
  <2>2. Content(id) = heap[fetched[g]].data
    BY <1>2 DEF Content
  <2> HIDE DEF g
  <2>3. fetched[g] \in DOMAIN heap
    BY <2>1 DEF WriterInv, PlaceInv
  <2> QED BY <2>1, <2>2, <2>3 DEF WriterInv, DataInv
<1>3. CASE ~Has(cache, id) /\ Leaving(id) = {}
  <2>1. Content(id) = disk[id]
    BY <1>3 DEF Content
  <2>2. OnDisk(id)
    <3>1. CASE \A b \in DOMAIN heap : heap[b].id # id
      BY <3>1 DEF WriterInv, DataInv
    <3>2. ASSUME NEW b \in DOMAIN heap, heap[b].id = id PROVE OnDisk(id)
      <4>1. PICK g \in Proc : b = fetched[g]
        BY <1>3, <3>2, CachedFacts DEF WriterInv, HeapInv
      <4>2. b \notin CachedBufs(cache) /\ b # NoBuf
        BY <1>3, <3>2, CachedFacts, BoundFacts DEF WriterInv, HeapInv
      <4>3. pc[g] \notin {"write", "written"}
        BY <1>3, <3>2, <4>1 DEF Leaving
      <4>4. pc[g] = "put"
        BY <4>1, <4>2, <4>3 DEF WriterInv, TypesInv, PlaceInv, PlaceNames
      <4> QED BY <3>2, <4>1, <4>4 DEF WriterInv, PlaceInv, DataInv
    <3> QED BY <3>1, <3>2
  <2> QED BY <2>1, <2>2 DEF OnDisk
<1> QED BY <1>1, <1>2, <1>3

LEMMA WriterFlushes == WriterInv => FlushedIsDurable
<1> SUFFICES ASSUME WriterInv PROVE FlushedIsDurable
  OBVIOUS
<1>1. \A id \in Known : id \in Page /\ (flushed[id] = {} \/ flushed[id] \subseteq latest[id])
  <2>1. Known \subseteq Page
    BY BoundFacts DEF WriterInv, TypesInv, Counts, Known, Allocated, Page
  <2> QED BY <2>1 DEF WriterInv, FlushInv
<1> QED BY <1>1 DEF WriterInv, FlushInv, FlushedIsDurable

-----------------------------------------------------------------------------
(* A process starts with nothing in its hands.                             *)
LEMMA WriterInit == Init /\ OneProcess => WriterInv
<1> SUFFICES ASSUME Init, OneProcess PROVE WriterInv
  OBVIOUS
<1>1. SoundCache(cache)
  BY CacheInit
<1>2. 2 \in Counts /\ SchemaPage \in Page /\ Allocated = {SchemaPage} /\ {} \in SUBSET Update /\ {} # NoData
  BY BoundFacts DEF Init, Counts, SchemaPage, Page, Allocated, NoData
<1>3. << >> \in Seq(Buf) /\ 0 \in 0..MaxCrashes
  BY PagerAssumption
<1>4. TypesInv
  BY <1>2, <1>3 DEF Init, TypesInv, PlaceNames
<1>5. \/ cache = << >> /\ DOMAIN heap = {}
      \/ cache = <<Entry(SchemaPage, LoadedBuf)>> /\ DOMAIN heap = {LoadedBuf} /\ Loaded = {SchemaPage}
  <2>1. Loaded = {} \/ Loaded = {SchemaPage}
    BY PagerAssumption
  <2>2. DOMAIN heap = {LoadedBuf : id \in Loaded}
    BY DEF Init
  <2>3. CASE Loaded = {}
    <3>1. DOMAIN heap = {}
      BY <2>2, <2>3
    <3>2. cache = << >>
      BY <2>3 DEF Init
    <3> QED BY <3>1, <3>2
  <2>4. CASE Loaded = {SchemaPage}
    <3>1. DOMAIN heap = {LoadedBuf}
      BY <2>2, <2>4
    <3>2. cache = <<Entry(SchemaPage, LoadedBuf)>>
      BY <2>4 DEF Init
    <3> QED BY <2>4, <3>1, <3>2
  <2> QED BY <2>1, <2>3, <2>4
<1>6. CachedBufs(cache) = DOMAIN heap /\ HeapInv
  <2>1. CASE cache = << >> /\ DOMAIN heap = {}
    BY <2>1 DEF HeapInv, CachedBufs
  <2>2. CASE cache = <<Entry(SchemaPage, LoadedBuf)>> /\ DOMAIN heap = {LoadedBuf} /\ Loaded = {SchemaPage}
    <3>1. heap[LoadedBuf] = [id |-> SchemaPage, data |-> {}, dirty |-> FALSE]
      BY <2>2 DEF Init
    <3>2. DOMAIN cache = {1} /\ cache[1].page = LoadedBuf /\ cache[1].id = SchemaPage
      BY <2>2 DEF Entry
    <3>3. LoadedBuf \in Buf /\ LoadedBuf[1] = SchemaPage
      BY <1>2, FirstBuf DEF LoadedBuf
    <3>4. CachedBufs(cache) = {LoadedBuf}
      BY <3>2 DEF CachedBufs
    <3>5. heap[LoadedBuf].id = SchemaPage
          /\ heap[LoadedBuf] \in [id : Allocated, data : SUBSET Update, dirty : BOOLEAN]
      BY <1>2, <3>1
    <3> QED BY <2>2, <3>2, <3>3, <3>4, <3>5 DEF HeapInv
  <2> QED BY <1>5, <2>1, <2>2
<1>7. HeldInv
  <2>1. 0 \in 0..Len(cache) /\ Newest(cache, 0) = {}
    BY <1>1, <1>6, CachedFacts DEF Newest
  <2> QED BY <2>1 DEF Init, HeldInv
<1>8. PlaceInv
  BY DEF Init, PlaceInv
<1>10. Known \subseteq Allocated
  BY DEF Known
<1>9. DataInv /\ FlushInv
  <2>1. \A b \in DOMAIN heap : heap[b] = [id |-> SchemaPage, data |-> {}, dirty |-> FALSE]
    BY <1>5 DEF Init
  <2> QED BY <1>2, <1>10, <2>1 DEF Init, DataInv, FlushInv, OnDisk
<1> QED BY <1>1, <1>4, <1>6, <1>7, <1>8, <1>9 DEF WriterInv

-----------------------------------------------------------------------------
(* Of the page objects, a step keeps those that stay cached and the one in *)
(* the hands of the process; what it holds and has to flush is cached.     *)
LEMMA KeptShape ==
    ASSUME OneProcess, NEW g \in Proc, NEW hp, heap' = Kept(hp),
           held'[g] \subseteq CachedBufs(cache'), ToSet(todo'[g]) \subseteq CachedBufs(cache')
    PROVE  /\ DOMAIN heap' = DOMAIN hp \intersect (CachedBufs(cache') \union ({fetched'[g]} \ {NoBuf}))
           /\ \A b \in DOMAIN heap' : heap'[b] = hp[b]
<1>1. Proc = {g}
  BY DEF OneProcess
<1> DEFINE live == Live(cache', fetched', held', todo')
<1>2. live = CachedBufs(cache') \union (held'[g] \union ({fetched'[g]} \ {NoBuf}) \union ToSet(todo'[g]))
  BY <1>1 DEF Live
<1>3. live = CachedBufs(cache') \union ({fetched'[g]} \ {NoBuf})
  BY <1>2
<1>4. heap' = [b \in live \intersect DOMAIN hp |-> hp[b]]
  BY DEF Kept
<1> HIDE DEF live
<1> QED BY <1>3, <1>4

(* put adds the page object b and lets go of at most one, the oldest: one  *)
(* no operation holds.                                                     *)
Installed(g, hp, next) ==
    /\ DOMAIN heap' = DOMAIN hp /\ \A x \in DOMAIN hp : heap'[x] = hp[x]
    /\ CachedBufs(cache') = DOMAIN hp \ {fetched'[g]}
    /\ \A i \in DOMAIN cache' : cache'[i].page \in DOMAIN hp /\ hp[cache'[i].page].id = cache'[i].id
    /\ \E m \in 0..Len(cache') : held'[g] = Newest(cache', m)
    /\ pc'[g] = (IF fetched'[g] = NoBuf THEN next ELSE "write")
    /\ fetched'[g] # NoBuf => fetched'[g] \in CachedBufs(cache) /\ ~Has(cache', hp[fetched'[g]].id)
    /\ todo' = todo

LEMMA InstallStep ==
    ASSUME OneProcess, SoundCache(cache), HeapInv, NEW g \in Proc, NEW id, NEW b, NEW hp, NEW next,
           Install(g, id, b, hp, next),
           ~Has(cache, id), b \in DOMAIN hp, hp[b].id = id, b # NoBuf, b \notin CachedBufs(cache),
           \A x \in CachedBufs(cache) : x # NoBuf /\ x \in DOMAIN hp /\ hp[x].id = heap[x].id,
           DOMAIN hp = CachedBufs(cache) \union {b},
           todo[g] = << >>, NEW n \in 0..Len(cache), held[g] = Newest(cache, n), n < MaxHold,
           g \in DOMAIN pc, g \in DOMAIN held, g \in DOMAIN fetched
    PROVE  Installed(g, hp, next)
<1>0. /\ cache' = Put(cache, id, b, Cap) /\ todo' = todo /\ heap' = Kept(hp)
      /\ held'[g] = held[g] \union {b}
      /\ Evicted(cache, id, Cap) = {} => fetched'[g] = NoBuf /\ pc'[g] = next
      /\ \A x : Evicted(cache, id, Cap) = {x} => fetched'[g] = x /\ pc'[g] = "write"
  BY DEF Install, Goto
<1>1. PICK S : cache \in Seq(S)
  BY DEF SoundCache
<1>2. cache' = Put(cache, id, b, Cap) /\ SoundCache(cache')
  BY <1>0, PutSound
<1>3. /\ Len(cache') \in Nat /\ DOMAIN cache' = 1..Len(cache')
  <2>1. PICK T : cache' \in Seq(T)
    BY <1>2 DEF SoundCache
  <2> QED BY <2>1, LenProperties
<1>4. Extends(cache', cache, Entry(id, b)) /\ Entry(id, b).id = id /\ Entry(id, b).page = b
  <2> DEFINE p == cache'
  <2>1. p = Put(cache, id, b, Cap) /\ DOMAIN p = 1..Len(p)
    BY <1>2, <1>3
  <2> HIDE DEF p
  <2>2. Extends(p, cache, Entry(id, b))
    BY <1>1, <2>1, PutEntries
  <2> QED BY <2>2 DEF p, Entry
<1>5. Room(cache) \in Nat /\ Len(cache) \in Nat /\ Room(cache) <= Len(cache) /\ DOMAIN cache = 1..Len(cache)
  BY <1>1, RoomFacts
<1>6. n \in 0..Room(cache)
  BY <1>5, BoundFacts DEF Room, Full, OneProcess
<1>7. CachedBufs(cache') = Newest(cache, Room(cache)) \union {b}
  <2>1. CachedBufs(cache') = Newest(cache', Len(cache'))
    BY <1>3 DEF CachedBufs, Newest
  <2> QED BY <1>4, <1>5, <2>1 DEF Extends
<1>8. \A i \in DOMAIN cache' : cache'[i].page \in DOMAIN hp /\ hp[cache'[i].page].id = cache'[i].id
  <2>1. \A k \in 1..Room(cache) : cache[k].page \in CachedBufs(cache) /\ heap[cache[k].page].id = cache[k].id
    BY <1>5 DEF CachedBufs, HeapInv
  <2>2. ASSUME NEW i \in DOMAIN cache'
        PROVE  cache'[i].page \in DOMAIN hp /\ hp[cache'[i].page].id = cache'[i].id
    <3>1. cache'[i] = Entry(id, b) \/ \E k \in 1..Room(cache) : cache'[i] = cache[k]
      BY <1>4 DEF Extends
    <3>2. CASE cache'[i] = Entry(id, b)
      BY <1>4, <3>2
    <3>3. ASSUME NEW k \in 1..Room(cache), cache'[i] = cache[k]
          PROVE  cache'[i].page \in DOMAIN hp /\ hp[cache'[i].page].id = cache'[i].id
      BY <2>1, <3>3
    <3> QED BY <3>1, <3>2, <3>3
  <2> QED BY <2>2
<1>9. /\ pc'[g] = (IF fetched'[g] = NoBuf THEN next ELSE "write")
      /\ CachedBufs(cache') = DOMAIN hp \ {fetched'[g]}
      /\ fetched'[g] # NoBuf => fetched'[g] \in CachedBufs(cache) /\ ~Has(cache', hp[fetched'[g]].id)
  <2>1. CASE ~Full(cache, Cap)
    <3>1. Evicted(cache, id, Cap) = {} /\ Room(cache) = Len(cache)
      BY <2>1 DEF Evicted, Room
    <3>2. fetched'[g] = NoBuf /\ pc'[g] = next
      BY <1>0, <3>1
    <3>3. CachedBufs(cache') = DOMAIN hp /\ NoBuf \notin DOMAIN hp
      BY <1>7, <3>1, CachedFacts
    <3>4. DOMAIN hp \ {NoBuf} = DOMAIN hp
      BY <3>3
    <3> QED BY <3>2, <3>3, <3>4
  <2>2. CASE Full(cache, Cap)
    <3> DEFINE l == Len(cache)
               x == cache[l].page
    <3>1. l \in DOMAIN cache /\ Room(cache) = l - 1
      BY <1>5, <2>2 DEF Full, Room
    <3>2. Evicted(cache, id, Cap) = {x} /\ x \in CachedBufs(cache) /\ x # NoBuf
      BY <2>2, <3>1 DEF Evicted, CachedBufs
    <3>3. fetched'[g] = x /\ pc'[g] = "write"
      BY <1>0, <3>2
    <3>4. Newest(cache, Room(cache)) = CachedBufs(cache) \ {x}
      <4>1. \A k \in DOMAIN cache : cache[k].page = x => k = l
        BY <3>1 DEF SoundCache, IsCache, HeapInv
      <4>2. \A k : k \in DOMAIN cache /\ k # l <=> k \in 1..Room(cache)
        BY <1>5, <3>1
      <4> QED BY <4>1, <4>2 DEF Newest, CachedBufs
    <3>5. ~Has(cache', hp[x].id)
      <4>1. hp[x].id = cache[l].id /\ cache[l].id # id
        BY <3>1, <3>2 DEF HeapInv, Has
      <4>2. \A k \in 1..Room(cache) : cache[k].id # cache[l].id
        BY <1>5, <3>1 DEF SoundCache, IsCache
      <4> QED BY <1>4, <4>1, <4>2 DEF Has, Extends
    <3> HIDE DEF x
    <3>6. CachedBufs(cache') = DOMAIN hp \ {x}
      BY <1>7, <3>2, <3>4
    <3> QED BY <3>2, <3>3, <3>5, <3>6
  <2> QED BY <2>1, <2>2
<1>10. held'[g] = Newest(cache', n + 1) /\ n + 1 \in 0..Len(cache')
  <2>1. Newest(cache', n + 1) = Newest(cache, n) \union {b} /\ Len(cache') = Room(cache) + 1
    BY <1>4, <1>6 DEF Extends
  <2>2. n + 1 \in 0..Len(cache')
    BY <1>5, <1>6, <2>1
  <2> QED BY <1>0, <2>1, <2>2
<1>11. held'[g] \subseteq CachedBufs(cache')
  <2>1. \A j \in 1..(n + 1) : j \in DOMAIN cache'
    BY <1>3, <1>10
  <2> QED BY <1>10, <2>1 DEF Newest, CachedBufs
<1>12. todo' = todo /\ ToSet(todo'[g]) = {}
  BY <1>0 DEF ToSet
<1>13. /\ DOMAIN heap' = DOMAIN hp \intersect (CachedBufs(cache') \union ({fetched'[g]} \ {NoBuf}))
       /\ \A x \in DOMAIN heap' : heap'[x] = hp[x]
  BY <1>0, <1>11, <1>12, KeptShape
<1>14. DOMAIN heap' = DOMAIN hp
  BY <1>9, <1>13
<1> QED BY <1>8, <1>9, <1>10, <1>12, <1>13, <1>14 DEF Installed

-----------------------------------------------------------------------------
(* Each step keeps the invariant.                                          *)
LEMMA Parts ==
    ASSUME OneProcess, SoundCache(cache'), TypesInv', HeapInv', HeldInv', PlaceInv', DataInv', FlushInv'
    PROVE  WriterInv'
  BY DEF WriterInv, OneProcess

LEMMA InvFacts ==
    ASSUME WriterInv, NEW g \in Proc
    PROVE  /\ \A h \in Proc : h = g
           /\ Allocated \subseteq Page /\ 0 \notin Allocated /\ pageCount \in Nat /\ pageCount <= MaxPage + 1
           /\ held[g] \subseteq CachedBufs(cache) /\ CachedBufs(cache) \subseteq DOMAIN heap
           /\ ToSet(todo[g]) \subseteq CachedBufs(cache)
           /\ \A b \in DOMAIN heap : b # NoBuf /\ (b \in CachedBufs(cache) \/ b = fetched[g])
<1>1. \A h \in Proc : h = g
  BY DEF WriterInv, OneProcess
<1>2. Allocated \subseteq Page /\ 0 \notin Allocated /\ pageCount \in Nat /\ pageCount <= MaxPage + 1
  BY BoundFacts DEF WriterInv, TypesInv, Counts, Allocated, Page
<1>3. held[g] \subseteq CachedBufs(cache) /\ CachedBufs(cache) \subseteq DOMAIN heap
  BY CachedFacts DEF WriterInv, HeldInv
<1>4. ToSet(todo[g]) \subseteq CachedBufs(cache)
  <2>1. ToSet(<< >>) = {}
    BY DEF ToSet
  <2> QED BY <2>1 DEF WriterInv, PlaceInv
<1>5. \A b \in DOMAIN heap : b # NoBuf /\ (b \in CachedBufs(cache) \/ b = fetched[g])
  BY <1>1, BoundFacts DEF WriterInv, HeapInv
<1> QED BY <1>1, <1>2, <1>3, <1>4, <1>5

(* The pages known are the allocated ones, but for the one being allocated. *)
LEMMA KnownFacts ==
    ASSUME OneProcess, NEW g \in Proc
    PROVE  /\ Known \subseteq Allocated
           /\ pc[g] \in {"read", "put"} \/ want[g] = 0 => Known = Allocated
           /\ pc[g] \notin {"read", "put"} => Known = Allocated \ {want[g]}
           /\ pc'[g] \in {"read", "put"} \/ want'[g] = 0 => Known' = Allocated'
           /\ pc'[g] \notin {"read", "put"} => Known' = Allocated' \ {want'[g]}
<1>1. Proc = {g}
  BY DEF OneProcess
<1>2. 0 \notin Allocated /\ 0 \notin Allocated'
  BY DEF Allocated
<1> QED BY <1>1, <1>2 DEF Known

LEMMA AloneFacts ==
    ASSUME OneProcess
    PROVE  Alone
  BY DEF OneProcess, Alone

(* A step away from the file and the content of pages.                     *)
LEMMA Quiet ==
    ASSUME WriterInv, UNCHANGED <<file, pageCount, ghost>>, Known' = Known,
           DOMAIN heap' = DOMAIN heap, \A b \in DOMAIN heap : heap'[b] = heap[b],
           \A h \in Proc : pc'[h] \notin {"written", "flush", "flushed"}
    PROVE  DataInv' /\ FlushInv'
<1>1. Allocated' = Allocated /\ UNCHANGED <<disk, latest>> /\ \A id : OnDisk(id)' <=> OnDisk(id)
  BY DEF Allocated, OnDisk, file, ghost
<1>2. \A b \in DOMAIN heap :
        /\ heap'[b].data = latest[heap[b].id]
        /\ ~heap'[b].dirty /\ heap[b].id \in Known => OnDisk(heap[b].id)
  BY DEF WriterInv, DataInv
<1>3. DataInv'
  BY <1>1, <1>2 DEF WriterInv, DataInv
<1>4. FlushInv'
  BY DEF WriterInv, FlushInv, file, ghost
<1> QED BY <1>3, <1>4

LEMMA HitStep ==
    ASSUME WriterInv, NEW g \in Proc, NEW id \in Page, GetHit(g, id), SoundCache(cache')
    PROVE  WriterInv'
<1> USE InvFacts DEF WriterInv, PlaceNames
<1>1. PICK S : cache \in Seq(S)
  BY DEF SoundCache
<1>2. /\ Len(cache) \in Nat /\ DOMAIN cache = 1..Len(cache) /\ Unique(cache)
      /\ Len(cache') \in Nat /\ DOMAIN cache' = 1..Len(cache')
  <2>1. PICK T : cache' \in Seq(T)
    BY DEF SoundCache
  <2>2. Unique(cache)
    BY DEF SoundCache, IsCache, Unique
  <2> QED BY <1>1, <2>1, <2>2, LenProperties
<1> DEFINE i == At(cache, id)
<1>3. i \in 1..Len(cache) /\ cache[i].id = id
  BY <1>2, AtIsPosition DEF GetHit
<1> HIDE DEF i
<1>4. Moved(cache', cache, i)
  <2> DEFINE t == cache'
  <2>1. t = Touched(cache, cache[i].id) /\ DOMAIN t = 1..Len(t)
    BY <1>2, <1>3 DEF GetHit
  <2> HIDE DEF t
  <2>2. Moved(t, cache, i)
    BY <1>1, <1>2, <1>3, <2>1, TouchedEntries
  <2> QED BY <2>2 DEF t
<1>5. CachedBufs(cache') = CachedBufs(cache)
  BY <1>4 DEF CachedBufs, Moved
<1>6. PageOf(cache, id) = cache[i].page /\ cache[i].page \in CachedBufs(cache) /\ cache[i].page \in Buf
  BY <1>2, <1>3 DEF PageOf, i, CachedBufs, HeapInv
<1>7. held'[g] = held[g] \union {cache[i].page} /\ UNCHANGED <<file, pageCount, heap, pc, want, fetched, todo, ghost, crashes>>
  BY <1>6 DEF GetHit, TypesInv
<1>8. TypesInv'
  <2>1. held' \in [Proc -> SUBSET Buf]
    BY <1>6 DEF GetHit, TypesInv
  <2> QED BY <1>7, <2>1 DEF TypesInv, file, ghost
<1>9. HeapInv'
  BY <1>4, <1>5, <1>7 DEF HeapInv, Allocated, Moved
<1>10. HeldInv'
  <2>1. PICK n \in 0..Len(cache) : held[g] = Newest(cache, n)
    BY DEF HeldInv
  <2>2. \E m \in 0..Len(cache') : held'[g] = Newest(cache', m)
    <3>1. CASE n >= i
      <4>1. cache[i].page \in held[g]
        BY <1>3, <2>1, <3>1 DEF Newest
      <4>2. held'[g] = held[g] /\ n \in i..Len(cache)
        BY <1>2, <1>3, <1>7, <3>1, <4>1
      <4> QED BY <1>4, <2>1, <4>2 DEF Moved
    <3>2. CASE n < i
      <4>1. n \in 0..(i - 1) /\ n + 1 \in 0..Len(cache)
        BY <1>2, <1>3, <3>2
      <4> QED BY <1>4, <1>7, <2>1, <4>1 DEF Moved
    <3> QED BY <1>2, <1>3, <3>1, <3>2
  <2> QED BY <1>7, <2>2 DEF HeldInv, GetHit
<1>11. PlaceInv'
  BY <1>7 DEF GetHit, PlaceInv
<1>12. DataInv' /\ FlushInv'
  <2>1. Known' = Known
    BY <1>7 DEF Known, Allocated
  <2> QED BY <1>7, <2>1, Quiet DEF GetHit
<1> QED BY <1>8, <1>9, <1>10, <1>11, <1>12, Parts

LEMMA MissStep ==
    ASSUME WriterInv, NEW g \in Proc, NEW id \in Page, GetMiss(g, id), SoundCache(cache')
    PROVE  WriterInv'
<1> USE InvFacts DEF WriterInv, PlaceNames
<1>1. /\ pc'[g] = "read" /\ want'[g] = id /\ fetched[g] = NoBuf /\ todo[g] = << >>
      /\ id \in Known /\ id \in Allocated /\ ~Has(cache, id) /\ pc[g] = "idle" /\ want[g] = 0
      /\ UNCHANGED <<file, pageCount, heap, cache, fetched, held, todo, ghost, crashes>>
  BY KnownFacts DEF GetMiss, Goto, TypesInv, PlaceInv
<1>2. TypesInv'
  BY <1>1 DEF GetMiss, Goto, TypesInv, file, ghost
<1>3. HeapInv'
  BY <1>1 DEF HeapInv, Allocated
<1>4. HeldInv'
  <2>1. PICK n \in 0..Len(cache) : held[g] = Newest(cache, n)
    BY DEF HeldInv
  <2>2. n < MaxHold
    BY <2>1, NewestSize, AloneFacts DEF GetMiss, MayHold
  <2> QED BY <1>1, <2>1, <2>2 DEF HeldInv
<1>5. PlaceInv'
  BY <1>1 DEF GetMiss, PlaceInv, Allocated
<1>6. DataInv' /\ FlushInv'
  <2>1. Known' = Known
    BY <1>1, KnownFacts DEF Allocated
  <2> QED BY <1>1, <2>1, Quiet
<1> QED BY <1>1, <1>2, <1>3, <1>4, <1>5, <1>6, Parts

LEMMA ModifyStep ==
    ASSUME WriterInv, NEW g \in Proc, NEW b \in held[g], Modify(g, b), SoundCache(cache')
    PROVE  WriterInv'
<1> USE InvFacts DEF WriterInv, PlaceNames
<1>1. PICK u \in Update : /\ heap' = [heap EXCEPT ![b].data = @ \union {u}, ![b].dirty = TRUE]
                          /\ latest' = [latest EXCEPT ![heap[b].id] = @ \union {u}]
  BY DEF Modify
<1>2. UNCHANGED <<file, pageCount, cache, procs, flushed, crashes>> /\ pc[g] = "idle"
  BY DEF Modify
<1>3. b \in DOMAIN heap /\ heap[b].id \in Page /\ heap[b].data \subseteq Update
  BY DEF HeapInv
<1>4. /\ DOMAIN heap' = DOMAIN heap /\ \A x \in DOMAIN heap : heap'[x].id = heap[x].id
      /\ \A x \in DOMAIN heap : x # b => heap'[x] = heap[x]
      /\ heap'[b] = [heap[b] EXCEPT !.data = @ \union {u}, !.dirty = TRUE]
  BY <1>1, <1>3
<1>5. heap'[b].data = heap[b].data \union {u} /\ heap'[b].dirty = TRUE
      /\ heap'[b] \in [id : Allocated, data : SUBSET Update, dirty : BOOLEAN]
  <2>1. heap[b] \in Objects(Allocated)
    BY <1>3 DEF HeapInv, Objects
  <2>2. heap[b].data \union {u} \in SUBSET Update /\ TRUE \in BOOLEAN
    BY <1>3
  <2>3. heap'[b] = [heap[b] EXCEPT !.data = heap[b].data \union {u}, !.dirty = TRUE]
    BY <1>4
  <2>4. /\ heap'[b].data = heap[b].data \union {u} /\ heap'[b].dirty = TRUE
        /\ heap'[b] \in Objects(Allocated)
    BY <2>1, <2>2, <2>3 DEF Objects
  <2> QED BY <2>4 DEF Objects
<1>6. TypesInv'
  <2>1. latest' \in [Page -> SUBSET Update]
    BY <1>1, <1>3 DEF TypesInv
  <2> QED BY <1>2, <2>1 DEF TypesInv, file, procs
<1>7. HeapInv'
  <2>1. Allocated' = Allocated /\ cache' = cache /\ fetched' = fetched
    BY <1>2 DEF Allocated, procs
  <2>2. \A x \in DOMAIN heap : heap'[x] \in [id : Allocated, data : SUBSET Update, dirty : BOOLEAN]
    BY <1>4, <1>5 DEF HeapInv
  <2> QED BY <1>4, <2>1, <2>2 DEF HeapInv
<1>8. HeldInv' /\ PlaceInv'
  BY <1>2, <1>4 DEF HeldInv, PlaceInv, procs
<1>9. /\ latest'[heap[b].id] = latest[heap[b].id] \union {u}
      /\ \A id \in Page : id # heap[b].id => latest'[id] = latest[id]
  BY <1>1, <1>3 DEF TypesInv
<1>10. DataInv'
  <2>1. /\ Allocated' = Allocated /\ Known' = Known
        /\ \A id \in Page : id # heap[b].id => (OnDisk(id)' <=> OnDisk(id))
    BY <1>2, <1>9 DEF Allocated, Known, OnDisk, file, procs
  <2>2. ASSUME NEW x \in DOMAIN heap
        PROVE  heap'[x].data = latest'[heap[x].id] /\ (~heap'[x].dirty /\ heap[x].id \in Known => OnDisk(heap[x].id)')
    <3>1. CASE x = b
      BY <1>4, <1>5, <1>9, <3>1 DEF DataInv
    <3>2. CASE x # b
      <4>1. heap[x].id # heap[b].id /\ heap[x].id \in Page
        BY <1>3, <3>2 DEF HeapInv
      <4> QED BY <1>4, <1>9, <2>1, <3>2, <4>1 DEF DataInv
    <3> QED BY <3>1, <3>2
  <2>3. \A id \in Page : id \notin Allocated => latest'[id] = {}
    BY <1>3, <1>9 DEF DataInv, HeapInv
  <2>4. ASSUME NEW id \in Known, \A x \in DOMAIN heap : heap[x].id # id PROVE OnDisk(id)'
    <3>1. id # heap[b].id /\ OnDisk(id) /\ id \in Page
      BY <1>3, <2>4, KnownFacts DEF DataInv
    <3> QED BY <2>1, <3>1
  <2>5. \A h \in Proc : pc'[h] = "idle"
    BY <1>2 DEF procs
  <2> QED BY <1>4, <2>1, <2>2, <2>3, <2>4, <2>5 DEF DataInv
<1>11. FlushInv'
  <2>1. \A id \in Page : latest[id] \subseteq latest'[id]
    BY <1>9
  <2> QED BY <1>2, <2>1 DEF FlushInv, file, procs
<1> QED BY <1>2, <1>6, <1>7, <1>8, <1>10, <1>11, Parts

(* Letting go of all pointers, at the end of an operation or on an error.  *)
LEMMA LetGoStep ==
    ASSUME WriterInv, NEW g \in Proc, Release(g) \/ ReadFails(g), SoundCache(cache')
    PROVE  WriterInv'
<1> USE InvFacts DEF WriterInv, PlaceNames
<1>1. /\ pc'[g] = "idle" /\ want'[g] = 0 /\ held'[g] = {} /\ fetched[g] = NoBuf /\ todo[g] = << >>
      /\ heap' = Kept(heap)
      /\ UNCHANGED <<file, pageCount, cache, fetched, todo, ghost, crashes>>
      /\ held' \in [Proc -> SUBSET Buf] /\ want' \in [Proc -> Page \union {0}]
      /\ pc' \in [Proc -> PlaceNames]
  BY DEF Release, ReadFails, Goto, TypesInv, PlaceInv
<1>2. DOMAIN heap' = DOMAIN heap /\ \A b \in DOMAIN heap : heap'[b] = heap[b]
  <2>1. held'[g] \subseteq CachedBufs(cache') /\ ToSet(todo'[g]) \subseteq CachedBufs(cache')
    BY <1>1
  <2>2. /\ DOMAIN heap' = DOMAIN heap \intersect (CachedBufs(cache') \union ({fetched'[g]} \ {NoBuf}))
        /\ \A b \in DOMAIN heap' : heap'[b] = heap[b]
    <3>1. heap' = Kept(heap) /\ OneProcess
      BY <1>1
    <3> QED BY <2>1, <3>1, KeptShape
  <2> QED BY <1>1, <2>2
<1>3. TypesInv'
  BY <1>1 DEF TypesInv, file, ghost
<1>4. HeapInv'
  BY <1>1, <1>2 DEF HeapInv, Allocated
<1>5. HeldInv'
  <2>1. 0 \in 0..Len(cache) /\ Newest(cache, 0) = {}
    BY CachedFacts DEF Newest
  <2> QED BY <1>1, <2>1 DEF HeldInv
<1>6. PlaceInv'
  BY <1>1 DEF PlaceInv
<1>7. DataInv' /\ FlushInv'
  <2>1. Known' = Known
    <3>1. CASE Release(g)
      BY <1>1, <3>1, KnownFacts DEF Release, Allocated
    <3>2. CASE ReadFails(g)
      BY <1>1, <3>2, KnownFacts DEF ReadFails, TypesInv, Allocated
    <3> QED BY <3>1, <3>2
  <2> QED BY <1>1, <1>2, <2>1, Quiet
<1> QED BY <1>3, <1>4, <1>5, <1>6, <1>7, Parts

(* A read finds what the page was last written as.                         *)
LEMMA ReadStep ==
    ASSUME WriterInv, NEW g \in Proc, ReadPage(g), SoundCache(cache')
    PROVE  WriterInv'
<1> USE InvFacts DEF WriterInv, PlaceNames
<1> DEFINE id == want[g]
           buf == NewBuf(want[g])
           new == [id |-> id, data |-> IF disk[id] = NoData THEN {} ELSE disk[id], dirty |-> FALSE]
<1>1. /\ fetched[g] = NoBuf /\ todo[g] = << >> /\ id \in Allocated /\ ~Has(cache, id)
      /\ pc[g] = "read" /\ pc'[g] = "put" /\ fetched'[g] = buf
      /\ UNCHANGED <<file, pageCount, cache, want, held, todo, ghost, crashes>>
  BY DEF ReadPage, Goto, TypesInv, PlaceInv
<1>4. \A b \in DOMAIN heap : heap[b].id # id
  BY <1>1, CachedFacts
<1>2. buf \in Buf /\ buf \notin DOMAIN heap /\ buf[1] = id
  BY <1>1, <1>4, NewBufIsNew
<1>3. /\ DOMAIN heap' = DOMAIN heap \union {buf} /\ heap'[buf] = new
      /\ \A b \in DOMAIN heap : heap'[b] = heap[b]
  BY <1>2 DEF ReadPage, WithNew
<1>5. OnDisk(id) /\ new.data = latest[id] /\ new.id = id /\ new.dirty = FALSE
  <2>1. OnDisk(id)
    BY <1>1, <1>4, KnownFacts DEF DataInv
  <2>2. latest[id] # NoData
    BY <1>1, BoundFacts DEF TypesInv
  <2> QED BY <2>1, <2>2 DEF OnDisk
<1>6. new \in [id : Allocated, data : SUBSET Update, dirty : BOOLEAN]
  BY <1>1, <1>5 DEF TypesInv
<1> HIDE DEF id, buf, new
<1>7. TypesInv'
  <2>1. fetched' \in [Proc -> Buf \union {NoBuf}]
    BY <1>1, <1>2 DEF ReadPage, TypesInv, buf
  <2> QED BY <1>1, <2>1 DEF ReadPage, Goto, TypesInv, file, ghost
<1>8. HeapInv'
  <2>1. Allocated' = Allocated
    BY <1>1 DEF Allocated
  <2>2. \A b, d \in DOMAIN heap' : heap'[b].id = heap'[d].id => b = d
    BY <1>3, <1>4, <1>5 DEF HeapInv
  <2>3. \A b \in DOMAIN heap' : b \in CachedBufs(cache') \/ \E h \in Proc : b = fetched'[h]
    BY <1>1, <1>3
  <2>4. \A i \in DOMAIN cache' : cache'[i].page \in DOMAIN heap' /\ heap'[cache'[i].page].id = cache'[i].id
    BY <1>1, <1>3 DEF HeapInv
  <2>5. \A b \in DOMAIN heap' : b[1] = heap'[b].id
    BY <1>2, <1>3, <1>5 DEF HeapInv
  <2> QED BY <1>2, <1>3, <1>6, <2>1, <2>2, <2>3, <2>4, <2>5 DEF HeapInv
<1>9. HeldInv'
  BY <1>1 DEF HeldInv
<1>10. PlaceInv'
  BY <1>1, <1>3, <1>5 DEF PlaceInv, Allocated, id
<1>11. DataInv'
  <2>1. Allocated' = Allocated /\ Known' = Known /\ latest' = latest /\ \A x : OnDisk(x)' <=> OnDisk(x)
    BY <1>1, KnownFacts DEF Allocated, OnDisk, file, ghost
  <2>2. \A b \in DOMAIN heap' : heap'[b].data = latest[heap'[b].id] /\ (~heap'[b].dirty /\ heap'[b].id \in Known => OnDisk(heap'[b].id))
    BY <1>3, <1>5 DEF DataInv
  <2>3. \A x \in Known : (\A b \in DOMAIN heap' : heap'[b].id # x) => OnDisk(x)
    BY <1>3 DEF DataInv
  <2> QED BY <1>1, <2>1, <2>2, <2>3 DEF DataInv
<1>12. FlushInv'
  BY <1>1 DEF FlushInv, file, ghost
<1> QED BY <1>7, <1>8, <1>9, <1>10, <1>11, <1>12, Parts

(* WriteAt: the file gets all updates of the page.                         *)
LEMMA WriteStep ==
    ASSUME WriterInv, NEW g \in Proc, WritePage(g), SoundCache(cache')
    PROVE  WriterInv'
<1> USE InvFacts DEF WriterInv, PlaceNames
<1> DEFINE b == fetched[g]
           id == heap[b].id
<1>1. /\ b # NoBuf /\ b \in DOMAIN heap /\ id \in Allocated /\ id \in Page
      /\ pc[g] \in {"write", "flush"} /\ pc'[g] = (IF pc[g] = "write" THEN "written" ELSE "flushed")
      /\ disk' = [disk EXCEPT ![id] = heap[b].data] /\ heap[b].data = latest[id] /\ latest[id] \subseteq Update
      /\ UNCHANGED <<synced, fileCount, pageCount, heap, cache, want, fetched, held, todo, ghost, crashes>>
  BY DEF WritePage, Goto, TypesInv, PlaceInv, HeapInv, DataInv
<1> HIDE DEF b, id
<1>2. disk'[id] = latest[id] /\ \A x \in Page : x # id => disk'[x] = disk[x]
  BY <1>1 DEF TypesInv
<1>3. TypesInv'
  <2>1. disk' \in [Page -> (SUBSET Update) \union {NoData}]
    BY <1>1 DEF TypesInv
  <2> QED BY <1>1, <2>1 DEF WritePage, Goto, TypesInv, ghost
<1>4. HeapInv'
  BY <1>1 DEF HeapInv, Allocated
<1>5. HeldInv'
  BY <1>1 DEF HeldInv
<1>6. PlaceInv'
  <2>1. Allocated' = Allocated
    BY <1>1 DEF Allocated
  <2>2. pc[g] = "write" => ~Has(cache, heap[b].id)
    BY DEF PlaceInv, b
  <2>3. pc[g] = "flush" => b \in CachedBufs(cache) \union {NoBuf} /\ held[g] = {} /\ want[g] = 0 /\ fileCount.written = pageCount
    BY DEF PlaceInv, b
  <2>4. pc[g] = "write" => todo[g] = << >>
    BY DEF PlaceInv
  <2>5. pc[g] = "write" /\ want[g] # 0 => want[g] \in Allocated /\ \E x \in held[g] : heap[x].id = want[g]
    BY DEF PlaceInv
  <2> QED BY <1>1, <2>1, <2>2, <2>3, <2>4, <2>5 DEF PlaceInv, b
<1>7. Allocated' = Allocated /\ Known' = Known /\ latest' = latest /\ OnDisk(id)' /\ \A x \in Page : OnDisk(x) => OnDisk(x)'
  <2>1. Allocated' = Allocated /\ Known' = Known /\ latest' = latest
    BY <1>1, KnownFacts DEF Allocated, ghost
  <2>2. id' = id
    BY <1>1 DEF id, b
  <2>3. OnDisk(id)'
    BY <1>2, <2>1, <2>2 DEF OnDisk
  <2>4. ASSUME NEW x \in Page, OnDisk(x) PROVE OnDisk(x)'
    <3>1. CASE x = id
      BY <1>2, <2>1, <3>1 DEF OnDisk
    <3>2. CASE x # id
      BY <1>2, <2>1, <2>4, <3>2 DEF OnDisk
    <3> QED BY <3>1, <3>2
  <2> QED BY <2>1, <2>3, <2>4
<1>8. DataInv'
  <2>1. \A x \in DOMAIN heap : heap[x].id \in Page
    BY DEF HeapInv
  <2>2. \A h \in Proc : OnDisk(heap[fetched[h]].id)'
    <3>1. \A h \in Proc : heap'[fetched'[h]].id = id'
      BY <1>1 DEF id, b
    <3> QED BY <1>7, <3>1 DEF OnDisk
  <2>3. \A x \in DOMAIN heap : heap[x].data = latest[heap[x].id] /\ (~heap[x].dirty /\ heap[x].id \in Known => OnDisk(heap[x].id)')
    BY <1>1, <1>7, <2>1 DEF DataInv, OnDisk
  <2>4. \A x \in Known : (\A y \in DOMAIN heap : heap[y].id # x) => OnDisk(x)'
    BY <1>7, KnownFacts DEF DataInv
  <2> QED BY <1>1, <1>7, <2>2, <2>3, <2>4 DEF DataInv
<1>9. FlushInv'
  <2>1. \A x \in Page : flushed[x] # {} => flushed[x] \subseteq disk'[x]
    BY <1>1, <1>2 DEF FlushInv
  <2> QED BY <1>1, <2>1 DEF FlushInv, ghost
<1> QED BY <1>3, <1>4, <1>5, <1>6, <1>8, <1>9, Parts

(* writePage is done with a page, which is in the file by then.            *)
LEMMA CleanStep ==
    ASSUME WriterInv, NEW g \in Proc, Clean(g) \/ SkipClean(g), SoundCache(cache')
    PROVE  WriterInv'
<1> USE InvFacts DEF WriterInv, PlaceNames
<1> DEFINE b == fetched[g]
           hp == IF Clean(g) THEN [heap EXCEPT ![b].dirty = FALSE] ELSE heap
<1>1. /\ pc[g] \in {"write", "written", "flush", "flushed"} /\ b # NoBuf /\ b \in DOMAIN heap
      /\ pc'[g] = (IF pc[g] \in {"write", "written"} THEN Return(g) ELSE "flush") /\ fetched'[g] = NoBuf
      /\ pc' \in [Proc -> PlaceNames]
      /\ fetched' \in [Proc -> Buf \union {NoBuf}]
      /\ UNCHANGED <<file, pageCount, cache, want, held, todo, ghost, crashes>>
  BY DEF Clean, SkipClean, Goto, Return, TypesInv, PlaceInv
<1>2. heap' = Kept(hp)
  BY DEF Clean, SkipClean
<1>3. OnDisk(heap[b].id)
  <2>1. heap[b].id \in Known
    <3>1. heap[b].id \in Allocated
      BY <1>1 DEF HeapInv
    <3>2. CASE want[g] = 0
      BY <3>1, <3>2, KnownFacts
    <3>3. CASE want[g] # 0
      <4>1. Has(cache, want[g]) /\ ~Has(cache, heap[b].id)
        BY <1>1, <3>3, CachedFacts DEF PlaceInv
      <4> QED BY <3>1, <4>1, KnownFacts
    <3> QED BY <3>2, <3>3
  <2> QED BY <1>1, <2>1 DEF Clean, SkipClean, DataInv
<1>4. /\ DOMAIN hp = DOMAIN heap
      /\ \A x \in DOMAIN heap : /\ hp[x] \in [id : Allocated, data : SUBSET Update, dirty : BOOLEAN]
                                /\ hp[x].id = heap[x].id /\ hp[x].data = heap[x].data
                                /\ x # b => hp[x] = heap[x]
      /\ ~hp[b].dirty
  <2>1. \A x \in DOMAIN heap : heap[x] \in [id : Allocated, data : SUBSET Update, dirty : BOOLEAN]
    BY DEF HeapInv
  <2>2. CASE Clean(g)
    <3>1. hp = [heap EXCEPT ![b].dirty = FALSE]
      BY <2>2
    <3> HIDE DEF hp, b
    <3>2. /\ DOMAIN hp = DOMAIN heap /\ \A x \in DOMAIN heap : x # b => hp[x] = heap[x]
          /\ hp[b] = [heap[b] EXCEPT !.dirty = FALSE]
      BY <1>1, <3>1
    <3>3. /\ hp[b] \in Objects(Allocated)
          /\ hp[b].id = heap[b].id /\ hp[b].data = heap[b].data /\ hp[b].dirty = FALSE
      <4>1. heap[b] \in Objects(Allocated) /\ {} \in SUBSET Update /\ FALSE \in BOOLEAN
        BY <1>1, <2>1 DEF Objects
      <4> QED BY <3>2, <4>1 DEF Objects
    <3> QED BY <2>1, <3>2, <3>3 DEF Objects
  <2>3. CASE ~Clean(g)
    <3>1. hp = heap /\ ~heap[b].dirty
      BY <2>3 DEF SkipClean
    <3> HIDE DEF hp, b
    <3> QED BY <1>1, <2>1, <3>1
  <2> QED BY <2>2, <2>3
<1> HIDE DEF hp
<1>5. /\ DOMAIN heap' = CachedBufs(cache)
      /\ \A x \in DOMAIN heap' : x \in DOMAIN heap /\ heap'[x] = hp[x]
  <2>1. held'[g] \subseteq CachedBufs(cache') /\ ToSet(todo'[g]) \subseteq CachedBufs(cache')
    BY <1>1
  <2>2. /\ DOMAIN heap' = DOMAIN hp \intersect (CachedBufs(cache') \union ({fetched'[g]} \ {NoBuf}))
        /\ \A x \in DOMAIN heap' : heap'[x] = hp[x]
    BY <1>2, <2>1, KeptShape
  <2> QED BY <1>1, <1>4, <2>2
<1>6. TypesInv'
  BY <1>1 DEF TypesInv, file, ghost
<1>7. HeapInv'
  <2>1. Allocated' = Allocated /\ cache' = cache
    BY <1>1 DEF Allocated
  <2>2. \A x, y \in DOMAIN heap' : heap'[x].id = heap'[y].id => x = y
    BY <1>4, <1>5 DEF HeapInv
  <2>3. \A i \in DOMAIN cache : cache[i].page \in DOMAIN heap' /\ heap'[cache[i].page].id = cache[i].id
    <3>1. \A i \in DOMAIN cache : cache[i].page \in CachedBufs(cache)
      BY DEF CachedBufs
    <3> QED BY <1>4, <1>5, <3>1 DEF HeapInv
  <2>4. \A x \in DOMAIN heap' : x \in Buf /\ heap'[x] \in [id : Allocated, data : SUBSET Update, dirty : BOOLEAN]
    BY <1>4, <1>5 DEF HeapInv
  <2>5. \A x \in DOMAIN heap' : x[1] = heap'[x].id
    BY <1>4, <1>5 DEF HeapInv
  <2> QED BY <1>5, <2>1, <2>2, <2>3, <2>4, <2>5 DEF HeapInv
<1>8. HeldInv'
  BY <1>1 DEF HeldInv, Return
<1>9. PlaceInv'
  <2>1. \A x \in held[g] : x \in DOMAIN heap' /\ heap'[x].id = heap[x].id
    BY <1>4, <1>5
  <2>2. ToSet(todo[g]) \subseteq CachedBufs(cache)
    OBVIOUS
  <2>3. pc[g] \in {"write", "written"} => todo[g] = << >>
    BY DEF PlaceInv
  <2>4. want[g] # 0 => want[g] \in Allocated /\ \E x \in held[g] : heap[x].id = want[g]
    BY <1>1 DEF PlaceInv
  <2>5. Allocated' = Allocated
    BY <1>1 DEF Allocated
  <2>6. pc[g] \in {"flush", "flushed"} => held[g] = {} /\ fileCount.written = pageCount /\ want[g] = 0
    BY DEF PlaceInv
  <2> QED BY <1>1, <2>1, <2>2, <2>3, <2>4, <2>5, <2>6 DEF PlaceInv, Return, file
<1>10. DataInv'
  <2>1. Allocated' = Allocated /\ latest' = latest /\ \A x : OnDisk(x)' <=> OnDisk(x)
    BY <1>1 DEF Allocated, OnDisk, file, ghost
  <2>5. Known' = Known
    BY <1>1, <2>1, KnownFacts DEF Return
  <2>2. ASSUME NEW x \in DOMAIN heap' PROVE heap'[x].data = latest[heap'[x].id] /\ (~heap'[x].dirty /\ heap'[x].id \in Known => OnDisk(heap'[x].id))
    <3>1. CASE x = b
      BY <1>3, <1>4, <1>5, <3>1 DEF DataInv
    <3>2. CASE x # b
      BY <1>4, <1>5, <3>2 DEF DataInv
    <3> QED BY <3>1, <3>2
  <2>3. ASSUME NEW x \in Known, \A y \in DOMAIN heap' : heap'[y].id # x PROVE OnDisk(x)
    <3>1. CASE \E y \in DOMAIN heap : heap[y].id = x
      BY <1>3, <1>4, <1>5, <2>3, <3>1
    <3>2. CASE \A y \in DOMAIN heap : heap[y].id # x
      BY <3>2 DEF DataInv
    <3> QED BY <3>1, <3>2
  <2>4. \A h \in Proc : pc'[h] \notin {"written", "flushed"}
    BY <1>1 DEF Return
  <2>6. \A x \in Page : x \notin Allocated => latest[x] = {}
    BY DEF DataInv
  <2> QED BY <2>1, <2>2, <2>3, <2>4, <2>5, <2>6 DEF DataInv
<1>11. FlushInv'
  <2>1. \A x \in DOMAIN heap' : heap'[x].dirty => heap[x].dirty /\ x # b
    BY <1>4, <1>5
  <2>2. \A h \in Proc : pc'[h] \in {"flush", "flushed"} => \A x \in DOMAIN heap' : heap'[x].dirty => x \in ToSet(todo'[h])
    BY <1>1, <1>5, <2>1 DEF FlushInv, Return
  <2> QED BY <1>1, <2>2 DEF FlushInv, file, ghost
<1> QED BY <1>6, <1>7, <1>8, <1>9, <1>10, <1>11, Parts

(* FlushAll writes the header ...                                          *)
LEMMA FlushHeaderStep ==
    ASSUME WriterInv, NEW g \in Proc, FlushHeader(g), SoundCache(cache')
    PROVE  WriterInv'
<1> USE InvFacts DEF WriterInv, PlaceNames
<1>1. /\ pc[g] = "idle" /\ pc'[g] = "header" /\ held[g] = {} /\ fetched[g] = NoBuf /\ want[g] = 0 /\ todo[g] = << >>
      /\ UNCHANGED <<disk, synced, pageCount, heap, cache, want, fetched, held, todo, ghost, crashes>>
      /\ fileCount' = [fileCount EXCEPT !.written = pageCount]
  BY DEF FlushHeader, Goto, TypesInv, PlaceInv
<1>2. fileCount' \in [written : Counts, synced : Counts] /\ fileCount'.written = pageCount /\ fileCount'.synced = fileCount.synced
  BY <1>1 DEF TypesInv
<1>3. TypesInv'
  BY <1>1, <1>2 DEF FlushHeader, Goto, TypesInv, ghost
<1>4. HeapInv'
  BY <1>1 DEF HeapInv, Allocated
<1>5. HeldInv'
  BY <1>1 DEF HeldInv
<1>6. PlaceInv'
  BY <1>1, <1>2 DEF PlaceInv
<1>7. DataInv'
  <2>1. Allocated' = Allocated /\ Known' = Known
    BY <1>1, KnownFacts DEF Allocated
  <2> QED BY <1>1, <2>1 DEF DataInv, OnDisk, ghost
<1>8. FlushInv'
  BY <1>1, <1>2 DEF FlushInv, ghost
<1> QED BY <1>3, <1>4, <1>5, <1>6, <1>7, <1>8, Parts

(* ... has all cached pages before it then ...                             *)
LEMMA FlushPagesStep ==
    ASSUME WriterInv, NEW g \in Proc, FlushPages(g), SoundCache(cache')
    PROVE  WriterInv'
<1> USE InvFacts DEF WriterInv, PlaceNames
<1> DEFINE snapshot == [i \in DOMAIN cache |-> cache[i].page]
<1>1. /\ pc[g] = "header" /\ pc'[g] = "flush" /\ held[g] = {} /\ fetched[g] = NoBuf /\ want[g] = 0
      /\ fileCount.written = pageCount
      /\ UNCHANGED <<file, pageCount, heap, cache, want, fetched, held, ghost, crashes>>
  BY DEF FlushPages, Goto, TypesInv, PlaceInv
<1>2. snapshot \in Seq(Buf) /\ ToSet(snapshot) = CachedBufs(cache)
  <2>1. Len(cache) \in Nat /\ DOMAIN cache = 1..Len(cache)
    BY CachedFacts
  <2>2. \A i \in DOMAIN cache : cache[i].page \in Buf
    BY DEF HeapInv
  <2>3. snapshot \in Seq(Buf)
    BY <2>1, <2>2
  <2> QED BY <2>3 DEF ToSet, CachedBufs
<1> HIDE DEF snapshot
<1>3. todo'[g] = snapshot /\ todo' \in [Proc -> Seq(Buf)]
  BY <1>2 DEF FlushPages, TypesInv, snapshot
<1>4. TypesInv'
  BY <1>1, <1>3 DEF FlushPages, Goto, TypesInv, file, ghost
<1>5. HeapInv'
  BY <1>1 DEF HeapInv, Allocated
<1>6. HeldInv'
  BY <1>1 DEF HeldInv
<1>7. PlaceInv'
  BY <1>1, <1>2, <1>3 DEF PlaceInv, file
<1>8. DataInv'
  <2>1. Allocated' = Allocated /\ Known' = Known
    BY <1>1, KnownFacts DEF Allocated
  <2> QED BY <1>1, <2>1 DEF DataInv, OnDisk, file, ghost
<1>9. FlushInv'
  BY <1>1, <1>2, <1>3 DEF FlushInv, file, ghost
<1> QED BY <1>4, <1>5, <1>6, <1>7, <1>8, <1>9, Parts

(* ... takes them one by one ...                                           *)
LEMMA FlushNextStep ==
    ASSUME WriterInv, NEW g \in Proc, FlushNext(g), SoundCache(cache')
    PROVE  WriterInv'
<1> USE InvFacts DEF WriterInv, PlaceNames
<1>1. /\ pc[g] = "flush" /\ fetched[g] = NoBuf /\ todo[g] \in Seq(Buf) /\ todo[g] # << >>
      /\ fetched'[g] = Head(todo[g]) /\ todo'[g] = Tail(todo[g])
      /\ UNCHANGED <<file, pageCount, heap, cache, pc, want, held, ghost, crashes>>
  BY DEF FlushNext, TypesInv
<1>2. /\ Tail(todo[g]) \in Seq(Buf) /\ Head(todo[g]) \in Buf
      /\ ToSet(todo[g]) = {Head(todo[g])} \union ToSet(Tail(todo[g]))
  <2> DEFINE q == todo[g]
  <2>1. q \in Seq(Buf) /\ q # << >>
    BY <1>1
  <2> HIDE DEF q
  <2>2. /\ Len(q) \in Nat /\ Len(q) >= 1 /\ Head(q) = q[1] /\ Head(q) \in Buf
        /\ Tail(q) \in Seq(Buf) /\ Len(Tail(q)) = Len(q) - 1
        /\ \A i \in 1..(Len(q) - 1) : Tail(q)[i] = q[i + 1]
    BY <2>1, HeadTailProperties, LenProperties, EmptySeq
  <2>3. DOMAIN q = 1..Len(q) /\ DOMAIN Tail(q) = 1..(Len(q) - 1)
    BY <2>1, <2>2, LenProperties
  <2>4. \A i \in 1..Len(q) : i = 1 \/ (i - 1 \in 1..(Len(q) - 1) /\ q[i] = Tail(q)[i - 1])
    BY <2>2
  <2>5. ToSet(q) = {Head(q)} \union ToSet(Tail(q))
    <3>1. ASSUME NEW i \in 1..Len(q) PROVE q[i] \in {Head(q)} \union ToSet(Tail(q))
      BY <2>2, <2>3, <2>4 DEF ToSet
    <3>2. ASSUME NEW i \in 1..(Len(q) - 1) PROVE Tail(q)[i] \in ToSet(q)
      <4>1. i + 1 \in 1..Len(q) /\ Tail(q)[i] = q[i + 1]
        BY <2>2
      <4> QED BY <2>3, <4>1 DEF ToSet
    <3>3. Head(q) \in ToSet(q)
      <4>1. 1 \in 1..Len(q)
        BY <2>2
      <4> QED BY <2>2, <2>3, <4>1 DEF ToSet
    <3> QED BY <2>3, <3>1, <3>2, <3>3 DEF ToSet
  <2> QED BY <2>2, <2>5 DEF q
<1>3. TypesInv'
  <2>1. fetched' \in [Proc -> Buf \union {NoBuf}] /\ todo' \in [Proc -> Seq(Buf)]
    BY <1>2 DEF FlushNext, TypesInv
  <2> QED BY <1>1, <2>1 DEF TypesInv, file, ghost
<1>4. HeapInv'
  <2>1. \A b \in DOMAIN heap : b \in CachedBufs(cache)
    BY <1>1
  <2> QED BY <1>1, <2>1 DEF HeapInv, Allocated
<1>5. HeldInv'
  BY <1>1 DEF HeldInv
<1>6. PlaceInv'
  BY <1>1, <1>2 DEF PlaceInv, file
<1>7. DataInv'
  <2>1. Allocated' = Allocated /\ Known' = Known /\ \A x : OnDisk(x)' <=> OnDisk(x)
    BY <1>1 DEF Allocated, Known, OnDisk, file, ghost
  <2>2. \A h \in Proc : pc'[h] = "flush"
    BY <1>1
  <2> QED BY <1>1, <2>1, <2>2 DEF DataInv, OnDisk, file, ghost
<1>8. FlushInv'
  BY <1>1, <1>2 DEF FlushInv, file, ghost
<1> QED BY <1>3, <1>4, <1>5, <1>6, <1>7, <1>8, Parts

(* ... and makes the file permanent when all of them are in it.            *)
LEMMA SyncStep ==
    ASSUME WriterInv, NEW g \in Proc, Sync(g), SoundCache(cache')
    PROVE  WriterInv'
<1> USE InvFacts DEF WriterInv, PlaceNames
<1>1. /\ pc[g] = "flush" /\ fetched[g] = NoBuf /\ todo[g] = << >> /\ pc'[g] = "idle" /\ held[g] = {} /\ want[g] = 0
      /\ synced' = disk /\ flushed' = latest /\ fileCount.written = pageCount
      /\ fileCount' = [fileCount EXCEPT !.synced = fileCount.written]
      /\ UNCHANGED <<disk, pageCount, heap, cache, want, fetched, held, todo, latest, crashes>>
  BY DEF Sync, Goto, TypesInv, PlaceInv
<1>2. fileCount' \in [written : Counts, synced : Counts] /\ fileCount'.written = pageCount /\ fileCount'.synced = pageCount
  BY <1>1 DEF TypesInv
<1>3. ASSUME NEW id \in Page, latest[id] # {}
      PROVE  latest[id] \subseteq disk[id] /\ id < pageCount
  <2>1. id \in Allocated /\ id \in Known
    BY <1>1, <1>3, KnownFacts DEF DataInv
  <2>2. \A b \in DOMAIN heap : ~heap[b].dirty
    <3>1. ToSet(todo[g]) = {}
      BY <1>1 DEF ToSet
    <3> QED BY <1>1, <3>1 DEF FlushInv, HeapInv
  <2>3. OnDisk(id)
    BY <2>1, <2>2 DEF DataInv
  <2> QED BY <1>3, <2>1, <2>3 DEF OnDisk, Allocated, Page
<1>4. TypesInv'
  BY <1>1, <1>2 DEF Sync, Goto, TypesInv
<1>5. HeapInv'
  BY <1>1 DEF HeapInv, Allocated
<1>6. HeldInv'
  BY <1>1 DEF HeldInv
<1>7. PlaceInv'
  BY <1>1 DEF PlaceInv
<1>8. DataInv'
  <2>1. Allocated' = Allocated /\ Known' = Known
    BY <1>1, KnownFacts DEF Allocated
  <2> QED BY <1>1, <2>1 DEF DataInv, OnDisk
<1>9. FlushInv'
  BY <1>1, <1>2, <1>3 DEF FlushInv
<1> QED BY <1>4, <1>5, <1>6, <1>7, <1>8, <1>9, Parts

(* What put leaves: for a page object of a page that is not cached.        *)
CanInstall(g, id, b, hp, next) ==
    /\ id \in Allocated' /\ next \in {"idle", "format"} /\ want'[g] = (IF next = "format" THEN id ELSE 0)
    /\ ~Has(cache, id) /\ b \in DOMAIN hp /\ hp[b].id = id /\ b # NoBuf /\ b \notin CachedBufs(cache)
    /\ DOMAIN hp = CachedBufs(cache) \union {b} /\ DOMAIN hp \subseteq Buf
    /\ \A x \in CachedBufs(cache) : hp[x] = heap[x]
    /\ \A x \in DOMAIN hp : hp[x] \in Objects(1..(pageCount' - 1)) /\ x[1] = hp[x].id
    /\ todo[g] = << >> /\ \E n \in 0..Len(cache) : held[g] = Newest(cache, n) /\ n < MaxHold

InstallDone(g, hp, next) ==
    /\ DOMAIN heap' = DOMAIN hp /\ \A x \in DOMAIN hp : heap'[x] = hp[x]
    /\ todo' = todo /\ pc'[g] \in {next, "write"}
    /\ pc' \in [Proc -> PlaceNames]
    /\ held' \in [Proc -> SUBSET Buf] /\ fetched' \in [Proc -> Buf \union {NoBuf}]
    /\ HeapInv' /\ HeldInv' /\ PlaceInv'

LEMMA InstallKeeps ==
    ASSUME WriterInv, NEW g \in Proc, NEW id, NEW b, NEW hp, NEW next,
           Install(g, id, b, hp, next), SoundCache(cache'), CanInstall(g, id, b, hp, next)
    PROVE  InstallDone(g, hp, next)
<1> USE DEF CanInstall
<1>1. PICK n \in 0..Len(cache) : held[g] = Newest(cache, n) /\ n < MaxHold
  OBVIOUS
<1>2. \A x \in CachedBufs(cache) : x # NoBuf /\ x \in DOMAIN hp /\ hp[x].id = heap[x].id
  BY InvFacts
<1>3. /\ OneProcess /\ SoundCache(cache) /\ HeapInv /\ fetched \in [Proc -> Buf \union {NoBuf}]
      /\ g \in DOMAIN pc /\ g \in DOMAIN held /\ g \in DOMAIN fetched
  BY DEF WriterInv, TypesInv
<1>4. Installed(g, hp, next)
  BY <1>1, <1>2, <1>3, InstallStep
<1> USE InvFacts DEF WriterInv, Installed
<1>5. /\ held' = [held EXCEPT ![g] = @ \union {b}]
      /\ \E x : fetched' = [fetched EXCEPT ![g] = x]
      /\ \E l \in {next, "write"} : pc' = [pc EXCEPT ![g] = l]
  BY DEF Install, Goto
<1>6. held' \in [Proc -> SUBSET Buf] /\ pc' \in [Proc -> PlaceNames]
  <2>1. PICK l \in {next, "write"} : pc' = [pc EXCEPT ![g] = l]
    BY <1>5
  <2>2. l \in PlaceNames
    BY DEF PlaceNames
  <2> QED BY <1>5, <2>1, <2>2 DEF TypesInv
<1>7. fetched'[g] \in Buf \union {NoBuf}
  BY <1>4
<1>8. fetched' \in [Proc -> Buf \union {NoBuf}]
  BY <1>3, <1>5, <1>7
<1>9. HeapInv'
  <2>1. \A x, y \in DOMAIN hp : hp[x].id = hp[y].id => x = y
    <3>1. \A x \in CachedBufs(cache) : hp[x].id # id
      BY CachedFacts
    <3> QED BY <3>1 DEF HeapInv
  <2>2. \A x \in DOMAIN hp : heap'[x] \in [id : Allocated', data : SUBSET Update, dirty : BOOLEAN]
    BY <1>4 DEF Allocated, Objects
  <2>3. \A x \in DOMAIN hp : x \in CachedBufs(cache') \/ x = fetched'[g]
    BY <1>4
  <2> QED BY <1>4, <2>1, <2>2, <2>3 DEF HeapInv
<1>10. HeldInv'
  BY <1>4 DEF HeldInv
<1>11. PlaceInv'
  <2>1. 0 \notin Allocated'
    BY DEF Allocated
  <2>2. b \in held'[g] /\ heap'[b].id = id
    BY <1>3, <1>4, <1>5
  <2> QED BY <1>4, <2>1, <2>2 DEF PlaceInv
<1> QED BY <1>4, <1>6, <1>8, <1>9, <1>10, <1>11 DEF InstallDone

LEMMA PutStep ==
    ASSUME WriterInv, NEW g \in Proc, PutPage(g), SoundCache(cache')
    PROVE  WriterInv'
<1> USE InvFacts DEF WriterInv, PlaceNames
<1> DEFINE b == fetched[g]
           id == want[g]
<1>1. /\ pc[g] = "put" /\ b \in DOMAIN heap /\ heap[b].id = id /\ ~Has(cache, id) /\ todo[g] = << >>
      /\ UNCHANGED <<file, pageCount, ghost, crashes>> /\ want' \in [Proc -> Page \union {0}] /\ want'[g] = 0 /\ id \in Allocated'
      /\ Install(g, id, b, heap, "idle")
  BY DEF PutPage, TypesInv, PlaceInv, Allocated
<1>2. b # NoBuf /\ b \notin CachedBufs(cache) /\ DOMAIN heap = CachedBufs(cache) \union {b}
  <2>1. b \notin CachedBufs(cache)
    BY <1>1, CachedFacts
  <2>2. \A x \in DOMAIN heap : x \in CachedBufs(cache) \/ x = b
    OBVIOUS
  <2> QED BY <1>1, <2>1, <2>2
<1>3. \E n \in 0..Len(cache) : held[g] = Newest(cache, n) /\ n < MaxHold
  BY <1>1 DEF HeldInv
<1>4. \A x \in DOMAIN heap : heap[x] \in Objects(1..(pageCount' - 1))
  BY <1>1 DEF HeapInv, Allocated, Objects
<1> HIDE DEF b, id
<1>5. /\ DOMAIN heap' = DOMAIN heap /\ \A x \in DOMAIN heap : heap'[x] = heap[x]
      /\ todo' = todo /\ pc'[g] \in {"idle", "write"}
      /\ pc' \in [Proc -> PlaceNames]
      /\ held' \in [Proc -> SUBSET Buf] /\ fetched' \in [Proc -> Buf \union {NoBuf}]
      /\ HeapInv' /\ HeldInv' /\ PlaceInv'
  <2>1. DOMAIN heap \subseteq Buf /\ \A x \in DOMAIN heap : x[1] = heap[x].id
    BY DEF HeapInv
  <2>2. CanInstall(g, id, b, heap, "idle")
    BY <1>1, <1>2, <1>3, <1>4, <2>1 DEF CanInstall
  <2>3. InstallDone(g, heap, "idle")
    BY <1>1, <2>2, InstallKeeps
  <2> QED BY <2>3 DEF InstallDone
<1>6. TypesInv'
  BY <1>1, <1>5 DEF TypesInv, file, ghost
<1>7. DataInv' /\ FlushInv'
  <2>1. Known' = Known
    BY <1>1, <1>5, KnownFacts DEF Allocated
  <2> QED BY <1>1, <1>5, <2>1, Quiet
<1> QED BY <1>5, <1>6, <1>7, Parts

(* AllocatePage takes a page that no update is of ...                      *)
LEMMA AllocateStep ==
    ASSUME WriterInv, NEW g \in Proc, Allocate(g), SoundCache(cache')
    PROVE  WriterInv'
<1> USE InvFacts DEF WriterInv, PlaceNames
<1> DEFINE id == pageCount
<1>1. /\ pc[g] = "idle" /\ fetched[g] = NoBuf /\ todo[g] = << >> /\ want[g] = 0
      /\ id <= MaxPage /\ pageCount' = id + 1 /\ pc'[g] = "new" /\ want'[g] = id
      /\ UNCHANGED <<file, heap, cache, fetched, held, todo, ghost, crashes>>
  BY DEF Allocate, Goto, TypesInv, PlaceInv
<1>2. id \in Page /\ id \notin Allocated /\ latest[id] = {} /\ pageCount' \in Counts
  <2>1. id \in Page /\ pageCount' \in Counts
    BY <1>1, BoundFacts DEF TypesInv, Counts, Page
  <2>2. id \notin Allocated
    BY DEF Allocated
  <2> QED BY <2>1, <2>2 DEF DataInv
<1>3. Allocated' = Allocated \union {id} /\ Known' = Allocated /\ Known = Allocated
  <2>1. Allocated' = Allocated \union {id}
    BY <1>1, <1>2 DEF Allocated, Page
  <2>2. Known = Allocated
    BY <1>1, KnownFacts
  <2>3. Known' = Allocated' \ {id}
    BY <1>1, KnownFacts
  <2> QED BY <1>2, <2>1, <2>2, <2>3
<1>4. ~Has(cache, id)
  BY <1>2, CachedFacts DEF HeapInv
<1>5. TypesInv'
  BY <1>1, <1>2 DEF Allocate, Goto, TypesInv, file, ghost
<1>6. HeapInv'
  BY <1>1, <1>3 DEF HeapInv
<1>7. HeldInv'
  <2>1. PICK n \in 0..Len(cache) : held[g] = Newest(cache, n)
    BY DEF HeldInv
  <2>2. n < MaxHold
    BY <2>1, NewestSize, AloneFacts DEF Allocate, MayHold
  <2> QED BY <1>1, <2>1, <2>2 DEF HeldInv
<1>8. PlaceInv'
  BY <1>1, <1>2, <1>3, <1>4 DEF PlaceInv, ghost
<1>9. DataInv'
  BY <1>1, <1>3 DEF DataInv, OnDisk, file, ghost
<1>10. FlushInv'
  <2>1. \A x \in Page : x < pageCount => x < pageCount'
    BY <1>1 DEF Page
  <2> QED BY <1>1, <2>1 DEF FlushInv, file, ghost
<1> QED BY <1>1, <1>5, <1>6, <1>7, <1>8, <1>9, <1>10, Parts

(* ... puts its page object into the cache ...                             *)
LEMMA PutNewStep ==
    ASSUME WriterInv, NEW g \in Proc, PutNew(g), SoundCache(cache')
    PROVE  WriterInv'
<1> USE InvFacts DEF WriterInv, PlaceNames
<1> DEFINE id == want[g]
           buf == NewBuf(id)
           hp == WithNew(id, {})
           new == [id |-> id, data |-> {}, dirty |-> FALSE]
<1>1. /\ pc[g] = "new" /\ fetched[g] = NoBuf /\ todo[g] = << >>
      /\ id \in Allocated /\ Allocated' = Allocated /\ ~Has(cache, id) /\ latest[id] = {}
      /\ Install(g, id, buf, hp, "format")
      /\ UNCHANGED <<file, pageCount, want, ghost, crashes>>
  BY DEF PutNew, PlaceInv, Allocated
<1>2. \A b \in DOMAIN heap : heap[b].id # id
  BY <1>1, CachedFacts
<1>3. buf \in Buf /\ buf \notin DOMAIN heap /\ buf[1] = id /\ buf # NoBuf
  BY <1>1, <1>2, NewBufIsNew, BoundFacts
<1>4. /\ DOMAIN hp = DOMAIN heap \union {buf} /\ hp[buf] = new
      /\ \A b \in DOMAIN heap : hp[b] = heap[b]
  BY <1>3 DEF WithNew
<1>5. new.id = id /\ new.data = {} /\ want'[g] = id
  BY <1>1
<1>6. new \in Objects(1..(pageCount' - 1))
  BY <1>1 DEF Allocated, Objects
<1> HIDE DEF hp, new, buf, id
<1>7. DOMAIN heap = CachedBufs(cache)
  BY <1>1
<1>8. \E n \in 0..Len(cache) : held[g] = Newest(cache, n) /\ n < MaxHold
  BY <1>1 DEF HeldInv
<1>9. \A x \in DOMAIN hp : hp[x] \in Objects(1..(pageCount' - 1))
  <2>1. \A x \in DOMAIN heap : heap[x] \in Objects(1..(pageCount' - 1))
    BY <1>1 DEF HeapInv, Allocated, Objects
  <2> QED BY <1>4, <1>6, <2>1
<1>10. /\ DOMAIN heap' = DOMAIN hp /\ \A x \in DOMAIN hp : heap'[x] = hp[x]
       /\ todo' = todo /\ pc'[g] \in {"format", "write"}
       /\ pc' \in [Proc -> PlaceNames]
       /\ held' \in [Proc -> SUBSET Buf] /\ fetched' \in [Proc -> Buf \union {NoBuf}]
       /\ HeapInv' /\ HeldInv' /\ PlaceInv'
  <2>1. DOMAIN hp \subseteq Buf /\ buf \in DOMAIN hp /\ hp[buf].id = id /\ buf \notin CachedBufs(cache)
        /\ DOMAIN hp = CachedBufs(cache) \union {buf} /\ \A x \in CachedBufs(cache) : hp[x] = heap[x]
    BY <1>3, <1>4, <1>5, <1>7 DEF HeapInv
  <2>2. \A x \in DOMAIN hp : x[1] = hp[x].id
    BY <1>3, <1>4, <1>5 DEF HeapInv
  <2>3. CanInstall(g, id, buf, hp, "format")
    BY <1>1, <1>3, <1>5, <1>8, <1>9, <2>1, <2>2 DEF CanInstall
  <2>4. InstallDone(g, hp, "format")
    BY <1>1, <2>3, InstallKeeps
  <2> QED BY <2>4 DEF InstallDone
<1>11. TypesInv'
  BY <1>1, <1>10 DEF TypesInv, file, ghost
<1>12. DataInv'
  <2>1. Known' = Known /\ id \notin Known /\ \A x : OnDisk(x)' <=> OnDisk(x)
    <3>1. Known' = Known /\ id \notin Known
      <4>1. Known = Allocated \ {id} /\ Known' = Allocated' \ {id}
        BY <1>1, <1>5, <1>10, KnownFacts DEF id
      <4> QED BY <1>1, <4>1
    <3>2. \A x : OnDisk(x)' <=> OnDisk(x)
      BY <1>1 DEF OnDisk, file, ghost
    <3> QED BY <3>1, <3>2
  <2>2. ASSUME NEW x \in DOMAIN hp
        PROVE  heap'[x].data = latest[heap'[x].id] /\ (~heap'[x].dirty /\ heap'[x].id \in Known => OnDisk(heap'[x].id))
    <3>1. CASE x = buf
      <4>1. heap'[x] = new
        BY <1>4, <1>10, <3>1
      <4> QED BY <1>1, <1>5, <2>1, <4>1
    <3>2. CASE x # buf
      BY <1>4, <1>10, <3>2 DEF DataInv
    <3> QED BY <3>1, <3>2
  <2>3. \A x \in Known : (\A y \in DOMAIN heap' : heap'[y].id # x) => OnDisk(x)
    BY <1>4, <1>10 DEF DataInv
  <2>4. \A x \in Page : x \notin Allocated => latest[x] = {}
    BY DEF DataInv
  <2>5. \A h \in Proc : pc'[h] \notin {"written", "flushed"}
    BY <1>10
  <2> QED BY <1>1, <1>10, <2>1, <2>2, <2>3, <2>4, <2>5 DEF DataInv, ghost
<1>13. FlushInv'
  BY <1>1, <1>10 DEF FlushInv, file, ghost
<1> QED BY <1>10, <1>11, <1>12, <1>13, Parts

(* ... and its caller marks it dirty, with which the page is known.        *)
LEMMA FormatStep ==
    ASSUME WriterInv, NEW g \in Proc, Format(g), SoundCache(cache')
    PROVE  WriterInv'
<1> USE InvFacts DEF WriterInv, PlaceNames
<1>1. PICK b \in held[g] : heap[b].id = want[g] /\ heap' = [heap EXCEPT ![b].dirty = TRUE]
  BY DEF Format
<1>2. /\ pc[g] = "format" /\ pc'[g] = "idle" /\ want'[g] = 0 /\ fetched[g] = NoBuf /\ todo[g] = << >>
      /\ want[g] \in Allocated /\ Allocated' = Allocated
      /\ UNCHANGED <<file, pageCount, cache, fetched, held, todo, ghost, crashes>>
  BY DEF Format, Goto, TypesInv, PlaceInv, Allocated
<1>3. b \in DOMAIN heap
  OBVIOUS
<1>4. /\ DOMAIN heap' = DOMAIN heap
      /\ \A x \in DOMAIN heap : /\ heap'[x] \in [id : Allocated, data : SUBSET Update, dirty : BOOLEAN]
                                /\ heap'[x].id = heap[x].id /\ heap'[x].data = heap[x].data
                                /\ x # b => heap'[x] = heap[x]
      /\ heap'[b].dirty
  <2>1. \A x \in DOMAIN heap : heap[x] \in [id : Allocated, data : SUBSET Update, dirty : BOOLEAN]
    BY DEF HeapInv
  <2>2. /\ DOMAIN heap' = DOMAIN heap /\ \A x \in DOMAIN heap : x # b => heap'[x] = heap[x]
        /\ heap'[b] = [heap[b] EXCEPT !.dirty = TRUE]
    BY <1>1, <1>3
  <2>3. /\ heap'[b] \in Objects(Allocated)
        /\ heap'[b].id = heap[b].id /\ heap'[b].data = heap[b].data /\ heap'[b].dirty = TRUE
    <3>1. heap[b] \in Objects(Allocated) /\ {} \in SUBSET Update /\ TRUE \in BOOLEAN
      BY <1>3, <2>1 DEF Objects
    <3> QED BY <2>2, <3>1 DEF Objects
  <2> QED BY <2>1, <2>2, <2>3 DEF Objects
<1>5. TypesInv'
  BY <1>2 DEF Format, Goto, TypesInv, file, ghost
<1>6. HeapInv'
  BY <1>2, <1>4 DEF HeapInv
<1>7. HeldInv'
  BY <1>2 DEF HeldInv
<1>8. PlaceInv'
  BY <1>2 DEF PlaceInv
<1>9. DataInv'
  <2>1. Known' = Known \union {want[g]} /\ \A x : OnDisk(x)' <=> OnDisk(x)
    BY <1>2, KnownFacts DEF OnDisk, file, ghost
  <2>2. ASSUME NEW x \in DOMAIN heap
        PROVE  heap'[x].data = latest[heap'[x].id] /\ (~heap'[x].dirty /\ heap'[x].id \in Known' => OnDisk(heap'[x].id))
    <3>1. CASE x = b
      BY <1>4, <3>1 DEF DataInv
    <3>2. CASE x # b
      <4>1. heap[x].id # want[g]
        BY <1>1, <1>3, <3>2 DEF HeapInv
      <4> QED BY <1>4, <2>1, <3>2, <4>1 DEF DataInv
    <3> QED BY <3>1, <3>2
  <2>3. \A x \in Known' : (\A y \in DOMAIN heap' : heap'[y].id # x) => OnDisk(x)
    BY <1>1, <1>3, <1>4, <2>1 DEF DataInv
  <2>4. \A x \in Page : x \notin Allocated => latest[x] = {}
    BY DEF DataInv
  <2>5. \A h \in Proc : pc'[h] \notin {"written", "flushed"}
    BY <1>2
  <2> QED BY <1>2, <1>4, <2>1, <2>2, <2>3, <2>4, <2>5 DEF DataInv, ghost
<1>10. FlushInv'
  BY <1>2 DEF FlushInv, file, ghost
<1> QED BY <1>2, <1>5, <1>6, <1>7, <1>8, <1>9, <1>10, Parts

(* After a failure the pages are what the file says they are.              *)
LEMMA CrashStep ==
    ASSUME WriterInv, Crash, SoundCache(cache')
    PROVE  WriterInv'
<1> USE DEF WriterInv
<1>1. PICK lost \in SUBSET Page : disk' = [id \in Page |-> IF id \in lost THEN synced[id] ELSE disk[id]]
  BY DEF Crash
<1>2. PICK n \in {fileCount.written, fileCount.synced} : fileCount' = [written |-> n, synced |-> n] /\ pageCount' = n
  BY DEF Crash
<1>3. n \in Counts
  BY DEF TypesInv
<1>4. /\ synced' = disk' /\ heap' = << >> /\ cache' = << >> /\ flushed' = flushed /\ crashes' \in 0..MaxCrashes
      /\ pc' \in [Proc -> {"off", "idle"}] /\ want' = [g \in Proc |-> 0] /\ fetched' = [g \in Proc |-> NoBuf]
      /\ held' = [g \in Proc |-> {}] /\ todo' = [g \in Proc |-> << >>]
      /\ latest' = [id \in Page |-> IF id < pageCount' /\ disk'[id] # NoData THEN disk'[id] ELSE {}]
  BY PagerAssumption DEF Crash, TypesInv
<1>5. disk' \in [Page -> (SUBSET Update) \union {NoData}]
  BY <1>1 DEF TypesInv
<1>6. TypesInv'
  <2>1. latest' \in [Page -> SUBSET Update]
    BY <1>4, <1>5
  <2>2. fileCount' \in [written : Counts, synced : Counts] /\ pageCount' \in Counts
    BY <1>2, <1>3
  <2>3. << >> \in Seq(Buf)
    OBVIOUS
  <2> QED BY <1>4, <1>5, <2>1, <2>2, <2>3 DEF TypesInv, PlaceNames
<1>7. HeapInv' /\ DOMAIN heap' = {} /\ DOMAIN cache' = {} /\ Len(cache') = 0
  <2>1. DOMAIN heap' = {} /\ DOMAIN cache' = {} /\ Len(cache') = 0
    BY <1>4
  <2> QED BY <2>1 DEF HeapInv
<1>8. HeldInv'
  <2>1. Newest(cache', 0) = {} /\ 0 \in 0..Len(cache')
    BY <1>7 DEF Newest
  <2> QED BY <1>4, <2>1 DEF HeldInv
<1>9. PlaceInv'
  BY <1>4 DEF PlaceInv
<1>10. \A id \in Page : id < pageCount' => (latest'[id] = disk'[id] \/ (disk'[id] = NoData /\ latest'[id] = {}))
  BY <1>4
<1>11. \A id \in Page : ~(id < pageCount') => latest'[id] = {}
  BY <1>4
<1>12. DataInv'
  <2>1. \A id \in Page : id \in Allocated' <=> id < pageCount'
    BY <1>2, <1>3 DEF Counts, Allocated, Page
  <2>2. Allocated' \subseteq Page
    BY <1>2, <1>3, BoundFacts DEF Counts, Allocated, Page
  <2>3. Known' \subseteq Allocated'
    BY DEF Known
  <2> QED BY <1>4, <1>7, <1>10, <1>11, <2>1, <2>2, <2>3 DEF DataInv, OnDisk
<1>13. FlushInv'
  <2>1. ASSUME NEW id \in Page, flushed[id] # {}
        PROVE  /\ flushed[id] \subseteq disk'[id] /\ flushed[id] \subseteq latest'[id]
               /\ id < fileCount'.written /\ id < fileCount'.synced /\ id < pageCount'
    <3>1. id < n /\ flushed[id] \subseteq disk'[id]
      BY <1>1, <2>1 DEF FlushInv
    <3>2. disk'[id] # NoData
      <4>1. PICK u \in flushed[id] : TRUE
        BY <2>1
      <4>2. u \in Update /\ u # -1
        BY BoundFacts DEF TypesInv, Update
      <4> QED BY <3>1, <4>1, <4>2 DEF NoData
    <3> QED BY <1>2, <1>4, <3>1, <3>2
  <2> QED BY <1>4, <2>1 DEF FlushInv
<1> QED BY <1>6, <1>7, <1>8, <1>9, <1>12, <1>13, Parts

LEMMA StutterStep ==
    ASSUME WriterInv, UNCHANGED vars
    PROVE  WriterInv'
<1> USE DEF WriterInv, vars, file, procs, ghost
<1>1. TypesInv'
  BY DEF TypesInv
<1>2. HeapInv'
  BY DEF HeapInv, Allocated
<1>3. HeldInv' /\ PlaceInv'
  BY DEF HeldInv, PlaceInv, Allocated
<1>4. DataInv' /\ FlushInv'
  BY DEF DataInv, FlushInv, OnDisk, Known, Allocated
<1>5. SoundCache(cache')
  OBVIOUS
<1> QED BY <1>1, <1>2, <1>3, <1>4, <1>5, Parts

LEMMA WriterStep == WriterInv /\ [Next]_vars => WriterInv'
<1> SUFFICES ASSUME WriterInv, [Next]_vars PROVE WriterInv'
  OBVIOUS
<1>1. SoundCache(cache')
  BY CacheStep DEF WriterInv
<1>2. CASE UNCHANGED vars
  BY <1>2, StutterStep
<1>3. CASE Crash
  BY <1>1, <1>3, CrashStep
<1>4. ASSUME NEW g \in Proc, NEW id \in Page, GetHit(g, id) \/ GetMiss(g, id) PROVE WriterInv'
  BY <1>1, <1>4, HitStep, MissStep
<1>5. ASSUME NEW g \in Proc, ReadPage(g) \/ ReadFails(g) \/ Release(g) PROVE WriterInv'
  BY <1>1, <1>5, ReadStep, LetGoStep
<1>6. ASSUME NEW g \in Proc, PutPage(g) \/ Allocate(g) \/ PutNew(g) \/ Format(g) PROVE WriterInv'
  BY <1>1, <1>6, PutStep, AllocateStep, PutNewStep, FormatStep
<1>7. ASSUME NEW g \in Proc, WritePage(g) \/ Clean(g) \/ SkipClean(g) PROVE WriterInv'
  BY <1>1, <1>7, WriteStep, CleanStep
<1>8. ASSUME NEW g \in Proc, NEW b \in held[g], Modify(g, b) PROVE WriterInv'
  BY <1>1, <1>8, ModifyStep
<1>9. ASSUME NEW g \in Proc, FlushHeader(g) \/ FlushPages(g) \/ FlushNext(g) \/ Sync(g) PROVE WriterInv'
  BY <1>1, <1>9, FlushHeaderStep, FlushPagesStep, FlushNextStep, SyncStep
<1> QED BY <1>2, <1>3, <1>4, <1>5, <1>6, <1>7, <1>8, <1>9 DEF Next

LEMMA WriterInvariant == OneProcess /\ Spec => []WriterInv
<1>1. OneProcess /\ Init => WriterInv
  BY WriterInit
<1>2. WriterInv /\ [Next]_vars => WriterInv'
  BY WriterStep
<1> QED BY <1>1, <1>2, PTL DEF Spec

-----------------------------------------------------------------------------
(* A lone goroutine keeps every page, pointer and count of the pager what  *)
(* it has to be (GetPage, AllocatePage, FlushAll).                         *)
THEOREM WriterTypeCorrect == OneProcess /\ Spec => []TypeOK
  BY WriterInvariant, WriterTypes, PTL

(* A lone goroutine finds each page with all the updates it made to it:    *)
(* no eviction, reload, flush or power failure brings an older one back    *)
(* (GetPage and writePage: the page that put evicts is written before it   *)
(* can be read again).                                                     *)
THEOREM WriterLosesNoUpdate == OneProcess /\ Spec => []NoLostUpdate
  BY WriterInvariant, WriterLosesNothing, PTL

(* The pages it holds pointers to are never the one that put evicts, when  *)
(* it holds no more than the cache has room for (lruCache.put drops the    *)
(* entry used longest ago).                                                *)
THEOREM WriterHoldsCached == OneProcess /\ Spec => []HeldIsCached
  BY WriterInvariant, WriterHolds, PTL

(* What a completed FlushAll covered is in the file for good, whichever    *)
(* later writes a power failure takes back (FlushAll, loadHeader).         *)
THEOREM WriterFlushIsDurable == OneProcess /\ Spec => []FlushedIsDurable
  BY WriterInvariant, WriterFlushes, PTL
=============================================================================
