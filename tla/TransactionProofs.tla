-------------------------- MODULE TransactionProofs --------------------------
(***************************************************************************)
(* When every page is saved before it is written, the pages a transaction  *)
(* keeps are as good as full snapshots, for any number of pages, savepoint *)
(* names and open savepoints.  What makes it so is Nested: a page saved    *)
(* for a savepoint is saved for every earlier one and for BEGIN, so that   *)
(* restoring one snapshot cannot change what an earlier one stands for.    *)
(* Whether a page is in the cache or in the file does not matter as long   *)
(* as no page put back is dropped while the file has something else.       *)
(***************************************************************************)
EXTENDS Transaction, SequenceTheorems, TLAPS

Point == [name : Name, saved : Saves]
Contents == [Page -> Val]
Image == [name : Name \union {BeginName}, pages : Contents]

(* The content m with page p changed; m with the saved pages s put back; s *)
(* with page p added; and the stack of images that saves s and savepoints  *)
(* pts stand for: the operators of Transaction, of their arguments alone.  *)
Changed(m, p, v) == [m EXCEPT ![p] = v]
Back(m, s) == [q \in Page |-> IF q \in DOMAIN s THEN s[q] ELSE m[q]]
Saving(m, s, p) == [q \in DOMAIN s \union {p} |-> IF q \in DOMAIN s THEN s[q] ELSE m[q]]
ImageAt(m, s, pts, i) ==
    IF i = 1 THEN [name |-> BeginName, pages |-> Back(m, s)]
    ELSE [name |-> pts[i - 1].name, pages |-> Back(m, pts[i - 1].saved)]
Images(m, s, pts) == [i \in 1..(Len(pts) + 1) |-> ImageAt(m, s, pts, i)]

NestedIn(s, pts) ==
    \A i \in DOMAIN pts :
        /\ DOMAIN pts[i].saved \subseteq DOMAIN s
        /\ \A j \in DOMAIN pts : i < j => DOMAIN pts[j].saved \subseteq DOMAIN pts[i].saved

(* Later saves are among earlier ones.                                     *)
Nested == NestedIn(save, points)

(* The pages saved for BEGIN lead back to the content it found.            *)
BaseKept == inTx => Back(Content, save) = base

TxInv == TypeOK /\ Nested /\ (~spoiled => BaseKept)

BufferType == [data : Val, dirty : BOOLEAN]
CacheType == UNION {[S -> BufferType] : S \in SUBSET Page}

-----------------------------------------------------------------------------
LEMMA NoSavesFacts == NoSaves \in Saves /\ DOMAIN NoSaves = {}
<1>1. DOMAIN NoSaves = {} /\ NoSaves \in [{} -> Val]
  BY DEF NoSaves
<1> QED BY <1>1 DEF Saves

LEMMA SavesFacts ==
    ASSUME NEW s \in Saves
    PROVE  DOMAIN s \subseteq Page /\ \A p \in DOMAIN s : s[p] \in Val
  BY DEF Saves

LEMMA BackFacts ==
    ASSUME NEW m \in Contents, NEW s \in Saves
    PROVE  Back(m, s) \in Contents
  BY SavesFacts DEF Back, Contents

LEMMA BackOfNothing ==
    ASSUME NEW m \in Contents
    PROVE  Back(m, NoSaves) = m
  BY NoSavesFacts DEF Back, Contents

(* Restoring one snapshot leaves what an earlier one stands for.           *)
LEMMA BackEarlier ==
    ASSUME NEW m \in Contents, NEW s \in Saves, NEW r \in Saves,
           DOMAIN s \subseteq DOMAIN r
    PROVE  Back(Back(m, s), r) = Back(m, r)
  BY DEF Back

(* Saving a page and then writing it leaves what a snapshot stands for.    *)
LEMMA SavingKeeps ==
    ASSUME NEW m \in Contents, NEW s \in Saves, NEW p \in Page, NEW v
    PROVE  /\ Saving(m, s, p) \in Saves
           /\ DOMAIN Saving(m, s, p) = DOMAIN s \union {p}
           /\ Back(Changed(m, p, v), Saving(m, s, p)) = Back(m, s)
<1> DEFINE a == Saving(m, s, p)
           w == Changed(m, p, v)
<1>1. DOMAIN a = DOMAIN s \union {p}
  BY DEF Saving
<1>2. \A q \in DOMAIN a : a[q] = IF q \in DOMAIN s THEN s[q] ELSE m[q]
  BY DEF Saving
<1>3. DOMAIN a \in SUBSET Page
  BY <1>1, SavesFacts
<1>4. \A q \in DOMAIN a : a[q] \in Val
  BY <1>2, <1>3, SavesFacts DEF Contents
<1>5. a \in [DOMAIN a -> Val]
  BY <1>4 DEF Saving
<1>6. \A q \in Page : q # p => w[q] = m[q]
  BY DEF Contents, Changed
<1> HIDE DEF a, w
<1>7. ASSUME NEW q \in Page
      PROVE  (IF q \in DOMAIN a THEN a[q] ELSE w[q]) = IF q \in DOMAIN s THEN s[q] ELSE m[q]
  BY <1>1, <1>2, <1>6
<1>8. Back(w, a) = Back(m, s)
  BY <1>7 DEF Back
<1>9. a \in Saves
  BY <1>3, <1>5 DEF Saves
<1> QED BY <1>1, <1>8, <1>9 DEF a, w

-----------------------------------------------------------------------------
(* Dropping the savepoints from i on.                                      *)
Cut(t, pts, i) == Len(t) = i - 1 /\ \A j \in 1..(i - 1) : t[j] = pts[j]

LEMMA CutProperties ==
    ASSUME NEW S, NEW pts \in Seq(S), NEW i \in 1..Len(pts)
    PROVE  SubSeq(pts, 1, i - 1) \in Seq(S) /\ Cut(SubSeq(pts, 1, i - 1), pts, i)
<1>1. Len(pts) \in Nat /\ \A j \in 1..Len(pts) : pts[j] \in S
  BY LenProperties, ElementOfSeq
<1>2. \A j \in 1..(i - 1) : pts[j] \in S
  BY <1>1
<1>3. 1 \in Int /\ i - 1 \in Int
  BY <1>1
<1> DEFINE t == SubSeq(pts, 1, i - 1)
<1>4. /\ t \in Seq(S) /\ Len(t) = IF 1 <= i - 1 THEN (i - 1) - 1 + 1 ELSE 0
      /\ \A j \in 1..((i - 1) - 1 + 1) : t[j] = pts[1 + j - 1]
  <2> HIDE DEF t
  <2> QED BY <1>2, <1>3, SubSeqProperties DEF t
<1> HIDE DEF t
<1>5. Len(t) = i - 1 /\ \A j \in 1..(i - 1) : t[j] = pts[j]
  BY <1>1, <1>4
<1> QED BY <1>4, <1>5 DEF Cut, t

LEMMA CutNested ==
    ASSUME NEW pts \in Seq(Point), NEW s, NEW t \in Seq(Point), NEW i \in 1..Len(pts),
           Cut(t, pts, i), NestedIn(s, pts)
    PROVE  NestedIn(s, t)
<1>1. Len(pts) \in Nat /\ DOMAIN pts = 1..Len(pts) /\ DOMAIN t = 1..(i - 1)
  BY LenProperties DEF Cut
<1>2. DOMAIN t \subseteq DOMAIN pts /\ \A j \in DOMAIN t : t[j] = pts[j]
  BY <1>1 DEF Cut
<1> QED BY <1>2 DEF NestedIn

(* Opening a savepoint for which nothing is saved yet.                     *)
Fresh(n) == [name |-> n, saved |-> NoSaves]
Opened(t, pts, n) ==
    /\ Len(t) = Len(pts) + 1 /\ t[Len(pts) + 1] = Fresh(n)
    /\ \A j \in 1..Len(pts) : t[j] = pts[j]

LEMMA OpenProperties ==
    ASSUME NEW pts \in Seq(Point), NEW n \in Name
    PROVE  Append(pts, Fresh(n)) \in Seq(Point) /\ Opened(Append(pts, Fresh(n)), pts, n)
<1>1. Fresh(n) \in Point
  BY NoSavesFacts DEF Fresh, Point
<1>2. Len(pts) \in Nat
  BY LenProperties
<1> QED BY <1>1, <1>2, AppendProperties DEF Opened

LEMMA OpenNested ==
    ASSUME NEW pts \in Seq(Point), NEW n \in Name, NEW s, NEW t \in Seq(Point),
           Opened(t, pts, n), NestedIn(s, pts)
    PROVE  NestedIn(s, t)
<1>1. Len(pts) \in Nat /\ DOMAIN pts = 1..Len(pts) /\ DOMAIN t = 1..(Len(pts) + 1)
  BY LenProperties DEF Opened
<1>2. DOMAIN t[Len(pts) + 1].saved = {}
  BY NoSavesFacts DEF Opened, Fresh
<1>3. ASSUME NEW i \in DOMAIN t PROVE (i \in DOMAIN pts /\ t[i] = pts[i]) \/ i = Len(pts) + 1
  BY <1>1 DEF Opened
<1>4. ASSUME NEW i \in DOMAIN t PROVE DOMAIN t[i].saved \subseteq DOMAIN s
  BY <1>2, <1>3 DEF NestedIn
<1>5. ASSUME NEW i \in DOMAIN t, NEW j \in DOMAIN t, i < j
      PROVE  DOMAIN t[j].saved \subseteq DOMAIN t[i].saved
  <2>1. CASE j = Len(pts) + 1
    BY <1>2, <2>1
  <2>2. CASE j \in DOMAIN pts /\ t[j] = pts[j]
    <3>1. i \in DOMAIN pts
      BY <1>1, <1>5, <2>2
    <3>2. t[i] = pts[i]
      BY <1>1, <3>1 DEF Opened
    <3> QED BY <1>5, <2>2, <3>1, <3>2 DEF NestedIn
  <2> QED BY <1>3, <2>1, <2>2
<1> QED BY <1>4, <1>5 DEF NestedIn

(* Saving a page for every open savepoint.                                 *)
SavedFor(t, m, pts, p) ==
    /\ Len(t) = Len(pts)
    /\ \A j \in 1..Len(pts) :
         t[j].name = pts[j].name /\ t[j].saved = Saving(m, pts[j].saved, p)

LEMMA SavedForProperties ==
    ASSUME NEW m \in Contents, NEW pts \in Seq(Point), NEW p \in Page
    PROVE  LET t == [i \in DOMAIN pts |-> [pts[i] EXCEPT !.saved = Saving(m, pts[i].saved, p)]]
           IN  t \in Seq(Point) /\ SavedFor(t, m, pts, p)
<1> DEFINE t == [i \in DOMAIN pts |-> [pts[i] EXCEPT !.saved = Saving(m, pts[i].saved, p)]]
<1>1. Len(pts) \in Nat /\ DOMAIN pts = 1..Len(pts) /\ \A j \in 1..Len(pts) : pts[j] \in Point
  BY LenProperties, ElementOfSeq
<1>2. ASSUME NEW j \in 1..Len(pts)
      PROVE  /\ t[j] \in Point
             /\ t[j].name = pts[j].name /\ t[j].saved = Saving(m, pts[j].saved, p)
  <2>1. pts[j].saved \in Saves /\ pts[j].name \in Name
    BY <1>1 DEF Point
  <2>2. Saving(m, pts[j].saved, p) \in Saves
    BY <2>1, SavingKeeps
  <2>3. t[j] = [name |-> pts[j].name, saved |-> Saving(m, pts[j].saved, p)]
    BY <1>1 DEF Point
  <2> HIDE DEF t
  <2> QED BY <2>1, <2>2, <2>3 DEF Point
<1>3. t = [j \in 1..Len(pts) |-> t[j]] /\ DOMAIN t = 1..Len(pts)
  BY <1>1
<1> HIDE DEF t
<1>4. t \in [1..Len(pts) -> Point]
  BY <1>2, <1>3
<1>5. t \in Seq(Point) /\ Len(t) = Len(pts)
  BY <1>1, <1>3, <1>4
<1>6. t \in Seq(Point) /\ SavedFor(t, m, pts, p)
  BY <1>2, <1>5 DEF SavedFor
<1> QED BY <1>6 DEF t

LEMMA SavedNested ==
    ASSUME NEW m \in Contents, NEW s \in Saves, NEW pts \in Seq(Point), NEW p \in Page,
           NEW t \in Seq(Point), SavedFor(t, m, pts, p), NestedIn(s, pts)
    PROVE  NestedIn(Saving(m, s, p), t)
<1>1. DOMAIN pts = 1..Len(pts) /\ DOMAIN t = 1..Len(pts)
  BY LenProperties DEF SavedFor
<1>2. DOMAIN Saving(m, s, p) = DOMAIN s \union {p}
  BY DEF Saving
<1>3. ASSUME NEW j \in DOMAIN t
      PROVE  j \in DOMAIN pts /\ DOMAIN t[j].saved = DOMAIN pts[j].saved \union {p}
  <2>1. t[j].saved = Saving(m, pts[j].saved, p)
    BY <1>1 DEF SavedFor
  <2> QED BY <1>1, <2>1 DEF Saving
<1> QED BY <1>2, <1>3 DEF NestedIn

-----------------------------------------------------------------------------
(* The images are a sequence one longer than the savepoints, and are equal *)
(* when they are so place by place.                                        *)
LEMMA ImagesFacts ==
    ASSUME NEW m \in Contents, NEW s \in Saves, NEW pts \in Seq(Point)
    PROVE  /\ Images(m, s, pts) \in Seq(Image)
           /\ Len(Images(m, s, pts)) = Len(pts) + 1
           /\ \A i \in 1..(Len(pts) + 1) : Images(m, s, pts)[i] = ImageAt(m, s, pts, i)
<1>1. Len(pts) \in Nat /\ \A j \in 1..Len(pts) : pts[j] \in Point
  BY LenProperties, ElementOfSeq
<1>2. ASSUME NEW i \in 1..(Len(pts) + 1) PROVE ImageAt(m, s, pts, i) \in Image
  <2>1. CASE i = 1
    BY <2>1, BackFacts DEF ImageAt, Image
  <2>2. CASE i # 1
    <3>1. pts[i - 1] \in Point
      BY <1>1, <2>2
    <3>2. pts[i - 1].saved \in Saves /\ pts[i - 1].name \in Name
      BY <3>1 DEF Point
    <3>3. Back(m, pts[i - 1].saved) \in Contents
      BY <3>2, BackFacts
    <3> QED BY <2>2, <3>2, <3>3 DEF ImageAt, Image
  <2> QED BY <2>1, <2>2
<1>3. Images(m, s, pts) \in [1..(Len(pts) + 1) -> Image]
  BY <1>2 DEF Images
<1>4. \A i \in 1..(Len(pts) + 1) : Images(m, s, pts)[i] = ImageAt(m, s, pts, i)
  BY DEF Images
<1> QED BY <1>1, <1>3, <1>4

(* Saving a page and writing it changes no image.                          *)
LEMMA ImagesAfterWrite ==
    ASSUME NEW m \in Contents, NEW s \in Saves, NEW pts \in Seq(Point), NEW p \in Page, NEW v,
           NEW t \in Seq(Point), SavedFor(t, m, pts, p)
    PROVE  Images(Changed(m, p, v), Saving(m, s, p), t) = Images(m, s, pts)
<1> DEFINE w == Changed(m, p, v)
<1>1. Len(pts) \in Nat /\ \A j \in 1..Len(pts) : pts[j] \in Point
  BY LenProperties, ElementOfSeq
<1>2. Len(t) = Len(pts)
  BY DEF SavedFor
<1>3. ASSUME NEW i \in 1..(Len(pts) + 1)
      PROVE  ImageAt(w, Saving(m, s, p), t, i) = ImageAt(m, s, pts, i)
  <2>1. CASE i = 1
    <3>1. Back(w, Saving(m, s, p)) = Back(m, s)
      BY SavingKeeps
    <3> HIDE DEF w
    <3> QED BY <2>1, <3>1 DEF ImageAt
  <2>2. CASE i # 1
    <3>1. i - 1 \in 1..Len(pts)
      BY <1>1, <2>2
    <3>2. pts[i - 1].saved \in Saves
      BY <1>1, <3>1 DEF Point
    <3>3. t[i - 1].name = pts[i - 1].name /\ t[i - 1].saved = Saving(m, pts[i - 1].saved, p)
      BY <3>1 DEF SavedFor
    <3>4. Back(w, Saving(m, pts[i - 1].saved, p)) = Back(m, pts[i - 1].saved)
      BY <3>2, SavingKeeps
    <3> HIDE DEF w
    <3> QED BY <2>2, <3>3, <3>4 DEF ImageAt
  <2> QED BY <2>1, <2>2
<1> HIDE DEF w
<1>4. Images(w, Saving(m, s, p), t) = Images(m, s, pts)
  BY <1>2, <1>3 DEF Images
<1> QED BY <1>4 DEF w

(* Opening a savepoint adds an image of the content as it is.              *)
LEMMA ImagesAfterOpen ==
    ASSUME NEW m \in Contents, NEW s \in Saves, NEW pts \in Seq(Point), NEW n \in Name,
           NEW t \in Seq(Point), Opened(t, pts, n)
    PROVE  Images(m, s, t) = Images(m, s, pts) \o <<[name |-> n, pages |-> m]>>
<1> DEFINE e == [name |-> n, pages |-> m]
           k == Len(pts) + 1
           before == Images(m, s, pts)
           after == Images(m, s, t)
<1>1. Len(pts) \in Nat
  BY LenProperties
<1>2. /\ before \in Seq(Image) /\ Len(before) = k
      /\ \A i \in 1..k : before[i] = ImageAt(m, s, pts, i)
  BY ImagesFacts
<1>3. Len(t) + 1 = k + 1
  BY <1>1 DEF Opened
<1>4. /\ after \in Seq(Image) /\ Len(after) = k + 1
      /\ \A i \in 1..(k + 1) : after[i] = ImageAt(m, s, t, i)
  BY <1>3, ImagesFacts
<1>5. <<e>> \in Seq(Image) /\ Len(<<e>>) = 1 /\ <<e>>[1] = e
  BY DEF Image
<1>6. ASSUME NEW i \in 1..k PROVE ImageAt(m, s, t, i) = ImageAt(m, s, pts, i)
  BY <1>1 DEF ImageAt, Opened
<1>7. ImageAt(m, s, t, k + 1) = e
  <2>1. t[k] = Fresh(n) /\ k + 1 # 1 /\ (k + 1) - 1 = k
    BY <1>1 DEF Opened
  <2>2. ImageAt(m, s, t, k + 1) = [name |-> t[k].name, pages |-> Back(m, t[k].saved)]
    BY <2>1 DEF ImageAt
  <2>3. t[k].name = n /\ t[k].saved = NoSaves
    BY <2>1 DEF Fresh
  <2> QED BY <2>2, <2>3, BackOfNothing
<1> HIDE DEF e, before, after
<1>8. /\ before \o <<e>> \in Seq(Image)
      /\ Len(before \o <<e>>) = Len(before) + Len(<<e>>)
      /\ \A i \in 1..(Len(before) + Len(<<e>>)) :
           (before \o <<e>>)[i] = IF i <= Len(before) THEN before[i] ELSE <<e>>[i - Len(before)]
  BY <1>2, <1>5, ConcatProperties
<1>9. Len(after) = Len(before \o <<e>>)
  BY <1>1, <1>2, <1>4, <1>5, <1>8
<1>10. ASSUME NEW i \in 1..(k + 1) PROVE after[i] = (before \o <<e>>)[i]
  <2>1. CASE i \in 1..k
    BY <1>1, <1>2, <1>4, <1>5, <1>6, <1>8, <2>1
  <2>2. CASE i = k + 1
    BY <1>1, <1>2, <1>4, <1>5, <1>7, <1>8, <2>2
  <2>3. i \in 1..k \/ i = k + 1
    BY <1>1
  <2> QED BY <2>1, <2>2, <2>3, Zenon
<1>11. after = before \o <<e>>
  BY <1>4, <1>8, <1>9, <1>10, SeqEqual
<1> QED BY <1>11 DEF e, before, after

(* The images up to place k, when they are the same place by place.        *)
LEMMA ImagesPrefix ==
    ASSUME NEW m \in Contents, NEW s \in Saves, NEW pts \in Seq(Point),
           NEW k \in 1..(Len(pts) + 1),
           NEW w \in Contents, NEW t \in Seq(Point), Len(t) = k - 1,
           \A j \in 1..k : ImageAt(w, s, t, j) = ImageAt(m, s, pts, j)
    PROVE  Images(w, s, t) = SubSeq(Images(m, s, pts), 1, k)
<1> DEFINE before == Images(m, s, pts)
           after == Images(w, s, t)
           cut == SubSeq(before, 1, k)
<1>1. Len(pts) \in Nat
  BY LenProperties
<1>2. /\ before \in Seq(Image)
      /\ \A j \in 1..(Len(pts) + 1) : before[j] = ImageAt(m, s, pts, j)
  BY ImagesFacts
<1>3. Len(t) + 1 = k
  BY <1>1
<1>4. /\ after \in Seq(Image) /\ Len(after) = k
      /\ \A j \in 1..k : after[j] = ImageAt(w, s, t, j)
  BY <1>3, ImagesFacts
<1>5. ASSUME NEW j \in 1..k
      PROVE  after[j] = before[j] /\ before[j] \in Image
  <2>1. after[j] = ImageAt(w, s, t, j) /\ before[j] = ImageAt(m, s, pts, j)
    BY <1>1, <1>2, <1>4
  <2>2. after[j] \in Image
    BY <1>4, ElementOfSeq
  <2> HIDE DEF before, after
  <2> QED BY <2>1, <2>2
<1> HIDE DEF before, after
<1>6. 1 \in Int /\ k \in Int
  BY <1>1
<1>7. /\ cut \in Seq(Image) /\ Len(cut) = IF 1 <= k THEN k - 1 + 1 ELSE 0
      /\ \A j \in 1..(k - 1 + 1) : cut[j] = before[1 + j - 1]
  <2>1. \A j \in 1..k : before[j] \in Image
    BY <1>5
  <2> HIDE DEF cut
  <2> QED BY <1>6, <2>1, SubSeqProperties DEF cut
<1> HIDE DEF cut
<1>8. Len(cut) = k /\ \A j \in 1..k : cut[j] = before[j]
  BY <1>1, <1>7
<1>9. after = cut
  BY <1>4, <1>5, <1>7, <1>8, SeqEqual
<1> QED BY <1>9 DEF after, before, cut

(* Dropping the savepoints from i on drops their images.                   *)
LEMMA ImagesAfterCut ==
    ASSUME NEW m \in Contents, NEW s \in Saves, NEW pts \in Seq(Point), NEW i \in 1..Len(pts),
           NEW t \in Seq(Point), Cut(t, pts, i)
    PROVE  Images(m, s, t) = SubSeq(Images(m, s, pts), 1, i)
<1>1. Len(pts) \in Nat
  BY LenProperties
<1>2. i \in 1..(Len(pts) + 1) /\ Len(t) = i - 1
  BY <1>1 DEF Cut
<1>3. \A j \in 1..i : ImageAt(m, s, t, j) = ImageAt(m, s, pts, j)
  BY <1>1 DEF ImageAt, Cut
<1> QED BY <1>2, <1>3, ImagesPrefix

(* Going back to savepoint i restores its image and keeps those before it, *)
(* because what it had saved, they have saved too.                         *)
LEMMA ImagesAfterBack ==
    ASSUME NEW m \in Contents, NEW s \in Saves, NEW pts \in Seq(Point), NEW i \in 1..Len(pts),
           NEW c \in Seq(Point), Cut(c, pts, i),
           NEW t \in Seq(Point), Opened(t, c, pts[i].name),
           NestedIn(s, pts)
    PROVE  Images(Back(m, pts[i].saved), s, t) = SubSeq(Images(m, s, pts), 1, i + 1)
<1> DEFINE r == pts[i].saved
           w == Back(m, r)
<1>1. Len(pts) \in Nat /\ DOMAIN pts = 1..Len(pts) /\ \A j \in 1..Len(pts) : pts[j] \in Point
  BY LenProperties, ElementOfSeq
<1>2. \A j \in 1..Len(pts) : pts[j].saved \in Saves /\ pts[j].name \in Name
  BY <1>1 DEF Point
<1>3. r \in Saves
  BY <1>2
<1>4. w \in Contents
  BY <1>3, BackFacts
<1>5. Len(t) = i /\ t[i] = Fresh(pts[i].name) /\ \A j \in 1..(i - 1) : t[j] = pts[j]
  BY <1>1 DEF Cut, Opened
<1>6. DOMAIN r \subseteq DOMAIN s
      /\ \A j \in 1..(i - 1) : DOMAIN r \subseteq DOMAIN pts[j].saved
  <2>1. i \in DOMAIN pts /\ \A j \in 1..(i - 1) : j \in DOMAIN pts /\ j < i
    BY <1>1
  <2> QED BY <2>1 DEF NestedIn
<1>7. ASSUME NEW j \in 1..(i + 1) PROVE ImageAt(w, s, t, j) = ImageAt(m, s, pts, j)
  <2>1. CASE j = 1
    BY <1>3, <1>6, <2>1, BackEarlier DEF ImageAt
  <2>2. CASE j = i + 1
    <3>1. t[i].name = pts[i].name /\ t[i].saved = NoSaves
      BY <1>5 DEF Fresh
    <3>2. Back(w, t[i].saved) = w
      BY <1>4, <3>1, BackOfNothing
    <3>3. j # 1 /\ j - 1 = i
      BY <1>1, <2>2
    <3> QED BY <3>1, <3>2, <3>3 DEF ImageAt
  <2>3. CASE j # 1 /\ j # i + 1
    <3>1. j - 1 \in 1..(i - 1) /\ j - 1 \in 1..Len(pts)
      BY <1>1, <2>3
    <3>2. t[j - 1] = pts[j - 1] /\ DOMAIN r \subseteq DOMAIN pts[j - 1].saved
      BY <1>5, <1>6, <3>1
    <3>3. pts[j - 1].saved \in Saves
      BY <1>2, <3>1
    <3>4. Back(w, pts[j - 1].saved) = Back(m, pts[j - 1].saved)
      BY <1>3, <3>2, <3>3, BackEarlier
    <3> QED BY <2>3, <3>2, <3>4 DEF ImageAt
  <2> QED BY <2>1, <2>2, <2>3
<1>8. i + 1 \in 1..(Len(pts) + 1) /\ Len(t) = (i + 1) - 1
  BY <1>1, <1>5
<1> HIDE DEF r, w
<1>9. Images(w, s, t) = SubSeq(Images(m, s, pts), 1, i + 1)
  BY <1>4, <1>7, <1>8, ImagesPrefix
<1> QED BY <1>9 DEF r, w

(* A transaction that has just begun has one image.                        *)
LEMMA ImagesAtBegin ==
    ASSUME NEW m \in Contents, NEW none \in Seq(Point), Len(none) = 0
    PROVE  Images(m, NoSaves, none) = <<[name |-> BeginName, pages |-> m]>>
<1> DEFINE e == [name |-> BeginName, pages |-> m]
           one == Images(m, NoSaves, none)
<1>1. /\ one \in Seq(Image) /\ Len(one) = Len(none) + 1
      /\ \A i \in 1..(Len(none) + 1) : one[i] = ImageAt(m, NoSaves, none, i)
  BY NoSavesFacts, ImagesFacts
<1> HIDE DEF one
<1>2. Len(one) = 1 /\ one[1] = ImageAt(m, NoSaves, none, 1)
  BY <1>1
<1>3. one[1] = e
  BY <1>2, BackOfNothing DEF ImageAt
<1>4. <<e>> \in Seq(Image) /\ Len(<<e>>) = 1 /\ <<e>>[1] = e
  BY DEF Image
<1> HIDE DEF e
<1>5. one = <<e>>
  BY <1>1, <1>2, <1>3, <1>4, SeqEqual
<1> QED BY <1>5 DEF e, one

-----------------------------------------------------------------------------
(* What the cache and the file hold, and the pages as GetPage finds them.  *)
LEMMA CacheFacts ==
    ASSUME TypeOK
    PROVE  /\ Cached \subseteq Page /\ cache \in CacheType
           /\ \A p \in Cached : cache[p] \in BufferType
           /\ disk \in [Page -> Val] /\ Content \in Contents
<1>1. cache \in CacheType /\ disk \in [Page -> Val]
  BY DEF TypeOK, CacheType, BufferType
<1>2. PICK S \in SUBSET Page : cache \in [S -> BufferType]
  BY <1>1 DEF CacheType
<1>3. Cached \subseteq Page /\ \A p \in Cached : cache[p] \in BufferType
  BY <1>2 DEF Cached
<1>4. Content \in Contents
  BY <1>1, <1>3 DEF Content, Contents, BufferType
<1> QED BY <1>1, <1>3, <1>4

LEMMA CacheIntro ==
    ASSUME NEW c, NEW S \in SUBSET Page, c = [p \in S |-> c[p]],
           \A p \in S : c[p] \in BufferType
    PROVE  c \in CacheType
<1>1. c \in [S -> BufferType]
  OBVIOUS
<1> QED BY <1>1 DEF CacheType

LEMMA BufferFacts ==
    ASSUME NEW v \in Val
    PROVE  /\ Buffer(v, TRUE) \in BufferType /\ Buffer(v, FALSE) \in BufferType
           /\ Buffer(v, TRUE).data = v /\ Buffer(v, FALSE).data = v
  BY DEF Buffer, BufferType

(* Eviction: what was dirty is in the file, and what was clean was there   *)
(* unless the state is spoiled.                                            *)
LEMMA FlushedFacts ==
    ASSUME TypeOK, NEW out \in SUBSET Cached
    PROVE  /\ Flushed(out) \in [Page -> Val]
           /\ \A q \in Page \ out : Flushed(out)[q] = disk[q]
           /\ ~Unwritten(out) => \A q \in out : Flushed(out)[q] = Content[q]
<1>1. /\ Cached \subseteq Page /\ \A p \in Cached : cache[p] \in BufferType
      /\ disk \in [Page -> Val]
  BY CacheFacts
<1>2. Flushed(out) \in [Page -> Val]
  BY <1>1 DEF Flushed, BufferType
<1>3. \A q \in Page \ out : Flushed(out)[q] = disk[q]
  BY DEF Flushed
<1>4. ASSUME ~Unwritten(out), NEW q \in out
      PROVE  Flushed(out)[q] = Content[q]
  BY <1>1, <1>4 DEF Flushed, Unwritten, Content
<1> QED BY <1>2, <1>3, <1>4

LEMMA EvictionsFacts ==
    ASSUME NEW p, NEW out \in Evictions(p)
    PROVE  out \in SUBSET Cached /\ (p \in Cached => out = {})
  BY DEF Evictions

(* GetPage brings a page in and changes no content.                        *)
LEMMA FetchedFacts ==
    ASSUME TypeOK, NEW p \in Page, NEW out \in Evictions(p)
    PROVE  /\ DOMAIN Fetched(p, out) = (Cached \ out) \union {p}
           /\ Fetched(p, out) \in CacheType
           /\ \A q \in DOMAIN Fetched(p, out) :
                /\ Fetched(p, out)[q] \in BufferType
                /\ Fetched(p, out)[q].data = Content[q]
           /\ ~Unwritten(out) =>
                \A q \in Page \ DOMAIN Fetched(p, out) : Flushed(out)[q] = Content[q]
<1> DEFINE S == (Cached \ out) \union {p}
           f == Fetched(p, out)
<1>1. /\ Cached \subseteq Page /\ \A q \in Cached : cache[q] \in BufferType
      /\ disk \in [Page -> Val]
  BY CacheFacts
<1>2. out \in SUBSET Cached /\ (p \in Cached => out = {})
  BY EvictionsFacts
<1>3. DOMAIN f = S /\ S \in SUBSET Page /\ f = [q \in S |-> f[q]]
  BY <1>1 DEF Fetched
<1>4. ASSUME NEW q \in S
      PROVE  f[q] \in BufferType /\ f[q].data = Content[q]
  <2>1. q \in Page
    BY <1>1
  <2>2. CASE q \in Cached
    <3>1. f[q] = cache[q]
      BY <2>2 DEF Fetched
    <3>2. Content[q] = cache[q].data
      BY <2>1, <2>2 DEF Content
    <3> QED BY <1>1, <2>2, <3>1, <3>2
  <2>3. CASE q \notin Cached
    <3>1. f[q] = Buffer(disk[q], FALSE)
      BY <2>3 DEF Fetched
    <3>2. Content[q] = disk[q]
      BY <2>1, <2>3 DEF Content
    <3>3. disk[q] \in Val
      BY <1>1, <2>1
    <3> QED BY <3>1, <3>2, <3>3, BufferFacts
  <2> QED BY <2>2, <2>3
<1>5. f \in CacheType
  <2> HIDE DEF f
  <2> QED BY <1>3, <1>4, CacheIntro
<1>6. ASSUME ~Unwritten(out), NEW q \in Page \ S
      PROVE  Flushed(out)[q] = Content[q]
  <2>1. CASE q \in out
    BY <1>2, <1>6, <2>1, FlushedFacts
  <2>2. CASE q \notin out
    <3>1. q \notin Cached /\ Flushed(out)[q] = disk[q]
      BY <1>2, <2>2, FlushedFacts
    <3> QED BY <3>1 DEF Content
  <2> QED BY <2>1, <2>2
<1> QED BY <1>3, <1>4, <1>5, <1>6

LEMMA ContentNext ==
    ASSUME NEW q \in Page
    PROVE  Content'[q] = IF q \in DOMAIN cache' THEN cache'[q].data ELSE disk'[q]
  BY DEF Content, Cached

LEMMA ContentNextIs ==
    ASSUME NEW m \in Contents,
           \A q \in Page : (IF q \in DOMAIN cache' THEN cache'[q].data ELSE disk'[q]) = m[q]
    PROVE  Content' = m
<1>1. Content' = [q \in Page |-> m[q]]
  BY DEF Content, Cached
<1> QED BY <1>1 DEF Contents

LEMMA GetKeeps ==
    ASSUME TypeOK, NEW p \in Page, Get(p)
    PROVE  /\ cache' \in CacheType /\ disk' \in [Page -> Val]
           /\ spoiled' \in BOOLEAN /\ (~spoiled' => ~spoiled /\ Content' = Content)
<1>1. PICK out \in Evictions(p) : cache' = Fetched(p, out) /\ Evict(out)
  BY DEF Get
<1>2. out \in SUBSET Cached /\ Content \in Contents
  BY EvictionsFacts, CacheFacts
<1>3. disk' = Flushed(out) /\ spoiled' = (spoiled \/ Unwritten(out))
  BY <1>1 DEF Evict
<1>4. cache' \in CacheType /\ disk' \in [Page -> Val] /\ spoiled' \in BOOLEAN
  BY <1>1, <1>2, <1>3, FetchedFacts, FlushedFacts DEF TypeOK
<1>5. ASSUME ~spoiled'
      PROVE  ~spoiled /\ Content' = Content
  <2>1. ~spoiled /\ ~Unwritten(out)
    BY <1>3, <1>5
  <2> DEFINE f == Fetched(p, out)
  <2>2. /\ \A q \in DOMAIN f : f[q].data = Content[q]
        /\ \A q \in Page \ DOMAIN f : Flushed(out)[q] = Content[q]
    BY <2>1, FetchedFacts
  <2>3. cache' = f
    BY <1>1
  <2> HIDE DEF f
  <2>4. \A q \in Page :
          (IF q \in DOMAIN cache' THEN cache'[q].data ELSE disk'[q]) = Content[q]
    BY <1>3, <2>2, <2>3
  <2> QED BY <1>2, <2>1, <2>4, ContentNextIs
<1> QED BY <1>4, <1>5

LEMMA ChangeChanges ==
    ASSUME TypeOK, NEW p \in Page, NEW v \in Val, Change(p, v)
    PROVE  /\ cache' \in CacheType /\ disk' \in [Page -> Val]
           /\ spoiled' \in BOOLEAN
           /\ ~spoiled' => ~spoiled /\ Content' = Changed(Content, p, v)
<1>1. PICK out \in Evictions(p) :
        cache' = [Fetched(p, out) EXCEPT ![p] = Buffer(v, TRUE)] /\ Evict(out)
  BY DEF Change
<1>2. out \in SUBSET Cached /\ Content \in Contents
  BY EvictionsFacts, CacheFacts
<1>3. disk' = Flushed(out) /\ spoiled' = (spoiled \/ Unwritten(out))
  BY <1>1 DEF Evict
<1> DEFINE f == Fetched(p, out)
<1>4. /\ DOMAIN f = (Cached \ out) \union {p} /\ Cached \subseteq Page
      /\ \A q \in DOMAIN f : f[q] \in BufferType /\ f[q].data = Content[q]
      /\ ~Unwritten(out) => \A q \in Page \ DOMAIN f : Flushed(out)[q] = Content[q]
  BY FetchedFacts, CacheFacts
<1>5. cache' = [f EXCEPT ![p] = Buffer(v, TRUE)]
  BY <1>1
<1> HIDE DEF f
<1>6. /\ DOMAIN cache' = DOMAIN f /\ cache' = [q \in DOMAIN f |-> cache'[q]]
      /\ cache'[p] = Buffer(v, TRUE) /\ \A q \in DOMAIN f \ {p} : cache'[q] = f[q]
  BY <1>4, <1>5
<1>7. \A q \in DOMAIN f : cache'[q] \in BufferType
  <2>1. cache'[p] \in BufferType
    BY <1>6, BufferFacts
  <2> QED BY <1>4, <1>6, <2>1
<1>8. DOMAIN f \in SUBSET Page
  BY <1>4
<1>9. cache' \in CacheType
  BY <1>6, <1>7, <1>8, CacheIntro
<1>10. disk' \in [Page -> Val] /\ spoiled' \in BOOLEAN
  BY <1>2, <1>3, FlushedFacts DEF TypeOK
<1>11. ASSUME ~spoiled'
       PROVE  ~spoiled /\ Content' = Changed(Content, p, v)
  <2> DEFINE m == Changed(Content, p, v)
  <2>1. ~spoiled /\ ~Unwritten(out)
    BY <1>3, <1>11
  <2>2. m \in Contents /\ m[p] = v /\ \A q \in Page \ {p} : m[q] = Content[q]
    BY <1>2 DEF Changed, Contents
  <2> HIDE DEF m
  <2>3. \A q \in Page : (IF q \in DOMAIN cache' THEN cache'[q].data ELSE disk'[q]) = m[q]
    <3>1. p \in DOMAIN cache' /\ cache'[p].data = m[p]
      BY <1>4, <1>6, <2>2, BufferFacts
    <3>2. ASSUME NEW q \in Page \ {p}
          PROVE  (IF q \in DOMAIN cache' THEN cache'[q].data ELSE disk'[q]) = m[q]
      BY <1>3, <1>4, <1>6, <2>1, <2>2, <3>2
    <3> QED BY <3>1, <3>2
  <2>4. Content' = m
    BY <2>2, <2>3, ContentNextIs
  <2> QED BY <2>1, <2>4 DEF m
<1> QED BY <1>9, <1>10, <1>11

(* The loop of a rollback puts the saved pages back.                       *)
LEMMA PutBackPutsBack ==
    ASSUME TypeOK, NEW saved \in Saves, PutBack(saved)
    PROVE  /\ cache' \in CacheType /\ disk' \in [Page -> Val]
           /\ spoiled' \in BOOLEAN
           /\ ~spoiled' => ~spoiled /\ Content' = Back(Content, saved)
<1>1. PICK out \in SUBSET Cached, failed \in SUBSET DOMAIN saved, lost \in SUBSET DOMAIN saved :
        LET kept == ((Cached \ out) \union (DOMAIN saved \ failed)) \ lost
        IN  /\ failed \intersect (lost \union (Cached \ out)) = {}
            /\ out # {} => Cardinality(Cached \union DOMAIN saved) > cap
            /\ lost # {} => Cardinality(DOMAIN saved) > cap
            /\ Cardinality(kept) <= cap
            /\ cache' = [p \in kept |-> IF p \in DOMAIN saved THEN Buffer(saved[p], FALSE)
                                        ELSE cache[p]]
            /\ disk' = Flushed(out)
            /\ spoiled' = (\/ spoiled \/ Unwritten(out)
                           \/ failed # {} \/ \E p \in lost : saved[p] # disk'[p])
  BY DEF PutBack
<1> DEFINE kept == ((Cached \ out) \union (DOMAIN saved \ failed)) \ lost
<1>2. /\ DOMAIN cache' = kept /\ cache' = [p \in kept |-> cache'[p]]
      /\ \A p \in kept : cache'[p] = IF p \in DOMAIN saved THEN Buffer(saved[p], FALSE)
                                     ELSE cache[p]
  BY <1>1
<1>3. /\ disk' = Flushed(out)
      /\ spoiled' = (\/ spoiled \/ Unwritten(out)
                     \/ failed # {} \/ \E p \in lost : saved[p] # disk'[p])
  BY <1>1
<1>4. /\ Cached \subseteq Page /\ \A p \in Cached : cache[p] \in BufferType
      /\ Content \in Contents
      /\ DOMAIN saved \subseteq Page /\ \A p \in DOMAIN saved : saved[p] \in Val
  BY CacheFacts, SavesFacts
<1>5. kept \in SUBSET Page /\ \A p \in kept : p \in DOMAIN saved \/ p \in Cached
  BY <1>4
<1>6. \A p \in kept : cache'[p] \in BufferType
  <2>1. TAKE p \in kept
  <2>2. CASE p \in DOMAIN saved
    <3>1. cache'[p] = Buffer(saved[p], FALSE) /\ saved[p] \in Val
      BY <1>2, <1>4, <2>2
    <3> QED BY <3>1, BufferFacts
  <2>3. CASE p \notin DOMAIN saved
    BY <1>2, <1>4, <1>5, <2>3
  <2> QED BY <2>2, <2>3
<1>7. cache' \in CacheType
  <2> HIDE DEF kept
  <2> QED BY <1>2, <1>5, <1>6, CacheIntro
<1>8. disk' \in [Page -> Val] /\ spoiled' \in BOOLEAN
  BY <1>3, FlushedFacts DEF TypeOK
<1>9. ASSUME ~spoiled'
      PROVE  ~spoiled /\ Content' = Back(Content, saved)
  <2> DEFINE m == Back(Content, saved)
  <2>1. ~spoiled /\ ~Unwritten(out) /\ failed = {} /\ \A p \in lost : saved[p] = disk'[p]
    BY <1>3, <1>9
  <2>2. /\ m \in Contents
        /\ \A q \in Page : m[q] = IF q \in DOMAIN saved THEN saved[q] ELSE Content[q]
    BY <1>4, BackFacts DEF Back
  <2> HIDE DEF m
  <2>3. ASSUME NEW q \in Page
        PROVE  (IF q \in DOMAIN cache' THEN cache'[q].data ELSE disk'[q]) = m[q]
    <3>1. CASE q \in kept /\ q \in DOMAIN saved
      BY <1>2, <1>4, <2>2, <3>1, BufferFacts
    <3>2. CASE q \in kept /\ q \notin DOMAIN saved
      <4>1. q \in Cached /\ cache'[q] = cache[q]
        BY <1>2, <1>5, <3>2
      <4>2. Content[q] = cache[q].data
        BY <4>1 DEF Content
      <4> QED BY <1>2, <2>2, <3>2, <4>1, <4>2
    <3>3. CASE q \in lost
      <4>1. q \notin kept /\ q \in DOMAIN saved
        BY <3>3
      <4> QED BY <1>2, <2>1, <2>2, <3>3, <4>1
    <3>4. CASE q \notin kept /\ q \notin lost
      <4>1. q \notin DOMAIN saved /\ q \notin (Cached \ out)
        BY <2>1, <3>4
      <4>2. disk'[q] = Content[q]
        <5>1. CASE q \in out
          BY <1>3, <2>1, <5>1, FlushedFacts
        <5>2. CASE q \notin out
          <6>1. q \notin Cached /\ disk'[q] = disk[q]
            BY <1>3, <4>1, <5>2, FlushedFacts
          <6> QED BY <6>1 DEF Content
        <5> QED BY <5>1, <5>2
      <4> QED BY <1>2, <2>2, <3>4, <4>1, <4>2
    <3> QED BY <3>1, <3>2, <3>3, <3>4
  <2>4. Content' = m
    BY <2>2, <2>3, ContentNextIs
  <2> QED BY <2>1, <2>4 DEF m
<1> QED BY <1>7, <1>8, <1>9

LEMMA FlushAllKeeps ==
    ASSUME TypeOK, FlushAll
    PROVE  /\ cache' \in CacheType /\ disk' \in [Page -> Val]
           /\ spoiled' = spoiled /\ cap' = cap /\ Content' = Content
<1>1. /\ disk' = Flushed(Cached) /\ spoiled' = spoiled /\ cap' = cap
      /\ cache' = [p \in Cached |-> Buffer(cache[p].data, FALSE)]
  BY DEF FlushAll
<1>2. /\ Cached \subseteq Page /\ \A p \in Cached : cache[p] \in BufferType
      /\ Content \in Contents
  BY CacheFacts
<1>3. /\ DOMAIN cache' = Cached /\ cache' = [p \in Cached |-> cache'[p]]
      /\ \A p \in Cached : cache'[p] = Buffer(cache[p].data, FALSE)
  BY <1>1
<1>4. \A p \in Cached : cache'[p] \in BufferType /\ cache'[p].data = cache[p].data
  <2>1. TAKE p \in Cached
  <2>2. cache[p].data \in Val /\ cache'[p] = Buffer(cache[p].data, FALSE)
    BY <1>2, <1>3 DEF BufferType
  <2> HIDE DEF Cached
  <2> QED BY <2>2, BufferFacts
<1>5. cache' \in CacheType /\ disk' \in [Page -> Val]
  <2>1. disk' \in [Page -> Val]
    BY <1>1, FlushedFacts
  <2>2. Cached \in SUBSET Page
    BY <1>2
  <2> QED BY <1>3, <1>4, <2>1, <2>2, CacheIntro
<1>6. ASSUME NEW q \in Page
      PROVE  (IF q \in DOMAIN cache' THEN cache'[q].data ELSE disk'[q]) = Content[q]
  <2>1. CASE q \in Cached
    BY <1>3, <1>4, <2>1 DEF Content
  <2>2. CASE q \notin Cached
    BY <1>1, <1>3, <2>2, FlushedFacts DEF Content
  <2> QED BY <2>1, <2>2
<1> QED BY <1>1, <1>2, <1>5, <1>6, ContentNextIs

-----------------------------------------------------------------------------
(* The states of Transaction in the terms of the lemmas.                   *)
LEMMA StateAsImages ==
    /\ Snapshots = IF inTx THEN Images(Content, save, points) ELSE << >>
    /\ Snapshots' = IF inTx' THEN Images(Content', save', points') ELSE << >>
    /\ \A s : Restored(s) = Back(Content, s)
    /\ \A s, p : Added(s, p) = Saving(Content, s, p)
<1>1. Snapshots = IF inTx THEN Images(Content, save, points) ELSE << >>
  BY DEF Snapshots, SnapshotOf, Restored, Images, ImageAt, Back
<1>2. Snapshots' = IF inTx' THEN Images(Content', save', points') ELSE << >>
  BY DEF Snapshots, SnapshotOf, Restored, Images, ImageAt, Back
<1> QED BY <1>1, <1>2 DEF Restored, Added, Back, Saving

LEMMA StateTypes ==
    ASSUME TypeOK
    PROVE  /\ Content \in Contents /\ save \in Saves /\ points \in Seq(Point)
           /\ Len(points) \in Nat /\ DOMAIN points = 1..Len(points)
           /\ \A i \in 1..Len(points) : points[i].saved \in Saves /\ points[i].name \in Name
<1>1. Content \in Contents /\ save \in Saves /\ points \in Seq(Point)
  BY CacheFacts DEF TypeOK, Point
<1>2. Len(points) \in Nat /\ DOMAIN points = 1..Len(points)
      /\ \A i \in 1..Len(points) : points[i] \in Point
  BY <1>1, LenProperties, ElementOfSeq
<1> QED BY <1>1, <1>2 DEF Point

LEMMA EmptyFacts ==
    << >> \in Seq(Point) /\ Len(<< >>) = 0 /\ \A s : NestedIn(s, << >>)
  BY DEF NestedIn

LEMMA TxInit ==
    ASSUME Init
    PROVE  TxInv /\ Store!Init
<1>1. << >> \in Seq([name : Name, saved : Saves]) /\ << >> \in CacheType
  <2>1. << >> \in [{} -> BufferType]
    OBVIOUS
  <2>2. {} \in SUBSET Page
    OBVIOUS
  <2>3. << >> \in CacheType
    BY <2>1, <2>2 DEF CacheType
  <2> QED BY <2>3
<1>2. TypeOK
  BY <1>1, NoSavesFacts DEF Init, TypeOK, CacheType, BufferType
<1>3. Nested /\ BaseKept
  BY EmptyFacts DEF Init, Nested, BaseKept
<1>4. Store!Init
  BY <1>2, CacheFacts DEF Init, Store!Init, Snapshots, Contents
<1> QED BY <1>2, <1>3, <1>4 DEF TxInv

(* What a step leaves alone.                                               *)
LEMMA SamePages ==
    ASSUME UNCHANGED pages
    PROVE  Content' = Content
  BY DEF pages, Content, Cached

(* TypeOK after a step from its parts.                                     *)
Typed(c, d, k, t, s, pts, sp) ==
    /\ c \in CacheType /\ d \in [Page -> Val] /\ k \in Caps
    /\ t \in BOOLEAN /\ s \in Saves /\ pts \in Seq(Point)
    /\ ~t => s = NoSaves /\ pts = << >>
    /\ sp \in BOOLEAN

LEMMA TypeOKTyped ==
    /\ TypeOK <=> Typed(cache, disk, cap, inTx, save, points, spoiled)
    /\ TypeOK' <=> Typed(cache', disk', cap', inTx', save', points', spoiled')
  BY DEF TypeOK, Typed, CacheType, BufferType, Point

LEMMA GetStep ==
    ASSUME TxInv, NEW p \in Page, Get(p)
    PROVE  TxInv' /\ (~spoiled' => UNCHANGED Store!vars)
<1>1. /\ TypeOK /\ Nested /\ (~spoiled => BaseKept)
      /\ cap' = cap /\ inTx' = inTx /\ save' = save /\ points' = points /\ base' = base
  BY DEF TxInv, Get
<1>2. /\ cache' \in CacheType /\ disk' \in [Page -> Val]
      /\ spoiled' \in BOOLEAN /\ (~spoiled' => ~spoiled /\ Content' = Content)
  BY <1>1, GetKeeps
<1>3. TypeOK' /\ Nested'
  BY <1>1, <1>2, TypeOKTyped DEF Typed, Nested
<1>4. ASSUME ~spoiled'
      PROVE  BaseKept' /\ UNCHANGED Store!vars
  <2>1. ~spoiled /\ Content' = Content /\ BaseKept
    BY <1>1, <1>2, <1>4
  <2>2. BaseKept'
    BY <1>1, <2>1 DEF BaseKept
  <2>3. Snapshots' = Snapshots
    BY <1>1, <2>1, StateAsImages
  <2> QED BY <2>1, <2>2, <2>3 DEF Store!vars
<1> QED BY <1>3, <1>4 DEF TxInv

LEMMA WriteStep ==
    ASSUME TxInv, NEW p \in Page, NEW v \in Val, SavedWrite(p, v)
    PROVE  TxInv' /\ (~spoiled' => Store!Write(p, v))
<1>1. /\ TypeOK /\ NestedIn(save, points) /\ (~spoiled => BaseKept)
      /\ Content \in Contents /\ save \in Saves /\ points \in Seq(Point)
  BY StateTypes DEF TxInv, Nested
<1>2. Change(p, v) /\ cap' = cap /\ inTx' = inTx /\ base' = base
  BY DEF SavedWrite, Change
<1>3. /\ cache' \in CacheType /\ disk' \in [Page -> Val]
      /\ spoiled' \in BOOLEAN
      /\ ~spoiled' => ~spoiled /\ Content' = Changed(Content, p, v)
  BY <1>1, <1>2, ChangeChanges
<1>4. CASE inTx
  <2>1. save' = Saving(Content, save, p)
    BY <1>4, StateAsImages DEF SavedWrite, SavePage
  <2>2. points' = [i \in DOMAIN points |->
                     [points[i] EXCEPT !.saved = Saving(Content, points[i].saved, p)]]
    BY <1>4 DEF SavedWrite, SavePage, Added, Saving
  <2>3. points' \in Seq(Point) /\ SavedFor(points', Content, points, p)
    BY <1>1, <2>2, SavedForProperties
  <2>4. save' \in Saves /\ Back(Changed(Content, p, v), save') = Back(Content, save)
    BY <1>1, <2>1, SavingKeeps
  <2>5. TypeOK'
    BY <1>1, <1>2, <1>3, <1>4, <2>3, <2>4, TypeOKTyped DEF Typed
  <2>6. Nested'
    BY <1>1, <2>1, <2>3, SavedNested DEF Nested
  <2>7. Images(Changed(Content, p, v), Saving(Content, save, p), points')
          = Images(Content, save, points)
    BY <1>1, <2>3, ImagesAfterWrite
  <2>8. ASSUME ~spoiled'
        PROVE  BaseKept' /\ Store!Write(p, v)
    <3>1. ~spoiled /\ Content' = Changed(Content, p, v) /\ BaseKept
      BY <1>1, <1>3, <2>8
    <3>2. BaseKept'
      BY <1>2, <1>4, <2>4, <3>1 DEF BaseKept
    <3>3. Snapshots' = Snapshots
      BY <1>2, <1>4, <2>1, <2>7, <3>1, StateAsImages
    <3> QED BY <3>1, <3>2, <3>3 DEF Store!Write, Changed
  <2> QED BY <2>5, <2>6, <2>8 DEF TxInv
<1>5. CASE ~inTx
  <2>1. save' = save /\ points' = points
    BY <1>5 DEF SavedWrite, SavePage
  <2>2. TypeOK' /\ Nested'
    BY <1>1, <1>2, <1>3, <1>5, <2>1, TypeOKTyped DEF Typed, Nested
  <2>3. BaseKept'
    BY <1>2, <1>5 DEF BaseKept
  <2>4. Snapshots' = Snapshots
    BY <1>2, <1>5, StateAsImages
  <2> QED BY <1>3, <2>2, <2>3, <2>4 DEF TxInv, Store!Write, Changed
<1> QED BY <1>4, <1>5

LEMMA BeginStep ==
    ASSUME TxInv, Begin
    PROVE  TxInv' /\ Store!Begin
<1>1. /\ TypeOK /\ Content \in Contents /\ points \in Seq(Point)
      /\ ~inTx /\ save = NoSaves /\ points = << >> /\ Len(points) = 0
  BY StateTypes DEF TxInv, Begin, TypeOK
<1>2. /\ inTx' = TRUE /\ base' = Content
      /\ cache' = cache /\ disk' = disk /\ cap' = cap /\ spoiled' = spoiled
      /\ save' = save /\ points' = points
  BY DEF Begin, pages
<1>3. Content' = Content
  BY <1>2, SamePages DEF pages
<1>4. TypeOK'
  BY <1>1, <1>2 DEF TypeOK
<1>5. Nested' /\ BaseKept'
  BY <1>1, <1>2, <1>3, EmptyFacts, BackOfNothing DEF Nested, BaseKept
<1>6. Snapshots = << >>
  BY <1>1, StateAsImages
<1>7. Images(Content, NoSaves, points) = <<[name |-> BeginName, pages |-> Content]>>
  BY <1>1, ImagesAtBegin
<1>8. Snapshots' = <<Store!Snapshot(BeginName)>>
  BY <1>1, <1>2, <1>3, <1>7, StateAsImages DEF Store!Snapshot
<1> QED BY <1>3, <1>4, <1>5, <1>6, <1>8 DEF TxInv, Store!Begin

(* After COMMIT or ROLLBACK nothing is saved.                              *)
LEMMA Ended ==
    ASSUME EndTx, cache' \in CacheType, disk' \in [Page -> Val], cap' \in Caps,
           spoiled' \in BOOLEAN
    PROVE  TxInv' /\ Snapshots' = << >>
<1>1. inTx' = FALSE /\ save' = NoSaves /\ points' = << >>
  BY DEF EndTx
<1>2. TypeOK'
  BY <1>1, NoSavesFacts, EmptyFacts, TypeOKTyped DEF Typed
<1>3. Nested' /\ BaseKept'
  BY <1>1, EmptyFacts DEF Nested, BaseKept
<1>4. Snapshots' = << >>
  BY <1>1, StateAsImages
<1> QED BY <1>2, <1>3, <1>4 DEF TxInv

(* Inside a transaction there is an image of BEGIN's content.              *)
LEMMA FirstImage ==
    ASSUME TxInv, inTx
    PROVE  Snapshots # << >> /\ Snapshots[1].pages = Back(Content, save)
<1>1. Content \in Contents /\ save \in Saves /\ points \in Seq(Point) /\ Len(points) \in Nat
  BY StateTypes DEF TxInv
<1> DEFINE images == Images(Content, save, points)
<1>2. /\ images \in Seq(Image) /\ Len(images) = Len(points) + 1
      /\ \A i \in 1..(Len(points) + 1) : images[i] = ImageAt(Content, save, points, i)
  BY <1>1, ImagesFacts
<1>3. Snapshots = images
  BY StateAsImages
<1> HIDE DEF images
<1>4. images # << >> /\ images[1] = ImageAt(Content, save, points, 1)
  BY <1>1, <1>2
<1> QED BY <1>3, <1>4 DEF ImageAt

LEMMA CommitStep ==
    ASSUME TxInv, Commit
    PROVE  TxInv' /\ (Store!Commit \/ UNCHANGED Store!vars)
<1>1. TypeOK /\ EndTx /\ FlushAll
  BY DEF TxInv, Commit
<1>2. /\ cache' \in CacheType /\ disk' \in [Page -> Val]
      /\ spoiled' = spoiled /\ cap' = cap /\ Content' = Content
  BY <1>1, FlushAllKeeps
<1>3. cap' \in Caps /\ spoiled' \in BOOLEAN
  BY <1>1, <1>2 DEF TypeOK
<1>4. TxInv' /\ Snapshots' = << >>
  BY <1>1, <1>2, <1>3, Ended
<1>5. CASE inTx
  BY <1>2, <1>4, <1>5, FirstImage DEF Store!Commit
<1>6. CASE ~inTx
  <2>1. Snapshots = << >>
    BY <1>6, StateAsImages
  <2> QED BY <1>2, <1>4, <2>1 DEF Store!vars
<1> QED BY <1>5, <1>6

LEMMA RollbackStep ==
    ASSUME TxInv, Rollback
    PROVE  TxInv' /\ (~spoiled' => Store!Rollback /\ Content' = base)
<1>1. TypeOK /\ inTx /\ EndTx /\ PutBack(save) /\ cap' = cap /\ (~spoiled => BaseKept)
  BY DEF TxInv, Rollback
<1>2. Content \in Contents /\ save \in Saves /\ cap' \in Caps
  BY <1>1, StateTypes DEF TypeOK
<1>3. /\ cache' \in CacheType /\ disk' \in [Page -> Val]
      /\ spoiled' \in BOOLEAN
      /\ ~spoiled' => ~spoiled /\ Content' = Back(Content, save)
  BY <1>1, <1>2, PutBackPutsBack
<1>4. TxInv' /\ Snapshots' = << >>
  BY <1>1, <1>2, <1>3, Ended
<1>5. ASSUME ~spoiled'
      PROVE  Store!Rollback /\ Content' = base
  <2>1. Content' = Back(Content, save) /\ BaseKept
    BY <1>1, <1>3, <1>5
  <2>2. Store!Rollback
    BY <1>1, <1>4, <2>1, FirstImage DEF Store!Rollback
  <2>3. Content' = base
    BY <1>1, <2>1 DEF BaseKept
  <2> QED BY <2>2, <2>3
<1> QED BY <1>4, <1>5

LEMMA SavepointStep ==
    ASSUME TxInv, NEW n \in Name, Savepoint(n)
    PROVE  TxInv' /\ Store!Savepoint(n)
<1>1. /\ TypeOK /\ NestedIn(save, points)
      /\ Content \in Contents /\ save \in Saves /\ points \in Seq(Point)
  BY StateTypes DEF TxInv, Nested
<1>2. /\ points' = Append(points, Fresh(n)) /\ inTx' = TRUE
      /\ base' = (IF inTx THEN base ELSE Content)
      /\ Content' = Content /\ cache' = cache /\ disk' = disk /\ cap' = cap
      /\ spoiled' = spoiled /\ save' = save
  BY SamePages DEF Savepoint, pages, Fresh
<1>3. points' \in Seq(Point) /\ Opened(points', points, n)
  BY <1>1, <1>2, OpenProperties
<1>4. TypeOK'
  BY <1>1, <1>2, <1>3 DEF TypeOK, Point
<1>5. Nested'
  BY <1>1, <1>2, <1>3, OpenNested DEF Nested
<1>6. ~spoiled' => BaseKept'
  <2>1. CASE inTx
    BY <1>2, <2>1 DEF TxInv, BaseKept
  <2>2. CASE ~inTx
    BY <1>1, <1>2, <2>2, BackOfNothing DEF TypeOK, BaseKept
  <2> QED BY <2>1, <2>2
<1>7. Images(Content, save, points') = Images(Content, save, points) \o <<[name |-> n, pages |-> Content]>>
  BY <1>1, <1>3, ImagesAfterOpen
<1>8. Snapshots' = Images(Content, save, points) \o <<Store!Snapshot(n)>>
  BY <1>2, <1>7, StateAsImages DEF Store!Snapshot
<1>9. Images(Content, save, points) =
        IF Snapshots = << >> THEN <<Store!Snapshot(BeginName)>> ELSE Snapshots
  <2>1. CASE inTx
    BY <2>1, FirstImage, StateAsImages
  <2>2. CASE ~inTx
    <3>1. save = NoSaves /\ points = << >> /\ Len(points) = 0
      BY <1>1, <2>2 DEF TypeOK
    <3>2. Images(Content, NoSaves, points) = <<[name |-> BeginName, pages |-> Content]>>
      BY <1>1, <3>1, ImagesAtBegin
    <3>3. Snapshots = << >>
      BY <2>2, StateAsImages
    <3> QED BY <3>1, <3>2, <3>3 DEF Store!Snapshot
  <2> QED BY <2>1, <2>2
<1>10. Store!Savepoint(n)
  BY <1>2, <1>8, <1>9 DEF Store!Savepoint
<1> QED BY <1>4, <1>5, <1>6, <1>10 DEF TxInv

(* The latest savepoint of a name is the latest image of that name.        *)
LEMMA LatestImage ==
    ASSUME TxInv, NEW n \in Name, NEW i \in DOMAIN points, IsLatest(i, n)
    PROVE  /\ inTx /\ Snapshots = Images(Content, save, points)
           /\ i + 1 \in DOMAIN Snapshots /\ Store!IsLatest(i + 1, n)
           /\ Snapshots[i + 1].pages = Back(Content, points[i].saved)
<1>1. /\ TypeOK /\ Content \in Contents /\ save \in Saves /\ points \in Seq(Point)
      /\ Len(points) \in Nat /\ DOMAIN points = 1..Len(points)
  BY StateTypes DEF TxInv
<1>2. inTx /\ Snapshots = Images(Content, save, points)
  <2>1. points # << >>
    BY <1>1
  <2>2. inTx
    BY <1>1, <2>1 DEF TypeOK
  <2> QED BY <2>2, StateAsImages
<1>3. /\ Snapshots \in Seq(Image) /\ Len(Snapshots) = Len(points) + 1
      /\ \A j \in 1..(Len(points) + 1) : Snapshots[j] = ImageAt(Content, save, points, j)
  BY <1>1, <1>2, ImagesFacts
<1>4. DOMAIN Snapshots = 1..(Len(points) + 1)
  BY <1>3, LenProperties
<1>5. ASSUME NEW j \in 2..(Len(points) + 1)
      PROVE  /\ j - 1 \in DOMAIN points /\ Snapshots[j].name = points[j - 1].name
             /\ Snapshots[j].pages = Back(Content, points[j - 1].saved)
  <2>1. Snapshots[j] = ImageAt(Content, save, points, j) /\ j # 1 /\ j - 1 \in DOMAIN points
    BY <1>1, <1>3
  <2> QED BY <2>1 DEF ImageAt
<1>6. i + 1 \in 2..(Len(points) + 1) /\ (i + 1) - 1 = i
  BY <1>1
<1>7. Snapshots[i + 1].name = n /\ Snapshots[i + 1].pages = Back(Content, points[i].saved)
  BY <1>5, <1>6 DEF IsLatest
<1>8. ASSUME NEW j \in (i + 2)..(Len(points) + 1)
      PROVE  Snapshots[j].name # n
  <2>1. j \in 2..(Len(points) + 1) /\ ~(j - 1 <= i)
    BY <1>1
  <2> QED BY <1>5, <2>1 DEF IsLatest
<1>9. i + 1 \in 2..Len(Snapshots) /\ ((i + 1) + 1)..Len(Snapshots) = (i + 2)..(Len(points) + 1)
  BY <1>1, <1>3
<1>10. Store!IsLatest(i + 1, n)
  BY <1>7, <1>8, <1>9 DEF Store!IsLatest
<1> QED BY <1>1, <1>2, <1>4, <1>6, <1>7, <1>10

LEMMA ReleaseStep ==
    ASSUME TxInv, NEW n \in Name, Release(n)
    PROVE  TxInv' /\ Store!Release(n)
<1>1. PICK i \in DOMAIN points :
        /\ IsLatest(i, n)
        /\ points' = SubSeq(points, 1, i - 1)
        /\ UNCHANGED <<pages, inTx, save, base>>
  BY DEF Release
<1>2. /\ Content' = Content /\ cache' = cache /\ disk' = disk /\ cap' = cap
      /\ spoiled' = spoiled /\ inTx' = inTx /\ save' = save /\ base' = base
  BY <1>1, SamePages DEF pages
<1>3. /\ TypeOK /\ NestedIn(save, points) /\ (~spoiled => BaseKept) /\ i \in 1..Len(points)
      /\ Content \in Contents /\ save \in Saves /\ points \in Seq(Point)
  BY StateTypes DEF TxInv, Nested
<1>4. points' \in Seq(Point) /\ Cut(points', points, i)
  BY <1>1, <1>3, CutProperties
<1>5. /\ inTx /\ Snapshots = Images(Content, save, points)
      /\ i + 1 \in DOMAIN Snapshots /\ Store!IsLatest(i + 1, n)
  BY <1>1, LatestImage
<1>6. TypeOK'
  BY <1>2, <1>3, <1>4, <1>5 DEF TypeOK, Point
<1>7. Nested'
  BY <1>2, <1>3, <1>4, CutNested DEF Nested
<1>8. ~spoiled' => BaseKept'
  BY <1>2, <1>3 DEF BaseKept
<1>9. Snapshots' = SubSeq(Snapshots, 1, i)
  BY <1>2, <1>3, <1>4, <1>5, ImagesAfterCut, StateAsImages
<1>10. i = (i + 1) - 1
  BY <1>3
<1>11. Store!Release(n)
  BY <1>2, <1>5, <1>9, <1>10 DEF Store!Release
<1> QED BY <1>6, <1>7, <1>8, <1>11 DEF TxInv

LEMMA RollbackToStep ==
    ASSUME TxInv, NEW n \in Name, RollbackTo(n)
    PROVE  TxInv' /\ (~spoiled' => Store!RollbackTo(n))
<1>1. PICK i \in DOMAIN points :
        /\ IsLatest(i, n)
        /\ PutBack(points[i].saved)
        /\ points' = Append(SubSeq(points, 1, i - 1), [name |-> n, saved |-> NoSaves])
        /\ UNCHANGED <<cap, inTx, save, base>>
  BY DEF RollbackTo
<1>2. /\ TypeOK /\ NestedIn(save, points) /\ (~spoiled => BaseKept) /\ i \in 1..Len(points)
      /\ Content \in Contents /\ save \in Saves /\ points \in Seq(Point)
      /\ points[i].saved \in Saves /\ points[i].name = n
  BY <1>1, StateTypes DEF TxInv, Nested, IsLatest
<1>3. /\ cache' \in CacheType /\ disk' \in [Page -> Val]
      /\ spoiled' \in BOOLEAN
      /\ ~spoiled' => ~spoiled /\ Content' = Back(Content, points[i].saved)
  BY <1>1, <1>2, PutBackPutsBack
<1> DEFINE c == SubSeq(points, 1, i - 1)
<1>4. c \in Seq(Point) /\ Cut(c, points, i)
  BY <1>2, CutProperties
<1> HIDE DEF c
<1>5. points' = Append(c, Fresh(n))
  BY <1>1 DEF c, Fresh
<1>6. points' \in Seq(Point) /\ Opened(points', c, n)
  BY <1>4, <1>5, OpenProperties
<1>7. /\ inTx /\ Snapshots = Images(Content, save, points)
      /\ i + 1 \in DOMAIN Snapshots /\ Store!IsLatest(i + 1, n)
      /\ Snapshots[i + 1].pages = Back(Content, points[i].saved)
  BY <1>1, LatestImage
<1>8. TypeOK'
  <2>1. cap' \in Caps /\ inTx' = TRUE /\ save' = save
    BY <1>1, <1>2, <1>7 DEF TypeOK
  <2> QED BY <1>2, <1>3, <1>6, <2>1, TypeOKTyped DEF Typed
<1>9. Nested'
  BY <1>1, <1>2, <1>4, <1>6, CutNested, OpenNested DEF Nested
<1>10. Images(Back(Content, points[i].saved), save, points')
         = SubSeq(Images(Content, save, points), 1, i + 1)
  BY <1>2, <1>4, <1>6, ImagesAfterBack
<1>11. ASSUME ~spoiled'
       PROVE  BaseKept' /\ Store!RollbackTo(n)
  <2>1. Content' = Back(Content, points[i].saved) /\ BaseKept
    BY <1>2, <1>3, <1>11
  <2>2. DOMAIN points[i].saved \subseteq DOMAIN save
    BY <1>2 DEF NestedIn
  <2>3. Back(Back(Content, points[i].saved), save) = Back(Content, save)
    BY <1>2, <2>2, BackEarlier
  <2>4. BaseKept'
    BY <1>1, <1>7, <2>1, <2>3 DEF BaseKept
  <2>5. Snapshots' = SubSeq(Snapshots, 1, i + 1)
    BY <1>1, <1>7, <1>10, <2>1, StateAsImages
  <2>6. Store!RollbackTo(n)
    BY <1>7, <2>1, <2>5 DEF Store!RollbackTo
  <2> QED BY <2>4, <2>6
<1> QED BY <1>8, <1>9, <1>11 DEF TxInv

-----------------------------------------------------------------------------
SavedNext == Statements \/ \E p \in Page : Get(p) \/ \E v \in Val : SavedWrite(p, v)

LEMMA TxStep ==
    ASSUME TxInv, [SavedNext]_vars
    PROVE  /\ TxInv'
           /\ ~spoiled' => [Store!Next]_(Store!vars)
           /\ Rollback /\ ~spoiled' => Content' = base
<1> USE DEF SavedNext, Statements
<1>1. CASE \E p \in Page, v \in Val : SavedWrite(p, v)
  BY <1>1, WriteStep, RollbackStep DEF Store!Next
<1>2. CASE \E p \in Page : Get(p)
  BY <1>2, GetStep, RollbackStep
<1>3. CASE Begin
  BY <1>3, BeginStep, RollbackStep DEF Store!Next
<1>4. CASE Commit
  BY <1>4, CommitStep, RollbackStep DEF Store!Next
<1>5. CASE Rollback
  BY <1>5, RollbackStep DEF Store!Next
<1>6. CASE \E n \in Name : Savepoint(n)
  BY <1>6, SavepointStep, RollbackStep DEF Store!Next
<1>7. CASE \E n \in Name : Release(n)
  BY <1>7, ReleaseStep, RollbackStep DEF Store!Next
<1>8. CASE \E n \in Name : RollbackTo(n)
  BY <1>8, RollbackToStep, RollbackStep DEF Store!Next
<1>9. CASE UNCHANGED vars
  <2>1. TypeOK' /\ Nested' /\ (~spoiled' => BaseKept') /\ Content' = Content
    BY <1>9, SamePages DEF TxInv, TypeOK, Nested, BaseKept, vars, pages
  <2>2. UNCHANGED Store!vars
    BY <1>9, <2>1, StateAsImages DEF Store!vars, vars
  <2> QED BY <2>1, <2>2, RollbackStep DEF TxInv
<1> QED BY <1>1, <1>2, <1>3, <1>4, <1>5, <1>6, <1>7, <1>8, <1>9

(* The saved pages are pages with a content, and nothing is saved outside  *)
(* a transaction (SavePage, Commit, Rollback of transaction.go).           *)
THEOREM TransactionTypeCorrect == SavedSpec => []TypeOK
<1>1. TxInv => TypeOK
  BY DEF TxInv
<1> QED BY <1>1, TxInit, TxStep, PTL DEF SavedSpec, SavedNext

(* With every write saved first, ROLLBACK returns every page to what it    *)
(* was when the transaction began, whatever savepoints were opened,        *)
(* released and rolled back to meanwhile and whatever the cache evicted    *)
(* and read again: as long as no GetPage of a rollback failed and no page  *)
(* put back, clean, was dropped while the file had something else          *)
(* (Rollback of transaction.go, put of pager.go).                          *)
THEOREM SavedRollbackRestores == SavedSpec => RollbackRestores
<1>1. TxInv /\ [SavedNext]_vars => [Rollback /\ ~spoiled' => Content' = base]_vars
  BY TxStep
<1> QED BY <1>1, TxInit, TxStep, PTL DEF SavedSpec, SavedNext, RollbackRestores

(* With every write saved first, transactions and savepoints over the page *)
(* cache are the stack of full snapshots of TxStore, up to the first of    *)
(* the same two mishaps (SavePage, RollbackToSavepoint of transaction.go). *)
THEOREM SavedIsTxStore == SavedSpec => IsTxStore
<1>1. Init => Store!Init
  BY TxInit
<1>2. TxInv /\ [SavedNext]_vars => [~spoiled' => [Store!Next]_(Store!vars)]_vars
  BY TxStep
<1> QED BY <1>1, <1>2, TxInit, TxStep, PTL DEF SavedSpec, SavedNext, IsTxStore
=============================================================================
