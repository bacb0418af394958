------------------------------ MODULE Matching ------------------------------
(***************************************************************************)
(* LIKE and GLOB (sqlLikeMatch and globMatchRunes of executor/eval.go):    *)
(* matching from the left that tries every length for a wildcard.          *)
(* A text is a sequence of code points.                                    *)
(***************************************************************************)
EXTENDS Integers, Sequences, FiniteSets

Percent == 37
Underscore == 95
Star == 42
Question == 63
Open == 91
Close == 93
Caret == 94
Dash == 45
Backslash == 92

(* strings.ToLower, as far as letters of the English alphabet go.          *)
Lower(s) == [i \in DOMAIN s |-> IF s[i] \in 65..90 THEN s[i] + 32 ELSE s[i]]

(* How far a match has come: the characters taken from the text, and the   *)
(* position in the pattern that is next.                                   *)
Places(s, p) == (0..Len(s)) \X (1..(Len(p) + 1))

LikeGreedy(s, n, j, rest) ==  \* mutation: a wildcard takes at least one character
    \E i \in (n + 1)..Len(s) : rest[<<i, j + 1>>]

LikeAny(s, n, j, rest) == \E i \in n..Len(s) : rest[<<i, j + 1>>]

Escapes(p, j, esc) == j < Len(p) /\ p[j] = esc
IsPercent(p, j, esc) == j <= Len(p) /\ p[j] = Percent /\ ~Escapes(p, j, esc)

LikeMatch(s, p, esc) ==
    LET match[at \in Places(s, p)] ==
            LET n == at[1]
                j == at[2]
            IN  \/ j > Len(p) /\ n = Len(s)
                \/ Escapes(p, j, esc) /\ n < Len(s) /\ s[n + 1] = p[j + 1] /\ match[<<n + 1, j + 2>>]
                \/ IsPercent(p, j, esc) /\ (j = Len(p) \/ LikeAny(s, n, j, match))
                \/ /\ j <= Len(p) /\ ~Escapes(p, j, esc) /\ p[j] # Percent
                   /\ n < Len(s) /\ p[j] \in {s[n + 1], Underscore} /\ match[<<n + 1, j + 1>>]
    IN  match[<<0, 1>>]

(* A class from position i on: whether it names c, and where it ends.  It  *)
(* may lack its bracket, and a range may take the bracket for its end.     *)
IsRange(p, i) == i + 2 <= Len(p) /\ p[i + 1] = Dash
AfterMember(p, i) == IF IsRange(p, i) THEN i + 3 ELSE i + 1

InClass(c, p, i) ==
    LET named[k \in 1..(Len(p) + 1)] ==
            /\ k <= Len(p) /\ p[k] # Close
            /\ c \in p[k]..(IF IsRange(p, k) THEN p[k + 2] ELSE p[k]) \/ named[AfterMember(p, k)]
    IN  named[i]

ClassEnd(p, i) ==
    LET end[k \in 1..(Len(p) + 1)] ==
            IF k > Len(p) THEN k ELSE IF p[k] = Close THEN k + 1 ELSE end[AfterMember(p, k)]
    IN  end[i]

Negates(p, j) == j < Len(p) /\ p[j + 1] = Caret
ClassFrom(p, j) == IF Negates(p, j) THEN j + 2 ELSE j + 1
TakesClass(c, p, j) == InClass(c, p, ClassFrom(p, j)) # Negates(p, j)
AfterClass(p, j) == ClassEnd(p, ClassFrom(p, j))

GlobMatch(s, p) ==
    LET match[at \in Places(s, p)] ==
            LET n == at[1]
                j == at[2]
            IN  \/ j > Len(p) /\ n = Len(s)
                \/ /\ j <= Len(p) /\ p[j] = Star
                   /\ j = Len(p) \/ \E i \in n..Len(s) : match[<<i, j + 1>>]
                \/ /\ j <= Len(p) /\ p[j] = Open
                   /\ n < Len(s) /\ TakesClass(s[n + 1], p, j) /\ match[<<n + 1, AfterClass(p, j)>>]
                \/ /\ j <= Len(p) /\ p[j] \notin {Star, Open}
                   /\ n < Len(s) /\ p[j] \in {s[n + 1], Question} /\ match[<<n + 1, j + 1>>]
    IN  match[<<0, 1>>]

-----------------------------------------------------------------------------
(* What a pattern means: a list of items, each of which stands for one     *)
(* character out of a set, or for any number of any characters.            *)
Anything == [many |-> TRUE, of |-> {}]
OneOf(S) == [many |-> FALSE, of |-> S]

(* The items that are read from position 1 on, each followed by the item   *)
(* at its next position.                                                   *)
InTurn(item, next) ==
    LET from[j \in 1..(Len(item) + 1)] ==
            IF j > Len(item) THEN << >> ELSE <<item[j]>> \o from[next[j]]
    IN  from[1]

LikeItem(p, j, esc, Chars) ==
    IF Escapes(p, j, esc) THEN OneOf({p[j + 1]})
    ELSE IF p[j] = Percent THEN Anything
    ELSE OneOf(IF p[j] = Underscore THEN Chars ELSE {p[j]})

LikeItems(p, esc, Chars) ==
    InTurn([j \in DOMAIN p |-> LikeItem(p, j, esc, Chars)],
           [j \in DOMAIN p |-> IF Escapes(p, j, esc) THEN j + 2 ELSE j + 1])

GlobItem(p, j, Chars) ==
    IF p[j] = Star THEN Anything
    ELSE OneOf(CASE p[j] = Question -> Chars
                 [] p[j] = Open -> {c \in Chars : TakesClass(c, p, j)}
                 [] OTHER -> {p[j]})

GlobItems(p, Chars) ==
    InTurn([j \in DOMAIN p |-> GlobItem(p, j, Chars)],
           [j \in DOMAIN p |-> IF p[j] = Open THEN AfterClass(p, j) ELSE j + 1])

CharsOf(s) == {s[i] : i \in DOMAIN s}

(* The text falls into pieces, one for each item: ends[i] is where that of *)
(* item i ends.                                                            *)
FallsInto(s, items) ==
    \E ends \in [DOMAIN items -> 0..Len(s)] :
        LET start(i) == IF i = 1 THEN 0 ELSE ends[i - 1]
        IN  /\ start(Len(items) + 1) = Len(s)
            /\ \A i \in DOMAIN items :
                   /\ start(i) <= ends[i]
                   /\ items[i].many \/ (ends[i] = start(i) + 1 /\ s[ends[i]] \in items[i].of)

(* Both matchers accept a text if and only if it falls into pieces for the *)
(* items of the pattern: no order of trying loses a match, wherever the    *)
(* escape character and unfinished classes stand, and even when a wildcard *)
(* is the escape character.                                                *)
MatchesPieces(s, p) ==
    /\ \A esc \in {Backslash} \union CharsOf(p) :
           LikeMatch(s, p, esc) <=> FallsInto(s, LikeItems(p, esc, CharsOf(s)))
    /\ GlobMatch(s, p) <=> FallsInto(s, GlobItems(p, CharsOf(s)))
=============================================================================
