------------------------------ MODULE Patterns ------------------------------
(* A text and a pattern for it as the input of the matchers.               *)
EXTENDS Matching

VARIABLE input

Pair(s, p) == [kind |-> "pattern", text |-> s, pattern |-> p]

(* sqlLikeMatch and globMatchRunes: the search with backtracking accepts   *)
(* what the pattern says, with unfinished escapes and classes too.         *)
MatchIsPieces == input.kind = "pattern" => MatchesPieces(input.text, input.pattern)
=============================================================================
