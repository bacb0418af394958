---------------------------- MODULE MCPageSearch ----------------------------
(* Every list of at most MaxLen keys out of 1..MaxKey, sorted or not, with *)
(* duplicates, and every key to look for.                                  *)
EXTENDS PageSearch

CONSTANTS MaxKey, MaxLen

MCKey == 0..MaxKey
MCKeyLists == UNION {[1..n -> 1..MaxKey] : n \in 0..MaxLen}
=============================================================================
