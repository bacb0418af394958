------------------------------ MODULE TxStore -------------------------------
(***************************************************************************)
(* What transactions with savepoints promise: a stack of snapshots of the  *)
(* pages, the first taken by BEGIN, that ROLLBACK and ROLLBACK TO return   *)
(* to.                                                                     *)
(***************************************************************************)
EXTENDS Integers, Sequences

CONSTANTS Page, Val, Name, BeginName

VARIABLES
    content,  \* the pages
    stack     \* snapshots of the open transaction and of its savepoints

vars == <<content, stack>>

Snapshot(n) == [name |-> n, pages |-> content]

Init == content \in [Page -> Val] /\ stack = << >>

Write(p, v) ==
    /\ content' = [content EXCEPT ![p] = v]
    /\ UNCHANGED stack

Begin ==
    /\ stack = << >>
    /\ stack' = <<Snapshot(BeginName)>>
    /\ UNCHANGED content

Savepoint(n) ==
    /\ stack' = (IF stack = << >> THEN <<Snapshot(BeginName)>> ELSE stack) \o <<Snapshot(n)>>
    /\ UNCHANGED content

(* The latest savepoint of that name.                                      *)
IsLatest(i, n) ==
    /\ i \in 2..Len(stack) /\ stack[i].name = n
    /\ \A j \in (i + 1)..Len(stack) : stack[j].name # n

Release(n) ==
    \E i \in DOMAIN stack : /\ IsLatest(i, n)
                            /\ stack' = SubSeq(stack, 1, i - 1)
                            /\ UNCHANGED content

RollbackTo(n) ==
    \E i \in DOMAIN stack : /\ IsLatest(i, n)
                            /\ stack' = SubSeq(stack, 1, i)
                            /\ content' = stack[i].pages

Commit == stack # << >> /\ stack' = << >> /\ UNCHANGED content

Rollback == stack # << >> /\ stack' = << >> /\ content' = stack[1].pages

Next ==
    \/ \E p \in Page, v \in Val : Write(p, v)
    \/ Begin \/ Commit \/ Rollback
    \/ \E n \in Name : Savepoint(n) \/ Release(n) \/ RollbackTo(n)

Spec == Init /\ [][Next]_vars
=============================================================================
