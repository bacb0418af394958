---------------------------- MODULE Transaction -----------------------------
(***************************************************************************)
(* Transactions and savepoints (internal/storage/transaction.go and the    *)
(* statements of executor.go that use it), for one connection.             *)
(*                                                                         *)
(* A transaction keeps the content a page had when SavePage was called for *)
(* it, once for BEGIN and once for each open savepoint, and puts it back   *)
(* on ROLLBACK.  No statement calls SavePage.  So there are two behaviours *)
(* of Write here: Spec is the program, where a statement writes a page and *)
(* nothing is kept; SavedSpec is the protocol that transaction.go is       *)
(* written for, where a page is saved before it is written.                *)
(*                                                                         *)
(* Pages are reached through the page cache, which may evict any of them:  *)
(* a dirty one is written to the file, a clean one is dropped.  ROLLBACK   *)
(* puts a page back as a clean one.  Where LRU and Pager say which page is *)
(* evicted, this module leaves it open.  A page may be unreadable; errors  *)
(* of writing the file are left out.                                       *)
(***************************************************************************)
EXTENDS Integers, Sequences, FiniteSets, SequencesExt

CONSTANTS
    Page, Val,
    Name,       \* names of savepoints
    BeginName,  \* not one of them
    Caps,       \* the -cache flag: one of these; none is 0, which acts as 1
    MaxDepth    \* bound: savepoints open at a time

ASSUME TransactionAssumption ==
    BeginName \notin Name /\ Caps \subseteq Nat \ {0} /\ MaxDepth \in Nat

VARIABLES
    cache,   \* the cached pages: content and Page.Dirty
    disk,    \* content of the file
    cap,     \* capacity of the cache; never changes
    inTx,    \* Executor.inTx; the transaction is nil or active
    save,    \* saveState: the pages saved for BEGIN
    points,  \* savepoints: name and saved pages
    base,    \* ghost: the content when the transaction began
    spoiled  \* ghost: a page could not be put back, or was dropped after it

vars == <<cache, disk, cap, inTx, save, points, base, spoiled>>
pages == <<cache, disk, cap, spoiled>>

Buffer(v, d) == [data |-> v, dirty |-> d]

(* Saved pages: a function from some of the pages to their old content.    *)
Saves == UNION {[S -> Val] : S \in SUBSET Page}
NoSaves == << >>

TypeOK ==
    /\ cache \in UNION {[S -> [data : Val, dirty : BOOLEAN]] : S \in SUBSET Page}
    /\ disk \in [Page -> Val] /\ cap \in Caps
    /\ inTx \in BOOLEAN /\ save \in Saves
    /\ points \in Seq([name : Name, saved : Saves])
    /\ ~inTx => save = NoSaves /\ points = << >>
    /\ spoiled \in BOOLEAN

Init ==
    /\ cache = << >>
    /\ disk \in [Page -> Val]
    /\ cap \in Caps
    /\ inTx = FALSE
    /\ save = NoSaves
    /\ points = << >>
    /\ base = disk
    /\ spoiled = FALSE

-----------------------------------------------------------------------------
(* The cache.  Content of the pages as the next GetPage finds it.          *)
Cached == DOMAIN cache

Content == [p \in Page |-> IF p \in Cached THEN cache[p].data ELSE disk[p]]

(* What GetPage may evict for page p: one page, when there is no room.     *)
Evictions(p) == IF p \in Cached \/ Cardinality(Cached) < cap THEN {{}} ELSE {{q} : q \in Cached}

(* The dirty ones among the pages evicted are written.                     *)
Flushed(out) == [p \in Page |-> IF p \in out /\ cache[p].dirty THEN cache[p].data ELSE disk[p]]

(* A page put back is clean, but is not what the file has.                 *)
Unwritten(out) == \E p \in out : ~cache[p].dirty /\ cache[p].data # disk[p]

(* The cache once page p is in it and the pages evicted are not.           *)
Fetched(p, out) ==
    [q \in (Cached \ out) \union {p} |-> IF q \in Cached THEN cache[q] ELSE Buffer(disk[q], FALSE)]

Evict(out) == disk' = Flushed(out) /\ spoiled' = (spoiled \/ Unwritten(out))

(* A statement reads a page.                                               *)
Get(p) ==
    /\ \E out \in Evictions(p) : cache' = Fetched(p, out) /\ Evict(out)
    /\ UNCHANGED <<cap, inTx, save, points, base>>

-----------------------------------------------------------------------------
AddedOver(saved, p) ==  \* mutation: keeps the last content instead of the first
    [q \in DOMAIN saved \union {p} |-> IF q = p THEN Content[p] ELSE saved[q]]

(* SavePage keeps the content of the first call.                           *)
Added(saved, p) ==
    [q \in DOMAIN saved \union {p} |-> IF q \in DOMAIN saved THEN saved[q] ELSE Content[q]]

SavePageInLast(p) ==  \* mutation: only the innermost savepoint keeps the page
    IF inTx
    THEN /\ save' = Added(save, p)
         /\ points' = [i \in DOMAIN points |->
                         IF i = Len(points) THEN [points[i] EXCEPT !.saved = Added(@, p)]
                         ELSE points[i]]
    ELSE UNCHANGED <<save, points>>

SavePage(p) ==
    IF inTx
    THEN /\ save' = Added(save, p)
         /\ points' = [i \in DOMAIN points |-> [points[i] EXCEPT !.saved = Added(@, p)]]
    ELSE UNCHANGED <<save, points>>

Change(p, v) ==
    /\ \E out \in Evictions(p) :
         cache' = [Fetched(p, out) EXCEPT ![p] = Buffer(v, TRUE)] /\ Evict(out)
    /\ UNCHANGED <<cap, inTx, base>>

(* A statement writes a page through its pointer to it.                    *)
Write(p, v) == Change(p, v) /\ UNCHANGED <<save, points>>

SavedWrite(p, v) == SavePage(p) /\ Change(p, v)

(* The pages with their saved content.                                     *)
Restored(saved) == [p \in Page |-> IF p \in DOMAIN saved THEN saved[p] ELSE Content[p]]

(* The loop of Rollback and RollbackToSavepoint: GetPage for each saved    *)
(* page, in any order; a page that GetPage fails for is passed over, the   *)
(* others get their old content and are marked clean.  The pages of out    *)
(* are evicted as they were, which takes more pages than there is room     *)
(* for; those of lost after they were put back, and as they are the ones   *)
(* used last it takes more saved pages than there is room for.             *)
PutBack(saved) ==
    \E out \in SUBSET Cached, failed \in SUBSET DOMAIN saved, lost \in SUBSET DOMAIN saved :
        LET kept == ((Cached \ out) \union (DOMAIN saved \ failed)) \ lost
        IN  /\ failed \intersect (lost \union (Cached \ out)) = {}
            /\ out # {} => Cardinality(Cached \union DOMAIN saved) > cap
            /\ lost # {} => Cardinality(DOMAIN saved) > cap
            /\ Cardinality(kept) <= cap
            /\ cache' = [p \in kept |-> IF p \in DOMAIN saved THEN Buffer(saved[p], FALSE)
                                        ELSE cache[p]]
            /\ disk' = Flushed(out)
            /\ spoiled' = \/ spoiled \/ Unwritten(out)
                          \/ failed # {} \/ \E p \in lost : saved[p] # disk'[p]

(* FlushAll: the dirty pages are written.                                  *)
FlushAll ==
    /\ disk' = Flushed(Cached)
    /\ cache' = [p \in Cached |-> Buffer(cache[p].data, FALSE)]
    /\ UNCHANGED <<cap, spoiled>>

EndTxKeepsPoints == inTx' = FALSE /\ save' = NoSaves /\ UNCHANGED <<points, base>>  \* mutation

(* The transaction and its executor forget everything.                     *)
EndTx == inTx' = FALSE /\ save' = NoSaves /\ points' = << >> /\ UNCHANGED base

Begin ==
    /\ ~inTx
    /\ inTx' = TRUE /\ base' = Content
    /\ UNCHANGED <<pages, save, points>>

(* COMMIT, inside a transaction or not.                                    *)
Commit == FlushAll /\ EndTx

(* ROLLBACK; outside a transaction it does nothing and succeeds.           *)
Rollback ==
    /\ inTx
    /\ PutBack(save)
    /\ UNCHANGED cap
    /\ EndTx

(* SAVEPOINT starts a transaction when none is open.                       *)
Savepoint(n) ==
    /\ Len(points) < MaxDepth
    /\ points' = Append(points, [name |-> n, saved |-> NoSaves])
    /\ inTx' = TRUE
    /\ base' = IF inTx THEN base ELSE Content
    /\ UNCHANGED <<pages, save>>

(* The latest savepoint of that name.                                      *)
IsLatest(i, n) ==
    points[i].name = n /\ \A j \in DOMAIN points : points[j].name = n => j <= i

(* RELEASE of a savepoint, with those after it; an unknown name is an      *)
(* error and changes nothing.                                              *)
Release(n) ==
    \E i \in DOMAIN points :
        /\ IsLatest(i, n)
        /\ points' = SubSeq(points, 1, i - 1)
        /\ UNCHANGED <<pages, inTx, save, base>>

RollbackTo(n) ==
    \E i \in DOMAIN points :
        /\ IsLatest(i, n)
        /\ PutBack(points[i].saved)
        /\ points' = Append(SubSeq(points, 1, i - 1), [name |-> n, saved |-> NoSaves])
        /\ UNCHANGED <<cap, inTx, save, base>>

Statements ==
    \/ Begin \/ Commit \/ Rollback
    \/ \E n \in Name : Savepoint(n) \/ Release(n) \/ RollbackTo(n)

Spec ==
    Init /\ [][Statements \/ \E p \in Page : Get(p) \/ \E v \in Val : Write(p, v)]_vars

SavedSpec ==
    Init /\ [][Statements \/ \E p \in Page : Get(p) \/ \E v \in Val : SavedWrite(p, v)]_vars

-----------------------------------------------------------------------------
(* ROLLBACK returns every page to what it was when the transaction began,  *)
(* whatever was evicted, written and read again meanwhile: unless a page   *)
(* could not be read to be put back, or one put back before has been       *)
(* dropped from the cache, clean as it was, without being written.         *)
RollbackRestores == [][Rollback /\ ~spoiled' => Content' = base]_vars

(* Number i of the snapshots that the saved pages stand for: a page that   *)
(* was not saved since has not changed since.                              *)
SnapshotOf(i) ==
    IF i = 1 THEN [name |-> BeginName, pages |-> Restored(save)]
    ELSE [name |-> points[i - 1].name, pages |-> Restored(points[i - 1].saved)]

Snapshots == IF inTx THEN [i \in 1..(Len(points) + 1) |-> SnapshotOf(i)] ELSE << >>

Store == INSTANCE TxStore WITH content <- Content, stack <- Snapshots

(* When pages are saved before they are written, the saved pages, first    *)
(* come first kept, are as good as full snapshots: nested savepoints of    *)
(* the same name, released or rolled back to more than once, all return    *)
(* to the right content, and nothing else changes it, until one of the     *)
(* two mishaps of a rollback named above.                                  *)
IsTxStore == Store!Init /\ [][~spoiled' => [Store!Next]_(Store!vars)]_vars
=============================================================================
