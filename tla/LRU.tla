-------------------------------- MODULE LRU ---------------------------------
(***************************************************************************)
(* The page cache of the pager (lruCache in pager.go) as operators on a    *)
(* sequence of entries, most recently used first.  An entry is a page id   *)
(* and the page object the program reads and writes through.               *)
(* No code pins a page (Page.Pin has no caller), so the pinned branch of   *)
(* put is never taken and is left out.                                     *)
(***************************************************************************)
EXTENDS Integers, Sequences, SequencesExt

Entry(id, page) == [id |-> id, page |-> page]

Has(cache, id) == \E i \in DOMAIN cache : cache[i].id = id

At(cache, id) == CHOOSE i \in DOMAIN cache : cache[i].id = id

PageOf(cache, id) == cache[At(cache, id)].page

PutFront(cache, e) == <<e>> \o cache

TouchedNot(cache, id) == cache  \* mutation: a hit does not count as use

(* get: a hit moves the entry to the front.                                *)
Touched(cache, id) ==
    PutFront(RemoveAt(cache, At(cache, id)), cache[At(cache, id)])

Full(cache, cap) == Len(cache) > 0 /\ Len(cache) >= cap

PutTwice(cache, id, page, cap) ==  \* mutation: put expects no entry of the same id
    PutFront(IF Full(cache, cap) THEN RemoveAt(cache, Len(cache)) ELSE cache, Entry(id, page))

(* put: an entry of the same id gets the new page object and moves to the  *)
(* front; otherwise at most one entry, the last, makes room.               *)
Put(cache, id, page, cap) ==
    IF Has(cache, id)
    THEN PutFront(RemoveAt(cache, At(cache, id)), Entry(id, page))
    ELSE PutFront(IF Full(cache, cap) THEN RemoveAt(cache, Len(cache)) ELSE cache,
                  Entry(id, page))

EvictedNone(cache, id, cap) == {}  \* mutation: the evicted page is dropped

(* The page objects put hands back to be written: none or one.             *)
Evicted(cache, id, cap) ==
    IF Has(cache, id) \/ ~Full(cache, cap) THEN {} ELSE {cache[Len(cache)].page}

(* What makes a sequence a cache: one entry for a page, and no more than   *)
(* the capacity, except that a cache of capacity 0 keeps one entry.        *)
IsCache(cache, cap) ==
    /\ \A i, j \in DOMAIN cache : cache[i].id = cache[j].id => i = j
    /\ Len(cache) <= (IF cap > 0 THEN cap ELSE 1)
=============================================================================
