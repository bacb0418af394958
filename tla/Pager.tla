------------------------------- MODULE Pager --------------------------------
(***************************************************************************)
(* The pager (internal/storage/pager.go): pages of a file behind an LRU    *)
(* cache, used by goroutines that hold pointers to cached page objects.    *)
(*                                                                         *)
(* Operations of the B-tree get up to MaxHold pages, change the ones they  *)
(* hold, and let all of them go.  A process in Writer may change, allocate *)
(* and flush; the server's write lock admits one writer at a time, readers *)
(* run without it: either one goroutine serves alone or several do.        *)
(* GetPage, AllocatePage, writePage and FlushAll are split wherever the    *)
(* code gives up a mutex or calls the file.                                *)
(*                                                                         *)
(* The content of a page is the set of the updates it has received, so     *)
(* that an update that got lost stays visible after the next one.          *)
(* The file has two levels: what WriteAt has written and what Sync has     *)
(* made permanent; a power failure leaves one or the other, page by page.  *)
(***************************************************************************)
EXTENDS Integers, Sequences, FiniteSets, LRU

CONSTANTS
    Writer, Reader,  \* the goroutines
    Serving,         \* sets of them that may run together
    Cap,             \* the -cache flag
    MaxHold,         \* pages an operation has pointers to, of a goroutine alone
    MaxHoldBeside,   \* and of one beside another
    MaxPage,         \* bound: highest page id
    MaxUpdates,      \* bound: updates of page content, by a goroutine alone
    MaxUpdatesBeside,  \* and by one beside another
    MaxCrashes,      \* bound: power failures of a goroutine alone
    Loaded           \* pages in the cache when the processes start

Proc == Writer \union Reader
Page == 1..MaxPage
SchemaPage == 1
Update == 1..MaxUpdates
(* Page objects: those of page id are <<id, 1>>, <<id, 2>>, ..., as many   *)
(* as the goroutines can hold, be about to cache and have cached.          *)
Buf == Page \X (1..(Cardinality(Proc) * (MaxHold + MaxHoldBeside + 2) + 1))
NoBuf == <<0, 0>>
NoData == {-1}  \* never written

ASSUME PagerAssumption ==
    /\ Writer \intersect Reader = {} /\ Serving \subseteq SUBSET Proc
    /\ Cap \in Nat /\ MaxHold \in Nat \ {0} /\ MaxHoldBeside \in Nat /\ MaxPage \in Nat \ {0}
    /\ MaxUpdates \in Nat /\ MaxUpdatesBeside \in Nat /\ MaxCrashes \in Nat
    /\ Loaded \subseteq {SchemaPage}

VARIABLES
    disk,      \* page content written to the file
    synced,    \* page content that survives a power failure
    fileCount, \* PageCount in the header page of the file: written, synced
    pageCount, \* PageCount in memory
    heap,      \* the page objects in use: id, content, Dirty
    cache,     \* the LRU order
    pc, want,  \* per process: where it is ("off": it does not run), the page it is getting
    fetched,   \* per process: the page object it is about to cache or write
    held,      \* per process: the page objects it has pointers to
    todo,      \* per process: the snapshot FlushAll has still to go through
    latest,    \* ghost: the updates each page has received
    flushed,   \* ghost: the updates the last completed FlushAll covered
    crashes

file  == <<disk, synced, fileCount>>
procs == <<pc, want, fetched, held, todo>>
ghost == <<latest, flushed>>
vars  == <<file, pageCount, heap, cache, procs, ghost, crashes>>

-----------------------------------------------------------------------------
Alone == \A g, h \in Proc : pc[g] # "off" /\ pc[h] # "off" => g = h

Allocated == 1..(pageCount - 1)

(* A page that AllocatePage has not returned yet is known to nobody else.  *)
Known == Allocated \ {want[g] : g \in {h \in Proc : pc[h] \notin {"read", "put"}}}

Updates == UNION {latest[id] : id \in Page}

CachedBufs(c) == {c[i].page : i \in DOMAIN c}

(* A page object lives as long as the cache or a process refers to it.     *)
Live(c, f, h, t) ==
    CachedBufs(c) \union UNION {h[g] \union ({f[g]} \ {NoBuf}) \union ToSet(t[g]) : g \in Proc}

Kept(hp) == [b \in Live(cache', fetched', held', todo') \intersect DOMAIN hp |-> hp[b]]

(* The first page object of page id that is not in use.                    *)
NewBuf(id) ==
    CHOOSE b \in Buf :
        /\ b[1] = id /\ b \notin DOMAIN heap
        /\ \A c \in Buf : c[1] = id /\ c[2] < b[2] => c \in DOMAIN heap

WithNew(id, content) ==
    [b \in DOMAIN heap \union {NewBuf(id)} |->
        IF b = NewBuf(id) THEN [id |-> id, data |-> content, dirty |-> FALSE] ELSE heap[b]]

Goto(g, label) == pc' = [pc EXCEPT ![g] = label]

LoadedBuf == <<SchemaPage, 1>>

Init ==
    /\ disk = [id \in Page |-> IF id = SchemaPage THEN {} ELSE NoData]
    /\ synced = disk
    /\ fileCount = [written |-> 2, synced |-> 2]
    /\ pageCount = 2
    /\ heap = [b \in {LoadedBuf : id \in Loaded} |-> [id |-> SchemaPage, data |-> {}, dirty |-> FALSE]]
    /\ cache = IF Loaded = {} THEN << >> ELSE <<Entry(SchemaPage, LoadedBuf)>>
    /\ \E serving \in Serving : pc = [g \in Proc |-> IF g \in serving THEN "idle" ELSE "off"]
    /\ want = [g \in Proc |-> 0]
    /\ fetched = [g \in Proc |-> NoBuf]
    /\ held = [g \in Proc |-> {}]
    /\ todo = [g \in Proc |-> << >>]
    /\ latest = [id \in Page |-> {}]
    /\ flushed = latest
    /\ crashes = 0

-----------------------------------------------------------------------------
(* GetPage, first half: the lookup under the cache mutex.  walBuf is never *)
(* filled, so a page that is not cached is read from the file.             *)
MayHold(g) == Cardinality(held[g]) < (IF Alone THEN MaxHold ELSE MaxHoldBeside)

GetHit(g, id) ==
    /\ pc[g] = "idle"
    /\ id \in Known /\ Has(cache, id)
    /\ MayHold(g) \/ PageOf(cache, id) \in held[g]
    /\ cache' = Touched(cache, id)
    /\ held' = [held EXCEPT ![g] = @ \union {PageOf(cache, id)}]
    /\ UNCHANGED <<file, pageCount, heap, pc, want, fetched, todo, ghost, crashes>>

GetMiss(g, id) ==
    /\ pc[g] = "idle"
    /\ id \in Known /\ ~Has(cache, id) /\ MayHold(g)
    /\ Goto(g, "read")
    /\ want' = [want EXCEPT ![g] = id]
    /\ UNCHANGED <<file, pageCount, heap, cache, fetched, held, todo, ghost, crashes>>

(* Mutation: what the file does not have is taken for content.             *)
ReadPageUnchecked(g) ==
    /\ pc[g] = "read"
    /\ fetched' = [fetched EXCEPT ![g] = NewBuf(want[g])]
    /\ heap' = WithNew(want[g], disk[want[g]])
    /\ Goto(g, "put")
    /\ UNCHANGED <<file, pageCount, cache, want, held, todo, ghost, crashes>>

PastEnd(id) == \A q \in Page : q >= id => disk[q] = NoData

(* GetPage, second half: read the file into a new page object.  A page     *)
(* never written, below one that was, reads as zeros ...                   *)
ReadPage(g) ==
    /\ pc[g] = "read"
    /\ ~PastEnd(want[g])
    /\ fetched' = [fetched EXCEPT ![g] = NewBuf(want[g])]
    /\ heap' = WithNew(want[g], IF disk[want[g]] = NoData THEN {} ELSE disk[want[g]])
    /\ Goto(g, "put")
    /\ UNCHANGED <<file, pageCount, cache, want, held, todo, ghost, crashes>>

(* ... or fail with ErrInvalidPage, which ends the operation.              *)
ReadFails(g) ==
    /\ pc[g] = "read"
    /\ PastEnd(want[g])
    /\ Goto(g, "idle")
    /\ want' = [want EXCEPT ![g] = 0]
    /\ held' = [held EXCEPT ![g] = {}]
    /\ UNCHANGED <<file, pageCount, cache, fetched, todo, ghost, crashes>>
    /\ heap' = Kept(heap)

(* put: from here on the page object is shared; an evicted one is left in  *)
(* the hands of this process only.                                         *)
Install(g, id, b, hp, next) ==
    LET out == Evicted(cache, id, Cap)
    IN  /\ cache' = Put(cache, id, b, Cap)
        /\ held' = [held EXCEPT ![g] = @ \union {b}]
        /\ fetched' = [fetched EXCEPT ![g] = IF out = {} THEN NoBuf ELSE CHOOSE x \in out : TRUE]
        /\ Goto(g, IF out = {} THEN next ELSE "write")
        /\ UNCHANGED todo
        /\ heap' = Kept(hp)

PutPage(g) ==
    /\ pc[g] = "put"
    /\ Install(g, want[g], fetched[g], heap, "idle")
    /\ want' = [want EXCEPT ![g] = 0]
    /\ UNCHANGED <<file, pageCount, ghost, crashes>>

(* AllocatePage takes the next id, under the mutex of the header; no code  *)
(* frees a page ...                                                        *)
Allocate(g) ==
    /\ g \in Writer /\ pc[g] = "idle"
    /\ pageCount <= MaxPage /\ MayHold(g)
    /\ want' = [want EXCEPT ![g] = pageCount]
    /\ pageCount' = pageCount + 1
    /\ Goto(g, "new")
    /\ UNCHANGED <<file, heap, cache, fetched, held, todo, ghost, crashes>>

(* ... and puts a zeroed page object, clean as yet, into the cache.        *)
PutNew(g) ==
    /\ pc[g] = "new"
    /\ Install(g, want[g], NewBuf(want[g]), WithNew(want[g], {}), "format")
    /\ UNCHANGED <<file, pageCount, want, ghost, crashes>>

(* Its caller gives the page a type, which marks it dirty (SetType, in     *)
(* Insert, splitLeaf, splitInternal and the two CREATE statements).        *)
Format(g) ==
    /\ pc[g] = "format"
    /\ \E b \in held[g] : /\ heap[b].id = want[g]
                          /\ heap' = [heap EXCEPT ![b].dirty = TRUE]
    /\ want' = [want EXCEPT ![g] = 0]
    /\ Goto(g, "idle")
    /\ UNCHANGED <<file, pageCount, cache, fetched, held, todo, ghost, crashes>>

(* Where GetPage or AllocatePage goes on to once the evicted page is gone. *)
Return(g) == IF want[g] = 0 THEN "idle" ELSE "format"

(* writePage, for an evicted page and for FlushAll: WriteAt, then the flag. *)
WritePage(g) ==
    /\ pc[g] \in {"write", "flush"} /\ fetched[g] # NoBuf
    /\ heap[fetched[g]].dirty
    /\ disk' = [disk EXCEPT ![heap[fetched[g]].id] = heap[fetched[g]].data]
    /\ Goto(g, IF pc[g] = "write" THEN "written" ELSE "flushed")
    /\ UNCHANGED <<synced, fileCount, pageCount, heap, cache, want, fetched, held, todo,
                   ghost, crashes>>

Clean(g) ==
    /\ pc[g] \in {"written", "flushed"}
    /\ fetched' = [fetched EXCEPT ![g] = NoBuf]
    /\ Goto(g, IF pc[g] = "written" THEN Return(g) ELSE "flush")
    /\ UNCHANGED <<file, pageCount, cache, want, held, todo, ghost, crashes>>
    /\ heap' = Kept([heap EXCEPT ![fetched[g]].dirty = FALSE])

SkipClean(g) ==
    /\ pc[g] \in {"write", "flush"} /\ fetched[g] # NoBuf
    /\ ~heap[fetched[g]].dirty
    /\ fetched' = [fetched EXCEPT ![g] = NoBuf]
    /\ Goto(g, IF pc[g] = "write" THEN Return(g) ELSE "flush")
    /\ UNCHANGED <<file, pageCount, cache, want, held, todo, ghost, crashes>>
    /\ heap' = Kept(heap)

-----------------------------------------------------------------------------
(* The B-tree writes through a pointer it holds, and drops its pointers.   *)
Modify(g, b) ==
    /\ g \in Writer /\ pc[g] = "idle"
    /\ \E u \in Update \ Updates :
         /\ \A v \in Update \ Updates : u <= v
         /\ Alone \/ u <= MaxUpdatesBeside
         /\ heap' = [heap EXCEPT ![b].data = @ \union {u}, ![b].dirty = TRUE]
         /\ latest' = [latest EXCEPT ![heap[b].id] = @ \union {u}]
    /\ UNCHANGED <<file, pageCount, cache, procs, flushed, crashes>>

Release(g) ==
    /\ pc[g] = "idle" /\ held[g] # {}
    /\ held' = [held EXCEPT ![g] = {}]
    /\ UNCHANGED <<file, pageCount, cache, pc, want, fetched, todo, ghost, crashes>>
    /\ heap' = Kept(heap)

(* FlushAll: the header, a snapshot of the cached pages, the dirty ones of *)
(* them one by one, Sync.                                                  *)
FlushHeader(g) ==
    /\ g \in Writer /\ pc[g] = "idle" /\ held[g] = {}
    /\ fileCount' = [fileCount EXCEPT !.written = pageCount]
    /\ Goto(g, "header")
    /\ UNCHANGED <<disk, synced, pageCount, heap, cache, want, fetched, held, todo, ghost, crashes>>

FlushPages(g) ==
    /\ pc[g] = "header"
    /\ todo' = [todo EXCEPT ![g] = [i \in DOMAIN cache |-> cache[i].page]]
    /\ Goto(g, "flush")
    /\ UNCHANGED <<file, pageCount, heap, cache, want, fetched, held, ghost, crashes>>

FlushNext(g) ==
    /\ pc[g] = "flush" /\ fetched[g] = NoBuf /\ todo[g] # << >>
    /\ fetched' = [fetched EXCEPT ![g] = Head(todo[g])]
    /\ todo' = [todo EXCEPT ![g] = Tail(@)]
    /\ UNCHANGED <<file, pageCount, heap, cache, pc, want, held, ghost, crashes>>

SyncNothing(g) ==  \* mutation: FlushAll returns without Sync
    /\ pc[g] = "flush" /\ fetched[g] = NoBuf /\ todo[g] = << >>
    /\ flushed' = latest
    /\ Goto(g, "idle")
    /\ UNCHANGED <<file, pageCount, heap, cache, want, fetched, held, todo, latest, crashes>>

Sync(g) ==
    /\ pc[g] = "flush" /\ fetched[g] = NoBuf /\ todo[g] = << >>
    /\ synced' = disk
    /\ fileCount' = [fileCount EXCEPT !.synced = fileCount.written]
    /\ flushed' = latest
    /\ Goto(g, "idle")
    /\ UNCHANGED <<disk, pageCount, heap, cache, want, fetched, held, todo, latest, crashes>>

(* The machine stops and the file is opened again (loadHeader).            *)
Crash ==
    /\ Alone /\ crashes < MaxCrashes
    /\ crashes' = crashes + 1
    /\ \E lost \in SUBSET Page :
         disk' = [id \in Page |-> IF id \in lost THEN synced[id] ELSE disk[id]]
    /\ \E n \in {fileCount.written, fileCount.synced} :
         /\ fileCount' = [written |-> n, synced |-> n]
         /\ pageCount' = n
    /\ synced' = disk'
    /\ heap' = << >>
    /\ cache' = << >>
    /\ pc' = [g \in Proc |-> IF pc[g] = "off" THEN "off" ELSE "idle"]
    /\ want' = [g \in Proc |-> 0]
    /\ fetched' = [g \in Proc |-> NoBuf]
    /\ held' = [g \in Proc |-> {}]
    /\ todo' = [g \in Proc |-> << >>]
    /\ latest' = [id \in Page |-> IF id < pageCount' /\ disk'[id] # NoData THEN disk'[id] ELSE {}]
    /\ UNCHANGED flushed

Next ==
    \/ \E g \in Proc :
         \/ \E id \in Page : GetHit(g, id) \/ GetMiss(g, id)
         \/ ReadPage(g) \/ ReadFails(g) \/ PutPage(g)
         \/ Allocate(g) \/ PutNew(g) \/ Format(g)
         \/ WritePage(g) \/ Clean(g) \/ SkipClean(g)
         \/ \E b \in held[g] : Modify(g, b)
         \/ Release(g)
         \/ FlushHeader(g) \/ FlushPages(g) \/ FlushNext(g) \/ Sync(g)
    \/ Crash

Spec == Init /\ [][Next]_vars

-----------------------------------------------------------------------------
PlaceNames ==
    {"off", "idle", "read", "put", "new", "format",
     "write", "written", "header", "flush", "flushed"}

TypeOK ==
    /\ disk \in [Page -> (SUBSET Update) \union {NoData}]
    /\ synced \in [Page -> (SUBSET Update) \union {NoData}]
    /\ fileCount \in [written : Nat, synced : Nat] /\ pageCount \in Nat
    /\ DOMAIN heap \subseteq Buf
    /\ \A b \in DOMAIN heap : heap[b] \in [id : Page, data : SUBSET Update, dirty : BOOLEAN]
    /\ \A i \in DOMAIN cache : /\ cache[i].id \in Page /\ cache[i].page \in DOMAIN heap
                               /\ heap[cache[i].page].id = cache[i].id
    /\ pc \in [Proc -> PlaceNames]
    /\ want \in [Proc -> Page \union {0}]
    /\ fetched \in [Proc -> Buf \union {NoBuf}]
    /\ \A g \in Proc : held[g] \subseteq DOMAIN heap /\ ToSet(todo[g]) \subseteq DOMAIN heap
    /\ latest \in [Page -> SUBSET Update] /\ flushed \in [Page -> SUBSET Update]
    /\ crashes \in 0..MaxCrashes

(* However the goroutines interleave their lookups and their puts, a page  *)
(* has at most one cache entry and the cache keeps to its capacity         *)
(* (lruCache.get and put, GetPage, AllocatePage).                          *)
CacheBounded == IsCache(cache, Cap)

(* Content of a page as the next GetPage will find it: the cached object,  *)
(* one on its way from the cache to the file, or the file.                 *)
Leaving(id) == {g \in Proc : /\ pc[g] \in {"write", "written"}
                             /\ heap[fetched[g]].id = id}

Content(id) ==
    IF Has(cache, id) THEN heap[PageOf(cache, id)].data
    ELSE IF Leaving(id) # {} THEN heap[fetched[CHOOSE g \in Leaving(id) : TRUE]].data
    ELSE disk[id]

(* No update of a goroutine that serves alone is ever lost between the     *)
(* cache and the file: evicted, read again, reallocated or flushed, a page *)
(* has all the updates made to it.                                         *)
NoLostUpdate ==
    Alone => \A id \in Known : \/ Content(id) = latest[id]
                               \/ Content(id) = NoData /\ latest[id] = {}

(* A pointer it holds leads to the cached object of its page, so that what *)
(* it reads is current and what it writes is kept (insertInto changes a    *)
(* page it got before it descended).                                       *)
HeldIsCached ==
    Alone => \A g \in Proc : \A b \in held[g] :
                 Has(cache, heap[b].id) /\ PageOf(cache, heap[b].id) = b

(* What a FlushAll it completed covered survives power failures, and no    *)
(* later allocation, eviction or failure takes it back.                    *)
FlushedIsDurable ==
    Alone =>
        /\ \A id \in Page : flushed[id] # {} => flushed[id] \subseteq synced[id]
        /\ \A id \in Known : flushed[id] \subseteq latest[id]
        /\ \A id \in Page : flushed[id] # {} => id < fileCount.synced /\ id < pageCount

(* A step of a process that only reads leaves the content of every page as *)
(* the next GetPage will find it (read-only requests run without the       *)
(* server's write lock).                                                   *)
ReaderStep ==
    /\ UNCHANGED <<latest, crashes>>
    /\ \A g \in Writer : pc'[g] = pc[g] /\ held'[g] = held[g] /\ todo'[g] = todo[g]

ReadersKeepContent ==
    [][ReaderStep => \A id \in Allocated : Content(id)' = Content(id)]_vars
=============================================================================
