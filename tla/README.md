# sqlgo in TLA+

sqlgo (`src/`) is a small SQL database in Go with a little C: a page file
behind an LRU cache, B-trees over slotted pages, a SQL executor, and a TCP
server that many clients share. It has no tests. This directory models it from
the bytes of a page up to the client's retries, checks the models with TLC, and
proves with TLAPS what can be proved for every size.

- [Inventory](#inventory)
- [Modules](#modules)
- [Runs](#runs)
- [Proofs](#proofs)
- [Where the code and its documentation disagree](#where-the-code-and-its-documentation-disagree)
- [Not modelled](#not-modelled)
- [What is left](#what-is-left)

## Inventory

| Component | Source | State | Operations |
|---|---|---|---|
| Slotted page layout | `storage/pager.go`, `btree.go` 489-575, `ops.c`, `ops.go` | cell count, content offset, pointer array, cell bytes | insert at the end or at an index, remove, rewrite, clear, collect |
| Search within a page | `storage/ops.c` 89-116 | loop bounds | binary search |
| Pager and page cache | `storage/pager.go` | file, `PageCount`, page objects with `Dirty`, LRU order | `GetPage`, `AllocatePage`, eviction, `FlushAll`, open, close |
| B-tree and cursor | `storage/btree.go` | pages of cells, root, cursor stack | `Get`, `Insert`, `Delete`, `NewCursor`, `Current`, `Advance` |
| Transactions | `storage/transaction.go`, `executor.go` 1176-1236 | saved pages, savepoints, `inTx` | BEGIN, COMMIT, ROLLBACK, SAVEPOINT, RELEASE, ROLLBACK TO, `SavePage` |
| Row and value encoding | `storage/row.go` | none | encode, decode, coerce |
| Table engine | `storage/table.go` | none of its own: `NextAutoInc` in the schema, rows and index entries in trees | `InsertWithConflict`, `Scan`, `GetByPK`, `Delete`, `Update`, uniqueness |
| Schema manager | `storage/schema.go` | maps of tables, indexes and views, and the schema tree | create, drop, rename, add column, save, load |
| Executor | `engine/executor/executor.go` | transaction, last id, change count | one method per statement |
| Expression evaluator | `engine/executor/eval.go` | none | operators and functions |
| Lexer and parser | `engine/parser/` | position in the text | text to statements |
| Server | `connector/server.go` | connections, write lock, counters | accept, handle requests, `Stop` |
| Client | `connector/connector.go` | pool of one connection, closed flag | `Exec` with retries, reconnect, close |
| Handshake | `connector/authorization.go` | credential | challenge and reply |
| Command line | `cmd/server/main.go`, `main.go` | none | flags, start, stop, print |

### How the parts interact

`main` opens one `Pager`, one `SchemaManager` over it, and one `Server`. Each
connection is a goroutine with an `Executor` of its own, which has a
`TableEngine` and perhaps a `Transaction`; all of them share the pager and the
schema manager.

- **Calls.** Server → executor → table engine and schema manager → B-tree →
  pager → file. The B-tree works on pointers to page objects that `GetPage`
  hands out, and changes them in place.
- **Shared state.** Page objects and the cache (a mutex in `lruCache`), the
  file and `PageCount` (a mutex in `Pager`). Nothing guards the bytes of a page
  or the maps of the schema manager.
- **Locks.** `Server.writeMu` is held for one request, unless the request says
  it is read-only or its text begins with SELECT, EXPLAIN, SHOW or PRAGMA
  (`server.go:189-196`). A transaction spans many requests and holds nothing
  in between.
- **Flushing.** COMMIT calls `FlushAll` for the whole cache, so does
  `Server.Stop` (`server.go:235`), which takes no lock, and `Pager.Close`.
- **Messages.** One line of JSON each way for a request. The client tries up
  to four times, on a fresh connection (`connector.go:151-170`).

### What is hard

`PROJECT.json` lists the hazards, each at its line, with the properties that
would catch it. They fall into seven groups.

1. *Sharing pages*: lookups, reads and puts of several goroutines interleave;
   pointers outlive the cache entry they came from.
2. *The disk*: eviction, flushing and power failure in any order.
3. *Layout and structure*: bytes that are never reclaimed, splits and deletions
   in long sequences, positions at either end.
4. *Undoing*: what has to be saved and when, for nested savepoints.
5. *Rows, keys, indexes and schema*: what is in memory against what is stored,
   after any sequence of changes and refusals, and after reopening.
6. *Requests*: what the write lock covers, deadlines, retries and late answers,
   stopping while requests run.
7. *Queries*: precedence, NULL, patterns, joins, grouping, ordering and cutting,
   each right on most inputs and easy to get wrong on some.

### What makes each component correct

- **Page**: cells do not overlap one another or the pointers; an operation on
  one cell leaves the others; a search finds a key exactly when it is there.
- **Pager**: one page object for a page; no update is lost between cache and
  file; what a completed flush covered survives; a reader changes nothing.
- **B-tree**: it is a map. Leaves are in key order, the tree is a tree of
  uniform depth, no row is lost or doubled by a split or a deletion.
- **Transactions**: ROLLBACK and ROLLBACK TO return to a full snapshot.
- **Table engine and schema**: row ids are unique; indexes agree with rows, the
  maps with the schema tree, before and after reopening.
- **Server and client**: requests that write exclude one another, but for those
  that the server takes for read-only; the count
  of connections is right and the limit kept; whoever waits for the lock gets
  it; an answer belongs to the statement it is taken for; `Exec` returns;
  stopping flushes what was answered.
- **Parser, evaluator, SELECT**: a text is read as the tree it was written from;
  three-valued logic; LIKE and GLOB accept what their patterns say; a SELECT has
  the rows its clauses ask for, as often and in the order they ask for.

## Modules

| Module | Models | Uses |
|---|---|---|
| `CellList` | what a page promises: an ordered list of cells | |
| `SlottedPage` | the byte layout of one page | `CellList` by refinement |
| `KeySearch`, `PageSearch` | binary search as a function, and as the loop | |
| `LRU`, `Pager` | the page cache as operators; the pager and its goroutines | |
| `KVMap` | what a B-tree promises: a map | |
| `BTree` | one tree and its cursor | `KeySearch`; `KVMap` by refinement |
| `TxStore` | what transactions promise: a stack of snapshots | |
| `Transaction` | saved pages and the statements that use them | `TxStore` by refinement |
| `Catalog` | the schema tree, and pages of rows whose length changes | |
| `Tables` | schema manager and table engine | `Catalog` |
| `Server` | accept loop, handlers, write lock, `Stop`; arbitrary clients | |
| `Session` | the repository's client on that server | `Server` |
| `Parser` | expressions and SELECT, tokens to trees | |
| `Grammar` | how tightly operations bind, and the text of a tree | `Parser` |
| `Matching`, `Patterns` | LIKE and GLOB, and what patterns mean; a text and a pattern as input | |
| `Eval`, `Kleene` | the evaluator; what a condition means | `Matching`, `Parser` |
| `Select`, `Relational` | the executor's SELECT; what a SELECT means | `Eval`, `Kleene` |
| `MC…` | constants and inputs for TLC | |
| `ListLemmas`, `…Proofs` | lemmas and theorems | |

`PROJECT.json` "map" gives the lines each definition stands for. Definitions
marked *mutation* are the model of a plausible bug (a dropped guard, a loop
that ends early); no specification uses them. They are there to show that each
property can fail.

**SlottedPage.** `mem` is the bytes; a byte is `<<c, k>>`, byte k of the
encoding of cell c, so reading a cell back succeeds exactly when no other cell
was laid over part of it. `ptrs` and `content` are the pointer array and
`CellContentOffset`. There is an action for `insertCellIntoPage`,
`insertCellIntoPageAt`, `rewriteCell`, `removeCellAt` and `clearPage`. As in
the code, removing a cell does not reclaim its bytes, and rewriting checks the
end of the page only. `Spec` allows rewrites of any length, `InPlaceSpec` those
no longer than what they replace. Child pointers have a fixed width and are
always rewritten in place; rows are not when text grows, and then `CellsIntact`
is false under `Spec`: the hazard at `btree.go:562`.

**PageSearch.** One action per branch of the loop. `KeySearch!Search` is the
same loop as a recursive function for `BTree` to use, and `SearchIsLoop` relates
them. Keys are integers in `sqlgo_key_cmp` order.

**Pager.** `GetPage` and `AllocatePage` give up the cache's mutex between
lookup, read, put and the write of an evicted page, and each piece is an action
(`GetHit`, `GetMiss`, `ReadPage`, `ReadFails`, `PutPage`, `Allocate`, `PutNew`,
`WritePage`, `Clean`, `SkipClean`), as are the caller's marking of a new page
(`Format`) and the steps of `FlushAll` (`FlushHeader`, `FlushPages`,
`FlushNext`, `WritePage`, `Clean`, `Sync`). `Serving` lists which goroutines
run together in a behaviour: one alone or several. One that is alone holds
pointers to up to `MaxHold` page objects between these steps, as an insertion
holds a parent while it works below; beside another one, up to `MaxHoldBeside`.
Only `NoLostUpdate`, `HeldIsCached` and `FlushedIsDurable` speak of a goroutine
alone: beside another one, updates get lost (`pager_reader`). The content of a
page is the set of updates made to it: an update that was overwritten stays
missing. `disk` is what was written, `synced` what a power failure cannot take;
`Crash` leaves either of them for each page, and `loadHeader` follows. The
ghosts `latest` and `flushed` remember the updates made and those the last
completed `FlushAll` covered.

**BTree.** Pages are lists of cells (which `SlottedPage` justifies) with the
number of cells `laid` since the last clearing, from which `Full` follows.
`Inserted` and `Deleted` are `Insert` and `Delete` from root to leaf and back,
`Scanned` a rewound cursor advanced to its end. Cells have one length.
`stored` is what callers stored; `appended` is true while keys were only ever
added above all others, as `NextAutoInc` adds them.

**Transaction.** `cache` and `disk` are the pages, `save` and `points` the saved
pages of BEGIN and of each savepoint. Whatever reads or writes a page may evict
another one from the full cache, any of them: a dirty one is written, a clean
one dropped (`Pager` has the order in which they go; here any order is
possible). In `Spec` a statement writes a page and
saves nothing, as in the repository, where `SavePage` has no caller. In
`SavedSpec` every write saves the page first, as `transaction.go` expects.
`PutBack` is the loop of ROLLBACK and ROLLBACK TO: its `GetPage` calls evict
pages, also ones put back just before; a page that `GetPage` fails for is passed
over; the others are marked clean. That is the code's, and it can undo a
rollback: a page that was put back and is clean, while the file has what the
transaction wrote, is dropped without being written. The ghost `spoiled` is set
when this happens or a page was passed over, and the two properties end there.
Errors of writing the file are left out.

**Catalog.** The layout of `SlottedPage` once more, reduced to what rows of
changing length need: a page is the sequence of cells in the order they were
laid, each with its length and the space it has. A rewrite that needs more
space than there is covers the beginning of the cell laid before it. Its first
four bytes are a child pointer that leaves do not use; what goes beyond them
makes that cell `"lost"`, and when that cell is written again, the end of the
grown one is `"cut"`. The first cell of a page ends where the page ends and is
refused. `Put`, `Removed` and `SplitWith` are `BTree.Insert`, `Delete` and
`splitLeaf` of the schema tree, with `Reopened` what the program finds when it
starts again at `header.SchemaPage`.

**Tables.** One action per operation of `SchemaManager` and `TableEngine`, as
the executor calls them. `tables`, `indexes` and `views` are the maps in memory,
`cat` the schema tree, `rows` and `entries` the trees of rows and of indexes.
A call that is refused before it changes anything is no step; one that is
refused half way is: an `INSERT` whose counter is saved and whose row is not, a
schema change that is in memory and not in the tree, an `UPDATE` whose index
entries have moved and whose row did not fit. The ghost `marks` remembers that
something has happened which a property names as its exception: among others a
primary key set by UPDATE (`"keyed"`), and one that ALTER TABLE adds to a table
that has rows and none (`"keyed late"`), which the code accepts.

**Server.** A connection has a goroutine whose place in `handleConn` is
`phase`; the accept loop is `main`, the signal goroutine `stopper`. One action
per step between two points where others can run: accept and count, compare
with the limit, register, the messages of the handshake, the check of the
context, read, lock, execute, answer, and the three statements of the deferred
function. Any read or write may meet its deadline (`ConnFails`). The process
ends when `Stop` is through or when `Start` returns. Clients do what they like
(`Peer`); addresses are used again, as the operating system does. Executing a
request is one step: what it does to the database is in the other modules. What
a request does (`kind`) and what the server takes it for (`readOnly`) are
independent: an INSERT with the flag, or after a SELECT in one text, writes
without the lock (`StartReadOnly`), and BEGIN takes it and writes nothing. A
line that the goroutine has read ahead when its connection is closed is dropped
with it: in the code, a goroutine that looked at the context before `Stop`
cancelled it may still carry that line out, and cannot answer it.

**Session.** `Connector` with `dial`, `ClientHandshake`, `Exec` and `execOnce`
for each client in place of `Peer`. As in the code, a failed dial leaves the
old connection in place, an attempt that fails in any way is repeated on a
fresh one, and a scanner that has failed reads nothing more (`deaf`).

**Parser, Grammar.** One operator per method of the parser, on a sequence of
words. `Grammar` has a table of how tightly operations bind and writes a tree
with parentheses only where the table asks for them; `ReadAsWritten` says that
the parser reads the tree back, with nothing left over. What reads differently
from standard SQL is in the table: `IS` binds tighter than any operator, and a
compound associates to the right and takes the ORDER BY that follows it.

**Matching, Eval, Kleene.** `LikeMatch` and `GlobMatch` are the two matchers:
functions of how many characters are taken and which position of the pattern is
next, as the loops and the calls for the rest of a text are. `FallsInto` says
what a pattern means without any order of trying. `Eval` is `EvalExpr` for what
decides something. `Kleene` gives a condition one of three meanings;
`SaysWhatIsKnown` compares the two.

**Select, Relational.** `ExecSelect` follows `execSelect` from the scan to the
printed rows, with the bindings of tables as the loops leave them. `Relational`
says which rows a SELECT is to have in terms of sets and counts.

## Runs

`tlc -config X.cfg M`. All passing runs cover their state space completely.

| Run | Module, cfg | Question |
|---|---|---|
| `slotted_page` | `MCSlottedPage`, `SlottedPage.cfg` | Do cells and pointers stay apart, and is the page a list of cells? |
| `page_search` | `MCPageSearch`, `PageSearch.cfg` | Is the search exact, within the page, finite, and what `BTree` uses? |
| `pager` | `Pager`, `Pager.cfg` | With one goroutine, is any update lost between cache and file, in evictions, flushes and a power failure? With a reader beside the writer, does a page keep to one cache entry, and the cache to its capacity? |
| `pager_reader` | `Pager`, `Pager_reader.cfg` | Can a reader change what a page holds? (It can.) |
| `btree_leaf` | `MCBTree`, `BTree_leaf.cfg` | Is a tree of one leaf a map? |
| `btree_any` | `MCBTree`, `BTree_any.cfg` | Do shape, leaf order and rows survive any two changes to trees of one to three levels? |
| `btree_get` | `MCBTree`, `BTree_get.cfg` | Is every stored row found? (No.) |
| `transaction` | `Transaction`, `Transaction.cfg` | If pages are saved first, are nested savepoints snapshots, in a cache that evicts? |
| `transaction_rollback` | `Transaction`, `Transaction_rollback.cfg` | As wired, does ROLLBACK restore? (No.) |
| `tables` | `MCTables`, `Tables.cfg` | Do schema in memory and in the file, ids, rows, constraints and indexes agree after any five operations? |
| `session` | `MCSession`, `Session.cfg` | Do requests that write exclude each other unless taken for read-only, do answers fit, are acknowledged writes flushed, and does every call return? |
| `query` | `MCQuery`, `Query.cfg` | Do parser, evaluator and SELECT mean what they should on all small inputs? |

### Bounds

- `slotted_page`: 17 bytes, a header of 2, pointers of 2, cells of 2, 3 and 3
  bytes: three cells fill the page, a page can be full of removed bytes
  alone, short cells replace longer ones, and the free space reaches every
  remainder, also one where a cell would fit but its pointer would not.
- `page_search`: all lists of up to five keys out of 1..5, unsorted and with
  duplicates included, and all keys 0..5: searches of up to three probes that
  go left and right, and absent keys below, between and above.
- `pager`: three pages and a cache of two, so that getting the third evicts. A
  goroutine alone holds two pages and makes two updates, so that one can hide
  another, with one power failure, at any step. Beside a reader, the writer
  makes one update and each holds one page: both miss on one page and put it
  one after the other, while the cache is full or not. Two is also the capacity
  at which `MaxHold` pages just stay in the cache: `HeldIsCached` needs
  `MaxHold <= Cap`, and nothing in the code keeps a tree from holding more
  pages than the `-cache` flag allows.
- `btree_leaf`: a page of four cells, four keys, two values, seven changes,
  which fill the leaf with removed cells for good. A page that is full would
  split; `MaxPage = 1` ends the run there.
- `btree_any`: pages of four cells. `MCLoads` fills a tree with 4, 7, 12 or 20
  even keys: in ascending order, which splits the last leaf again and again, in
  descending order, which splits the first, or every other one and then those
  between, which fills leaves in the middle. That gives trees of one to three
  levels, some with full leaves and full internal pages. Then any two insertions
  (between, below or above the loaded keys, of two values, so that replacing
  shows) or deletions (of leaf keys and of keys internal pages hold, hits and
  misses): children that are not the last one split, in trees of two and of
  three levels, and internal pages and the root split.
- `transaction`: two pages, two values, two names, two open savepoints: the same
  name opened twice, pages saved before, between and after. The cache has room
  for one page or for both, so that a rollback may evict what it has put back.
- `tables`: two tables, an index and a view (the schema rows of which fill a
  leaf: the schema root splits), three designs of a table (an integer key first, a
  text key last, no key), columns added (a primary
  key among them), dropped and renamed, five insertions (with
  generated, small, largest and text keys, and NULLs), four updates, and any
  five operations in any order: enough to create a table and an index, store a
  row, change the schema, and reopen. `MaxInt = 99` and `Radix = 10` let the
  counter gain a digit and wrap. `MaxTree = 3`: two tables and an index, or a
  table created again. A second split of the schema tree and what follows a
  `"lost"` cell are not followed. No set of the run is large enough for the row
  tree to split.
- `session`: a client with two calls of `Exec` (one that fails or is empty,
  then one that reads or writes, and may be taken for read-only when it writes)
  and one retry, two connections and two addresses, limits one and two, one
  message under way in a direction: connections that are refused, replaced
  while the old one still executes or ends, and given an address again; wrong
  passwords; `Stop` at every point. With one client, two goroutines of the
  server are at work when the client has given one up. Three connections under
  a limit of two were checked once without liveness (2.7 million states);
  `SessionProofs` has any number of everything.
- `query`: `MCQuery` lists the inputs. Trees are combinations of every
  operation with every other one below it; conditions are two levels of AND, OR
  and NOT over ten kinds of atoms, with CASE, over NULL, 0, 1 and a text;
  patterns have up to four characters, any of which is the escape character in
  turn, and texts up to three (`SearchProofs` has any texts and patterns);
  tables have two or three rows of NULL, 1 and 2, statements one join,
  grouping, two ways of ordering, and every combination of LIMIT and OFFSET.
- `MaxKey`, `Lengths`, `MaxLen`, `MaxPage`, `MaxOps`, `MaxUpdates`,
  `MaxUpdatesBeside`, `MaxHoldBeside`, `MaxCrashes`, `MaxDepth`, `MaxTree`,
  `MaxChanges`, `MaxExecs` and `MaxQueue` are bounds of the runs and not of the
  program.

`CHECK_DEADLOCK FALSE` is set where a run may stop: a search that has ended,
trees and tables that have used up their operations, a client that has made its
calls, a process that has ended.

### Fairness

`SearchEnds`: `FairSpec` assumes weak fairness of the loop as a whole:
sequential code between two calls is not abandoned.

`WaiterRuns` and `ExecReturns`: `LiveSession` assumes that the server's
goroutines together go on while one of them can (`WF` of `Goroutine`), and that
each client goes on while it can (`WF` of its `ClientStep`). The Go scheduler
and `sync.Mutex`, which hands itself to a waiter that has starved, are fair to
each goroutine, which is more than is assumed; it suffices since clients call
`Exec` a bounded number of times. Deadlines are part of both: a read that waits
for ever does not exist, since `readTimeout` passes. Nobody has to call `Exec`,
and nobody has to call `Stop`. `WaiterRuns` takes it that carrying out a
request ends; the parser has loops that do not (`parser.go:796`, `812`, `831`).

## Proofs

`tlapm M.tla`. For every value of the constants that meets the modules' named
assumptions:

| Theorem | Says |
|---|---|
| `PageTypeCorrect` | `SlottedPage!Spec => []TypeOK` |
| `PageLayoutSafe` | `Spec => []PointersBelowCells` |
| `PageCellsIntact` | `InPlaceSpec => []CellsIntact` |
| `PageImplementsList` | `InPlaceSpec` implements `CellList` |
| `SearchIsExact` | `PageSearch!Spec => []SearchExact` |
| `SearchStaysInPage` | `Spec => []SearchInBounds` |
| `FunctionIsLoop` | `Spec => []SearchIsLoop` |
| `MatchersFindPieces` | `MatchIsPieces` for every text, pattern and escape character |
| `CacheStaysBounded` | `Pager!Spec => []CacheBounded` |
| `WriterTypeCorrect` | `OneProcess /\ Pager!Spec => []TypeOK` |
| `WriterLosesNoUpdate` | `OneProcess /\ Spec => []NoLostUpdate` |
| `WriterHoldsCached` | `OneProcess /\ Spec => []HeldIsCached` |
| `WriterFlushIsDurable` | `OneProcess /\ Spec => []FlushedIsDurable` |
| `TransactionTypeCorrect` | `Transaction!SavedSpec => []TypeOK` |
| `SavedRollbackRestores` | `SavedSpec => RollbackRestores` |
| `SavedIsTxStore` | `SavedSpec` implements `TxStore` |
| `ServerTypeCorrect` | `Server!Spec => []TypeOK` |
| `WritesAreExclusive` | `Spec => []WritesExclusive` |
| `SlotsAreCounted` | `Spec => []SlotsCounted` |
| `StopKeepsAcked` | `Spec => []AckedIsFlushed` |
| `SessionIsServer` | `Session!SessionSpec` implements `Server!Spec` |
| `AnswersAlwaysFit` | `SessionSpec => []AnswersFit` |
| `SessionKeepsServer` | `SessionSpec` has the four properties of the server |
| `TablesTyped` | `Tables!Spec => []TypeOK` |
| `SchemaSurvives` | `Spec => []CatalogLoads` |
| `CounterStaysAhead` | `Spec => []CounterAhead` |
| `RowsHoldTheirKeys` | `Spec => []PkIsRowid` |
| `NoNullsAreStored` | `Spec => []NotNullHolds` |
| `IndexesCover` | `Spec => []IndexCovers` |
| `TreeTyped` | `BTree!Spec => []TypeOK` |
| `LeavesStaySorted` | `Spec => []LeavesSorted` |
| `OneParent` | `Spec => []SingleParent` |
| `DepthStaysUniform` | `Spec => []UniformDepth` |
| `RowsStay` | `Spec => RowsKept` |
| `AppendedTablesScan` | `Spec => []AppendedScans` |
| `OnePageIsMap` | `OneEmptyPage /\ Spec` implements `KVMap` |

**Assumptions.** `SizesAssumption`: sizes are numbers, the header and the
pointers have bytes, the header fits the page, every cell has at least one
byte. Nothing is assumed of how sizes relate. `KeysAssumption`: keys are
integers. `TreeAssumption`: keys are integers, sizes are numbers, cells have
bytes, and four cells with their pointers fit a page. The code does not ask for
the last one and needs it: of two or three cells `splitInternal` leaves a page
without any. `PagerAssumption`: readers are not writers, capacities are numbers
(0 is allowed, and such a cache keeps one entry). `OneProcess`, in the four
theorems that say so: there is one goroutine, and `MaxHold <= Cap`. Neither can
go: `pager_reader` is the counterexample with a second goroutine, and with
`MaxHold = 2` and a cache of one page the pager evicts a page the operation is
about to change. `OneEmptyPage`, in `OnePageIsMap`: the tree starts empty, and
`MaxPage = 1`. The first split ends it for good: `btree_get` has a row that a
search does not find, and with `splitInternal` scans lose rows.
`TransactionAssumption`: the name of BEGIN's snapshot is not a savepoint's, and a cache has
room for one page at least (`put` keeps one when the capacity is 0).
`ServerAssumption`: finitely many connections, and `None` is neither a
connection, an address nor a request. `SessionAssumption`: connections and
addresses are numbered, and a request names its client and which of its calls
it belongs to. `CatalogAssumption` and `TablesAssumption`: sizes are numbers,
the keys of tables, indexes and views are different positive numbers, a design
names each column once, given values are in the range of the integers,
`MaxInt >= 1` and `Radix >= 2`. Nothing is assumed of how large rows, pages and
schemas are.

**Arguments.**

- *Page layout.* `Layout == TypeOK /\ PointersBelowCells` is inductive under
  `Spec`: `Fits` leaves room for the cell and its pointer, so the content
  offset and the end of the pointer array move towards each other and do not
  pass. Rewrites move neither.
- *Cells.* `IntactPage == Layout /\ CellsIntact` is inductive under
  `InPlaceSpec`. New bytes lie below the old content offset, hence below every
  cell; a rewrite of no more bytes stays within the cell it replaces, and that
  cell's bytes belong to no other because a byte names its cell and its place
  in it. `PageImplementsList` rests on this: for each action, `DecodeCell` at
  every other pointer gives what it gave before. `InsertAtProperties` and
  `RemoveAtProperties` of `ListLemmas` say what shifting pointers does.
- *Search.* `LoopInv` says that all keys left of `lo` are smaller and all keys
  right of `hi` greater (if the page is sorted), and bounds both; exactness
  needs it since `lo` alone says nothing of the keys passed over.
  `Follows` says that the function, called on the bounds the loop has, returns
  what it returns on the whole page: with that `FunctionIsLoop` is an invariant
  like the others. That the function exists, and what it returns, is shown once
  for all lists (`SearchIsRecursive`, `SearchAnswers`), and the trees use it.
- *Patterns.* Both matchers are one function (`IsTrial`) over the items of a
  pattern and the position that follows each, once it is seen that a class ends
  behind where it began (`ClassEnds`), that an escape takes two places, and that
  a wildcard at the end, for which the code returns at once, leaves nothing to
  refuse (`LikeIsTrial`, `GlobIsTrial`). From the end of the pattern towards its
  beginning, that function accepts what falls into pieces (`TrialFindsPieces`):
  a text does for an item and those after it if and only if it has a piece for
  the item and the rest falls into pieces for the others (`FallsOnward`). What
  a class names plays no part, so `InClass` is never expanded.
- *Trees.* `IsTree`: there is a height for every page, 0 for a leaf, such that
  the places of an internal page lead to pages one lower (`Ranked`), no two
  places lead to one page (`Apart`) and none to the root (`Free`), and every
  page is well formed (`PageOK`); so all depths are equal, and descents end,
  which is how `PathTo` and `Leftmost` are known to be defined (`PathFound`,
  `LeftmostIsLeaf`). Sorted internal pages are no part of it: they are not
  sorted. `Grown` is what an insertion below a page leaves behind: pages as high
  as that one are as before, no page has gained a parent, and when the page was
  split the new one is as high and has none yet. `LeafInsertion` shows it of
  leaves, `AddedChild` and `PassedUp` carry it to the page above, `ReturnsGrown`
  from the leaf to the root, and `NewRoot` puts a root on top. In `AddedChild`
  the child's place goes to the new page (`ChildTakesPlace`), so that a new last
  cell can lead to the child, and if that is too much two pages share the
  children (`Halved`): with four cells or more none of them is left without any
  (`FullHasFour`). Deletion rewrites a leaf (`LeafShrinks`) and perhaps a
  separator (`SeparatorChanges`).
- *Rows of trees.* Internal pages have no rows, so a lemma about a change says
  which leaves hold a key before and after it, and which values: the keys of one
  leaf are distinct, so the rows of a key are as many as the leaves that hold it
  (`CountIsNumber`), and its values are found leaf by leaf. A split deals the rows
  of a leaf out to two pages (`Dealt`); an insertion as a whole is `RowPut`, which
  adds the row on one leaf or replaces it there, a deletion `RowTaken`. That the
  pages above only pass children on is carried from the leaf to the root with the
  shape (`SameLeaves`). `RowsKept` does not say that a new key makes one row more:
  a key deleted where an internal page holds it leaves a row on the right leaf,
  and inserting that key again replaces the row instead.
- *Scans.* That `Dive`, `CursorNext` and `Scanned` are defined at all is a matter
  of descents that end: a dive goes down in height, `Advance` pops frames, and
  from every stack a scan comes to its end (`ScanEnds`), because below a page
  only finitely many places are left, each of them leads to lower pages, and
  below the frame the stack is shorter; `StepsToStop` turns "it stops" into a
  number that falls. A cursor that stands at the keys of a map one after the
  other returns its rows in order (`ScanInOrder`): the i-th row is that of the
  key with i smaller ones (`RankGrows`). `LeafScans` applies it to a tree of one
  leaf. With what a search finds in an ascending page (`OnePageSearch`), and
  `RowPut` and `RowTaken` read as changes of a map that has one row of a key at
  most (`MapPut`, `MapTaken`), each action is one of `KVMap`'s.
- *Appended tables.* `AppendInv` adds to `TreeInv` that a table filled in
  ascending order has a `Shape`: one leaf (`Flat`), a root over leaves
  (`Twofold`), or more levels (`Tall`). In the first two the leaves, from left
  to right, hold lists of cells whose keys ascend within each list and from
  list to list and are together the rows of the map (`Spread`), and a separator
  is the first key to its right. A key above all others is looked for behind
  the last separator (`LastLeaf`), and its cell goes to the end of the last
  list (`ListsGrow`). Then the last leaf takes it (`TwofoldTakes`), or the last
  list is cut in two and the root gets a place more at its end
  (`TwofoldSplits`), or the root is split as well. With that split rows may
  leave every search and scan, so all that is kept of it is that the tree has
  become higher (`InsertionGrowsTree`) and stays so (`TallGrows`): `Height2` is
  false there. `Shape` is why the claim is inductive: that scans are complete
  says nothing of which leaf the next key will go to. A cursor walks the lists
  one after the other (`CursorWalks`) and thereby the keys in order
  (`TwofoldScans`). TLC has checked `Shape`, with the lists read off the
  leaves, on small trees of one and two levels.
- *Cache.* `SoundCache`: the cache is a sequence without two entries for a page
  and within its limit. Each action either leaves the cache, moves an entry to
  the front, puts one, or empties it.
- *One goroutine.* `WriterInv` of `PagerProofs`. What an operation holds is
  `Newest(cache, n)`, the n entries used last (`HeldInv`): a hit brings its entry
  to the front, a put drops the last entry, and where a page is still to come
  `n < MaxHold <= Cap`, so the last entry is not among them. `LRU`'s operations
  are described by what they do to every such front (`TouchedEntries`,
  `PutEntries`). Every page object is that of another page, and is cached or the
  one in the goroutine's hands (`HeapInv`, `PlaceInv`); each has all updates of
  its page, and a clean one, as a page without one, has them in the file too
  (`DataInv`), so that a read brings back the latest content. While `FlushAll`
  runs, every dirty page object is still on its list or in its hands
  (`FlushInv`): at `Sync` nothing is dirty, and what was flushed was written and
  synced, whichever of the two a power failure leaves. TLC has checked
  `WriterInv` for the writer of `pager` alone. Each action has a lemma;
  `InstallStep` says which page object put lets go, in `GetPage` and in
  `AllocatePage`.
- *Transactions.* `TxInv == TypeOK /\ Nested /\ BaseKept`. `Nested` says that
  what a later savepoint has saved every earlier one has saved. Without it the
  step from a savepoint back would not be provable: restoring the pages of the
  inner savepoint changes their content, and only because the outer ones keep
  their own copies of those pages does each of them still stand for the same
  image. `BaseKept`, which holds until `spoiled`, ties BEGIN's saves to the
  content at BEGIN. What is evicted is in the file as it was in the cache, unless
  it was clean and the file had something else; so getting, writing and flushing
  pages change no other page's content, and `PutBack` leaves the saved content in
  the saved pages and every other one alone, or sets `spoiled`. Each action has a
  lemma that shows both that `TxInv` is kept and which step of `TxStore` it is;
  COMMIT outside a transaction is a stutter.

- *Server.* `Spec` lets clients do anything, so its theorems hold whatever
  connects. `ServerInv` is `TypeOK` strengthened by: the writer is the goroutine
  that runs a request that takes the lock (`LockHeld`), which makes exclusion
  inductive; the counter is the cardinality of the counted connections, and a
  connection the accept loop has just counted was counted in `seen`
  (`SlotsInv`), which is why comparing after raising never lets one in too many,
  while others lower the count at any time; and, for `AckedIsFlushed`, a chain
  (`FlushInv`) from the map to the file: as long as no entry was removed by
  another goroutine, an open connection that reads or answers is in the map,
  `Range` therefore visits it (or it registers after the context was cancelled
  and stops at the first check), and once nothing is left to visit no
  connection can answer, so that `FlushAll` finds every answered write done.
- *Session.* Each step of a client is a step of `Peer` or leaves the server
  alone (`SessionIsServer`), which carries the server's theorems over.
  `AnswersFit` needs `SessionInv`: connections of different clients are
  different (`Apart`); on a connection at most one message of a client is under
  way or being worked on or answered, and which one follows from where the
  client stands (`Match`). So a late answer is on a connection that was given
  up, or the client's scanner is `deaf`.

- *Schema.* `SchemaInv` has `Agree`: every table, index and view is stored under
  its key and nothing else is, and what is stored of a table is what is in
  memory, unless its row is `Limits`-bound, that is the first cell of its page,
  which cannot grow; such a row may be behind, but never in its tree. `Agree`
  takes maps and tree as parameters, so that an operation that changes the
  schema tree twice (`RenameTable`, `CreateIndex`, `DropIndex`) is two steps of
  one argument. `TablesProofs` begins with what `Put` and `Removed` do to a leaf:
  which keys it has afterwards, which values, and which cells are whole.
  From it, `TableSaved` and its kin give one lemma per action.
- *Rows.* `CounterInv` and `KeyInv` speak of everything the program *knows* of a
  table (`Known`: what is in memory and what reopening would load), since a
  refused save makes the two differ. A primary key that ADD COLUMN could not store
  is one in memory only, and the table has no rows then, or is `"keyed late"`. `NullInv` follows from how rows are made
  (`NewRow`, `KeyedRow`, `UpdatedRow`) and from `Extends`: columns are only added
  at the end, with a default when they are NOT NULL. `IndexInv` needs `Listing`:
  an index is listed by one table, on a column of it, and is stored; and a row
  that is the first of its page was stored before its table had an index, and
  has no room for the name of one: what reopening finds of a table is what is
  in memory, or a table without indexes.
- *Types of tables.* After a split of the schema tree rows of it get lost, so
  `Agree` ends there. `TypeInv` does not: whatever is left in a leaf is
  `Storable` under its key, and both halves of a split hold cells of the leaf
  that was split, or the new one. `ByKey` puts every cell in a place of its own
  because the number of smaller keys takes every value below the number of
  cells (`RankTaken`).
- *Induction.* No theorem of the library about induction can be applied here, so
  `ListLemmas` has its own: `SetInduction` over a set of numbers, from the least
  number outside it, and `RecursionExists`, `MeasuredRecursion` (a step looks only
  at smaller members) and `FoldExists`, whose step is a function. Sums (`Used`),
  the widths of numbers, `Others`, the binary search, the matchers and the
  descents of a tree are proved by them.

TLC has checked `IInv` on the instance of `tables`.

**Only model-checked.** Liveness (`SearchEnds`, `WaiterRuns`, `ExecReturns`);
and the properties of `query` about trees (`ParsesPrinted`, `WhereIsKnown`,
`SelectMeans`), whose operators are recursive. That a search finds what was stored
and that scans are complete once an internal page has been split is not proved
because it is not so.

## Where the code and its documentation disagree

- **A reader changes a page** (`pager_reader`). `README.md:20` of the
  repository offers read-only query handling, and read-only requests run
  without the write lock. A reader that misses, reads the file, and is overtaken
  by a writer that caches and changes the same page, puts its own copy over the
  writer's: the update is gone from the cache. In the run both miss on the schema
  page, the writer caches and changes it, and the reader's copy, read from the
  file before the change could be written, replaces it.
- **A stored row is not found** (`btree_get`). `PRAGMA integrity_check` answers
  "ok" (`executor.go:1345-1346`). The first key of a right leaf is also the
  separator, and a key equal to a separator is looked for on its left. One split
  is enough.
- **ROLLBACK restores nothing** (`transaction_rollback`). Nothing calls
  `SavePage`.

More that no run isolates but the models have:

- *Trees and pages.* `splitInternal` drops the rightmost pointer, so that
  complete scans of appended tables (`AppendedScans`) are claimed up to the
  first split of an internal page. A rewrite longer than the old cell overwrites
  its neighbour (`CellsIntact` needs `InPlaceSpec`). A cache smaller than what
  an operation holds loses updates (`HeldIsCached` needs `MaxHold <= Cap`).
- *Schema.* `CREATE INDEX` makes the table's schema row longer: for the first
  table of a database it is refused after the index is stored, for others it
  may cost the row next to it; so does a digit more in `NextAutoInc`, after
  which every INSERT into the first table fails. A split of the schema root is
  lost when the database is opened again. An index created on a table with rows
  stays empty for them; renaming or dropping a column leaves the index and the
  rows as they were. A TEXT primary key is replaced by a generated number. Of
  several primary key columns only the first is filled in when it is NULL. An
  index is dropped from the table that has the name its own table had: one that
  was renamed goes on listing it, and when an index of that name is created
  again, rows of both tables go into it (`"listed"`).
- *Transactions.* Were pages saved, a rollback could still be undone: the pages it
  puts back are marked clean, so COMMIT does not write them, and once they are
  dropped from the cache, what was evicted of the transaction is read back
  (`spoiled`).
- *Server and client.* A request flagged as read-only, and what follows a
  SELECT in a request, writes without the lock. A statement is repeated after
  any error, also an SQL error (up to four times) and when only the answer was
  late; a transaction is gone with the connection. After the last attempt the
  connection stays, with a scanner that reads nothing: the next statement is
  executed on it and then again on a new one. `main` may end the process before
  `Stop` has flushed. When an address is used again, the end of the old
  goroutine removes the new connection from the map, and `Stop` does not close
  it (`crossed`).
- *Queries.* Qualified columns are read from the row of their table that was
  read last. `WITH` tables are not found, HAVING sees no columns, DISTINCT
  inside COUNT and beside GROUP BY makes no difference, aggregates without
  groups ignore LIMIT, INTERSECT and EXCEPT keep duplicates, RIGHT, FULL and
  NATURAL joins are inner ones, `NULL AND false` is NULL, NULL in the list of IN
  is ignored, USING and CASE take NULL for equal to NULL, and the word before
  the escape of LIKE is MATCH.

## Not modelled

- *Pages, pager, trees*: `Pin`, `FreePage`, `MarkDirty` and `walBuf` have no
  callers. Creating the file (`initDB`), errors of the file system, the width of
  cell lengths (`uint16`), cells of different lengths in a tree of more than one
  leaf, an internal page without cells, and a cursor that stays open across
  changes are left out.
- *Transactions* have one connection, and their pages are not those of `Pager`:
  what a power failure leaves of an open transaction is not stated. Nothing in
  the code isolates a transaction from another connection, so no property says
  that it does.
- *Tables*: row trees of more than one leaf; reals and blobs; a primary key over
  several columns, which the code does not enforce.
- *Executor*: statements that change several rows one by one, INSERT ... SELECT,
  views and WITH in queries, SHOW, EXPLAIN, PRAGMA. The loops over rows need the
  parser's DML and the table engine in one model; pure reporting is formatting.
- *Evaluator*: arithmetic and the functions on text, numbers and dates, which
  are library calls and formatting.
- *Lexer* (spelling), *parser* of DDL and DML, window functions and WITH: one
  token decides each step there, and no operators compete.
- *Server*: counters for statistics; what runs inside a request. Two requests
  inside the schema manager at a time (a reader beside a writer) are a data race
  on Go maps and end the process at worst.
- *Client*: `Close`, the connector to a local file, `ExecBatch` (a loop).
- *Handshake*: hashing, the credential file, the interactive dialogue.
- *Command line*: flags, SQL given as an argument, printing.

## What is left

In the order of what it would add: the executor's row-by-row statements over
`Tables`; a transaction's pages in `Pager` across a power failure; `BTree` with
cells of different lengths, which brings the leaf that does not fit its half and
the internal page without cells.
