# codexDB in TLA+

codexDB is a single-process, single-table database: a command line over a B+tree
over a buffer pool over one file, `database.db`. There are no threads. What is hard
about it is the state that outlives a call: guards that hold addresses of frames
that may be reused, pages that reach the file when nobody asked, splits and merges
that climb the tree, a cursor that stands in the tree a statement is changing, input that ends, and
a process that may die between any two writes. These modules model that, TLC
checks them on small instances, and TLAPS proves for every size that the buffer pool
is safe and is the memory of pages the tree takes it for, that a leaf page is the
sequence of rows the tree takes it for, and that the B+tree is sound after every call
and is a table of rows, under hypotheses on the rows' sizes that the runs show to be needed.

Paths below are relative to the repository (`src/btree.cpp` is the C++ file of
that name). `X_Y` in a module is definition `X` with the plausible mistake `Y`
(a dropped guard, a forgotten reset); nothing uses it. It is kept to show, for
every property, a mistake in the code that the property notices.

## 1. Inventory

| Component | Code | State | Operations | Module | 
|---|---|---|---|---|
| Pager | `src/pager.cpp` | the file and its stream, with the stream's failbit | `read_page`, `write_page`, open, close | `BufferPool` |
| Buffer pool | `src/buffer_pool_manager.cpp` | frames (page, dirty, pins, last use, bytes), `page_table`, `global_timestamp` | `fetch_page`, `allocate_page`, `unpin_page`, `flush_page`, `flush_all_pages`, `init_file` | `BufferPool` |
| Page guards | `src/page_guard.cpp` | page number, `Page*`, dirty flag | construction, `mark_dirty`, move, destruction | `BufferPool` |
| Table | `src/table.cpp` | superblock: root, free list, next row id | `get_page`, `allocate_new_page`, `free_page`, `flush_all` | `BTree`, `BufferPool` |
| Slotted page | `src/page.cpp` | slots, `lower_offset`, `upper_offset`, `garbage_cnt`, bytes | `insert_record`, `remove_record`, `update_record`, `defragment`, `init_new_page` | `SlottedPage`, `BTreeNode` |
| B+tree | `src/btree.cpp` | pages of rows or cells, parents, the leaf chain | `insert`, `update`, `remove`, `find`, `begin` | `BTreeNode`, `BTree` |
| Cursor, executors | `src/cursor.cpp`, `src/executor/` | page and slot, `LimitExecutor::cnt`, the pipeline | `advance`, `end_of_table`, each executor's `next` | `Query` |
| Statement compiler | `src/compiler.cpp`, `include/statement.h` | the stream of words and its failbit | `prepare_statement` | `Compiler` |
| Command loop | `src/main.cpp` | `input_buffer`, `std::cin` | lines, dot commands, statements | `Session`, `BufferPool` |
| Tests, build | `test/`, `CMakeLists.txt` | none | | not modelled |

How they interact. Everything is synchronous calls downward: the command loop runs
a pipeline of executors to its end, an executor calls the B+tree, the B+tree asks
the table for pages, the table wraps what the pool returns in guards. Two things
come back up unasked. A guard's destructor unpins its page and passes on its
dirty flag, whenever its scope happens to end. And every miss in the pool may evict
a page some other caller has been using. Shared state: the superblock (page 0),
reached through a guard like any page; and the tree, under the cursor that scans it.

What makes each component correct, and where it can go wrong:

- **Pool, guards, pager.** A pointer given to a guard leads to that guard's page as
  long as the guard lives; a page is in one frame; pins are released exactly once
  through moves and destructions; a page dropped unwritten is in the file already;
  nothing is read that was never written. The danger is order: two guards on a
  page of which one is dirty, a new page that is clean in the pool but in no file,
  a failed stream that nobody notices, a crash with some pages written.
- **Slotted page.** Records never overlap each other or the slots; free space and
  garbage are exact after any history, since the tree decides on them.
- **B+tree.** Every stored row is found by descent; parents, separators and the leaf
  chain agree; no page is lost or used twice; no call changes another row. The
  danger is in balance: keys that move between levels, parents that change in the
  middle of a split, merges between cousins, rows of different lengths.
- **Executors.** A statement returns the rows asked for and changes just those,
  although its own changes move rows under its cursor.
- **Compiler.** A line is taken for what it says or refused; one failbit, asked for
  here and there, has to carry that through.
- **Command loop.** Every line is dealt with and every statement ends, also when the
  input does.

The hazards, each at its line with the properties aimed at it, are in
`PROJECT.json`.

## 2. Modules

```
PageStore  <--implements--  BufferPool    <-- MCBufferPool (TLC)
                                          <-- BufferPoolProofs <-- PageStoreProofs (TLAPS)
LeafRows   <--implements--  SlottedPage   <-- MCSlottedPage
                                          <-- SlottedPageProofs (TLAPS)
                 BTreeNode  <-- LeafRows, SlottedPage, BTree (pages as functions)
                            <-- BTreeNodeProofs (TLAPS)
RowTable   <--implements--  BTree         <-- MCBTree
                                          <-- TreeLemmas <-- InnerNodeProofs <-- BTreeProofs
             Compiler (lines as words)
             Query (BTree and Compiler)   <-- MCQuery
                                          <-- QueryProofs (TLAPS), over BTreeProofs
             Session (over Query)         <-- MCSession
```

The three abstract specifications are the seams. `PageStore` is what the pool
promises the tree: a memory of pages, so `BTree` takes a page's content as read and
written directly. `LeafRows` is what a leaf promises: rows that fit exactly when the
bytes add up, so `BTree` takes a leaf as a sequence of rows. `RowTable` is what the
tree promises the executors; that each call of the tree is the call of `RowTable` with the same
arguments is `CallsAreExact`, and `ImplementsRowTable` has both: the refinement alone would let a call
do nothing, or what another call would have done.

### BufferPool (with Pager and PageGuard)

`frames`, `page_table`, `global_timestamp` are the fields of `BufferPoolManager`;
`guards` are the live `PageGuard` objects; `disk`, `file_pages`, `io_ok` are the
file's content, its length and whether the stream has not failed; `phase` says
whether the process runs and whether it is inside `init_file` or `flush_all_pages`;
`known` are the page numbers the tree has reason to ask for (a page it allocated, or
one that pages in the file refer to).

| Action | Code |
|---|---|
| `FetchHit`, `FetchMiss` | `Table::get_page` -> `fetch_page`, with the eviction and the flush of the victim inside the miss |
| `AllocateHit`, `AllocateMiss` | `Table::allocate_new_page` -> `allocate_page`, `init_new_page` and the guard it marks dirty |
| `OutOfFrames` | the exception of `find_victim_frame` under `fetch_page` or `allocate_page`, which nobody catches |
| `Write` | a change through the guard's `Page*`, `mark_dirty` |
| `Destroy`, `MoveAssign` | `~PageGuard`, both move operations (the null guard is a move construction) |
| `StartFlushAll`, `FlushPage`, `Saved`, `Exit` | `flush_all_pages` one page at a time, in any order of the `unordered_map`, for `.save` and for `.exit` |
| `CreateSuperblock`, `CreateRoot`, `Open` | `Table::Table`: the two writes of `init_file`, or an existing file |
| `Crash`, `TornCrash` | the process is killed from outside between any two of these: no code of its own runs |

A page's bytes are one of a few values. `Zeros` stands for a hole of the file,
`Fresh` for what `init_new_page` leaves. A read past the end of the file leaves the
frame as it was and fails the stream (`Reads`), as `std::fstream` does; a frame that
never held a page then has any content at all.

Two specifications differ in what a crash leaves. In `Spec` the pages that reached
the file name only pages that reached it (`Crash` restricts `known`): the crashes
after which the database is usable. In `TornSpec` a page number may survive a page
that did not (`TornCrash`), which the code does nothing to prevent; then the stream
fails, and the question is what still holds.

### SlottedPage, LeafRows

`SlottedPage` has the page byte by byte: each place holds (row, position in the
row), so a record overwritten by one byte shows. The actions are the three record
operations (`update_record` has its two branches as `UpdateInPlace` and
`UpdateMoves`), the truncation a split does (`Halve`) and reinitialisation
(`Reuse`). Places no slot leads to are forgotten after each action (`Swept`): the
code never reads them, and otherwise states would differ in garbage alone.

### BTreeNode, BTree, RowTable

`BTreeNode` has one page as a value with functions for what the code does to it; `BTree`
has the database `db` (pages, superblock fields, and `fault`, set where
the code would read what is not there) and three actions, `Insert`, `Update`,
`Delete`, one per public call, each the value of an operator (`AfterInsert`, `AfterUpdate`, `AfterDelete`)
of the database and the arguments. A call is a composition of operators named for the
functions they model, in the order the code calls them: `SplitLeaf` (with the calls of
`split_internal_node` in it: `CutLeaf` and `CutInternal` on the way up, `Rooted` and `Attached`
on the way back), `BalanceLeaf`, `BorrowLeaf`, `MergeLeaf`, `RemoveInternalCell` (`WithoutKid` at each node
on the way up, the freed pages on the way back), `BalanceInternal`, `BorrowInternal`, `MergeInternal`,
`Collapsed`. Where the code recurs the model has a recursive function: `LeafFor` steps down as often
as there are pages (a leaf leads to itself), `Ancestors` steps up to the root, and the loops
(`Appended`, `Evened`, the pages split or freed) count their turns. A call is one step because nothing
runs beside it and nothing observes the tree in the middle of it except the pool,
whose promise is that it does not matter. Faithful oddities are kept: `insert` and
`update` drop the result of their second attempt, `borrow_leaf` removes a row that
did not fit, `balance_leaf`'s last merge does not compare parents,
`get_child_index` compares 16 bits.

Key order and space are all the tree looks at, so a row is its key and one of a few
values with a size. After a `fault` the model stops; the code's behaviour is undefined.

### Compiler

`Prepare(line)` is `prepare_statement`: what it makes of a line, which is the sequence
of its words. The `istringstream` is the words not read yet and its failbit: `Word` and
`Read` are `iss >> word`, `IsNumber` is `iss >> number` of a `uint32_t` (a number that
does not fit fails), `TargetId` is `stoul` cut to 32 bits. `WithClauses` is the loop over
WHERE and LIMIT with each of its tests of the stream, in the code's order. What
`Prepare` should be is stated apart from it, after the help text (`src/main.cpp:80-87`), by places of
words: `HeadComplete` and `HeadLength`, `ClausePlaces` and `Complete`; `Offered` is a line of a head and
clauses and nothing else, `IsSaid` is its type, id, name, email and clauses. `ReadsWhatIsSaid` says that
what is offered is accepted, and that what is accepted is read as what it says. It leaves open what the help
text does: words that begin no clause, which the code passes over, and ids too big for 32 bits, of which
`stoul` keeps a part. And it excepts the two lines on which the code and the help text disagree
(`ChangesOne`, see below).

### Query

A statement begins as a line: `Execute(line)` is `Prepare` and `Start`. `run` is the
statement in progress: type, clauses, the counter of each
`LimitExecutor`, the cursor, and `pull`, how many of the clauses the next row is asked through.
That last part is the pull model: a WHERE that rejects a row asks for the next one
itself, so that the executors above it (a LIMIT among them) are not asked again.
One row is one step; `UpdateRow` and `DeleteRow` first advance the cursor and then
change the tree, in the code's order, and `DeleteRow` steps the cursor back
afterwards. A slot that holds no row is read by `ReadStale`, after which anything
might happen and the model stops. `out` (rows returned) and `before` (rows at
the start) are history for the properties. `QuerySpec` states safety alone.

### Session

The loop of `main` around `Query`: `phase` (at the prompt, with a line, exited),
`input_buffer` and `input`, the state of `std::cin`.

| Action | Code |
|---|---|
| `GetLine`, `GetEnd`, `GetNothing` | `std::getline` with a line, at the end of input, and after it |
| `Ignore` | an empty line; `.help`, `.tree`, `.bpm`, `.save` |
| `Leave` | `.exit` |
| `Refuse` | a line the compiler refuses, an unknown dot command among them |
| `Obey`, `Continue` | a statement, and each step of it |

`getline` erases `input_buffer` unless the stream has reached its end before the call.
So after input that ends with a newline the buffer is empty, and after input cut within
its last line it keeps that line; `main` never asks for the stream's state. What `.save`
and `.exit` write is in `BufferPool`.

The constants TLC is given hold words, numbers, sets and sequences of words, and no
records: records that several workers take from a constant are put in order by TLC on
first use, which it does not guard against a second worker.

## 3. Runs

| Run | Instance | Shows |
|---|---|---|
| `bufferpool` | 2 frames, 3 pages, 3 guards, 5 timestamps, 2 contents | all pool invariants, `FlushAllIsDurable`, and that the pool implements `PageStore` |
| `bufferpool_torn_save` | 2 frames, 3 pages, 2 guards, 4 timestamps, 3 contents, `TornSpec` | **violation**: `.save` marks pages clean that a failed stream did not take |
| `slottedpage` | 12 bytes, rows of 1, 2, 4 bytes, 4 keys | records intact and in order, space exact, implements `LeafRows` |
| `btree` | 7 ids, two values of half a page, nodes of 4 cells | the tree is sound, every call does to `RowTable` what it is called for, and every row given is kept |
| `btree_mixed` | 6 ids, rows of a quarter and half a page, updates that split | soundness with rows of different lengths; no other row is touched |
| `btree_lost_write` | 4 ids, two lengths | **violation**: a row that does not fit after a split is lost without notice |
| `btree_lost_neighbour` | 6 ids, a row over half a page | **violation**: a DELETE loses the neighbour it borrows |
| `query` | 13 ids, eight lines, rows of two lengths; all lines of up to 7 of 11 words | what is answered (in order, once each, as every clause has it) and what is changed, and that the cursor stays at a row; that every line is read as what it says, or refused |
| `session` | 5 ids, nine lines, fairness | every line is dealt with, every statement ends; what happens after the end of input |
| `query_select` | 6 ids | **violation**: `SELECT *` misses a last leaf that is no longer than the one before |
| `query_delete` | 9 ids | **violation**: `DELETE * WHERE` leaves matching rows |
| `query_by_id` | 3 ids | **violation**: `UPDATE <id> <name> <email>` changes nothing |

Why the bounds are enough.

- *Pool.* Two frames for three pages make every miss after the second an eviction;
  three guards outnumber the frames, so that `OutOfFrames` and two guards on a page
  happen together. Two contents tell a page's last version from the one before. Guards are interchangeable (symmetry). Five timestamps are
  four uses of a page between two starts, enough to fill, evict and come back; the
  theorems of section 5 have no such bounds.
- *Tree.* A page is scaled to `NODE_SPACE` = 32 with the code's own `Slot` and
  `InternalNodeCell` sizes. A node then holds 4 cells and underflows below 2, the
  smallest capacity at which borrowing and merging of nodes are both possible and
  the arithmetic of 8192-byte pages (1020 cells, 511) has the same shape. In
  `btree` and `btree_mixed` together every branch of splitting, borrowing (leaf and
  internal, from left and right), merging (both directions) and collapsing is taken;
  this was read off TLC's coverage. `btree_mixed` first grows the table and then
  changes it, so that its larger state space goes into deletions and updates.
- *Leaf.* Four of the shortest rows take 8 of the 12 bytes with their slots, two of the
  longest 10; three lengths make every combination of fitting, fitting after defragmentation and not fitting occur.
- *Statements.* Thirteen rows make up to six leaves of which the last is the
  longest, below two nodes and a root, a tree that deletions shrink again; the statements use each
  comparison but none twice, LIMIT between, before and after WHERE, and each kind of change of all rows. An
  UPDATE brings rows as long as the old ones, which leave the leaves as they are, or rows twice as long
  with their slots, which split the leaf under the scan; the other way round they leave leaves of a
  single row. Statements of one id are in `query_by_id`.
- *Lines* (`LineIsRead`). Seven words are a head of up to four and a WHERE, or a head of two with a
  WHERE and a LIMIT; numbers are one that fits, one too big for a `uint32_t` and one
  too big for `stoul` (`UINT32` and `ULONG` are scaled to 16 and 64). The first word is that of a
  statement, since another is refused whatever follows; further on it means nothing and is not typed
  again. All these lines, half a million, are put to `Prepare` in one state, as it reads nothing but its line.
- *Sessions.* Rows of two lengths in pages of four short rows or a long and a short one:
  an UPDATE splits the leaf under its own scan (`ReadStale` happens), a DELETE takes
  rows from under it; lines of every kind `main` tells apart; input that stays open,
  ends after a newline, or is cut within any of those lines.

`CHECK_DEADLOCK FALSE` is set for runs in which the program does stop: after a fault
or a stale read there is nothing left to model.

### What the code does against its own description

The violation runs. Each is a trace of the code; those of `query` and the lost
rows were reproduced with the compiled program (for instance, nine rows of about 1100
bytes, `DELETE * WHERE = 0`, `SELECT *` returns 4 of 8). With ordinary short rows the tree itself is sound (`btree`); the scans
are not.

1. `query_select`: `Cursor::advance` moves to the next page and then asks
   `end_of_table` with the slot index of the page it left. A last leaf with no more
   rows than that is never visited. `ScanAnswersExactly` in run `query` says exactly
   this and no more: a scan returns what it should of all the other leaves.
2. `query_delete`: when the deleted row was the last of its leaf the scan stands at
   slot 0 of the next one; stepping back wraps the `uint16_t` to 65535, and the rest
   is skipped.
3. `btree_lost_write`: leaves are split by number of rows, not by bytes, once; the
   second attempt may fail and its result is dropped, in `insert` and in `update`.
4. `btree_lost_neighbour`: `borrow_leaf` removes the row from the source even if
   the destination could not take it.
5. `query_by_id`: `UPDATE 1 b m` is accepted and changes no row, where the help text has `UPDATE * / <id>
   <name> <email>` (`src/main.cpp:83`). `prepare_statement` reads no name and email for it, and
   `build_pipeline` puts an executor that changes rows on top of a statement with `*` alone: statements of one
   id run as full scans (`SELECT 3` as well), and nothing looks at `target_id`. `DELETE <id>`
   is refused unless a name and an email follow, which the help text (`:84`) does not have; with them it
   deletes nothing.
6. `bufferpool_torn_save`: after a read past the end of the file the stream
   ignores writes, and pages are marked clean all the same.

Also seen, and not given violation runs of their own:

- An UPDATE to a longer value may split the leaf under the scan's cursor, whose slot then
  lies past the end (`ReadStale`; `query` and `session` reach it). `CursorAtRow` in run `query` says
  that a statement that changes no row, or none in its length, never comes there: it leaves the cursor
  at a row or at the end of the table. A deletion may, when it takes rows from under the cursor.
- With a row longer than half a page (`Size <- Huge`) a leaf of one row is split into an
  empty left leaf; `begin` looks at the first leaf alone, so `BeginFindsRows` fails
  and scans report an empty database.
- A word that begins no clause is passed over wherever it stands: `DELETE * WHER = 3`
  deletes every row. Nothing in the repository says what it should do; `ReadsWhatIsSaid` leaves it open.
- `SELECT 4294967297` is taken for `SELECT 1` (`TargetId`), where `WHERE = 4294967297` is refused.
- A DELETE without clauses leaves rows behind when it finds a leaf of one row beside others, which long
  rows make, and an UPDATE to shorter ones, after which nothing is balanced. `DeleteAllLeavesNone`
  has the hypothesis it needs (`ShortRows`).
- Input that is cut within an INSERT inserts that row without end
  (`LastInsertRepeats`); after input that ends with a newline `main` loops for ever
  and does nothing (`SpinsAtEnd`).
- Evictions write unsaved changes to the file, where `src/main.cpp:77` says they stay in
  memory.

## 4. Fairness

`Session!SessionSpec` alone assumes fairness, and only weak fairness of `Loop`: what the
program does of itself once it has a line. There is one thread, `main` is a loop on it,
`ExecutionEngine::execute` a loop inside, and nothing in either blocks except `getline` while the
input is open; then the user decides, and `GetLine` and `GetEnd` are not fair. After the
end of input `getline` returns at once, so `GetNothing` is part of `Loop`. Under this
`LinesAreAnswered` holds, also for statements that delete or move the rows they scan, and
`LastInsertRepeats`. Both exempt behaviours in which the model has given out its last id
or memory was misread (`Bounded`). The other specifications state safety alone: guards are destroyed when the
caller pleases, and a process may be killed before any step.

## 5. Proofs

`BufferPoolProofs` proves, for every number of frames, pages and guards and every set of
contents, that `TornSpec` (crashes of both kinds) and hence `Spec`
(`SpecIsTornSpec`) keep

- `TypeOK` (`TypeCorrect`),
- `PageTableExact` (`PageTableCorrect`),
- `GuardsPointToTheirPage` (`GuardsCorrect`),
- `PinsCountGuards` (`PinsCorrect`),
- `RecencyDistinct` (`RecencyCorrect`),
- `CleanPagesMatchDisk` (`CleanPagesCorrect`).

The second, third, fourth and last are not inductive alone. The invariant `IInv` is
their conjunction with `TypeOK` and `Quiet` (no guard lives unless the process is up,
no frame is used before it is); `RecencyDistinct` follows by induction on top of it. The argument: a guard's page stays in its frame because a victim is
unpinned, an unpinned page has no guard since pins count guards, and pins keep
counting guards because every guard's page is found in `page_table` when it is
unpinned, which is `GuardsPointToTheirPage` again. `VictimUnguarded` is the lemma in
the middle. Counting is by `HoldersChange` and `HoldersMove`: what one guard's change, and a
move between two, do to the cardinality of a page's holders. `CleanPagesMatchDisk` needs the page
table exact (a flush of one frame writes no other's page) and pins (a guard's write
lands in the frame of the page whose clean flag its dirty flag excuses).

`PageStoreProofs` goes on from `IInv`:

- `ThrowsOnlyWhenAllGuarded` (`ThrowsCorrect`), for `TornSpec`: a search for a
  victim that fails has seen every frame in use and pinned (`NoVictim`, by the least index
  and the least timestamp of what it might have found); pins count guards and
  the table is exact, so that each frame's page has a guard of its own.
- `KnownPagesReadable` (`KnownPagesCorrect`), for `Spec`. It is not
  inductive: a page is readable because it is in the pool or not beyond the file's end, and
  what is beyond that end must be known to be zeros, the stream to be sound, and the
  file half created by `init_file` to be an exception. `FileInv` is `IInv` with that. The case that
  needs it is the eviction inside a miss: the victim is either dirty and written, which
  makes the file reach it, or clean and then in the file by `CleanPagesMatchDisk`.
- `FlushAllIsDurable` (`FlushAllCorrect`), for `Spec`: what `flush_all_pages` has
  flushed is clean, what is clean and unguarded is in the file. Under `TornSpec` it is
  false, which `bufferpool_torn_save` shows.
- `ImplementsPageStore` (`StoreImplemented`), for `Spec`: a page's content in `PageStore` is
  that of its frame if it has one and of the file otherwise. One lemma per action:
  fetching, evicting and flushing change no page's content (`CleanPagesMatchDisk`
  again), a guard's write changes that of one, a crash falls back to the file.

`BTreeNodeProofs` proves, for internal nodes of every size whose keys are in order, where
`find_leaf_page` goes (`KidFor`) after each change the tree makes to a node:

- `WithCellRoutes`: a cell for a split child divides the keys that led to it, and no
  others go elsewhere;
- `WithoutChildRoutes`: when a child is removed the keys that led to it go to its
  neighbour, and no others go elsewhere;
- `JoinedRoutes` and `CutRoutes`: a merge sends every key where the two nodes did, and
  a cut the converse; a borrow between nodes is the one after the other.

The argument: the binary search ends at the one place that divides the keys
(`CellForIs`, `SomePlaceDivides`, by the least such place); `KeyPutIn`,
`KeyTakenOut` and `KeysJoined` say what divides the keys afterwards, as facts about functions of numbers; the rest is what `InsertAt`, `RemoveAt`, `SubSeq` and
`\o` do to the cells.

It also has the sums of leaf pages. `Sums` is a recursive function of the turns of the
loop of `leaf_page_size`; that it exists, and what an insertion, a removal, a new size or a
longer prefix do to it, is shown by induction over the number of turns, in the form of
sets of numbers (`UpTo`). `SlotOfParts` is the binary search: in rows
in order, the slot of an id parts the smaller ids from the larger.

`SlottedPageProofs` proves, for every page size, header, slot size and set of rows, that
`Spec` of `SlottedPage` keeps

- `TypeOK` (`TypeCorrect`), `RecordsIntact` (`RecordsCorrect`), `RowsInOrder`
  (`OrderCorrect`), `SpaceAccounted` (`SpaceCorrect`),
- and implements `LeafRows` (`LeafImplemented`).

None of the first four is inductive: an update in place overwrites no other record only
because records lie apart, the new record fits only because the space is
exact, the space is exact only because a slot's size is its row's, and `find` hits the
slot only because the slots are in order. `IInv` is `Sound` (the slots are below
`upper_offset`, each leads to the bytes of the row that stands at its place, and the
rows are in order) and `Accounted` (what the rows take, the free space and the garbage
are the page). That two records do not overlap need not be part of it: at a byte they shared both
would have the row of that byte, and the ids of rows differ (`RecordsApart`). There
is one lemma per operation on the bytes (`InsertedSound`, `RemovedSound`, `MovedSound`,
`OverwrittenSound`, `HalvedSound`, `EmptiedSound`), each over `PackedSound`: when
`defragment` lays the records down one below the other the new places are disjoint
(`PackedApart`) and hold what the old ones held.

### The B+tree

`TreeLemmas`, `InnerNodeProofs` and `BTreeProofs` prove of `Spec` of `BTree`, for every page
size, every size of nodes, every set of values and every number of rows, hence at every height:

| Theorem | States | Under |
|---|---|---|
| `TreeSound` | `IInv`, the invariant below | `HalfPages` |
| `ReachableCorrect` | `RowsReachable` | `HalfPages` |
| `ParentsCorrect` | `ParentsExact` | `HalfPages` |
| `LeafChainCorrect` | `LeafChainExact` | `HalfPages` |
| `PagesAccountedCorrect` | `PagesAccounted` | `HalfPages` |
| `FitCorrect` | `NodesFit` | `HalfPages` |
| `NoFaultCorrect` | `NoFault` | `HalfPages` |
| `OthersCorrect` | `OthersUntouched` | `HalfPages` |
| `TableImplemented` | `ImplementsRowTable`, with `CallsAreExact` in it | `HalfPages`, `SameSizes` |
| `WritesCorrect` | `WritesAreStored` | `HalfPages`, `SameSizes` |

All of them are about behaviours in which `FewPages` always holds. The hypotheses are about the
code's limits, and none is there to make a proof easy:

- `HalfPages`: a row and its slot take at most half of a page. Without it `borrow_leaf` takes a row
  from its neighbour that does not fit where it goes, which is run `btree_lost_neighbour`:
  `OthersUntouched` is false there with one row longer than that.
- `SameSizes`: every row takes as much as any other. Without it the second attempt of an `insert` or
  an `update` may fail, which is run `btree_lost_write`. What is proved without it is that nothing
  else happens: such a call changes no row (`NextStep` and `TableStep` say so).
- `FewPages`: the file has fewer pages than `get_child_index` can tell apart (`CHILD_IDS`, 2^16 in the
  code). With more, `balance_internal` may take one child for another.

The invariant. The properties are not inductive, and what makes them so is not a fact about pages but
about the ids: which page of each level an id belongs to. `at[j]` is that division of the ids at level
j, from the leaves (0) to the height. The program stores it nowhere, so `IInv` says that there
is one: `IInv == \E store, h, at : Sound(db, store, h, at, at, 0) /\ NoneLost(db, h, at)`. `NoneLost`
says that each page is free or a page of one of the levels, and `Sound` says

- of the leaves (`LeafLevel`): each holds exactly the rows of the table `store` whose ids
  are its own, in order, and they fit;
- of the nodes (`NodeLevel`, `NodeIn`): a node sends each of its ids to the page of the next level
  the id belongs to, its keys rise, and each is a place where the division below changes; no
  node is over-full, and none is without a cell;
- of two levels (`Nested`, `Contiguous`, `Apart`): divisions are of intervals, the lower is a
  refinement of the upper, and no page is on two levels;
- of links (`Adopts`, `Chained`, `Listed`): parents, the leaf chain, and the free list, which has all the
  free pages, each once.

In the middle of a call the tree is not sound: after `split_leaf_node` has cut a leaf the nodes above do not
know of its right half yet, and after a merge they still name a page that is gone. So `Sound` has two
divisions per level, `at` (as the pages are) and `seen` (as the nodes above have it), which
differ on the one level where the work is, and `thin`, the one node that may be without a cell. Each
handler's lemma says what it does to them:

- `CutLeafSound`, `CutInternalSound` divide a page's ids and leave `seen`; `RootedSound` and
  `AttachedSound` bring `seen` up to date; `SplitLeafSound` follows the split up to the first node with room (`CutLoop`)
  and back down.
- `MergeLeafSound`, `MergeStep`, `DropSound` join two pages' ids; `BorrowStep`, `BorrowLeafSound` move
  the border between two; `CollapseSound` takes the top level away. `BalanceSound` is
  `balance_internal` with its choice, `RemoveSound` the way up and the freeing on the way back,
  `BalanceLeafSound` the whole of `balance_leaf`. That its last merge does not compare
  parents is harmless because a node always has a cell, so that a leaf without a right sibling has a left one
  (`OneHasSibling`).
- `InsertSound`, `UpdateSound`, `DeleteSound` put these behind `find_leaf_page`, which ends at
  `at[0][k]` (`LeafForIs`), and `NextStep` says what each action makes of `store`.

`TableImplemented` then needs that `Found` is `store` (`AllFound`), before a call and after it: `CallsExact` says of each
call, with any arguments, that the rows found afterwards are those `RowTable` has after the same call, a call for a row there
is none of among them (`NoTableRow`); that each step is a step of `RowTable` follows (`TableNext`). For `LeafChainCorrect`, `KidExtents`
says that the children of a node divide its interval of ids among them, each as far as the next key, and
`LeavesBelow` and `LeavesSpan` that the leaves below a page, taken child after child, are therefore the pages that
`at[0]` has in its interval, in order (`Spans`): at the root, those that `Chained` links. Recursive functions are
unfolded by `Recursion` and `UpTo`, which give their existence and values turn by turn.

For `PagesAccountedCorrect` every lemma about a step also says which pages it may lose (`Keeps`): none, but those a
merge has emptied and not yet freed (`Gone`, `Merged`): `remove_internal_cell` frees what it merged only on the way
back, level by level, and `FreedLoop` follows the set of lost pages down to nothing. That `NoneLost` makes
`PagesAccounted` true takes two walks. `TreeOnce` is about the tree: the children of a node have intervals of ids apart from each other and inside
the node's own, so that a walk from the root meets each page of each level once (`JoinOnce`, `FlatOnce`, `PagesBelow`).
`FreeOnce` is about the free list: after i turns the walk has the first i pages of the list (`LongerBeginning`), and the list is no longer
than the file (`NotMore`).

### Statements

`QueryProofs` proves of `QuerySpec`, for every table, every line and any number of clauses, that
`ClausesObeyed` always holds (`ClausesCorrect`): no row comes out that a WHERE excludes, and no more rows
than a LIMIT allows. The tree is not needed for it, faults and stale reads included. What a LIMIT allows is not inductive:
`LimitExecutor` counts the times it is asked, not the rows that leave the pipeline, and a WHERE above it
asks again for each row it turns down. `RunInv` says that a limit's count is never behind the rows that have come out
(`Tally`: the row a clause has let through and a clause above has turned down is one more), and
never beyond the limit. That clauses are numbers and comparisons at all is `PreparedIs`, about the compiler: the loop
over WHERE and LIMIT is unfolded by `ClausesAre`, turn by turn.

### Assumptions

Those of `BufferPool` on its constants (a positive number of frames, at least
two pages, finitely many guards, `Zeros` and `Fresh` among the contents). The theorems on
internal nodes need none of `BTreeNode`'s; those on leaf pages need that a row takes at least one
byte, that the sizes of slot and header are numbers, and that ids are. Those on the tree
need besides that there is an id (`BoundAssumption`) and that a full node can be halved and both halves keep what a node must
(`CellAssumption`: `MIN_CELLS + 2 <= MAX_CELLS`, 513 against 1020 in the code).

### Only model-checked

- `BeginFindsRows` and `TypeOK` of `BTree`. `Sound` does not say that a leaf beside others has a row, nor
  anything of the fields of pages that are in no tree but `next` and their rows.
- Of `Query` what depends on how a scan and its own deletions meet in the tree (`AnswersInOrder`, `CursorAtRow`,
  `ScanAnswersExactly`, `ChangesWhatItAnswers`, `DeleteAllLeavesNone`).
- That lines are read as what they say (`Compiler`), sessions (`Session`) and liveness.

## 6. Not modelled

- Words within words: signs, and digits followed by other characters (`5LIMIT`), which
  `>>` and `stoul` take apart.
- Widths: `page_num * PAGE_SIZE` as an `int` file offset, `Row::get_size` as
  `uint16_t`. `get_child_index`'s 16 bits and the cursor's `slot_index` are modelled
  at their real width (`CHILD_IDS`, `SLOTS`).
- A page of which only a part reached the file when the process died: `write_page` is
  one step.
- What happens after undefined behaviour (a stale or missing row is read).
- Pins inside one call of the tree: `BTree` takes pages from `PageStore`, so how
  many guards a split holds at once against the code's `POOL_SIZE` of 50 is not checked.
- Printing (`print_tree`, `print_frames`, messages).

## 7. Plan

In order, what further work would add:

1. `Pins`: the guards each tree operation holds at once, call by call, over the pool:
   how deep a split may climb before `POOL_SIZE` frames are not enough, and what
   `allocate_new_page` has changed when a frame is wanting.
2. A run with small `CHILD_IDS`, for page numbers past what `get_child_index` compares.
3. Proofs about scans: `CursorAtRow` from `LeafForIs` and `Chained`.
