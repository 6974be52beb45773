----------------------------- MODULE BufferPool -----------------------------
(***************************************************************************)
(* The buffer pool manager with the pager under it and the page guards     *)
(* over it (src/buffer_pool_manager.cpp, src/pager.cpp, src/page_guard.cpp)*)
(* A client (Table, BTree, Cursor) reaches a page only through a guard:    *)
(* Fetch or Allocate pins the page and gives out the address of a frame,   *)
(* Write changes the frame through that address, and the destruction of    *)
(* the guard unpins.  Everything runs on one thread; what interleaves is   *)
(* the lifetimes of the guards, the evictions hidden in every miss, and    *)
(* the death of the process between any two calls.                         *)
(*                                                                         *)
(* The file is a std::fstream: a read past its end leaves the destination  *)
(* untouched and sets failbit, after which every read and write is a no-op *)
(* (io_ok).  The code never looks at the stream's state.                   *)
(***************************************************************************)
EXTENDS Naturals, FiniteSets

CONSTANTS
  POOL_SIZE,  \* number of frames
  PAGES,      \* bound on the page numbers, 0 .. PAGES-1
  MAX_TIME,   \* bound on global_timestamp, UINT64_MAX in the code
  Guards,     \* the PageGuard objects that may be alive at once
  Content,    \* what a page may hold
  Zeros,      \* a hole of the file
  Fresh       \* what init_file and init_new_page write

ASSUME PoolAssumption == POOL_SIZE \in Nat \ {0}
ASSUME PagesAssumption == PAGES \in Nat /\ PAGES >= 2
ASSUME TimeAssumption == MAX_TIME \in Nat \ {0}
ASSUME GuardsAssumption == IsFiniteSet(Guards)
ASSUME ContentAssumption == Zeros \in Content /\ Fresh \in Content

Frames == 0 .. POOL_SIZE - 1
PageIds == 0 .. PAGES - 1
NoFrame == POOL_SIZE
NoPage == PAGES

VARIABLES
  frames,            \* the frames: page_id, is_dirty, pin_cnt, last_used, data
  page_table,        \* page number -> frame, NoFrame when absent
  global_timestamp,  \* the next last_used
  guards,            \* guard -> page, frame its Page* points into, is_dirty
  phase,             \* "down", "creating" (inside init_file), "up", and
                     \* "saving" or "closing" (inside flush_all_pages)
  disk,              \* page number -> content of the file
  file_pages,        \* the length of the file in pages
  io_ok,             \* the stream has not failed
  known              \* the page numbers the client may ask for

poolVars == <<frames, page_table, global_timestamp, guards>>
fileVars == <<disk, file_pages, io_ok>>
vars == <<poolVars, fileVars, phase, known>>

Frame == [page_id : PageIds, is_dirty : BOOLEAN, pin_cnt : Nat,
          last_used : Nat, data : Content]
Guard == [page : PageIds \cup {NoPage}, frame : Frames \cup {NoFrame},
          is_dirty : BOOLEAN]

EmptyFrame == [page_id |-> 0, is_dirty |-> FALSE, pin_cnt |-> 0,
               last_used |-> 0, data |-> Zeros]
NullGuard == [page |-> NoPage, frame |-> NoFrame, is_dirty |-> FALSE]

EmptyPool ==
  /\ frames = [f \in Frames |-> EmptyFrame]
  /\ page_table = [p \in PageIds |-> NoFrame]
  /\ global_timestamp = 1
  /\ guards = [g \in Guards |-> NullGuard]

Init ==
  /\ EmptyPool
  /\ phase = "down"
  /\ disk = [p \in PageIds |-> Zeros]
  /\ file_pages = 0
  /\ io_ok = TRUE
  /\ known = {}

-----------------------------------------------------------------------------
(* Looking things up *)

Contains(p) == page_table[p] # NoFrame
Live(g) == guards[g].page # NoPage
NoGuards == \A g \in Guards : ~Live(g)

Holders(p) == {g \in Guards : guards[g].page = p}

\* Has frame f held a page since the pool was built?
Used(f) == frames[f].last_used > 0

\* The content a client that asks for p is given, if the file can be read.
View(p) == IF Contains(p) THEN frames[page_table[p]].data ELSE disk[p]

Unpinned_Unchecked(f) == TRUE
Unpinned(f) == frames[f].pin_cnt = 0

\* find_victim_frame: the first frame never used, or else the unpinned frame
\* used longest ago; none when every frame is pinned.
Victims ==
  IF \E f \in Frames : ~Used(f)
  THEN {f \in Frames : ~Used(f) /\ \A e \in 0 .. f - 1 : Used(e)}
  ELSE {f \in Frames : /\ Unpinned(f)
                       /\ \A e \in Frames :
                            Unpinned(e) => frames[f].last_used <= frames[e].last_used}

Larger(a, b) == IF a >= b THEN a ELSE b

\* What flush_all_pages leaves: no page of the pool is dirty.
AllFlushed_ButSuperblock ==
  \A p \in PageIds \ {0} : Contains(p) => ~frames[page_table[p]].is_dirty
AllFlushed ==
  \A p \in PageIds : Contains(p) => ~frames[page_table[p]].is_dirty

-----------------------------------------------------------------------------
(* What the calls do to a frame, the page table and the file.  Here and    *)
(* below, X_Y is X with the mistake Y: nothing uses it, it is there to     *)
(* show which property would notice.                                       *)

Tick_Frozen == global_timestamp < MAX_TIME /\ UNCHANGED global_timestamp
Tick == global_timestamp < MAX_TIME /\ global_timestamp' = global_timestamp + 1

\* A page that is in the pool is pinned once more.
Pinned_Uncounted(frame) == [frame EXCEPT !.last_used = global_timestamp]
Pinned(frame) == [frame EXCEPT !.pin_cnt = @ + 1, !.last_used = global_timestamp]

\* unpin_page on behalf of a guard whose dirty flag is d.
UnpinnedOnce_Overwrites(frame, d) ==
  [frame EXCEPT !.pin_cnt = IF @ > 0 THEN @ - 1 ELSE 0, !.is_dirty = d]
UnpinnedOnce(frame, d) ==
  [frame EXCEPT !.pin_cnt = IF @ > 0 THEN @ - 1 ELSE 0, !.is_dirty = @ \/ d]

UnpinFor(g) ==
  IF Contains(guards[g].page)
  THEN [frames EXCEPT ![page_table[guards[g].page]] =
          UnpinnedOnce(@, guards[g].is_dirty)]
  ELSE frames

\* flush_page of the page in frame f, through pager.write_page.
Flushed_Never(f) == UNCHANGED <<disk, file_pages>>
Flushed_GrowsAlways(f) ==
  IF io_ok /\ Used(f) /\ frames[f].is_dirty
  THEN /\ disk' = [disk EXCEPT ![frames[f].page_id] = frames[f].data]
       /\ file_pages' = file_pages + 1
  ELSE UNCHANGED <<disk, file_pages>>
Flushed(f) ==
  IF io_ok /\ Used(f) /\ frames[f].is_dirty
  THEN /\ disk' = [disk EXCEPT ![frames[f].page_id] = frames[f].data]
       /\ file_pages' = Larger(file_pages, frames[f].page_id + 1)
  ELSE UNCHANGED <<disk, file_pages>>

\* Victim f is taken from the page it holds and given to p.
Remapped_KeepsVictim(f, p) == page_table' = [page_table EXCEPT ![p] = f]
Remapped(f, p) ==
  page_table' = [q \in PageIds |->
                   IF q = p THEN f
                   ELSE IF Used(f) /\ q = frames[f].page_id THEN NoFrame
                   ELSE page_table[q]]

Loaded(p, v) == [page_id |-> p, is_dirty |-> FALSE, pin_cnt |-> 1,
                 last_used |-> global_timestamp, data |-> v]

GuardOn(p, f, d) == [page |-> p, frame |-> f, is_dirty |-> d]

\* pager.read_page into frame f; read past its end, the file leaves the frame
\* what it was (anything at all in a frame never used) and the stream failed.
Reads(f, p, v) ==
  IF io_ok /\ p < file_pages'
  THEN v = disk'[p] /\ UNCHANGED io_ok
  ELSE /\ Used(f) => v = frames[f].data
       /\ io_ok' = FALSE

-----------------------------------------------------------------------------
(* The handlers.  A client names a guard it does not use yet and a page. *)

CanTake(g) == phase = "up" /\ ~Live(g) /\ Tick /\ UNCHANGED phase

\* fetch_page of a page in the pool, as Table::get_page calls it.
FetchHit(g, p) ==
  /\ CanTake(g)
  /\ p \in known /\ Contains(p)
  /\ frames' = [frames EXCEPT ![page_table[p]] = Pinned(@)]
  /\ guards' = [guards EXCEPT ![g] = GuardOn(p, page_table[p], FALSE)]
  /\ UNCHANGED <<page_table, fileVars, known>>

\* fetch_page of a page that must be read from the file.
FetchMiss(g, p) ==
  /\ CanTake(g)
  /\ p \in known /\ ~Contains(p)
  /\ \E f \in Victims, v \in Content :
       /\ Flushed(f)
       /\ Reads(f, p, v)
       /\ Remapped(f, p)
       /\ frames' = [frames EXCEPT ![f] = Loaded(p, v)]
       /\ guards' = [guards EXCEPT ![g] = GuardOn(p, f, FALSE)]
  /\ UNCHANGED known

\* allocate_page and init_new_page, as Table::allocate_new_page calls them,
\* of a page in the pool: one taken from the free list.
AllocateHit(g, p) ==
  /\ CanTake(g)
  /\ p # 0 /\ Contains(p)
  /\ frames' = [frames EXCEPT ![page_table[p]] = [Pinned(@) EXCEPT !.data = Fresh]]
  /\ guards' = [guards EXCEPT ![g] = GuardOn(p, page_table[p], TRUE)]
  /\ known' = known \cup {p}
  /\ UNCHANGED <<page_table, fileVars>>

\* The same of a page that is not in the pool: nothing is read.
AllocateMiss_Clean(g, p) ==
  /\ CanTake(g)
  /\ p # 0 /\ ~Contains(p)
  /\ \E f \in Victims :
       /\ Flushed(f)
       /\ Remapped(f, p)
       /\ frames' = [frames EXCEPT ![f] = Loaded(p, Fresh)]
       /\ guards' = [guards EXCEPT ![g] = GuardOn(p, f, FALSE)]
  /\ known' = known \cup {p}
  /\ UNCHANGED io_ok
AllocateMiss(g, p) ==
  /\ CanTake(g)
  /\ p # 0 /\ ~Contains(p)
  /\ \E f \in Victims :
       /\ Flushed(f)
       /\ Remapped(f, p)
       /\ frames' = [frames EXCEPT ![f] = Loaded(p, Fresh)]
       /\ guards' = [guards EXCEPT ![g] = GuardOn(p, f, TRUE)]
  /\ known' = known \cup {p}
  /\ UNCHANGED io_ok

\* The page is changed through the guard's pointer, the guard marked dirty.
Write(g, v) ==
  /\ Live(g)
  /\ frames' = [frames EXCEPT ![guards[g].frame].data = v]
  /\ guards' = [guards EXCEPT ![g].is_dirty = TRUE]
  /\ UNCHANGED <<page_table, global_timestamp, fileVars, phase, known>>

\* ~PageGuard
Destroy(g) ==
  /\ Live(g)
  /\ frames' = UnpinFor(g)
  /\ guards' = [guards EXCEPT ![g] = NullGuard]
  /\ UNCHANGED <<page_table, global_timestamp, fileVars, phase, known>>

\* PageGuard::operator=(PageGuard &&) and the move constructor (g null).
MoveAssign_Leaks(g, h) ==
  /\ g # h /\ Live(h)
  /\ UNCHANGED frames
  /\ guards' = [guards EXCEPT ![g] = guards[h], ![h] = NullGuard]
  /\ UNCHANGED <<page_table, global_timestamp, fileVars, phase, known>>
MoveAssign(g, h) ==
  /\ g # h /\ Live(h)
  /\ frames' = IF Live(g) THEN UnpinFor(g) ELSE frames
  /\ guards' = [guards EXCEPT ![g] = guards[h], ![h] = NullGuard]
  /\ UNCHANGED <<page_table, global_timestamp, fileVars, phase, known>>

\* .save calls flush_all_pages, and so do .exit and the destructors of Table
\* and BufferPoolManager.  The statement has ended, so its guards are gone.
StartFlushAll ==
  /\ phase = "up" /\ NoGuards
  /\ phase' \in {"saving", "closing"}
  /\ UNCHANGED <<poolVars, fileVars, known>>

\* One turn of its loop, in whatever order page_table is; flush_page throws at
\* a page that is pinned.
FlushPage(p) ==
  /\ phase \in {"saving", "closing"}
  /\ Contains(p) /\ frames[page_table[p]].is_dirty /\ Unpinned(page_table[p])
  /\ Flushed(page_table[p])
  /\ frames' = [frames EXCEPT ![page_table[p]].is_dirty = FALSE]
  /\ UNCHANGED <<page_table, global_timestamp, guards, io_ok, phase, known>>

Saved ==
  /\ phase = "saving" /\ AllFlushed
  /\ phase' = "up"
  /\ UNCHANGED <<poolVars, fileVars, known>>

-----------------------------------------------------------------------------
(* The process starts and dies *)

\* Table::Table finds an empty file and init_file writes its superblock ...
CreateSuperblock ==
  /\ phase = "down" /\ file_pages = 0
  /\ disk' = [disk EXCEPT ![0] = Fresh]
  /\ file_pages' = 1
  /\ known' = {0, 1}
  /\ phase' = "creating"
  /\ UNCHANGED <<poolVars, io_ok>>

\* ... and the empty leaf that is the root.
CreateRoot ==
  /\ phase = "creating"
  /\ disk' = [disk EXCEPT ![1] = Fresh]
  /\ file_pages' = 2
  /\ phase' = "up"
  /\ UNCHANGED <<poolVars, io_ok, known>>

Open ==
  /\ phase = "down" /\ file_pages > 0
  /\ phase' = "up"
  /\ UNCHANGED <<poolVars, fileVars, known>>

\* Memory is gone and nothing of it is written; the file stays, and the next process has
\* an empty pool and a new stream.
Die ==
  /\ frames' = [f \in Frames |-> EmptyFrame]
  /\ page_table' = [p \in PageIds |-> NoFrame]
  /\ global_timestamp' = 1
  /\ guards' = [g \in Guards |-> NullGuard]
  /\ io_ok' = TRUE
  /\ phase' = "down"
  /\ UNCHANGED <<disk, file_pages>>

\* The process ends after its last flush.
Exit ==
  /\ phase = "closing" /\ AllFlushed
  /\ Die
  /\ UNCHANGED known

\* The process is killed from outside; what reached the file names only pages that did.
Crash ==
  /\ phase # "down"
  /\ Die
  /\ known' = {p \in known : p < file_pages}

\* find_victim_frame throws, for a page that is fetched or one that is allocated; nobody
\* catches, the process terminates.
OutOfFrames(g, p) ==
  /\ phase = "up" /\ ~Live(g)
  /\ p \in known \/ p # 0
  /\ ~Contains(p) /\ Victims = {}
  /\ Die
  /\ known' = {q \in known : q < file_pages}

\* The process is killed; a page that reached the file may name one that did
\* not.  Nothing in the code rules it out.
TornCrash ==
  /\ phase # "down"
  /\ Die
  /\ UNCHANGED known

Next ==
  \/ \E g \in Guards, p \in PageIds :
       \/ FetchHit(g, p)
       \/ FetchMiss(g, p)
       \/ AllocateHit(g, p)
       \/ AllocateMiss(g, p)
       \/ OutOfFrames(g, p)
  \/ \E g \in Guards, v \in Content : Write(g, v)
  \/ \E g \in Guards : Destroy(g)
  \/ \E g, h \in Guards : MoveAssign(g, h)
  \/ StartFlushAll
  \/ \E p \in PageIds : FlushPage(p)
  \/ Saved
  \/ Exit
  \/ CreateSuperblock
  \/ CreateRoot
  \/ Open
  \/ Crash

Spec == Init /\ [][Next]_vars

TornNext == Next \/ TornCrash
TornSpec == Init /\ [][TornNext]_vars

-----------------------------------------------------------------------------
(* Properties *)

TypeOK ==
  /\ frames \in [Frames -> Frame]
  /\ page_table \in [PageIds -> Frames \cup {NoFrame}]
  /\ global_timestamp \in 1 .. MAX_TIME
  /\ guards \in [Guards -> Guard]
  /\ phase \in {"down", "creating", "up", "saving", "closing"}
  /\ disk \in [PageIds -> Content]
  /\ file_pages \in 0 .. PAGES
  /\ io_ok \in BOOLEAN
  /\ known \in SUBSET PageIds

(* A page is in at most one frame, and the page table finds it there: no   *)
(* entry outlives the eviction of its page (buffer_pool_manager.cpp:42-65).*)
PageTableExact ==
  /\ \A p \in PageIds : Contains(p) =>
       Used(page_table[p]) /\ frames[page_table[p]].page_id = p
  /\ \A f \in Frames : Used(f) => page_table[frames[f].page_id] = f

(* The Page* a guard was given at its creation still points at the page it *)
(* names: no eviction, however old the guard, reuses its frame.            *)
GuardsPointToTheirPage ==
  \A g \in Guards : Live(g) =>
    Contains(guards[g].page) /\ page_table[guards[g].page] = guards[g].frame

(* pin_cnt is the number of guards alive on the page, through moves and    *)
(* destructions in any order; so between statements nothing is pinned and  *)
(* flush_all_pages does not throw.                                         *)
PinsCountGuards ==
  \A f \in Frames : frames[f].pin_cnt =
    IF Used(f) THEN Cardinality(Holders(frames[f].page_id)) ELSE 0

(* A page the pool believes clean, with no guard that will report a change *)
(* is in the file as it is in memory, so it can be dropped unwritten.      *)
CleanPagesMatchDisk ==
  io_ok => \A p \in PageIds :
    \/ ~Contains(p)
    \/ frames[page_table[p]].is_dirty
    \/ \E g \in Guards : guards[g].page = p /\ guards[g].is_dirty
    \/ p < file_pages /\ disk[p] = frames[page_table[p]].data

(* A page the client may ask for is in the pool or in the file: the stream *)
(* is never driven past its end, whatever was evicted in which order.      *)
KnownPagesReadable ==
  phase = "up" => io_ok /\ \A p \in known : Contains(p) \/ p < file_pages

(* Frames in use have different timestamps, all in the past: the frame     *)
(* used longest ago is unique.                                             *)
RecencyDistinct ==
  \A e, f \in Frames : Used(f) =>
    /\ frames[f].last_used < global_timestamp
    /\ e # f => frames[e].last_used # frames[f].last_used

(* "Out of memory" is thrown only when POOL_SIZE pages are guarded.        *)
ThrowsOnlyWhenAllGuarded ==
  Victims = {} =>
    Cardinality({guards[g].page : g \in {h \in Guards : Live(h)}}) >= POOL_SIZE

(* .save and .exit are durable: when the last page has been flushed, in     *)
(* whatever order and after whatever evictions, the file holds every page  *)
(* as the client sees it (main.cpp:97 "Data flushed to disc.").            *)
FlushAllIsDurable ==
  [][Saved \/ Exit => \A p \in known : disk[p] = View(p)]_vars

(* A page that flush_page marks clean has been written to the file.        *)
FlushReachesFile ==
  [][\A p \in PageIds : FlushPage(p) => disk'[p] = View(p)]_vars

(* The pool implements the page memory of PageStore.                       *)
Store == INSTANCE PageStore WITH mem <- [p \in PageIds |-> View(p)]
ImplementsPageStore == Store!Spec
=============================================================================
