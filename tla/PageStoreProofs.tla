-------------------------- MODULE PageStoreProofs --------------------------
(***************************************************************************)
(* More about BufferPool, for every number of frames, pages and guards:    *)
(* when it runs out of frames, that it never loses a page, and that it     *)
(* implements PageStore.                                                   *)
(***************************************************************************)
EXTENDS BufferPoolProofs, WellFoundedInduction

USE DEF Frames, PageIds, NoFrame, NoPage, Contains, Live, Used

-----------------------------------------------------------------------------
(* Running out of frames *)

LEMMA LeastNumber ==
  ASSUME NEW T \in SUBSET Nat, T # {}
  PROVE  \E x \in T : \A y \in T : x <= y
<1>1. PICK x \in T : \A y \in T : ~(<<y, x>> \in OpToRel(<, Nat))
  BY NatLessThanWellFounded, WFMin
<1>2. \A y \in T : ~(y < x)
  BY <1>1 DEF OpToRel
<1> QED
  BY <1>2

\* The search fails only if every frame is in use and pinned.
LEMMA NoVictim ==
  ASSUME TypeOK, Victims = {}, NEW f \in Frames
  PROVE  Used(f) /\ frames[f].pin_cnt > 0
<1>1. ASSUME NEW e \in Frames, ~Used(e) PROVE FALSE
  <2> DEFINE T == {n \in Frames : ~Used(n)}
  <2>1. T \in SUBSET Nat /\ T # {}
    BY <1>1, PoolAssumption
  <2>2. PICK n \in T : \A m \in T : n <= m
    BY <2>1, LeastNumber
  <2>3. \A m \in 0 .. n - 1 : m \in Frames /\ ~(n <= m)
    BY <2>2, PoolAssumption
  <2>4. n \in Victims
    BY <1>1, <2>2, <2>3 DEF Victims
  <2> QED
    BY <2>4
<1>2. ASSUME NEW e \in Frames, Unpinned(e) PROVE FALSE
  <2> DEFINE T == {frames[n].last_used : n \in {m \in Frames : Unpinned(m)}}
  <2>1. T \in SUBSET Nat /\ T # {}
    BY <1>2 DEF TypeOK, Frame
  <2>2. PICK t \in T : \A u \in T : t <= u
    BY <2>1, LeastNumber
  <2>3. PICK n \in Frames : Unpinned(n) /\ frames[n].last_used = t
    BY <2>2
  <2>4. n \in Victims
    BY <1>1, <2>2, <2>3 DEF Victims
  <2> QED
    BY <2>4
<1>3. frames[f].pin_cnt \in Nat
  BY FrameTypes
<1> QED
  BY <1>1, <1>2, <1>3 DEF Unpinned

\* Every frame then has a page of its own, and each of them a guard.
LEMMA AllGuarded == IInv => ThrowsOnlyWhenAllGuarded
<1> SUFFICES ASSUME IInv, Victims = {}
             PROVE  Cardinality({guards[g].page : g \in {h \in Guards : Live(h)}}) >= POOL_SIZE
  BY DEF ThrowsOnlyWhenAllGuarded
<1> USE DEF IInv
<1> DEFINE L == {guards[g].page : g \in {h \in Guards : Live(h)}}
           m == [f \in Frames |-> frames[f].page_id]
<1>1. ASSUME NEW f \in Frames PROVE m[f] \in L
  <2>1. Used(f) /\ frames[f].pin_cnt > 0
    BY NoVictim
  <2>2. Cardinality(HoldersIn(guards, frames[f].page_id)) > 0
    BY <2>1 DEF PinsCountGuards, Holders, HoldersIn
  <2>3. HoldersIn(guards, frames[f].page_id) # {}
    BY <2>2, FS_EmptySet
  <2>4. PICK g \in Guards : guards[g].page = frames[f].page_id
    BY <2>3 DEF HoldersIn
  <2> QED
    BY <2>4, FrameTypes
<1>2. \A e, f \in Frames : m[e] = m[f] => e = f
  BY NoVictim, FramePages
<1>3. m \in Injection(Frames, L)
  BY <1>1, <1>2 DEF Injection, IsInjective
<1>4. IsFiniteSet(L)
  <2>1. L \in SUBSET PageIds
    BY DEF TypeOK, Guard
  <2>2. IsFiniteSet(PageIds)
    BY PagesAssumption, FS_Interval
  <2> QED
    BY <2>1, <2>2, FS_Subset
<1>5. Cardinality(Frames) = POOL_SIZE
  BY PoolAssumption, FS_Interval
<1>6. Cardinality(Frames) <= Cardinality(L)
  BY <1>3, <1>4, FS_Injection
<1>7. Cardinality(L) \in Nat
  BY <1>4, FS_CardinalityType
<1> QED
  BY <1>5, <1>6, <1>7, PoolAssumption

(* "Out of memory" is thrown only when as many pages as there are frames   *)
(* are guarded at once (buffer_pool_manager.cpp:38).                       *)
THEOREM ThrowsCorrect == TornSpec => []ThrowsOnlyWhenAllGuarded
BY AllGuarded, Invariance, PTL

-----------------------------------------------------------------------------
(* The file *)

(* Beyond its end the file is holes; the superblock comes before the root; *)
(* and a page the client may ask for is in the pool, or in the file, which *)
(* is all there is of it while the process is down.                        *)
Holes == \A p \in PageIds : p >= file_pages => disk[p] = Zeros
Reachable(p) == (phase # "down" /\ Contains(p)) \/ p < file_pages

(* With IInv, the inductive invariant of Spec.  TornSpec does not keep it. *)
FileInv ==
  /\ io_ok
  /\ Holes
  /\ phase = "creating" => file_pages = 1 /\ known \subseteq {0, 1}
  /\ phase # "creating" => \A p \in known : Reachable(p)

LEMMA FlushedKeepsHoles ==
  ASSUME TypeOK, TypeOK', Holes, NEW f \in Frames, Flushed(f)
  PROVE  Holes'
<1>1. /\ file_pages \in Nat /\ file_pages' \in Nat /\ file_pages' >= file_pages
      /\ \A q \in PageIds : q # frames[f].page_id => disk'[q] = disk[q]
      /\ \/ frames[f].page_id < file_pages'
         \/ disk' = disk /\ file_pages' = file_pages
  BY FlushedEffect, PagesAssumption DEF TypeOK
<1>2. ASSUME NEW q \in PageIds, q >= file_pages' PROVE disk'[q] = Zeros
  <2>1. q >= file_pages
    BY <1>1, <1>2, PagesAssumption
  <2>2. q # frames[f].page_id \/ disk' = disk
    BY <1>1, <1>2, PagesAssumption
  <2> QED
    BY <1>1, <2>1, <2>2 DEF Holes
<1> QED
  BY <1>2 DEF Holes

\* A frame about to be reused holds what the file holds, after the flush.
LEMMA VictimWritten ==
  ASSUME IInv, io_ok, NEW f \in Victims, Used(f), Flushed(f)
  PROVE  /\ frames[f].page_id < file_pages'
         /\ disk'[frames[f].page_id] = frames[f].data
<1> USE DEF IInv
<1> DEFINE q == frames[f].page_id
<1>1. f \in Frames /\ q \in PageIds
  BY VictimInFrames, FrameTypes
<1>2. page_table[q] = f /\ f # NoFrame
  BY <1>1, PoolAssumption DEF PageTableExact
<1>3. ~ \E g \in Guards : guards[g].page = q
  BY VictimUnguarded
<1>4. frames[f].is_dirty \/ (q < file_pages /\ disk[q] = frames[f].data)
  BY <1>1, <1>2, <1>3 DEF CleanPagesMatchDisk
<1>5. IF io_ok /\ Used(f) /\ frames[f].is_dirty
      THEN q < file_pages' /\ disk'[q] = frames[f].data
      ELSE disk' = disk /\ file_pages' = file_pages
  BY <1>1, FlushedEffect
<1> QED
  BY <1>4, <1>5, Zenon

\* What a miss does to the file and to the stream, when nothing has failed yet.
LEMMA MissFile ==
  ASSUME IInv, FileInv, NEW g \in Guards, NEW p \in PageIds, Miss(g, p)
  PROVE  \E f \in Victims :
           /\ f \in Frames /\ ~Contains(p) /\ Flushed(f) /\ Remapped(f, p)
           /\ io_ok' /\ phase = "up" /\ phase' = "up"
           /\ known' \subseteq known \cup {p}
           /\ frames'[f].data \in Content
           /\ \A e \in Frames \ {f} : frames'[e] = frames[e]
           /\ FetchMiss(g, p) => frames'[f].data = disk'[p]
<1> USE DEF IInv
<1>1. CASE FetchMiss(g, p)
  <2>1. PICK f \in Victims, v \in Content :
          /\ Flushed(f) /\ Reads(f, p, v) /\ Remapped(f, p)
          /\ frames' = [frames EXCEPT ![f] = Loaded(p, v)]
    BY <1>1 DEF FetchMiss
  <2>2. f \in Frames
    BY VictimInFrames
  <2>3. /\ frames'[f].data = v /\ \A e \in Frames \ {f} : frames'[e] = frames[e]
    BY <2>1, <2>2 DEF TypeOK, Loaded
  <2>4. /\ p \in known /\ ~Contains(p) /\ phase = "up" /\ phase' = "up" /\ known' = known
    BY <1>1 DEF FetchMiss, CanTake
  <2>5. p < file_pages
    BY <2>4 DEF FileInv, Reachable
  <2>6. p < file_pages'
    <3>1. file_pages' >= file_pages /\ file_pages \in Nat /\ file_pages' \in Nat
      BY <2>1, <2>2, TypeFlushed, FlushedEffect, PagesAssumption DEF TypeOK
    <3> QED
      BY <2>5, <3>1, PagesAssumption
  <2>7. v = disk'[p] /\ io_ok'
    BY <2>1, <2>6 DEF Reads, FileInv
  <2> QED
    BY <2>1, <2>2, <2>3, <2>4, <2>7
<1>2. CASE AllocateMiss(g, p) /\ ~FetchMiss(g, p)
  <2>1. PICK f \in Victims :
          /\ Flushed(f) /\ Remapped(f, p)
          /\ frames' = [frames EXCEPT ![f] = Loaded(p, Fresh)]
    BY <1>2 DEF AllocateMiss
  <2>2. f \in Frames
    BY VictimInFrames
  <2>3. /\ frames'[f].data = Fresh /\ \A e \in Frames \ {f} : frames'[e] = frames[e]
    BY <2>1, <2>2 DEF TypeOK, Loaded
  <2>4. /\ ~Contains(p) /\ phase = "up" /\ phase' = "up" /\ known' = known \cup {p}
        /\ io_ok'
    BY <1>2 DEF AllocateMiss, CanTake, FileInv
  <2> QED
    BY <1>2, <2>1, <2>2, <2>3, <2>4, ContentAssumption
<1> QED
  BY <1>1, <1>2 DEF Miss
LEMMA FileInit == Init => FileInv
BY DEF Init, FileInv, Holes, Reachable

LEMMA FileStep ==
  ASSUME IInv, FileInv, TypeOK', [Next]_vars
  PROVE  FileInv'
<1> USE DEF IInv
<1>0. file_pages \in Nat /\ file_pages' \in Nat
  BY PagesAssumption DEF TypeOK
<1>1. ASSUME NEW g \in Guards, NEW p \in PageIds, Hit(g, p) PROVE FileInv'
  <2>1. /\ phase = "up" /\ phase' = "up" /\ page_table' = page_table
        /\ disk' = disk /\ file_pages' = file_pages /\ io_ok' = io_ok
        /\ page_table[p] \in Frames
    BY <1>1, HitEffect
  <2>2. known' \subseteq known \cup {p} /\ page_table[p] # NoFrame
    BY <1>1 DEF Hit, FetchHit, AllocateHit
  <2> QED
    BY <2>1, <2>2 DEF FileInv, Holes, Reachable
<1>2. ASSUME NEW g \in Guards, NEW p \in PageIds, Miss(g, p) PROVE FileInv'
  <2>1. PICK f \in Victims :
          /\ f \in Frames /\ ~Contains(p) /\ Flushed(f) /\ Remapped(f, p)
          /\ io_ok' /\ phase = "up" /\ phase' = "up"
          /\ known' \subseteq known \cup {p}
    BY <1>2, MissFile
  <2>2. Holes'
    BY <2>1, FlushedKeepsHoles DEF FileInv
  <2>3. ASSUME NEW q \in known' PROVE page_table'[q] # NoFrame \/ q < file_pages'
    <3>1. q \in PageIds
      BY DEF TypeOK
    <3>2. CASE q = p
      BY <2>1, <3>2, RemappedEffect, PoolAssumption
    <3>3. CASE Used(f) /\ q = frames[f].page_id
      BY <2>1, <3>3, VictimWritten DEF FileInv
    <3>4. CASE q # p /\ ~(Used(f) /\ q = frames[f].page_id)
      <4>1. page_table'[q] = page_table[q] /\ file_pages' >= file_pages
        BY <2>1, <3>1, <3>4, RemappedEffect, FlushedEffect
      <4>2. page_table[q] # NoFrame \/ q < file_pages
        BY <2>1, <3>4 DEF FileInv, Reachable
      <4> QED
        BY <1>0, <3>1, <4>1, <4>2, PagesAssumption
    <3> QED
      BY <3>2, <3>3, <3>4
  <2> QED
    BY <2>1, <2>2, <2>3 DEF FileInv, Reachable
\* Steps that change neither the page table nor the file.
<1>3. ASSUME page_table' = page_table, UNCHANGED <<fileVars, phase, known>>
      PROVE  FileInv'
  BY <1>3 DEF fileVars, FileInv, Holes, Reachable
<1>4. ASSUME NEW g \in Guards, NEW v \in Content, Write(g, v) PROVE FileInv'
  BY <1>3, <1>4 DEF Write
<1>5. ASSUME NEW g \in Guards, Destroy(g) PROVE FileInv'
  BY <1>3, <1>5 DEF Destroy
<1>6. ASSUME NEW g \in Guards, NEW h \in Guards, MoveAssign(g, h) PROVE FileInv'
  BY <1>3, <1>6 DEF MoveAssign
<1>7. ASSUME NEW p \in PageIds, FlushPage(p) PROVE FileInv'
  <2>1. /\ page_table[p] \in Frames /\ Flushed(page_table[p])
        /\ page_table' = page_table /\ io_ok' = io_ok
        /\ phase' = phase /\ known' = known /\ phase \in {"saving", "closing"}
    BY <1>7 DEF FlushPage, TypeOK
  <2>2. Holes'
    BY <2>1, FlushedKeepsHoles DEF FileInv
  <2>3. file_pages' >= file_pages
    BY <2>1, FlushedEffect
  <2>4. ASSUME NEW q \in known' PROVE page_table'[q] # NoFrame \/ q < file_pages'
    <3>1. q \in Nat /\ (page_table[q] # NoFrame \/ q < file_pages)
      BY <2>1, PagesAssumption DEF FileInv, Reachable, TypeOK
    <3> QED
      BY <1>0, <2>1, <2>3, <3>1
  <2> QED
    BY <2>1, <2>2, <2>4 DEF FileInv, Reachable
<1>8. CASE StartFlushAll \/ Saved
  BY <1>8 DEF StartFlushAll, Saved, poolVars, fileVars, FileInv, Holes, Reachable
<1>9. CASE Exit
  <2>1. ASSUME NEW p \in known PROVE p < file_pages
    <3>1. p \in PageIds /\ phase = "closing" /\ NoGuards /\ io_ok
      BY <1>9 DEF Exit, Quiet, TypeOK, FileInv
    <3>2. CASE Contains(p)
      <4>1. ~frames[page_table[p]].is_dirty
        BY <1>9, <3>1, <3>2 DEF Exit, AllFlushed
      <4>2. ~ \E g \in Guards : guards[g].page = p
        BY <3>1, PagesAssumption DEF NoGuards
      <4> QED
        BY <3>1, <3>2, <4>1, <4>2 DEF CleanPagesMatchDisk
    <3>3. CASE ~Contains(p)
      BY <3>1, <3>3 DEF FileInv, Reachable
    <3> QED
      BY <3>2, <3>3
  <2> QED
    BY <1>9, <2>1 DEF Exit, Die, FileInv, Holes, Reachable
<1>10. CASE Crash \/ \E g \in Guards, p \in PageIds : OutOfFrames(g, p)
  BY <1>10 DEF Crash, OutOfFrames, Die, FileInv, Holes, Reachable
<1>11. CASE CreateSuperblock
  BY <1>11, PagesAssumption DEF CreateSuperblock, FileInv, Holes, TypeOK
<1>12. CASE CreateRoot
  BY <1>12, PagesAssumption DEF CreateRoot, FileInv, Holes, Reachable, TypeOK
<1>13. CASE Open
  BY <1>13 DEF Open, poolVars, fileVars, FileInv, Holes, Reachable
<1>14. CASE UNCHANGED vars
  BY <1>3, <1>14 DEF vars, poolVars
<1> QED
  BY <1>1, <1>2, <1>4, <1>5, <1>6, <1>7, <1>8, <1>9, <1>10, <1>11, <1>12, <1>13,
     <1>14 DEF Next, Hit, Miss

LEMMA FileInvariance == Spec => []FileInv
<1>1. [Next]_vars => [TornNext]_vars
  BY DEF TornNext
<1>2. IInv /\ FileInv /\ [Next]_vars => FileInv'
  BY <1>1, FileStep, InvStep DEF IInv
<1> QED
  BY <1>2, FileInit, Invariance, SpecIsTornSpec, PTL DEF Spec

(* Whatever is evicted in whatever order, a page the tree may ask for is   *)
(* in the pool or in the file, and the stream is never driven past the     *)
(* file's end (pager.cpp:17), as long as a crash leaves in the file no     *)
(* number of a page that is not in it.                                     *)
THEOREM KnownPagesCorrect == Spec => []KnownPagesReadable
<1>1. FileInv => KnownPagesReadable
  BY DEF FileInv, Reachable, KnownPagesReadable
<1> QED
  BY <1>1, FileInvariance, PTL

(* .save and .exit return with every page of the client in the file        *)
(* (buffer_pool_manager.cpp:114).                                          *)
THEOREM FlushAllCorrect == Spec => FlushAllIsDurable
<1>1. IInv /\ FileInv => (Saved \/ Exit => \A p \in known : disk[p] = View(p))
  <2> SUFFICES ASSUME IInv, FileInv, Saved \/ Exit, NEW p \in known, Contains(p)
               PROVE  disk[p] = frames[page_table[p]].data
    BY DEF View
  <2>1. p \in PageIds /\ NoGuards /\ io_ok
    BY DEF Saved, Exit, IInv, Quiet, TypeOK, FileInv
  <2>2. ~frames[page_table[p]].is_dirty
    BY <2>1 DEF Saved, Exit, AllFlushed
  <2>3. ~ \E g \in Guards : guards[g].page = p
    BY <2>1, PagesAssumption DEF NoGuards
  <2> QED
    BY <2>1, <2>2, <2>3 DEF IInv, CleanPagesMatchDisk
<1> QED
  BY <1>1, Invariance, FileInvariance, SpecIsTornSpec, PTL DEF FlushAllIsDurable

-----------------------------------------------------------------------------
(* The memory of pages *)

Mem == [p \in PageIds |-> View(p)]

LEMMA StoreInit == Init => Store!Init
BY DEF Init, EmptyPool, Store!Init, View

\* Neither the file nor what a client would see changes.
LEMMA Unseen ==
  ASSUME disk' = disk, \A p \in PageIds : View(p)' = View(p)
  PROVE  UNCHANGED Store!vars
BY DEF Store!vars

\* The same, when no page moves.
LEMMA UnseenInPlace ==
  ASSUME TypeOK, disk' = disk, page_table' = page_table,
         \A f \in Frames : frames'[f].data = frames[f].data
  PROVE  UNCHANGED Store!vars
<1>1. ASSUME NEW p \in PageIds PROVE View(p)' = View(p)
  BY DEF View, TypeOK
<1> QED
  BY <1>1, Unseen

\* A client changes a page that is in the pool.
LEMMA WrittenInPlace ==
  ASSUME IInv, NEW p \in PageIds, NEW v \in Content,
         page_table[p] \in Frames, page_table' = page_table, disk' = disk,
         frames'[page_table[p]].data = v,
         \A f \in Frames \ {page_table[p]} : frames'[f].data = frames[f].data
  PROVE  Store!Write(p, v)
<1> USE DEF IInv
<1>0. page_table[p] # NoFrame
  BY PoolAssumption
<1>1. ASSUME NEW q \in PageIds PROVE View(q)' = IF q = p THEN v ELSE View(q)
  <2>1. CASE q = p
    BY <1>0, <2>1 DEF View
  <2>2. CASE q # p /\ page_table[q] = NoFrame
    BY <2>2 DEF View
  <2>3. CASE q # p /\ page_table[q] # NoFrame
    <3>1. page_table[q] \in Frames \ {page_table[p]}
      BY <1>0, <2>3 DEF TypeOK, PageTableExact
    <3> QED
      BY <2>3, <3>1 DEF View
  <2> QED
    BY <2>1, <2>2, <2>3
<1>2. [q \in PageIds |-> View(q)]' = [Mem EXCEPT ![p] = v]
  BY <1>1 DEF Mem
<1>3. disk' = [q \in PageIds |-> IF q \in {} THEN Mem[q] ELSE disk[q]]
  BY DEF TypeOK
<1>4. Store!WriteBack({})
  BY <1>3 DEF Store!WriteBack, Mem
<1> QED
  BY <1>2, <1>4 DEF Store!Write, Mem

\* Frame f is given to p: the page that was in it is as it was, and the file
\* has at most that page newly written.
LEMMA Evicted ==
  ASSUME IInv, FileInv, NEW f \in Victims, NEW p \in PageIds,
         ~Contains(p), Flushed(f), Remapped(f, p),
         \A e \in Frames \ {f} : frames'[e] = frames[e]
  PROVE  /\ \A q \in PageIds \ {p} : View(q)' = View(q)
         /\ \E S \in SUBSET (PageIds \ {p}) : Store!WriteBack(S)
         /\ disk'[p] = View(p)
         /\ View(p)' = frames'[f].data
<1> USE DEF IInv
<1> DEFINE r == frames[f].page_id
<1>0. f \in Frames /\ f # NoFrame /\ r \in PageIds
  BY VictimInFrames, FrameTypes, PoolAssumption
<1>1. /\ page_table'[p] = f
      /\ \A q \in PageIds \ {p} :
           IF Used(f) /\ q = r THEN page_table'[q] = NoFrame
           ELSE page_table'[q] = page_table[q] /\ page_table[q] # f
  BY <1>0, RemappedEffect
<1>2. Used(f) => r # p /\ page_table[r] = f
  BY <1>0 DEF PageTableExact
<1>3. Used(f) => disk'[r] = frames[f].data
  BY VictimWritten DEF FileInv
<1>4. \A q \in PageIds : ~(Used(f) /\ q = r) => disk'[q] = disk[q]
  BY <1>0, FlushedEffect
<1>5. ASSUME NEW q \in PageIds \ {p} PROVE View(q)' = View(q)
  <2>1. CASE Used(f) /\ q = r
    BY <1>0, <1>1, <1>2, <1>3, <2>1 DEF View
  <2>2. CASE ~(Used(f) /\ q = r) /\ page_table[q] = NoFrame
    BY <1>1, <1>4, <2>2 DEF View
  <2>3. CASE ~(Used(f) /\ q = r) /\ page_table[q] # NoFrame
    <3>1. page_table'[q] = page_table[q] /\ page_table[q] \in Frames \ {f}
      BY <1>1, <2>3 DEF TypeOK
    <3> QED
      BY <2>3, <3>1 DEF View
  <2> QED
    BY <2>1, <2>2, <2>3
<1>6. \E S \in SUBSET (PageIds \ {p}) : Store!WriteBack(S)
  <2> DEFINE S == IF Used(f) THEN {r} ELSE {}
  <2>1. S \in SUBSET (PageIds \ {p})
    BY <1>0, <1>2
  <2>2. ASSUME NEW q \in PageIds PROVE disk'[q] = IF q \in S THEN View(q) ELSE disk[q]
    BY <1>0, <1>2, <1>3, <1>4 DEF View
  <2>3. disk' \in [PageIds -> Content]
    BY <1>0, TypeFlushed
  <2>4. disk' = [q \in PageIds |-> IF q \in S THEN Mem[q] ELSE disk[q]]
    BY <2>2, <2>3 DEF Mem
  <2> QED
    BY <2>1, <2>4 DEF Store!WriteBack, Mem
<1>7. disk'[p] = View(p)
  BY <1>2, <1>4 DEF View
<1>8. View(p)' = frames'[f].data
  BY <1>0, <1>1 DEF View
<1> QED
  BY <1>5, <1>6, <1>7, <1>8

LEMMA StoreStep ==
  ASSUME IInv, FileInv, [Next]_vars
  PROVE  [Store!Next]_(Store!vars)
<1> USE DEF IInv
<1>0. TypeOK' /\ IInv'
  BY TypeStep, InvStep DEF TornNext
<1>1. ASSUME NEW g \in Guards, NEW p \in PageIds, FetchHit(g, p)
      PROVE  UNCHANGED Store!vars
  <2>1. \A f \in Frames : frames'[f].data = frames[f].data
    BY <1>1 DEF FetchHit, Pinned, TypeOK, Frame
  <2> QED
    BY <1>1, <2>1, UnseenInPlace DEF FetchHit, fileVars
<1>2. ASSUME NEW g \in Guards, NEW p \in PageIds, FetchMiss(g, p)
      PROVE  Store!Next
  <2>1. PICK f \in Victims :
          /\ f \in Frames /\ ~Contains(p) /\ Flushed(f) /\ Remapped(f, p)
          /\ \A e \in Frames \ {f} : frames'[e] = frames[e]
          /\ frames'[f].data = disk'[p]
    BY <1>2, MissFile DEF Miss
  <2>2. /\ \A q \in PageIds : View(q)' = View(q)
        /\ \E S \in SUBSET (PageIds \ {p}) : Store!WriteBack(S)
    BY <2>1, Evicted
  <2> QED
    BY <2>2 DEF Store!Next, Store!Persist
<1>3. ASSUME NEW g \in Guards, NEW p \in PageIds, AllocateHit(g, p)
      PROVE  Store!Next
  <2>1. /\ page_table[p] \in Frames /\ page_table' = page_table /\ disk' = disk
        /\ \A f \in Frames \ {page_table[p]} : frames'[f].data = frames[f].data
    BY <1>0, <1>3, HitEffect DEF Hit
  <2>2. frames'[page_table[p]].data = Fresh
    <3>1. Pinned(frames[page_table[p]]) \in Frame
      BY <2>1, TypePinned DEF TypeOK
    <3> QED
      BY <1>3, <2>1, <3>1 DEF AllocateHit, TypeOK, Frame
  <2> QED
    BY <2>1, <2>2, WrittenInPlace, ContentAssumption DEF Store!Next
<1>4. ASSUME NEW g \in Guards, NEW p \in PageIds, AllocateMiss(g, p)
      PROVE  Store!Next
  <2>1. PICK f \in Victims :
          /\ Flushed(f) /\ Remapped(f, p) /\ ~Contains(p)
          /\ frames' = [frames EXCEPT ![f] = Loaded(p, Fresh)]
    BY <1>4 DEF AllocateMiss
  <2>2. f \in Frames
    BY VictimInFrames
  <2>3. frames'[f].data = Fresh /\ \A e \in Frames \ {f} : frames'[e] = frames[e]
    BY <2>1, <2>2 DEF Loaded, TypeOK
  <2>4. /\ \A q \in PageIds : View(q)' = IF q = p THEN Fresh ELSE View(q)
        /\ \E S \in SUBSET (PageIds \ {p}) : Store!WriteBack(S)
    BY <2>1, <2>3, Evicted
  <2>5. [q \in PageIds |-> View(q)]' = [Mem EXCEPT ![p] = Fresh]
    BY <2>4 DEF Mem
  <2>6. Store!Write(p, Fresh)
    BY <2>4, <2>5 DEF Store!Write, Mem
  <2> QED
    BY <2>6, ContentAssumption DEF Store!Next
<1>5. ASSUME NEW g \in Guards, NEW v \in Content, Write(g, v)
      PROVE  Store!Next
  <2>1. guards[g].page \in PageIds /\ page_table[guards[g].page] = guards[g].frame
        /\ guards[g].frame \in Frames
    BY <1>5, UnpinEffect DEF Write
  <2>2. /\ page_table' = page_table /\ disk' = disk
        /\ frames'[guards[g].frame].data = v
        /\ \A f \in Frames \ {guards[g].frame} : frames'[f].data = frames[f].data
    BY <1>5, <2>1 DEF Write, fileVars, TypeOK, Frame
  <2> QED
    BY <2>1, <2>2, WrittenInPlace DEF Store!Next
<1>6. ASSUME NEW g \in Guards, Live(g), frames' = UnpinFor(g)
      PROVE  \A f \in Frames : frames'[f].data = frames[f].data
  BY <1>6, UnpinEffect, UnpinnedOnceEffect DEF TypeOK, Guard
<1>7. ASSUME NEW g \in Guards, Destroy(g) PROVE UNCHANGED Store!vars
  BY <1>6, <1>7, UnseenInPlace DEF Destroy, fileVars
<1>8. ASSUME NEW g \in Guards, NEW h \in Guards, MoveAssign(g, h)
      PROVE  UNCHANGED Store!vars
  BY <1>6, <1>8, UnseenInPlace DEF MoveAssign, fileVars
<1>9. ASSUME NEW p \in PageIds, FlushPage(p) PROVE Store!Next
  <2> DEFINE f == page_table[p]
  <2>1. /\ f \in Frames /\ Contains(p) /\ frames[f].is_dirty /\ Flushed(f)
        /\ page_table' = page_table
        /\ frames' = [frames EXCEPT ![f].is_dirty = FALSE]
    BY <1>9 DEF FlushPage, TypeOK
  <2>2. frames[f].page_id = p /\ Used(f) /\ io_ok
    BY <2>1 DEF PageTableExact, FileInv
  <2>3. \A e \in Frames : frames'[e].data = frames[e].data
    BY <2>1 DEF TypeOK, Frame
  <2>4. disk'[p] = View(p) /\ \A q \in PageIds \ {p} : disk'[q] = disk[q]
    BY <2>1, <2>2, FlushedEffect DEF View
  <2>5. ASSUME NEW q \in PageIds PROVE View(q)' = View(q)
    <3>1. CASE page_table[q] = NoFrame
      BY <2>1, <2>4, <3>1 DEF View
    <3>2. CASE page_table[q] # NoFrame
      BY <2>1, <2>3, <3>2 DEF View, TypeOK
    <3> QED
      BY <3>1, <3>2
  <2>6. disk' = [q \in PageIds |-> IF q \in {p} THEN Mem[q] ELSE disk[q]]
    BY <1>0, <2>4 DEF Mem, TypeOK
  <2> QED
    BY <2>5, <2>6 DEF Store!Next, Store!Persist, Store!WriteBack, Mem
<1>10. CASE StartFlushAll \/ Saved \/ Open \/ UNCHANGED vars
  BY <1>10, UnseenInPlace DEF StartFlushAll, Saved, Open, vars, poolVars, fileVars
<1>11. CASE Dies
  <2>1. disk' = disk /\ \A p \in PageIds : page_table'[p] = NoFrame
    BY <1>11, DiesIsDie, DieEffect DEF Die
  <2>2. [p \in PageIds |-> View(p)]' = disk
    BY <2>1 DEF View, TypeOK
  <2> QED
    BY <2>1, <2>2 DEF Store!Next, Store!Crash
\* The two pages of a new database.
<1>12. ASSUME NEW p \in PageIds, disk[p] = Zeros, disk' = [disk EXCEPT ![p] = Fresh],
              UNCHANGED poolVars, \A f \in Frames : ~Used(f)
       PROVE  Store!Create(p, Fresh)
  <2>1. \A q \in PageIds : page_table[q] = NoFrame /\ page_table'[q] = NoFrame
    BY <1>12 DEF PageTableExact, TypeOK, poolVars
  <2>2. [q \in PageIds |-> View(q)]' = [Mem EXCEPT ![p] = Fresh] /\ Mem[p] = Zeros
    BY <1>12, <2>1 DEF View, Mem, TypeOK
  <2> QED
    BY <1>12, <2>2 DEF Store!Create, Mem
<1>13. ASSUME CreateSuperblock PROVE Store!Next
  <2>1. 0 \in PageIds /\ disk[0] = Zeros
    BY <1>13, PagesAssumption DEF CreateSuperblock, FileInv, Holes
  <2> QED
    BY <1>12, <1>13, <2>1, ContentAssumption DEF CreateSuperblock, Quiet, Store!Next
<1>14. ASSUME CreateRoot PROVE Store!Next
  <2>1. 1 \in PageIds /\ disk[1] = Zeros
    BY <1>14, PagesAssumption DEF CreateRoot, FileInv, Holes
  <2> QED
    BY <1>12, <1>14, <2>1, ContentAssumption DEF CreateRoot, Quiet, Store!Next
<1> QED
  BY <1>1, <1>2, <1>3, <1>4, <1>5, <1>7, <1>8, <1>9, <1>10, <1>11, <1>13, <1>14
     DEF Next, Dies

(* The pool, the guards and the file together are the memory of pages that *)
(* the tree takes them for, whatever is evicted, flushed or lost.          *)
THEOREM StoreImplemented == Spec => ImplementsPageStore
<1>1. IInv /\ FileInv /\ [Next]_vars => [Store!Next]_(Store!vars)
  BY StoreStep
<1> QED
  BY <1>1, StoreInit, Invariance, FileInvariance, SpecIsTornSpec, PTL
     DEF Spec, ImplementsPageStore, Store!Spec
=============================================================================
