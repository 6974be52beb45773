-------------------------- MODULE BufferPoolProofs --------------------------
(***************************************************************************)
(* Proofs about BufferPool, for every number of frames, pages and guards.  *)
(***************************************************************************)
EXTENDS BufferPool, FiniteSetTheorems, TLAPS

(* Outside statements no guard is alive; a process that has not opened the *)
(* file has used no frame.                                                 *)
Quiet ==
  /\ phase # "up" => NoGuards
  /\ phase \in {"down", "creating"} => \A f \in Frames : ~Used(f)

(* The inductive invariant of TornSpec.                                    *)
IInv ==
  /\ TypeOK
  /\ PageTableExact
  /\ GuardsPointToTheirPage
  /\ PinsCountGuards
  /\ CleanPagesMatchDisk
  /\ Quiet

\* The fields of a frame after unpin_page.
LEMMA UnpinnedOnceFields ==
  ASSUME NEW frame \in Frame, NEW d \in BOOLEAN
  PROVE  /\ UnpinnedOnce(frame, d).page_id = frame.page_id
         /\ UnpinnedOnce(frame, d).last_used = frame.last_used
         /\ UnpinnedOnce(frame, d).data = frame.data
         /\ UnpinnedOnce(frame, d).pin_cnt =
              IF frame.pin_cnt > 0 THEN frame.pin_cnt - 1 ELSE 0
         /\ UnpinnedOnce(frame, d).is_dirty <=> (frame.is_dirty \/ d)
BY SMT DEF Frame, UnpinnedOnce

USE DEF Frames, PageIds, NoFrame, NoPage, Contains, Live, Used

-----------------------------------------------------------------------------
(* Holders *)

\* The guards that are on page q when the guards are gs.
HoldersIn(gs, q) == {g \in Guards : gs[g].page = q}

\* The set of guards on a page is finite, so pin_cnt is a number.
LEMMA HoldersFinite ==
  ASSUME NEW gs, NEW q
  PROVE  IsFiniteSet(HoldersIn(gs, q)) /\ Cardinality(HoldersIn(gs, q)) \in Nat
<1>1. HoldersIn(gs, q) \subseteq Guards
  BY DEF HoldersIn
<1> QED
  BY <1>1, GuardsAssumption, FS_Subset, FS_CardinalityType

\* A frame the victim search returns is on a page nobody guards.
LEMMA VictimUnguarded ==
  ASSUME TypeOK, PageTableExact, PinsCountGuards,
         NEW f \in Victims, Used(f), NEW g \in Guards
  PROVE  guards[g].page # frames[f].page_id
<1>1. f \in Frames /\ frames[f].pin_cnt = 0
  BY DEF Victims, Unpinned
<1>2. Cardinality(HoldersIn(guards, frames[f].page_id)) = 0
  BY <1>1 DEF PinsCountGuards, Holders, HoldersIn
<1>3. HoldersIn(guards, frames[f].page_id) = {}
  BY <1>2, HoldersFinite, FS_EmptySet
<1> QED
  BY <1>3 DEF HoldersIn

-----------------------------------------------------------------------------
(* Type correctness *)

LEMMA TypeInit == Init => TypeOK
BY PoolAssumption, PagesAssumption, TimeAssumption, ContentAssumption
   DEF Init, EmptyPool, TypeOK, Frame, Guard, EmptyFrame, NullGuard

\* The records the calls build are frames and guards.
LEMMA TypePinned ==
  ASSUME NEW frame \in Frame, TypeOK
  PROVE  Pinned(frame) \in Frame
<1>1. frame.pin_cnt + 1 \in Nat
  BY DEF Frame
<1>2. global_timestamp \in Nat
  BY TimeAssumption DEF TypeOK
<1> QED
  BY <1>1, <1>2 DEF Pinned, Frame

LEMMA TypeUnpinnedOnce ==
  ASSUME NEW frame \in Frame, NEW d \in BOOLEAN
  PROVE  UnpinnedOnce(frame, d) \in Frame
<1>1. (IF frame.pin_cnt > 0 THEN frame.pin_cnt - 1 ELSE 0) \in Nat
  BY DEF Frame
<1>2. (frame.is_dirty \/ d) \in BOOLEAN
  OBVIOUS
<1> QED
  BY <1>1, <1>2 DEF UnpinnedOnce, Frame

LEMMA TypeLoaded ==
  ASSUME NEW p \in PageIds, NEW v \in Content, TypeOK
  PROVE  Loaded(p, v) \in Frame
<1>1. global_timestamp \in Nat
  BY TimeAssumption DEF TypeOK
<1> QED
  BY <1>1 DEF Loaded, Frame

LEMMA TypeGuardOn ==
  ASSUME NEW p \in PageIds, NEW f \in Frames, NEW d \in BOOLEAN
  PROVE  GuardOn(p, f, d) \in Guard
BY DEF GuardOn, Guard

LEMMA TypeTick ==
  ASSUME TypeOK, Tick
  PROVE  global_timestamp' \in 1 .. MAX_TIME
BY TimeAssumption DEF TypeOK, Tick

LEMMA VictimInFrames == Victims \subseteq Frames
BY DEF Victims

LEMMA TypeFlushed ==
  ASSUME TypeOK, NEW f \in Frames, Flushed(f)
  PROVE  disk' \in [PageIds -> Content] /\ file_pages' \in 0 .. PAGES
<1>1. frames[f].page_id \in 0 .. PAGES - 1 /\ frames[f].data \in Content
  BY DEF TypeOK, Frame
<1>2. Larger(file_pages, frames[f].page_id + 1) \in 0 .. PAGES
  BY <1>1, PagesAssumption DEF TypeOK, Larger
<1>3. [disk EXCEPT ![frames[f].page_id] = frames[f].data] \in [PageIds -> Content]
  BY <1>1 DEF TypeOK
<1>4. CASE io_ok /\ Used(f) /\ frames[f].is_dirty
  BY <1>2, <1>3, <1>4 DEF Flushed
<1>5. CASE ~(io_ok /\ Used(f) /\ frames[f].is_dirty)
  BY <1>5 DEF Flushed, TypeOK
<1> QED
  BY <1>4, <1>5

LEMMA TypeUnpinFor ==
  ASSUME TypeOK, NEW g \in Guards, Live(g)
  PROVE  UnpinFor(g) \in [Frames -> Frame]
<1>1. guards[g] \in Guard /\ guards[g].page \in PageIds
  BY DEF TypeOK, Guard
<1>2. CASE Contains(guards[g].page)
  <2>1. page_table[guards[g].page] \in Frames
    BY <1>1, <1>2 DEF TypeOK
  <2>2. UnpinnedOnce(frames[page_table[guards[g].page]], guards[g].is_dirty) \in Frame
    <3>1. frames[page_table[guards[g].page]] \in Frame
      BY <2>1 DEF TypeOK
    <3>2. guards[g].is_dirty \in BOOLEAN
      BY <1>1 DEF Guard
    <3> QED
      BY <3>1, <3>2, TypeUnpinnedOnce
  <2> QED
    BY <1>2, <2>1, <2>2 DEF TypeOK, UnpinFor
<1>3. CASE ~Contains(guards[g].page)
  BY <1>3 DEF UnpinFor, TypeOK
<1> QED
  BY <1>2, <1>3

LEMMA TypeDie ==
  ASSUME TypeOK, Die, known' \in SUBSET PageIds
  PROVE  TypeOK'
BY PagesAssumption, TimeAssumption, ContentAssumption
   DEF TypeOK, Die, Frame, Guard, EmptyFrame, NullGuard

LEMMA TypeStep == TypeOK /\ [TornNext]_vars => TypeOK'
<1> SUFFICES ASSUME TypeOK, [TornNext]_vars PROVE TypeOK'
  OBVIOUS
<1> USE PagesAssumption, TimeAssumption, ContentAssumption
<1>1. ASSUME NEW g \in Guards, NEW p \in PageIds, FetchHit(g, p) PROVE TypeOK'
  <2>1. page_table[p] \in Frames
    BY <1>1 DEF FetchHit, TypeOK
  <2>2. Pinned(frames[page_table[p]]) \in Frame
    BY <2>1, TypePinned DEF TypeOK
  <2>3. GuardOn(p, page_table[p], FALSE) \in Guard
    BY <2>1, TypeGuardOn
  <2> QED
    BY <1>1, <2>1, <2>2, <2>3, TypeTick DEF FetchHit, CanTake, TypeOK, fileVars
<1>2. ASSUME NEW g \in Guards, NEW p \in PageIds, FetchMiss(g, p) PROVE TypeOK'
  <2>1. PICK f \in Victims, v \in Content :
          /\ Flushed(f) /\ Reads(f, p, v) /\ Remapped(f, p)
          /\ frames' = [frames EXCEPT ![f] = Loaded(p, v)]
          /\ guards' = [guards EXCEPT ![g] = GuardOn(p, f, FALSE)]
    BY <1>2 DEF FetchMiss
  <2>2. f \in Frames
    BY VictimInFrames
  <2>3. Loaded(p, v) \in Frame /\ GuardOn(p, f, FALSE) \in Guard
    BY <2>2, TypeLoaded, TypeGuardOn
  <2>4. io_ok' \in BOOLEAN
    BY <2>1 DEF Reads, TypeOK
  <2>5. page_table' \in [PageIds -> Frames \cup {NoFrame}]
    BY <2>1, <2>2 DEF Remapped, TypeOK
  <2> QED
    BY <1>2, <2>1, <2>2, <2>3, <2>4, <2>5, TypeFlushed, TypeTick
       DEF FetchMiss, CanTake, TypeOK
<1>3. ASSUME NEW g \in Guards, NEW p \in PageIds, AllocateHit(g, p) PROVE TypeOK'
  <2>1. page_table[p] \in Frames
    BY <1>3 DEF AllocateHit, TypeOK
  <2>2. [Pinned(frames[page_table[p]]) EXCEPT !.data = Fresh] \in Frame
    <3>1. Pinned(frames[page_table[p]]) \in Frame
      BY <2>1, TypePinned DEF TypeOK
    <3> QED
      BY <3>1 DEF Frame
  <2>3. GuardOn(p, page_table[p], TRUE) \in Guard
    BY <2>1, TypeGuardOn
  <2> QED
    BY <1>3, <2>1, <2>2, <2>3, TypeTick
       DEF AllocateHit, CanTake, TypeOK, fileVars
<1>4. ASSUME NEW g \in Guards, NEW p \in PageIds, AllocateMiss(g, p) PROVE TypeOK'
  <2>1. PICK f \in Victims :
          /\ Flushed(f) /\ Remapped(f, p)
          /\ frames' = [frames EXCEPT ![f] = Loaded(p, Fresh)]
          /\ guards' = [guards EXCEPT ![g] = GuardOn(p, f, TRUE)]
    BY <1>4 DEF AllocateMiss
  <2>2. f \in Frames
    BY VictimInFrames
  <2>3. Loaded(p, Fresh) \in Frame /\ GuardOn(p, f, TRUE) \in Guard
    BY <2>2, TypeLoaded, TypeGuardOn
  <2>4. page_table' \in [PageIds -> Frames \cup {NoFrame}]
    BY <2>1, <2>2 DEF Remapped, TypeOK
  <2> QED
    BY <1>4, <2>1, <2>2, <2>3, <2>4, TypeFlushed, TypeTick
       DEF AllocateMiss, CanTake, TypeOK
<1>5. ASSUME NEW g \in Guards, NEW p \in PageIds, OutOfFrames(g, p) PROVE TypeOK'
  BY <1>5, TypeDie DEF OutOfFrames, TypeOK
<1>6. ASSUME NEW g \in Guards, NEW v \in Content, Write(g, v) PROVE TypeOK'
  BY <1>6 DEF Write, TypeOK, Frame, Guard, fileVars
<1>7. ASSUME NEW g \in Guards, Destroy(g) PROVE TypeOK'
  <2>1. NullGuard \in Guard
    BY DEF NullGuard, Guard
  <2> QED
    BY <1>7, <2>1, TypeUnpinFor DEF Destroy, TypeOK, fileVars
<1>8. ASSUME NEW g \in Guards, NEW h \in Guards, MoveAssign(g, h) PROVE TypeOK'
  <2>1. NullGuard \in Guard
    BY DEF NullGuard, Guard
  <2> QED
    BY <1>8, <2>1, TypeUnpinFor DEF MoveAssign, TypeOK, fileVars
<1>9. CASE StartFlushAll
  BY <1>9 DEF StartFlushAll, TypeOK, poolVars, fileVars
<1>10. ASSUME NEW p \in PageIds, FlushPage(p) PROVE TypeOK'
  <2>1. page_table[p] \in Frames
    BY <1>10 DEF FlushPage, TypeOK
  <2>2. frames' \in [Frames -> Frame]
    BY <1>10, <2>1 DEF FlushPage, TypeOK, Frame
  <2> QED
    BY <1>10, <2>1, <2>2, TypeFlushed DEF FlushPage, TypeOK
<1>11. CASE Saved
  BY <1>11 DEF Saved, TypeOK, poolVars, fileVars
<1>12. CASE Exit
  BY <1>12, TypeDie DEF Exit, TypeOK
<1>13. CASE CreateSuperblock
  BY <1>13 DEF CreateSuperblock, TypeOK, poolVars
<1>14. CASE CreateRoot
  BY <1>14 DEF CreateRoot, TypeOK, poolVars
<1>15. CASE Open
  BY <1>15 DEF Open, TypeOK, poolVars, fileVars
<1>16. CASE Crash
  BY <1>16, TypeDie DEF Crash, TypeOK
<1>17. CASE TornCrash
  BY <1>17, TypeDie DEF TornCrash, TypeOK
<1>18. CASE UNCHANGED vars
  BY <1>18 DEF vars, poolVars, fileVars, TypeOK
<1> QED
  BY <1>1, <1>2, <1>3, <1>4, <1>5, <1>6, <1>7, <1>8, <1>9, <1>10, <1>11,
     <1>12, <1>13, <1>14, <1>15, <1>16, <1>17, <1>18 DEF TornNext, Next

\* Every variable keeps its type, even in the torn environment.
THEOREM TypeCorrect == TornSpec => []TypeOK
BY TypeInit, TypeStep, PTL DEF TornSpec

-----------------------------------------------------------------------------
(* What the actions that pin a page do, in the terms the invariants use *)

Hit(g, p) == FetchHit(g, p) \/ AllocateHit(g, p)
Miss(g, p) == FetchMiss(g, p) \/ AllocateMiss(g, p)

\* A guard g on p, whose page is in frame f, was made out of a null one.
Guarded(g, p, f) ==
  /\ ~Live(g)
  /\ guards'[g].page = p /\ guards'[g].frame = f
  /\ \A h \in Guards \ {g} : guards'[h] = guards[h]

LEMMA HitEffect ==
  ASSUME TypeOK, PageTableExact, TypeOK',
         NEW g \in Guards, NEW p \in PageIds, Hit(g, p)
  PROVE  /\ phase = "up" /\ phase' = "up"
         /\ page_table' = page_table /\ disk' = disk
         /\ file_pages' = file_pages /\ io_ok' = io_ok
         /\ page_table[p] \in Frames /\ frames[page_table[p]].page_id = p
         /\ Used(page_table[p])
         /\ Guarded(g, p, page_table[p])
         /\ \A f \in Frames :
              /\ frames'[f].page_id = frames[f].page_id
              /\ frames'[f].is_dirty = frames[f].is_dirty
              /\ (frames'[f].last_used > 0) = Used(f)
              /\ frames'[f].pin_cnt =
                   frames[f].pin_cnt + (IF f = page_table[p] THEN 1 ELSE 0)
         /\ \A f \in Frames \ {page_table[p]} : frames'[f].data = frames[f].data
         /\ guards'[g].is_dirty \/ frames'[page_table[p]].data = frames[page_table[p]].data
<1>1. page_table[p] \in Frames /\ Contains(p)
  BY DEF Hit, FetchHit, AllocateHit, TypeOK
<1>2. frames[page_table[p]].page_id = p /\ Used(page_table[p])
  BY <1>1 DEF PageTableExact
<1>3. global_timestamp > 0 /\ \A f \in Frames : frames[f].pin_cnt \in Nat
  BY TimeAssumption DEF TypeOK, Frame
<1>4. CASE FetchHit(g, p)
  BY <1>1, <1>2, <1>3, <1>4
     DEF FetchHit, CanTake, Pinned, GuardOn, Guarded, TypeOK, fileVars, Frame
<1>5. CASE AllocateHit(g, p)
  BY <1>1, <1>2, <1>3, <1>5
     DEF AllocateHit, CanTake, Pinned, GuardOn, Guarded, TypeOK, fileVars, Frame
<1> QED
  BY <1>4, <1>5 DEF Hit

LEMMA MissEffect ==
  ASSUME TypeOK, NEW g \in Guards, NEW p \in PageIds, Miss(g, p)
  PROVE  \E f \in Victims :
           /\ f \in Frames
           /\ phase = "up" /\ phase' = "up" /\ ~Contains(p)
           /\ Flushed(f) /\ Remapped(f, p)
           /\ Guarded(g, p, f)
           /\ frames'[f].page_id = p /\ ~frames'[f].is_dirty
           /\ frames'[f].pin_cnt = 1 /\ frames'[f].last_used > 0
           /\ \A e \in Frames \ {f} : frames'[e] = frames[e]
           /\ io_ok' => io_ok
           /\ \/ guards'[g].is_dirty
              \/ io_ok' => p < file_pages' /\ disk'[p] = frames'[f].data
<1>1. global_timestamp > 0
  BY TimeAssumption DEF TypeOK
<1>2. CASE FetchMiss(g, p)
  <2>1. PICK f \in Victims, v \in Content :
          /\ Flushed(f) /\ Reads(f, p, v) /\ Remapped(f, p)
          /\ frames' = [frames EXCEPT ![f] = Loaded(p, v)]
          /\ guards' = [guards EXCEPT ![g] = GuardOn(p, f, FALSE)]
    BY <1>2 DEF FetchMiss
  <2>2. f \in Frames
    BY VictimInFrames
  <2>3. io_ok' => io_ok /\ p < file_pages' /\ v = disk'[p]
    BY <2>1 DEF Reads
  <2>4. Guarded(g, p, f)
    BY <1>2, <2>1 DEF FetchMiss, CanTake, Guarded, GuardOn, TypeOK
  <2>5. frames'[f] = Loaded(p, v) /\ \A e \in Frames \ {f} : frames'[e] = frames[e]
    BY <2>1, <2>2 DEF TypeOK
  <2>6. phase = "up" /\ phase' = "up" /\ ~Contains(p)
    BY <1>2 DEF FetchMiss, CanTake
  <2>7. /\ frames'[f].page_id = p /\ ~frames'[f].is_dirty
        /\ frames'[f].pin_cnt = 1 /\ frames'[f].last_used > 0
        /\ frames'[f].data = v
    BY <1>1, <2>5 DEF Loaded
  <2> QED
    BY <2>1, <2>2, <2>3, <2>4, <2>5, <2>6, <2>7, Zenon
<1>3. CASE AllocateMiss(g, p)
  <2>1. PICK f \in Victims :
          /\ Flushed(f) /\ Remapped(f, p)
          /\ frames' = [frames EXCEPT ![f] = Loaded(p, Fresh)]
          /\ guards' = [guards EXCEPT ![g] = GuardOn(p, f, TRUE)]
    BY <1>3 DEF AllocateMiss
  <2>2. f \in Frames
    BY VictimInFrames
  <2>3. Guarded(g, p, f) /\ guards'[g].is_dirty
    BY <1>3, <2>1 DEF AllocateMiss, CanTake, Guarded, GuardOn, TypeOK
  <2>4. frames'[f] = Loaded(p, Fresh) /\ \A e \in Frames \ {f} : frames'[e] = frames[e]
    BY <2>1, <2>2 DEF TypeOK
  <2>5. phase = "up" /\ phase' = "up" /\ ~Contains(p) /\ io_ok' = io_ok
    BY <1>3 DEF AllocateMiss, CanTake
  <2>6. /\ frames'[f].page_id = p /\ ~frames'[f].is_dirty
        /\ frames'[f].pin_cnt = 1 /\ frames'[f].last_used > 0
    BY <1>1, <2>4 DEF Loaded
  <2> QED
    BY <2>1, <2>2, <2>3, <2>4, <2>5, <2>6, Zenon
<1> QED
  BY <1>2, <1>3 DEF Miss

\* The page table after p has taken frame f: whoever was in f is out.
LEMMA RemappedEffect ==
  ASSUME TypeOK, PageTableExact, NEW f \in Frames, NEW p \in PageIds,
         ~Contains(p), Remapped(f, p)
  PROVE  /\ page_table'[p] = f
         /\ \A q \in PageIds \ {p} :
              IF Used(f) /\ q = frames[f].page_id
              THEN page_table'[q] = NoFrame
              ELSE page_table'[q] = page_table[q] /\ page_table[q] # f
BY PoolAssumption DEF Remapped, PageTableExact, TypeOK

\* unpin_page for a live guard changes the one frame the guard points into.
LEMMA UnpinEffect ==
  ASSUME TypeOK, PageTableExact, GuardsPointToTheirPage,
         NEW g \in Guards, Live(g)
  PROVE  /\ guards[g].page \in PageIds /\ guards[g].frame \in Frames
         /\ page_table[guards[g].page] = guards[g].frame
         /\ Used(guards[g].frame)
         /\ frames[guards[g].frame].page_id = guards[g].page
         /\ UnpinFor(g) = [frames EXCEPT ![guards[g].frame] =
                              UnpinnedOnce(@, guards[g].is_dirty)]
<1>1. guards[g].page \in PageIds /\ guards[g].frame \in Frames \cup {NoFrame}
  BY DEF TypeOK, Guard
<1>2. Contains(guards[g].page) /\ page_table[guards[g].page] = guards[g].frame
  BY DEF GuardsPointToTheirPage
<1> QED
  BY <1>1, <1>2 DEF PageTableExact, UnpinFor

LEMMA UnpinnedOnceEffect ==
  ASSUME TypeOK, NEW f \in Frames, NEW d \in BOOLEAN,
         frames' = [frames EXCEPT ![f] = UnpinnedOnce(@, d)]
  PROVE  /\ \A e \in Frames :
              /\ frames'[e].page_id = frames[e].page_id
              /\ frames'[e].last_used = frames[e].last_used
              /\ frames'[e].data = frames[e].data
              /\ frames[e].is_dirty => frames'[e].is_dirty
              /\ e # f => frames'[e].pin_cnt = frames[e].pin_cnt
         /\ d => frames'[f].is_dirty
         /\ frames'[f].pin_cnt = IF frames[f].pin_cnt > 0 THEN frames[f].pin_cnt - 1 ELSE 0
<1>1. \A e \in Frames : e # f => frames'[e] = frames[e]
  BY DEF TypeOK
<1>2. frames[f] \in Frame /\ frames'[f] = UnpinnedOnce(frames[f], d)
  BY DEF TypeOK
<1>3. /\ frames'[f].page_id = frames[f].page_id
      /\ frames'[f].last_used = frames[f].last_used
      /\ frames'[f].data = frames[f].data
      /\ frames'[f].pin_cnt = IF frames[f].pin_cnt > 0 THEN frames[f].pin_cnt - 1 ELSE 0
  BY <1>2, UnpinnedOnceFields
<1>4. (frames[f].is_dirty => frames'[f].is_dirty) /\ (d => frames'[f].is_dirty)
  BY <1>2, UnpinnedOnceFields
<1>5. ASSUME NEW e \in Frames
      PROVE  /\ frames'[e].page_id = frames[e].page_id
             /\ frames'[e].last_used = frames[e].last_used
             /\ frames'[e].data = frames[e].data
             /\ e # f => frames'[e].pin_cnt = frames[e].pin_cnt
  BY <1>1, <1>3
<1>6. \A e \in Frames : frames[e].is_dirty => frames'[e].is_dirty
  BY <1>1, <1>4, Zenon
<1> QED
  BY <1>3, <1>4, <1>5, <1>6

\* What a process that starts afresh satisfies.
LEMMA DieEffect ==
  ASSUME TypeOK, Die
  PROVE  /\ \A f \in Frames : ~(frames'[f].last_used > 0) /\ frames'[f].pin_cnt = 0
         /\ \A p \in PageIds : page_table'[p] = NoFrame
         /\ \A g \in Guards : guards'[g].page = NoPage
BY DEF Die, EmptyFrame, NullGuard

\* The death of the process, however it comes, and its orderly end.
Dies == Exit \/ Crash \/ TornCrash \/ \E g \in Guards, p \in PageIds : OutOfFrames(g, p)

\* The steps that leave the pool and the guards alone.
Elsewhere ==
  StartFlushAll \/ Saved \/ CreateSuperblock \/ CreateRoot \/ Open \/ UNCHANGED vars

LEMMA DiesIsDie == Dies => Die
BY DEF Dies, Exit, Crash, TornCrash, OutOfFrames

LEMMA ElsewhereEffect == Elsewhere => UNCHANGED poolVars
BY DEF Elsewhere, StartFlushAll, Saved, CreateSuperblock, CreateRoot, Open, vars

LEMMA NextCases ==
  ASSUME [TornNext]_vars
  PROVE  \/ \E g \in Guards, p \in PageIds : Hit(g, p) \/ Miss(g, p)
         \/ \E g \in Guards, v \in Content : Write(g, v)
         \/ \E g \in Guards : Destroy(g)
         \/ \E g, h \in Guards : MoveAssign(g, h)
         \/ \E p \in PageIds : FlushPage(p)
         \/ Dies \/ Elsewhere
BY DEF TornNext, Next, Hit, Miss, Dies, Elsewhere

-----------------------------------------------------------------------------
(* The page table *)

LEMMA PageTableStep ==
  ASSUME IInv, TypeOK', [TornNext]_vars
  PROVE  PageTableExact'
<1> USE DEF IInv
<1>1. ASSUME NEW g \in Guards, NEW p \in PageIds, Hit(g, p) PROVE PageTableExact'
  <2>1. /\ page_table' = page_table
        /\ \A f \in Frames : /\ frames'[f].page_id = frames[f].page_id
                             /\ (frames'[f].last_used > 0) = Used(f)
    BY <1>1, HitEffect
  <2> QED
    BY <2>1 DEF PageTableExact, TypeOK
<1>2. ASSUME NEW g \in Guards, NEW p \in PageIds, Miss(g, p) PROVE PageTableExact'
  <2>1. PICK f \in Victims :
          /\ f \in Frames /\ ~Contains(p) /\ Remapped(f, p)
          /\ frames'[f].page_id = p /\ frames'[f].last_used > 0
          /\ \A e \in Frames \ {f} : frames'[e] = frames[e]
    BY <1>2, MissEffect
  <2>2. /\ page_table'[p] = f
        /\ \A q \in PageIds \ {p} :
             IF Used(f) /\ q = frames[f].page_id
             THEN page_table'[q] = NoFrame
             ELSE page_table'[q] = page_table[q] /\ page_table[q] # f
    BY <2>1, RemappedEffect
  <2>3. ASSUME NEW q \in PageIds, page_table'[q] # NoFrame
        PROVE  /\ frames'[page_table'[q]].last_used > 0
               /\ frames'[page_table'[q]].page_id = q
    <3>1. CASE q = p
      BY <2>1, <2>2, <3>1
    <3>2. CASE q # p
      <4>1. page_table'[q] = page_table[q] /\ page_table[q] \in Frames \ {f}
        BY <2>2, <2>3, <3>2 DEF TypeOK
      <4>2. frames'[page_table[q]] = frames[page_table[q]]
        BY <2>1, <4>1
      <4> QED
        BY <2>3, <4>1, <4>2 DEF PageTableExact
    <3> QED
      BY <3>1, <3>2
  <2>4. ASSUME NEW e \in Frames, frames'[e].last_used > 0
        PROVE  page_table'[frames'[e].page_id] = e
    <3>1. CASE e = f
      BY <2>1, <2>2, <3>1
    <3>2. CASE e # f
      <4>1. frames'[e] = frames[e] /\ page_table[frames[e].page_id] = e
        BY <2>1, <2>4, <3>2 DEF PageTableExact
      <4>2. frames[e] \in Frame /\ frames[e].page_id \in PageIds
        BY DEF TypeOK, Frame
      <4>3. frames[e].page_id # p
        BY PoolAssumption, <2>1, <4>1, <4>2
      <4>4. Used(f) => page_table[frames[f].page_id] = f
        BY <2>1 DEF PageTableExact
      <4> QED
        BY <2>2, <3>2, <4>1, <4>2, <4>3, <4>4
    <3> QED
      BY <3>1, <3>2
  <2> QED
    BY <2>3, <2>4 DEF PageTableExact
<1>3. ASSUME NEW g \in Guards, NEW v \in Content, Write(g, v) PROVE PageTableExact'
  BY <1>3 DEF Write, PageTableExact, TypeOK
<1>4. ASSUME NEW g \in Guards, Destroy(g) PROVE PageTableExact'
  <2>1. guards[g].is_dirty \in BOOLEAN
    BY DEF TypeOK, Guard
  <2>2. \A e \in Frames : /\ frames'[e].page_id = frames[e].page_id
                          /\ frames'[e].last_used = frames[e].last_used
    BY <1>4, <2>1, UnpinEffect, UnpinnedOnceEffect DEF Destroy
  <2> QED
    BY <1>4, <2>2 DEF Destroy, PageTableExact, TypeOK
<1>5. ASSUME NEW g \in Guards, NEW h \in Guards, MoveAssign(g, h) PROVE PageTableExact'
  <2>1. guards[g].is_dirty \in BOOLEAN
    BY DEF TypeOK, Guard
  <2>2. \A e \in Frames : /\ frames'[e].page_id = frames[e].page_id
                          /\ frames'[e].last_used = frames[e].last_used
    BY <1>5, <2>1, UnpinEffect, UnpinnedOnceEffect DEF MoveAssign
  <2> QED
    BY <1>5, <2>2 DEF MoveAssign, PageTableExact, TypeOK
<1>6. ASSUME NEW p \in PageIds, FlushPage(p) PROVE PageTableExact'
  BY <1>6 DEF FlushPage, PageTableExact, TypeOK
<1>7. CASE Dies
  BY <1>7, DiesIsDie, DieEffect DEF PageTableExact, TypeOK
<1>8. CASE Elsewhere
  BY <1>8, ElsewhereEffect DEF poolVars, PageTableExact
<1> QED
  BY <1>1, <1>2, <1>3, <1>4, <1>5, <1>6, <1>7, <1>8, NextCases

-----------------------------------------------------------------------------
(* The guards and their frames *)

LEMMA GuardsStep ==
  ASSUME IInv, TypeOK', [TornNext]_vars
  PROVE  GuardsPointToTheirPage'
<1> USE DEF IInv
<1>1. ASSUME NEW g \in Guards, NEW p \in PageIds, Hit(g, p)
      PROVE  GuardsPointToTheirPage'
  <2>1. /\ page_table' = page_table /\ page_table[p] \in Frames
        /\ Guarded(g, p, page_table[p])
    BY <1>1, HitEffect
  <2>2. page_table[p] # NoFrame
    BY <2>1, PoolAssumption
  <2> QED
    BY <2>1, <2>2 DEF Guarded, GuardsPointToTheirPage
<1>2. ASSUME NEW g \in Guards, NEW p \in PageIds, Miss(g, p)
      PROVE  GuardsPointToTheirPage'
  <2>1. PICK f \in Victims :
          f \in Frames /\ ~Contains(p) /\ Remapped(f, p) /\ Guarded(g, p, f)
    BY <1>2, MissEffect
  <2>2. /\ page_table'[p] = f
        /\ \A q \in PageIds \ {p} :
             IF Used(f) /\ q = frames[f].page_id
             THEN page_table'[q] = NoFrame
             ELSE page_table'[q] = page_table[q] /\ page_table[q] # f
    BY <2>1, RemappedEffect
  <2>3. f # NoFrame
    BY <2>1, PoolAssumption
  <2>4. ASSUME NEW h \in Guards \ {g}, Live(h)
        PROVE  /\ page_table[guards[h].page] # NoFrame
               /\ page_table'[guards[h].page] = page_table[guards[h].page]
               /\ page_table[guards[h].page] = guards[h].frame
    <3>1. Contains(guards[h].page) /\ page_table[guards[h].page] = guards[h].frame
      BY <2>4 DEF GuardsPointToTheirPage
    <3>2. guards[h].page \in PageIds \ {p}
      BY <2>1, <2>4, <3>1 DEF TypeOK, Guard
    <3>3. Used(f) => guards[h].page # frames[f].page_id
      BY VictimUnguarded
    <3> QED
      BY <2>2, <3>1, <3>2, <3>3
  <2> QED
    BY <2>1, <2>2, <2>3, <2>4 DEF Guarded, GuardsPointToTheirPage
<1>3. ASSUME NEW g \in Guards, NEW v \in Content, Write(g, v)
      PROVE  GuardsPointToTheirPage'
  <2>1. \A h \in Guards : /\ guards'[h].page = guards[h].page
                          /\ guards'[h].frame = guards[h].frame
    BY <1>3 DEF Write, TypeOK, Guard
  <2> QED
    BY <1>3, <2>1 DEF Write, GuardsPointToTheirPage
<1>4. ASSUME NEW g \in Guards, Destroy(g) PROVE GuardsPointToTheirPage'
  BY <1>4 DEF Destroy, NullGuard, GuardsPointToTheirPage, TypeOK
<1>5. ASSUME NEW g \in Guards, NEW h \in Guards, MoveAssign(g, h)
      PROVE  GuardsPointToTheirPage'
  BY <1>5 DEF MoveAssign, NullGuard, GuardsPointToTheirPage, TypeOK
<1>6. ASSUME NEW p \in PageIds, FlushPage(p) PROVE GuardsPointToTheirPage'
  BY <1>6 DEF FlushPage, GuardsPointToTheirPage
<1>7. CASE Dies
  BY <1>7, DiesIsDie, DieEffect DEF GuardsPointToTheirPage
<1>8. CASE Elsewhere
  BY <1>8, ElsewhereEffect DEF poolVars, GuardsPointToTheirPage
<1> QED
  BY <1>1, <1>2, <1>3, <1>4, <1>5, <1>6, <1>7, <1>8, NextCases

-----------------------------------------------------------------------------
(* The pin counts *)

\* One guard changes its page: q loses it or gains it.
LEMMA HoldersChange ==
  ASSUME NEW g \in Guards, NEW q, NEW before, NEW after,
         \A h \in Guards \ {g} : after[h].page = before[h].page
  PROVE  Cardinality(HoldersIn(after, q)) =
           Cardinality(HoldersIn(before, q)) - (IF before[g].page = q THEN 1 ELSE 0)
                                   + (IF after[g].page = q THEN 1 ELSE 0)
<1>1. IsFiniteSet(HoldersIn(before, q)) /\ Cardinality(HoldersIn(before, q)) \in Nat
  BY HoldersFinite
<1>2. CASE before[g].page = q /\ after[g].page # q
  <2>1. HoldersIn(after, q) = HoldersIn(before, q) \ {g} /\ g \in HoldersIn(before, q)
    BY <1>2 DEF HoldersIn
  <2>2. Cardinality(HoldersIn(before, q) \ {g}) = Cardinality(HoldersIn(before, q)) - 1
    BY <1>1, <2>1, FS_RemoveElement
  <2> QED
    BY <1>1, <1>2, <2>1, <2>2
<1>3. CASE before[g].page # q /\ after[g].page = q
  <2>1. HoldersIn(after, q) = HoldersIn(before, q) \cup {g} /\ g \notin HoldersIn(before, q)
    BY <1>3 DEF HoldersIn
  <2>2. Cardinality(HoldersIn(before, q) \cup {g}) = Cardinality(HoldersIn(before, q)) + 1
    BY <1>1, <2>1, FS_AddElement
  <2> QED
    BY <1>1, <1>3, <2>1, <2>2
<1>4. CASE (before[g].page = q) = (after[g].page = q)
  <2>1. HoldersIn(after, q) = HoldersIn(before, q)
    BY <1>4 DEF HoldersIn
  <2> QED
    BY <1>1, <1>4, <2>1
<1> QED
  BY <1>2, <1>3, <1>4

\* A guard is moved into another: only the page of the overwritten one loses.
LEMMA HoldersMove ==
  ASSUME NEW g \in Guards, NEW h \in Guards, g # h, NEW q, NEW before, NEW after, q # NoPage,
         after[g].page = before[h].page, after[h].page = NoPage,
         \A k \in Guards \ {g, h} : after[k].page = before[k].page
  PROVE  Cardinality(HoldersIn(after, q)) =
           Cardinality(HoldersIn(before, q)) - (IF before[g].page = q THEN 1 ELSE 0)
<1>1. IsFiniteSet(HoldersIn(before, q)) /\ Cardinality(HoldersIn(before, q)) \in Nat
  BY HoldersFinite
<1>2. CASE before[g].page = q /\ before[h].page = q
  <2>1. HoldersIn(after, q) = HoldersIn(before, q) \ {h} /\ h \in HoldersIn(before, q)
    BY <1>2 DEF HoldersIn
  <2>2. Cardinality(HoldersIn(before, q) \ {h}) = Cardinality(HoldersIn(before, q)) - 1
    BY <1>1, <2>1, FS_RemoveElement
  <2> QED
    BY <1>1, <1>2, <2>1, <2>2
<1>3. CASE before[g].page = q /\ before[h].page # q
  <2>1. HoldersIn(after, q) = HoldersIn(before, q) \ {g} /\ g \in HoldersIn(before, q)
    BY <1>3 DEF HoldersIn
  <2>2. Cardinality(HoldersIn(before, q) \ {g}) = Cardinality(HoldersIn(before, q)) - 1
    BY <1>1, <2>1, FS_RemoveElement
  <2> QED
    BY <1>1, <1>3, <2>1, <2>2
<1>4. CASE before[g].page # q /\ before[h].page = q
  <2> DEFINE S == HoldersIn(before, q) \ {h}
  <2>1. HoldersIn(after, q) = S \cup {g} /\ g \notin S /\ h \in HoldersIn(before, q)
    BY <1>4 DEF HoldersIn
  <2>2. IsFiniteSet(S) /\ Cardinality(S) = Cardinality(HoldersIn(before, q)) - 1
    BY <1>1, <2>1, FS_RemoveElement
  <2>3. Cardinality(S \cup {g}) = Cardinality(S) + 1
    BY <2>1, <2>2, FS_AddElement
  <2> QED
    BY <1>1, <1>4, <2>1, <2>2, <2>3
<1>5. CASE before[g].page # q /\ before[h].page # q
  <2>1. HoldersIn(after, q) = HoldersIn(before, q)
    BY <1>5 DEF HoldersIn
  <2> QED
    BY <1>1, <1>5, <2>1
<1> QED
  BY <1>2, <1>3, <1>4, <1>5

\* A frame in use holds a page of the file, and one page only.
LEMMA FramePages ==
  ASSUME TypeOK, PageTableExact, NEW e \in Frames, NEW f \in Frames, e # f,
         Used(e), Used(f)
  PROVE  frames[e].page_id \in PageIds /\ frames[e].page_id # frames[f].page_id
BY DEF PageTableExact, TypeOK, Frame

LEMMA FrameTypes ==
  ASSUME TypeOK, NEW f \in Frames
  PROVE  frames[f].page_id \in PageIds /\ frames[f].page_id # NoPage
         /\ frames[f].pin_cnt \in Nat
<1>1. frames[f].page_id \in PageIds /\ frames[f].pin_cnt \in Nat
  BY DEF TypeOK, Frame
<1> QED
  BY <1>1, PagesAssumption

\* pin_cnt as the guards gs and the frames fs have it.
Counted(fs, gs, f) ==
  fs[f].pin_cnt =
    IF fs[f].last_used > 0 THEN Cardinality(HoldersIn(gs, fs[f].page_id)) ELSE 0

LEMMA PinsAsCounted ==
  /\ PinsCountGuards = \A f \in Frames : Counted(frames, guards, f)
  /\ PinsCountGuards' = \A f \in Frames : Counted(frames', guards', f)
BY DEF PinsCountGuards, Counted, Holders, HoldersIn

LEMMA PinsStep ==
  ASSUME IInv, [TornNext]_vars
  PROVE  PinsCountGuards'
<1> USE DEF IInv
<1>0. \A f \in Frames : Counted(frames, guards, f)
  BY PinsAsCounted
<1> SUFFICES \A f \in Frames : Counted(frames', guards', f)
  BY PinsAsCounted
<1>1. ASSUME NEW g \in Guards, NEW p \in PageIds, Hit(g, p), TypeOK', NEW f \in Frames
      PROVE  Counted(frames', guards', f)
  <2>1. /\ page_table[p] \in Frames /\ frames[page_table[p]].page_id = p
        /\ Used(page_table[p]) /\ Guarded(g, p, page_table[p])
        /\ frames'[f].page_id = frames[f].page_id
        /\ (frames'[f].last_used > 0) = Used(f)
        /\ frames'[f].pin_cnt =
             frames[f].pin_cnt + (IF f = page_table[p] THEN 1 ELSE 0)
    BY <1>1, HitEffect
  <2> DEFINE q == frames[f].page_id
  <2>2. Cardinality(HoldersIn(guards', q)) =
          Cardinality(HoldersIn(guards, q)) - (IF guards[g].page = q THEN 1 ELSE 0)
                                            + (IF guards'[g].page = q THEN 1 ELSE 0)
    BY <2>1, HoldersChange DEF Guarded
  <2>3. guards[g].page # q
    BY <2>1, FrameTypes DEF Guarded
  <2>4. Used(f) => (q = p) = (f = page_table[p])
    BY <2>1, FramePages
  <2>5. Counted(frames, guards, f) /\ Cardinality(HoldersIn(guards, q)) \in Nat
    BY <1>0, HoldersFinite
  <2> QED
    BY <2>1, <2>2, <2>3, <2>4, <2>5 DEF Guarded, Counted, PageTableExact
<1>2. ASSUME NEW g \in Guards, NEW p \in PageIds, Miss(g, p), NEW f \in Frames
      PROVE  Counted(frames', guards', f)
  <2>1. PICK v \in Victims :
          /\ v \in Frames /\ ~Contains(p) /\ Guarded(g, p, v)
          /\ frames'[v].page_id = p
          /\ frames'[v].pin_cnt = 1 /\ frames'[v].last_used > 0
          /\ \A e \in Frames \ {v} : frames'[e] = frames[e]
    BY <1>2, MissEffect
  <2>2. CASE f = v
    <3>1. HoldersIn(guards', p) = {g}
      BY <2>1 DEF HoldersIn, Guarded, GuardsPointToTheirPage
    <3> QED
      BY <2>1, <2>2, <3>1, FS_Singleton DEF Counted
  <2>3. CASE f # v
    <3> DEFINE q == frames[f].page_id
    <3>1. Cardinality(HoldersIn(guards', q)) =
            Cardinality(HoldersIn(guards, q)) - (IF guards[g].page = q THEN 1 ELSE 0)
                                              + (IF guards'[g].page = q THEN 1 ELSE 0)
      BY <2>1, HoldersChange DEF Guarded
    <3>2. Used(f) => guards[g].page # q /\ guards'[g].page # q
      BY <2>1, FrameTypes, PoolAssumption DEF Guarded, PageTableExact
    <3>3. Counted(frames, guards, f) /\ Cardinality(HoldersIn(guards, q)) \in Nat
      BY <1>0, HoldersFinite
    <3> QED
      BY <2>1, <2>3, <3>1, <3>2, <3>3 DEF Counted
  <2> QED
    BY <2>2, <2>3
<1>3. ASSUME NEW g \in Guards, NEW v \in Content, Write(g, v), NEW f \in Frames
      PROVE  Counted(frames', guards', f)
  <2>1. \A h \in Guards : guards'[h].page = guards[h].page
    BY <1>3 DEF Write, TypeOK, Guard
  <2>2. \A q : HoldersIn(guards', q) = HoldersIn(guards, q)
    BY <2>1 DEF HoldersIn
  <2>3. /\ frames'[f].page_id = frames[f].page_id
        /\ frames'[f].last_used = frames[f].last_used
        /\ frames'[f].pin_cnt = frames[f].pin_cnt
    BY <1>3 DEF Write, TypeOK, Frame
  <2> QED
    BY <1>0, <2>2, <2>3 DEF Counted
\* The frames after unpin_page for g, and q's guards one fewer if g was on it.
<1>4. ASSUME NEW g \in Guards, Live(g), frames' = UnpinFor(g), NEW f \in Frames,
             Cardinality(HoldersIn(guards', frames[f].page_id)) =
               Cardinality(HoldersIn(guards, frames[f].page_id))
                 - (IF guards[g].page = frames[f].page_id THEN 1 ELSE 0)
      PROVE  Counted(frames', guards', f)
  <2> DEFINE q == frames[f].page_id
             n == Cardinality(HoldersIn(guards, q))
  <2>1. guards[g].is_dirty \in BOOLEAN
    BY DEF TypeOK, Guard
  <2>2. /\ guards[g].frame \in Frames /\ Used(guards[g].frame)
        /\ frames[guards[g].frame].page_id = guards[g].page
        /\ frames' = [frames EXCEPT ![guards[g].frame] =
                        UnpinnedOnce(@, guards[g].is_dirty)]
    BY <1>4, UnpinEffect
  <2>3. /\ frames'[f].page_id = q /\ frames'[f].last_used = frames[f].last_used
        /\ f # guards[g].frame => frames'[f].pin_cnt = frames[f].pin_cnt
        /\ f = guards[g].frame => frames'[f].pin_cnt =
             IF frames[f].pin_cnt > 0 THEN frames[f].pin_cnt - 1 ELSE 0
    BY <2>1, <2>2, UnpinnedOnceEffect
  <2>4. Used(f) => (guards[g].page = q) = (f = guards[g].frame)
    BY <2>2, FramePages
  <2>5. Counted(frames, guards, f) /\ n \in Nat
    BY <1>0, HoldersFinite
  <2>6. guards[g].page = q => n > 0
    <3>1. guards[g].page = q => g \in HoldersIn(guards, q)
      BY DEF HoldersIn
    <3> QED
      BY <3>1, <2>5, HoldersFinite, FS_EmptySet
  <2> QED
    BY <1>4, <2>2, <2>3, <2>4, <2>5, <2>6 DEF Counted
<1>5. ASSUME NEW g \in Guards, Destroy(g), NEW f \in Frames
      PROVE  Counted(frames', guards', f)
  <2> DEFINE q == frames[f].page_id
  <2>1. /\ \A h \in Guards \ {g} : guards'[h].page = guards[h].page
        /\ guards'[g].page = NoPage
    BY <1>5 DEF Destroy, NullGuard, TypeOK
  <2>2. q # NoPage /\ Cardinality(HoldersIn(guards, q)) \in Nat
    BY FrameTypes, HoldersFinite
  <2>3. Cardinality(HoldersIn(guards', q)) =
          Cardinality(HoldersIn(guards, q)) - (IF guards[g].page = q THEN 1 ELSE 0)
                                            + (IF guards'[g].page = q THEN 1 ELSE 0)
    BY <2>1, HoldersChange
  <2>4. Cardinality(HoldersIn(guards', q)) =
          Cardinality(HoldersIn(guards, q)) - (IF guards[g].page = q THEN 1 ELSE 0)
    BY <2>1, <2>2, <2>3
  <2> QED
    BY <1>4, <1>5, <2>4 DEF Destroy
<1>6. ASSUME NEW g \in Guards, NEW h \in Guards, MoveAssign(g, h), NEW f \in Frames
      PROVE  Counted(frames', guards', f)
  <2> DEFINE q == frames[f].page_id
  <2>1. /\ g # h /\ guards'[g].page = guards[h].page /\ guards'[h].page = NoPage
        /\ \A k \in Guards \ {g, h} : guards'[k].page = guards[k].page
    BY <1>6 DEF MoveAssign, NullGuard, TypeOK
  <2>2. q # NoPage /\ Cardinality(HoldersIn(guards, q)) \in Nat
    BY FrameTypes, HoldersFinite
  <2>3. Cardinality(HoldersIn(guards', q)) =
          Cardinality(HoldersIn(guards, q)) - (IF guards[g].page = q THEN 1 ELSE 0)
    BY <2>1, <2>2, HoldersMove
  <2>4. CASE Live(g)
    BY <1>4, <1>6, <2>3, <2>4 DEF MoveAssign
  <2>5. CASE ~Live(g)
    BY <1>0, <1>6, <2>2, <2>3, <2>5 DEF MoveAssign, Counted
  <2> QED
    BY <2>4, <2>5
<1>7. ASSUME NEW p \in PageIds, FlushPage(p), NEW f \in Frames
      PROVE  Counted(frames', guards', f)
  <2>1. /\ frames'[f].page_id = frames[f].page_id
        /\ frames'[f].last_used = frames[f].last_used
        /\ frames'[f].pin_cnt = frames[f].pin_cnt /\ guards' = guards
    BY <1>7 DEF FlushPage, TypeOK, Frame
  <2> QED
    BY <1>0, <2>1 DEF Counted
<1>8. ASSUME Dies, NEW f \in Frames PROVE Counted(frames', guards', f)
  BY <1>8, DiesIsDie, DieEffect DEF Counted
<1>9. ASSUME Elsewhere, NEW f \in Frames PROVE Counted(frames', guards', f)
  BY <1>0, <1>9, ElsewhereEffect DEF poolVars
<1> QED
  BY <1>1, <1>2, <1>3, <1>5, <1>6, <1>7, <1>8, <1>9, NextCases, TypeStep

-----------------------------------------------------------------------------
(* Clean pages *)

\* What flush_page does to the file.
LEMMA FlushedEffect ==
  ASSUME TypeOK, NEW f \in Frames, Flushed(f)
  PROVE  /\ file_pages' >= file_pages
         /\ \A q \in PageIds : ~(Used(f) /\ q = frames[f].page_id) => disk'[q] = disk[q]
         /\ IF io_ok /\ Used(f) /\ frames[f].is_dirty
            THEN /\ frames[f].page_id < file_pages'
                 /\ disk'[frames[f].page_id] = frames[f].data
            ELSE disk' = disk /\ file_pages' = file_pages
<1>1. frames[f].page_id \in PageIds
  BY FrameTypes
<1>2. CASE io_ok /\ Used(f) /\ frames[f].is_dirty
  <2>1. /\ disk' = [disk EXCEPT ![frames[f].page_id] = frames[f].data]
        /\ file_pages' = Larger(file_pages, frames[f].page_id + 1)
    BY <1>2 DEF Flushed
  <2>2. file_pages' >= file_pages /\ frames[f].page_id < file_pages'
    BY <1>1, <2>1, PagesAssumption DEF Larger, TypeOK
  <2>3. \A q \in PageIds :
          disk'[q] = IF q = frames[f].page_id THEN frames[f].data ELSE disk[q]
    BY <1>1, <2>1 DEF TypeOK
  <2> QED
    BY <1>1, <1>2, <2>2, <2>3
<1>3. CASE ~(io_ok /\ Used(f) /\ frames[f].is_dirty)
  <2>1. disk' = disk /\ file_pages' = file_pages
    BY <1>3 DEF Flushed
  <2>2. file_pages' >= file_pages
    BY <2>1, PagesAssumption DEF TypeOK
  <2> QED
    BY <1>3, <2>1, <2>2
<1> QED
  BY <1>2, <1>3

\* Page q is not in the pool, or dirty, or about to be, or in the file.
Backed(pt, fs, gs, n, file, q) ==
  \/ pt[q] = NoFrame
  \/ fs[pt[q]].is_dirty
  \/ \E g \in Guards : gs[g].page = q /\ gs[g].is_dirty
  \/ q < n /\ file[q] = fs[pt[q]].data

LEMMA CleanAsBacked ==
  /\ CleanPagesMatchDisk =
       (io_ok => \A q \in PageIds : Backed(page_table, frames, guards, file_pages, disk, q))
  /\ CleanPagesMatchDisk' =
       (io_ok' => \A q \in PageIds :
                    Backed(page_table', frames', guards', file_pages', disk', q))
BY DEF CleanPagesMatchDisk, Backed

LEMMA CleanStep ==
  ASSUME IInv, [TornNext]_vars
  PROVE  CleanPagesMatchDisk'
<1> USE DEF IInv
<1> DEFINE Before(q) == Backed(page_table, frames, guards, file_pages, disk, q)
           After(q) == Backed(page_table', frames', guards', file_pages', disk', q)
<1>0. io_ok => \A q \in PageIds : Before(q)
  BY CleanAsBacked
<1> SUFFICES ASSUME io_ok', NEW q \in PageIds PROVE After(q)
  BY CleanAsBacked
<1>1. ASSUME NEW g \in Guards, NEW p \in PageIds, Hit(g, p), TypeOK'
      PROVE  After(q)
  <2>1. /\ page_table' = page_table /\ disk' = disk
        /\ file_pages' = file_pages /\ io_ok' = io_ok
        /\ page_table[p] \in Frames /\ frames[page_table[p]].page_id = p
        /\ Guarded(g, p, page_table[p])
        /\ \A f \in Frames : frames'[f].is_dirty = frames[f].is_dirty
        /\ \A f \in Frames \ {page_table[p]} : frames'[f].data = frames[f].data
        /\ guards'[g].is_dirty \/ frames'[page_table[p]].data = frames[page_table[p]].data
    BY <1>1, HitEffect
  <2>2. Before(q)
    BY <1>0, <2>1
  <2>3. page_table[q] = NoFrame \/ page_table[q] \in Frames
    BY DEF TypeOK
  <2>4. CASE page_table[q] = NoFrame
    BY <2>1, <2>4 DEF Backed
  <2>5. CASE page_table[q] \in Frames /\ frames[page_table[q]].is_dirty
    BY <2>1, <2>5, Zenon DEF Backed
  <2>6. CASE \E h \in Guards : guards[h].page = q /\ guards[h].is_dirty
    <3>1. PICK h \in Guards : guards[h].page = q /\ guards[h].is_dirty
      BY <2>6
    <3>2. h # g
      BY <2>1, <3>1, PagesAssumption DEF Guarded
    <3>3. guards'[h] = guards[h]
      BY <2>1, <3>2 DEF Guarded
    <3> QED
      BY <3>1, <3>3 DEF Backed
  <2>7. CASE page_table[q] \in Frames /\ q < file_pages /\ disk[q] = frames[page_table[q]].data
    <3>1. CASE frames'[page_table[q]].data = frames[page_table[q]].data
      BY <2>1, <2>7, <3>1 DEF Backed
    <3>2. CASE page_table[q] = page_table[p] /\ guards'[g].is_dirty
      <4>1. q = p
        BY <2>1, <2>7, <3>2, PoolAssumption DEF PageTableExact
      <4> QED
        BY <2>1, <3>2, <4>1 DEF Backed, Guarded
    <3> QED
      BY <2>1, <2>7, <3>1, <3>2
  <2> QED
    BY <2>2, <2>3, <2>4, <2>5, <2>6, <2>7 DEF Backed
<1>2. ASSUME NEW g \in Guards, NEW p \in PageIds, Miss(g, p)
      PROVE  After(q)
  <2>1. PICK f \in Victims :
          /\ f \in Frames /\ ~Contains(p)
          /\ Flushed(f) /\ Remapped(f, p) /\ Guarded(g, p, f)
          /\ \A e \in Frames \ {f} : frames'[e] = frames[e]
          /\ io_ok' => io_ok
          /\ \/ guards'[g].is_dirty
             \/ io_ok' => p < file_pages' /\ disk'[p] = frames'[f].data
    BY <1>2, MissEffect
  <2>2. /\ page_table'[p] = f
        /\ \A r \in PageIds \ {p} :
             IF Used(f) /\ r = frames[f].page_id
             THEN page_table'[r] = NoFrame
             ELSE page_table'[r] = page_table[r] /\ page_table[r] # f
    BY <2>1, RemappedEffect
  <2>3. CASE q = p
    <3>1. CASE guards'[g].is_dirty
      BY <2>1, <2>3, <3>1 DEF Backed, Guarded
    <3>2. CASE p < file_pages' /\ disk'[p] = frames'[f].data
      BY <2>2, <2>3, <3>2 DEF Backed
    <3> QED
      BY <2>1, <3>1, <3>2
  <2>4. CASE q # p /\ Used(f) /\ q = frames[f].page_id
    BY <2>2, <2>4 DEF Backed
  <2>5. CASE q # p /\ ~(Used(f) /\ q = frames[f].page_id)
    <3>1. /\ page_table'[q] = page_table[q] /\ page_table[q] # f
          /\ disk'[q] = disk[q] /\ file_pages' >= file_pages
      BY <2>1, <2>2, <2>5, FlushedEffect
    <3>2. page_table[q] = NoFrame \/ frames'[page_table[q]] = frames[page_table[q]]
      BY <2>1, <3>1 DEF TypeOK
    <3>3. \A h \in Guards : guards[h].page = q => guards'[h] = guards[h]
      BY <2>1, PagesAssumption DEF Guarded
    <3>4. Before(q)
      BY <1>0, <2>1
    <3>5. q < file_pages => q < file_pages'
      BY <3>1, TypeStep, PagesAssumption DEF TypeOK
    <3> QED
      BY <3>1, <3>2, <3>3, <3>4, <3>5, Zenon DEF Backed
  <2> QED
    BY <2>3, <2>4, <2>5
<1>3. ASSUME NEW g \in Guards, NEW v \in Content, Write(g, v)
      PROVE  After(q)
  <2>1. guards[g].page \in PageIds /\ guards[g].frame \in Frames
    BY <1>3, UnpinEffect DEF Write
  <2>2. /\ page_table' = page_table /\ disk' = disk /\ file_pages' = file_pages
        /\ io_ok' = io_ok
        /\ \A f \in Frames : f # guards[g].frame => frames'[f] = frames[f]
        /\ guards'[g].page = guards[g].page /\ guards'[g].is_dirty
        /\ \A h \in Guards : h # g => guards'[h] = guards[h]
    BY <1>3 DEF Write, TypeOK, Guard, fileVars
  <2>3. Before(q)
    BY <1>0, <2>2
  <2>4. CASE q = guards[g].page
    BY <2>2, <2>4 DEF Backed
  <2>5. CASE q # guards[g].page
    <3>1. page_table[q] = NoFrame \/ frames'[page_table[q]] = frames[page_table[q]]
      BY <1>3, <2>1, <2>2, <2>5, UnpinEffect DEF Write, PageTableExact, TypeOK
    <3>2. \A h \in Guards : guards[h].page = q => guards'[h] = guards[h]
      BY <2>2, <2>5
    <3> QED
      BY <2>2, <2>3, <3>1, <3>2, Zenon DEF Backed
  <2> QED
    BY <2>4, <2>5
\* unpin_page for g, which then names another page or none.
<1>4. ASSUME NEW g \in Guards, Live(g), frames' = UnpinFor(g),
             page_table' = page_table, disk' = disk, file_pages' = file_pages,
             io_ok' = io_ok,
             \A h \in Guards \ {g} : \E k \in Guards : guards'[k] = guards[h]
      PROVE  After(q)
  <2>1. guards[g].is_dirty \in BOOLEAN
    BY DEF TypeOK, Guard
  <2>2. /\ guards[g].frame \in Frames
        /\ page_table[guards[g].page] = guards[g].frame
        /\ frames' = [frames EXCEPT ![guards[g].frame] =
                        UnpinnedOnce(@, guards[g].is_dirty)]
    BY <1>4, UnpinEffect
  <2>3. /\ \A e \in Frames : frames'[e].data = frames[e].data
        /\ \A e \in Frames : frames[e].is_dirty => frames'[e].is_dirty
        /\ guards[g].is_dirty => frames'[guards[g].frame].is_dirty
    BY <2>1, <2>2, UnpinnedOnceEffect
  <2>4. Before(q)
    BY <1>0, <1>4
  <2>5. page_table[q] = NoFrame \/ page_table[q] \in Frames
    BY DEF TypeOK
  <2>6. CASE page_table[q] = NoFrame
    BY <1>4, <2>6 DEF Backed
  <2>7. CASE page_table[q] \in Frames /\ frames[page_table[q]].is_dirty
    <3>1. PICK e \in Frames : e = page_table[q]
      BY <2>7
    <3>2. frames'[e].is_dirty
      BY <2>3, <2>7, <3>1, Zenon
    <3>3. page_table'[q] = page_table[q]
      BY <1>4
    <3> QED
      BY <3>1, <3>2, <3>3 DEF Backed
  <2>8. CASE \E h \in Guards : guards[h].page = q /\ guards[h].is_dirty
    <3>1. PICK h \in Guards : guards[h].page = q /\ guards[h].is_dirty
      BY <2>8
    <3>2. CASE h = g
      BY <1>4, <2>2, <2>3, <3>1, <3>2, Zenon DEF Backed
    <3>3. CASE h # g
      BY <1>4, <3>1, <3>3, Zenon DEF Backed
    <3> QED
      BY <3>2, <3>3
  <2>9. CASE page_table[q] \in Frames /\ q < file_pages /\ disk[q] = frames[page_table[q]].data
    <3>1. PICK e \in Frames : e = page_table[q]
      BY <2>9
    <3>2. frames'[e].data = frames[e].data
      BY <2>3, <3>1
    <3>3. /\ page_table'[q] = page_table[q] /\ disk'[q] = disk[q]
          /\ file_pages' = file_pages
      BY <1>4
    <3> QED
      BY <2>9, <3>1, <3>2, <3>3 DEF Backed
  <2> QED
    BY <2>4, <2>5, <2>6, <2>7, <2>8, <2>9 DEF Backed
<1>5. ASSUME NEW g \in Guards, Destroy(g)
      PROVE  After(q)
  <2>1. \A h \in Guards \ {g} : guards'[h] = guards[h]
    BY <1>5 DEF Destroy, TypeOK
  <2> QED
    BY <1>4, <1>5, <2>1 DEF Destroy, fileVars
<1>6. ASSUME NEW g \in Guards, NEW h \in Guards, MoveAssign(g, h)
      PROVE  After(q)
  <2>1. /\ \A k \in Guards \ {g, h} : guards'[k] = guards[k]
        /\ guards'[g] = guards[h]
    BY <1>6 DEF MoveAssign, TypeOK
  <2>2. \A k \in Guards \ {g} : \E l \in Guards : guards'[l] = guards[k]
    BY <2>1
  <2>3. CASE Live(g)
    BY <1>4, <1>6, <2>2, <2>3 DEF MoveAssign, fileVars
  <2>4. CASE ~Live(g)
    <3>1. /\ frames' = frames /\ page_table' = page_table /\ disk' = disk
          /\ file_pages' = file_pages /\ io_ok' = io_ok
      BY <1>6, <2>4 DEF MoveAssign, fileVars
    <3>2. \A k \in Guards : guards[k].page = q => k # g
      BY <2>4, PagesAssumption
    <3>3. Before(q)
      BY <1>0, <3>1
    <3> QED
      BY <2>2, <3>1, <3>2, <3>3, Zenon DEF Backed
  <2> QED
    BY <2>3, <2>4
<1>7. ASSUME NEW p \in PageIds, FlushPage(p)
      PROVE  After(q)
  <2> DEFINE f == page_table[p]
  <2>1. /\ f \in Frames /\ Used(f) /\ frames[f].page_id = p
        /\ frames[f].is_dirty /\ Flushed(f)
        /\ page_table' = page_table /\ guards' = guards /\ io_ok' = io_ok
        /\ frames' = [frames EXCEPT ![f].is_dirty = FALSE]
    <3>1. f \in Frames /\ Contains(p)
      BY <1>7 DEF FlushPage, TypeOK
    <3> QED
      BY <1>7, <3>1 DEF FlushPage, PageTableExact
  <2>2. Before(q)
    BY <1>0, <2>1
  <2>3. CASE q = p
    <3>1. p < file_pages' /\ disk'[p] = frames[f].data
      BY <2>1, FlushedEffect
    <3>2. frames'[f].data = frames[f].data
      BY <2>1 DEF TypeOK, Frame
    <3> QED
      BY <2>1, <2>3, <3>1, <3>2 DEF Backed
  <2>4. CASE q # p
    <3>1. disk'[q] = disk[q] /\ file_pages' >= file_pages
      BY <2>1, <2>4, FlushedEffect
    <3>2. page_table[q] = NoFrame \/ frames'[page_table[q]] = frames[page_table[q]]
      BY <2>1, <2>4 DEF PageTableExact, TypeOK
    <3>3. q < file_pages => q < file_pages'
      BY <3>1, TypeStep DEF TypeOK
    <3> QED
      BY <2>1, <2>2, <3>1, <3>2, <3>3, Zenon DEF Backed
  <2> QED
    BY <2>3, <2>4
<1>8. CASE Dies
  BY <1>8, DiesIsDie, DieEffect DEF Backed
<1>9. CASE Elsewhere
  <2>1. CASE CreateSuperblock \/ CreateRoot
    <3>1. page_table' = page_table /\ \A f \in Frames : ~Used(f)
      BY <2>1 DEF CreateSuperblock, CreateRoot, poolVars, Quiet
    <3>2. page_table[q] = NoFrame
      BY <3>1 DEF PageTableExact, TypeOK
    <3> QED
      BY <3>1, <3>2 DEF Backed
  <2>2. CASE StartFlushAll \/ Saved \/ Open \/ UNCHANGED vars
    <3>1. UNCHANGED <<poolVars, fileVars>>
      BY <2>2 DEF StartFlushAll, Saved, Open, vars
    <3>2. Before(q)
      BY <1>0, <3>1 DEF fileVars
    <3> QED
      BY <3>1, <3>2 DEF poolVars, fileVars
  <2> QED
    BY <1>9, <2>1, <2>2 DEF Elsewhere
<1> QED
  BY <1>1, <1>2, <1>3, <1>5, <1>6, <1>7, <1>8, <1>9, NextCases, TypeStep

-----------------------------------------------------------------------------
(* The phases *)

LEMMA QuietStep ==
  ASSUME IInv, [TornNext]_vars
  PROVE  Quiet'
<1> USE DEF IInv
<1>1. ASSUME NEW g \in Guards, NEW p \in PageIds, Hit(g, p) \/ Miss(g, p)
      PROVE  Quiet'
  BY <1>1, TypeStep, HitEffect, MissEffect DEF Quiet
<1>2. ASSUME NEW g \in Guards, Live(g), phase' = phase PROVE Quiet'
  BY <1>2 DEF Quiet, NoGuards
<1>3. ASSUME NEW g \in Guards, NEW v \in Content, Write(g, v) PROVE Quiet'
  BY <1>2, <1>3 DEF Write
<1>4. ASSUME NEW g \in Guards, Destroy(g) PROVE Quiet'
  BY <1>2, <1>4 DEF Destroy
<1>5. ASSUME NEW g \in Guards, NEW h \in Guards, MoveAssign(g, h) PROVE Quiet'
  BY <1>2, <1>5 DEF MoveAssign
<1>6. ASSUME NEW p \in PageIds, FlushPage(p) PROVE Quiet'
  BY <1>6 DEF FlushPage, Quiet, NoGuards
<1>7. CASE Dies
  BY <1>7, DiesIsDie, DieEffect DEF Quiet, NoGuards
<1>8. CASE Elsewhere
  BY <1>8 DEF Elsewhere, StartFlushAll, Saved, CreateSuperblock, CreateRoot, Open,
              vars, poolVars, Quiet, NoGuards
<1> QED
  BY <1>1, <1>3, <1>4, <1>5, <1>6, <1>7, <1>8, NextCases

-----------------------------------------------------------------------------
(* Recency *)

\* Frame f is used now, and nothing else happens to the order of use.
Stamped(f) ==
  /\ frames'[f].last_used = global_timestamp
  /\ global_timestamp' = global_timestamp + 1
  /\ \A e \in Frames \ {f} : frames'[e].last_used = frames[e].last_used

LEMMA StampedKeepsRecency ==
  ASSUME TypeOK, RecencyDistinct, NEW f \in Frames, Stamped(f)
  PROVE  RecencyDistinct'
<1>1. global_timestamp \in Nat /\ \A e \in Frames : frames[e].last_used \in Nat
  BY TimeAssumption DEF TypeOK, Frame
<1>2. \A e \in Frames : frames[e].last_used < global_timestamp
  BY <1>1, TimeAssumption DEF RecencyDistinct, Used, TypeOK
<1> QED
  BY <1>1, <1>2 DEF RecencyDistinct, Used, Stamped

LEMMA HitStamps ==
  ASSUME TypeOK, NEW g \in Guards, NEW p \in PageIds, Hit(g, p)
  PROVE  \E f \in Frames : Stamped(f)
<1>1. page_table[p] \in Frames
  BY DEF Hit, FetchHit, AllocateHit, Contains, TypeOK
<1>2. frames[page_table[p]] \in Frame
  BY <1>1 DEF TypeOK
<1>3. CASE FetchHit(g, p)
  <2>1. frames' = [frames EXCEPT ![page_table[p]] = Pinned(@)]
    BY <1>3 DEF FetchHit
  <2>2. global_timestamp' = global_timestamp + 1
    BY <1>3 DEF FetchHit, CanTake, Tick
  <2>3. Pinned(frames[page_table[p]]).last_used = global_timestamp
    BY <1>2 DEF Pinned, Frame
  <2> QED
    BY <1>1, <2>1, <2>2, <2>3 DEF Stamped, TypeOK
<1>4. CASE AllocateHit(g, p)
  <2>1. frames' = [frames EXCEPT ![page_table[p]] = [Pinned(@) EXCEPT !.data = Fresh]]
    BY <1>4 DEF AllocateHit
  <2>2. global_timestamp' = global_timestamp + 1
    BY <1>4 DEF AllocateHit, CanTake, Tick
  <2>3. [Pinned(frames[page_table[p]]) EXCEPT !.data = Fresh].last_used = global_timestamp
    BY <1>2 DEF Pinned, Frame
  <2> QED
    BY <1>1, <2>1, <2>2, <2>3 DEF Stamped, TypeOK
<1> QED
  BY <1>3, <1>4 DEF Hit

LEMMA MissStamps ==
  ASSUME TypeOK, NEW g \in Guards, NEW p \in PageIds, Miss(g, p)
  PROVE  \E f \in Frames : Stamped(f)
<1>1. PICK f \in Victims, v \in Content : frames' = [frames EXCEPT ![f] = Loaded(p, v)]
  BY ContentAssumption DEF Miss, FetchMiss, AllocateMiss
<1>2. global_timestamp' = global_timestamp + 1
  BY DEF Miss, FetchMiss, AllocateMiss, CanTake, Tick
<1>3. f \in Frames
  BY VictimInFrames
<1> QED
  BY <1>1, <1>2, <1>3 DEF Stamped, Loaded, TypeOK

LEMMA RecencyStep ==
  ASSUME IInv, RecencyDistinct, [TornNext]_vars
  PROVE  RecencyDistinct'
<1> USE DEF IInv
<1>1. ASSUME NEW g \in Guards, NEW p \in PageIds, Hit(g, p) \/ Miss(g, p)
      PROVE  RecencyDistinct'
  BY <1>1, HitStamps, MissStamps, StampedKeepsRecency
<1>2. ASSUME global_timestamp' = global_timestamp,
             \A f \in Frames : frames'[f].last_used = frames[f].last_used
      PROVE  RecencyDistinct'
  BY <1>2 DEF RecencyDistinct, Used
<1>3. ASSUME NEW g \in Guards, NEW v \in Content, Write(g, v) PROVE RecencyDistinct'
  BY <1>2, <1>3 DEF Write, TypeOK, Frame
<1>4. ASSUME NEW g \in Guards, Live(g), frames' = UnpinFor(g)
      PROVE  \A f \in Frames : frames'[f].last_used = frames[f].last_used
  BY <1>4, UnpinEffect, UnpinnedOnceEffect DEF TypeOK, Guard
<1>5. ASSUME NEW g \in Guards, Destroy(g) PROVE RecencyDistinct'
  BY <1>2, <1>4, <1>5 DEF Destroy
<1>6. ASSUME NEW g \in Guards, NEW h \in Guards, MoveAssign(g, h) PROVE RecencyDistinct'
  BY <1>2, <1>4, <1>6 DEF MoveAssign
<1>7. ASSUME NEW p \in PageIds, FlushPage(p) PROVE RecencyDistinct'
  BY <1>2, <1>7 DEF FlushPage, TypeOK, Frame
<1>8. CASE Dies
  BY <1>8, DiesIsDie, DieEffect DEF RecencyDistinct, Used
<1>9. CASE Elsewhere
  BY <1>2, <1>9, ElsewhereEffect DEF poolVars
<1> QED
  BY <1>1, <1>3, <1>5, <1>6, <1>7, <1>8, <1>9, NextCases

-----------------------------------------------------------------------------
(* The invariant *)

LEMMA InvInit == Init => IInv
<1> SUFFICES ASSUME Init PROVE IInv
  OBVIOUS
<1>1. TypeOK
  BY TypeInit
<1>2. PageTableExact /\ GuardsPointToTheirPage /\ PinsCountGuards
      /\ CleanPagesMatchDisk /\ Quiet
  BY DEF Init, EmptyPool, EmptyFrame, NullGuard, PageTableExact, NoGuards,
         GuardsPointToTheirPage, PinsCountGuards, CleanPagesMatchDisk, Quiet
<1> QED
  BY <1>1, <1>2 DEF IInv

LEMMA InvStep == IInv /\ [TornNext]_vars => IInv'
<1> SUFFICES ASSUME IInv, [TornNext]_vars PROVE IInv'
  OBVIOUS
<1>1. TypeOK'
  BY TypeStep DEF IInv
<1> QED
  BY <1>1, PageTableStep, GuardsStep, PinsStep, CleanStep, QuietStep DEF IInv

LEMMA Invariance == TornSpec => []IInv
BY InvInit, InvStep, PTL DEF TornSpec

\* The environment of Spec is a part of that of TornSpec.
LEMMA SpecIsTornSpec == Spec => TornSpec
<1>1. [Next]_vars => [TornNext]_vars
  BY DEF TornNext
<1> QED
  BY <1>1, PTL DEF Spec, TornSpec

(* The page table and the frames agree, whatever was evicted, and even when *)
(* the stream has failed (buffer_pool_manager.cpp:42-65).                   *)
THEOREM PageTableCorrect == TornSpec => []PageTableExact
BY Invariance, PTL DEF IInv

(* No guard's Page* is ever left pointing at another page's bytes: frames   *)
(* under a live guard are not reused (buffer_pool_manager.cpp:32).          *)
THEOREM GuardsCorrect == TornSpec => []GuardsPointToTheirPage
BY Invariance, PTL DEF IInv

(* Moves and destructions in any order leave each pin count the number of   *)
(* guards alive on the page (page_guard.cpp:8-29).                          *)
THEOREM PinsCorrect == TornSpec => []PinsCountGuards
BY Invariance, PTL DEF IInv

(* A page dropped unwritten is in the file as it was in memory.             *)
THEOREM CleanPagesCorrect == TornSpec => []CleanPagesMatchDisk
BY Invariance, PTL DEF IInv

(* The frames in use have distinct timestamps, all in the past: which frame *)
(* find_victim_frame takes does not depend on the order it looks at them.   *)
THEOREM RecencyCorrect == TornSpec => []RecencyDistinct
<1>1. Init => RecencyDistinct
  BY DEF Init, EmptyPool, EmptyFrame, RecencyDistinct, Used
<1>2. IInv /\ RecencyDistinct /\ [TornNext]_vars => RecencyDistinct'
  BY RecencyStep
<1> QED
  BY <1>1, <1>2, Invariance, PTL DEF TornSpec
=============================================================================
