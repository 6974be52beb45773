------------------------------ MODULE PageStore ------------------------------
(***************************************************************************)
(* What the buffer pool promises to the table and the B+tree: a memory of  *)
(* pages in which a read returns the last write, backed by a file in which *)
(* every page is some version the memory had.  Pages reach the file one by *)
(* one and whenever the pool likes; a crash throws the memory away.        *)
(***************************************************************************)

CONSTANTS
  PageIds,  \* the page numbers of the file
  Content,  \* what a page may hold
  Zeros     \* a page nobody wrote

VARIABLES
  mem,      \* what a client that asks for a page is given
  disk      \* what the file holds

vars == <<mem, disk>>

Init ==
  /\ disk = [p \in PageIds |-> Zeros]
  /\ mem = disk

\* The pages of S are written back.
WriteBack(S) ==
  disk' = [p \in PageIds |-> IF p \in S THEN mem[p] ELSE disk[p]]

\* A client changes a page; making room for it may write others back.
Write(p, v) ==
  /\ mem' = [mem EXCEPT ![p] = v]
  /\ \E S \in SUBSET (PageIds \ {p}) : WriteBack(S)

\* Pages are written back and nobody can tell.
Persist(S) ==
  /\ WriteBack(S)
  /\ UNCHANGED mem

\* A page nobody wrote, of a new file, is written to memory and file at once.
Create(p, v) ==
  /\ mem[p] = Zeros /\ disk[p] = Zeros
  /\ mem' = [mem EXCEPT ![p] = v]
  /\ disk' = [disk EXCEPT ![p] = v]

\* The process dies: what was not written back is gone.
Crash ==
  /\ mem' = disk
  /\ UNCHANGED disk

Next ==
  \/ \E p \in PageIds, v \in Content : Write(p, v) \/ Create(p, v)
  \/ \E S \in SUBSET PageIds : Persist(S)
  \/ Crash

Spec == Init /\ [][Next]_vars
=============================================================================
