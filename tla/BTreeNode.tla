----------------------------- MODULE BTreeNode -----------------------------
(***************************************************************************)
(* One page of the B+tree: what src/page.cpp does to a leaf's rows and     *)
(* src/btree.cpp to an internal node's cells, as functions of the page.    *)
(*                                                                         *)
(* A leaf is the sequence of its rows with the space they take (module     *)
(* SlottedPage has the bytes); an internal node is its cells, each a child *)
(* with the key that separates it from the next, and the rightmost child.  *)
(***************************************************************************)
EXTENDS Naturals, Sequences, FiniteSets, SequencesExt

CONSTANTS
  NODE_SPACE,  \* PAGE_SIZE - sizeof(PageHeader), 8163 in the code
  SLOT_SIZE,   \* sizeof(Slot), 4
  CELL_SIZE,   \* sizeof(InternalNodeCell), 8
  CHILD_IDS,   \* values of the uint16_t get_child_index takes, 2^16
  Values,      \* what a row may hold
  Size         \* value -> bytes of the serialized row

ASSUME SizeAssumption == \A v \in Values : Size[v] \in Nat \ {0}
ASSUME NodeAssumption ==
  /\ CELL_SIZE \in Nat \ {0} /\ SLOT_SIZE \in Nat /\ CHILD_IDS \in Nat \ {0}
  /\ NODE_SPACE \in Nat /\ NODE_SPACE >= 4 * CELL_SIZE

\* Page::init_new_page; 0 is the superblock's number and stands for no page.
NewPage(type) ==
  [type |-> type, parent |-> 0, next |-> 0, prev |-> 0,
   rows |-> <<>>, cells |-> <<>>, rightmost |-> 0]

-----------------------------------------------------------------------------
(* Leaves *)

\* The sums a loop over a sequence of numbers has after each turn, 0 before the first.
Sums(s) ==
  LET sum[i \in 0 .. Len(s)] == IF i = 0 THEN 0 ELSE sum[i - 1] + s[i] IN sum

Cost(row) == SLOT_SIZE + Size[row.val]
Taken(rows) == Sums([i \in DOMAIN rows |-> Cost(rows[i])])[Len(rows)]

\* Page::insert_record succeeds, and so does Page::update_record.
Fits(rows, row) == Taken(rows) + Cost(row) <= NODE_SPACE
UpdateFits(rows, i, v) ==
  Size[rows[i].val] >= Size[v] \/ Taken(rows) + Size[v] <= NODE_SPACE

\* Page::is_underflowed
LeafUnderflows(rows) == Taken(rows) < NODE_SPACE \div 2
NodeUnderflows(n) == Len(n.cells) * CELL_SIZE < NODE_SPACE \div 2

\* Where the binary search of find ends: the slot of k, or where it belongs.
SlotOf(rows, k) == 1 + Cardinality({i \in DOMAIN rows : rows[i].key < k})
Holds(rows, k) == \E i \in DOMAIN rows : rows[i].key = k

\* insert_record, which leaves a full page as it was.
Inserted(rows, i, row) == IF Fits(rows, row) THEN InsertAt(rows, i, row) ELSE rows

-----------------------------------------------------------------------------
(* Internal nodes *)

MAX_CELLS == NODE_SPACE \div CELL_SIZE
HasRoom_OneMore(n) == Len(n.cells) <= MAX_CELLS
HasRoom(n) == CELL_SIZE * (Len(n.cells) + 1) <= NODE_SPACE

\* The fewest cells a node has that is not underflowed.
MIN_CELLS == (NODE_SPACE \div 2 + CELL_SIZE - 1) \div CELL_SIZE

\* The children from left to right, and the positions get_child_index finds.
Kids(n) == Append([i \in DOMAIN n.cells |-> n.cells[i].child], n.rightmost)
Indices(n, c) == {i \in DOMAIN Kids(n) : Kids(n)[i] = c % CHILD_IDS}

\* The cell a key belongs to: the first with a larger key, or the rightmost.
CellFor_Strict(n, k) == 1 + Cardinality({i \in DOMAIN n.cells : n.cells[i].key < k})
CellFor(n, k) == 1 + Cardinality({i \in DOMAIN n.cells : n.cells[i].key <= k})

\* insert_internal_cell: left and right take the place of left.
WithCell(n, k, left, right) ==
  LET i == CellFor(n, k)
      cells == InsertAt(n.cells, i, [child |-> left, key |-> k])
  IN IF i < Len(cells)
     THEN [n EXCEPT !.cells = [cells EXCEPT ![i + 1].child = right]]
     ELSE [n EXCEPT !.cells = cells, !.rightmost = right]

\* The first part of remove_internal_cell: child c goes, and its left
\* neighbour takes over its range.
WithoutChild_KeepsKey(n, c) ==
  IF n.rightmost = c
  THEN [n EXCEPT !.cells = Front(@), !.rightmost = Last(n.cells).child]
  ELSE [n EXCEPT !.cells = RemoveAt(@, CHOOSE i \in DOMAIN @ : @[i].child = c)]
WithoutChild(n, c) ==
  IF n.rightmost = c
  THEN [n EXCEPT !.cells = Front(@), !.rightmost = Last(n.cells).child]
  ELSE LET i == CHOOSE i \in DOMAIN n.cells : n.cells[i].child = c
           cells == IF i = 1 THEN n.cells
                    ELSE [n.cells EXCEPT ![i - 1].key = n.cells[i].key]
       IN [n EXCEPT !.cells = RemoveAt(cells, i)]

\* Two neighbours and the key between them as one node; and the two nodes
\* that come of cutting a node after its first a cells.
Joined(left, right, k) ==
  [left EXCEPT !.cells = @ \o <<[child |-> left.rightmost, key |-> k]>> \o right.cells,
               !.rightmost = right.rightmost]
LeftPart(n, a) == [n EXCEPT !.cells = SubSeq(@, 1, a), !.rightmost = n.cells[a + 1].child]
RightCells_SkipsOne(n, a) == SubSeq(n.cells, a + 3, Len(n.cells))
RightCells(n, a) == SubSeq(n.cells, a + 2, Len(n.cells))
=============================================================================
