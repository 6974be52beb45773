------------------------------- MODULE BTree -------------------------------
(***************************************************************************)
(* The B+tree over the pages of the table (src/btree.cpp, src/table.cpp).  *)
(* Every public call is one action: nothing runs beside it and nothing is  *)
(* undone when it fails half-way.  A handler is an operator from a         *)
(* database to a database, as the code is a sequence of calls that change  *)
(* pages.                                                                  *)
(***************************************************************************)
EXTENDS BTreeNode

CONSTANT MAX_ROWS   \* bound on the row ids

ASSUME BoundAssumption == MAX_ROWS \in Nat \ {0}

\* A node with as many cells as one may have can give half of them away and keep one:
\* 511 + 2 <= 1020 in the code.
ASSUME CellAssumption == MIN_CELLS + 2 <= MAX_CELLS

VARIABLE
  db  \* page: the pages, from 1; root_page_id, first_free_page, next_row:
      \* the superblock; fault: memory was read that holds no such thing

-----------------------------------------------------------------------------
(* Pages and the superblock *)

\* Table::Table on a new file: the root is an empty leaf.
Init ==
  db = [page |-> <<NewPage("leaf")>>, root_page_id |-> 1, first_free_page |-> 0,
        next_row |-> 0, fault |-> FALSE]

\* allocate_new_page, and the number of the page it returns.
NewId(s) == IF s.first_free_page = 0 THEN Len(s.page) + 1 ELSE s.first_free_page
Allocated_LosesList(s, type) ==
  IF s.first_free_page = 0
  THEN [s EXCEPT !.page = Append(@, NewPage(type))]
  ELSE [s EXCEPT !.page[NewId(s)] = NewPage(type), !.first_free_page = 0]
Allocated(s, type) ==
  IF s.first_free_page = 0
  THEN [s EXCEPT !.page = Append(@, NewPage(type))]
  ELSE [s EXCEPT !.page[NewId(s)] = NewPage(type),
                 !.first_free_page = s.page[NewId(s)].next]

\* free_page
Freed(s, p) ==
  IF s.page[p].type = "free" THEN s
  ELSE [s EXCEPT !.page[p] = [NewPage("free") EXCEPT !.next = s.first_free_page],
                 !.first_free_page = p]

Fault(s) == [s EXCEPT !.fault = TRUE]

\* The pages of C are told their parent.
Adopted(s, C, p) ==
  [s EXCEPT !.page = [q \in DOMAIN @ |->
                        IF q \in C THEN [@[q] EXCEPT !.parent = p] ELSE @[q]]]

\* next is told its new left neighbour, if there is one.
Linked_Forgets(s, next, p) == s
Linked(s, next, p) == IF next = 0 THEN s ELSE [s EXCEPT !.page[next].prev = p]

\* find_leaf_page: a step down to the child for k, until there is none.
LeafFor(s, k) ==
  LET down == [p \in DOMAIN s.page |->
                 IF s.page[p].type = "internal" THEN Kids(s.page[p])[CellFor(s.page[p], k)]
                 ELSE p]
      page[depth \in 0 .. Len(s.page)] ==
        IF depth = 0 THEN s.root_page_id ELSE down[page[depth - 1]]
  IN page[Len(s.page)]

\* The pages above p, from its parent to the root.
Ancestors(s, p) ==
  LET above[i \in 0 .. Len(s.page)] ==
        IF i = 0 THEN p
        ELSE LET q == above[i - 1] IN IF q = 0 THEN 0 ELSE s.page[q].parent
      height == CHOOSE h \in 0 .. Len(s.page) - 1 : above[h] # 0 /\ above[h + 1] = 0
  IN [i \in 1 .. height |-> above[i]]

-----------------------------------------------------------------------------
(* Splitting *)

\* The key that moves up when node n is split.
Middle(n) == Len(n.cells) \div 2
PushedUp(n) == n.cells[Middle(n) + 1].key

\* The first half of split_leaf_node and of split_internal_node: p has a new
\* right neighbour, whose keys start at key.  The rows are halved by number,
\* whatever their sizes.
CutLeaf(s, p) ==
  LET leaf == s.page[p]
      half == Len(leaf.rows) \div 2
      q == NewId(s)
      right == [leaf EXCEPT !.rows = SubSeq(@, half + 1, Len(@)), !.prev = p]
      t == [Allocated(s, "leaf") EXCEPT !.page[p].rows = SubSeq(leaf.rows, 1, half),
                                        !.page[p].next = q,
                                        !.page[q] = right]
  IN [db |-> Linked(t, leaf.next, q), left |-> p, right |-> q, key |-> leaf.rows[half + 1].key]

CutInternal(s, p) ==
  LET n == s.page[p]
      q == NewId(s)
      right == [NewPage("internal") EXCEPT !.parent = n.parent,
                                           !.cells = RightCells(n, Middle(n)),
                                           !.rightmost = n.rightmost]
      t == [Allocated(s, "internal") EXCEPT !.page[p] = LeftPart(n, Middle(n)),
                                            !.page[q] = right]
  IN [db |-> Adopted(t, ToSet(Kids(right)), q), left |-> p, right |-> q, key |-> PushedUp(n)]

\* The second half of both: a root above the two, or a cell in their parent.
Rooted(s, cut) ==
  LET root == NewId(s)
      t == Adopted(Allocated(s, "internal"), {cut.left, cut.right}, root)
  IN [t EXCEPT !.page[root].cells = <<[child |-> cut.left, key |-> cut.key]>>,
               !.page[root].rightmost = cut.right,
               !.root_page_id = root]
Attached_OldParent(s, cut, parent) ==
  [s EXCEPT !.page[parent] = WithCell(@, cut.key, cut.left, cut.right)]
Attached(s, cut, parent) ==
  Adopted([s EXCEPT !.page[parent] = WithCell(@, cut.key, cut.left, cut.right)],
          {cut.left, cut.right}, parent)

\* split_leaf_node with the calls of split_internal_node inside it: the leaf is
\* cut, then the full nodes above it; the last of them is attached to a parent with room
\* or a new root, then the others on the way back, each to the half of
\* its parent that its key belongs to.
SplitLeaf(s, p) ==
  LET above == Ancestors(s, p)
      height == CHOOSE h \in 0 .. Len(above) :
                  /\ \A i \in 1 .. h : ~HasRoom(s.page[above[i]])
                  /\ h < Len(above) => HasRoom(s.page[above[h + 1]])
      cut[i \in 0 .. height] ==
        IF i = 0 THEN CutLeaf(s, p) ELSE CutInternal(cut[i - 1].db, above[i])
      top == cut[height]
      attached[i \in 0 .. height] ==
        IF i = 0
        THEN IF height = Len(above) THEN Rooted(top.db, top)
             ELSE Attached(top.db, top, above[height + 1])
        ELSE LET half == cut[height - i]
                 parent == cut[height - i + 1]
                 t == attached[i - 1]
             IN Attached(t, half, IF half.key < parent.key THEN t.page[half.left].parent
                                  ELSE parent.right)
  IN IF s.page[p].rows = <<>> THEN Fault(s) ELSE attached[height]

-----------------------------------------------------------------------------
(* Balancing *)

\* The root has one child left, which becomes the root.
Collapsed_KeepsParent(s, p) == Freed([s EXCEPT !.root_page_id = s.page[p].rightmost], p)
Collapsed(s, p) ==
  LET only == s.page[p].rightmost
  IN Freed([s EXCEPT !.root_page_id = only, !.page[only].parent = 0], p)

\* borrow_internal: dst takes cells of src, through the cell i of their
\* parent between them, until it is no longer underflowed.
BorrowInternal(s, src, dst, parent, i, from_beg) ==
  LET left  == IF from_beg THEN dst ELSE src
      right == IF from_beg THEN src ELSE dst
      all == Joined(s.page[left], s.page[right], s.page[parent].cells[i].key)
      a == IF from_beg THEN MIN_CELLS ELSE Len(all.cells) - 1 - MIN_CELLS
      t == [s EXCEPT !.page[left] = LeftPart(all, a),
                     !.page[right].cells = RightCells(all, a),
                     !.page[parent].cells[i].key = all.cells[a + 1].key]
  IN Adopted(t, ToSet(Kids(t.page[dst])) \ ToSet(Kids(s.page[dst])), dst)

\* merge_internal, up to the call that makes the parent forget the right node.
MergeInternal(s, left, right, parent, i) ==
  LET all == Joined(s.page[left], s.page[right], s.page[parent].cells[i].key)
  IN Adopted([s EXCEPT !.page[left] = all], ToSet(Kids(s.page[right])), left)

\* balance_internal: borrow from the left, from the right, or merge, and then
\* the page that is merged away.  The neighbours are those of the first place in
\* the parent that holds the number get_child_index looks for.
BalanceInternal(s, p) ==
  LET parent == s.page[p].parent
      kids == Kids(s.page[parent])
      places == Indices(s.page[parent], p)
      i == CHOOSE j \in places : \A h \in places : j <= h
      MayBorrow(j) == /\ j \in DOMAIN kids
                      /\ Len(s.page[p].cells) + Len(s.page[kids[j]].cells) + 1 >= MAX_CELLS
      Done(t) == [db |-> t, merged |-> 0]
  IN IF places = {} THEN Done(Fault(s))
     ELSE IF MayBorrow(i - 1) THEN Done(BorrowInternal(s, kids[i - 1], p, parent, i - 1, FALSE))
     ELSE IF MayBorrow(i + 1) THEN Done(BorrowInternal(s, kids[i + 1], p, parent, i, TRUE))
     ELSE IF i > 1
     THEN [db |-> MergeInternal(s, kids[i - 1], p, parent, i - 1), merged |-> p]
     ELSE IF i < Len(kids)
     THEN [db |-> MergeInternal(s, p, kids[i + 1], parent, i), merged |-> kids[i + 1]]
     ELSE Done(Fault(s))

\* remove_internal_cell on one node: the node that lost a child is balanced, or the
\* root that has only one left is given up.
WithoutKid(s, p, c) ==
  LET n == s.page[p]
      t == [s EXCEPT !.page[p] = WithoutChild(n, c)]
      Done(u) == [db |-> u, merged |-> 0]
  IN IF c \notin ToSet(Kids(n)) THEN Done(s)
     ELSE IF n.cells = <<>> THEN Done(Fault(s))
     ELSE IF n.parent # 0 /\ NodeUnderflows(t.page[p]) THEN BalanceInternal(t, p)
     ELSE IF n.parent = 0 /\ t.page[p].cells = <<>> THEN Done(Collapsed(t, p))
     ELSE Done(t)

\* remove_internal_cell: each merge makes it go on with the parent, and the pages
\* merged away are freed on the way back.
RemoveInternalCell(s, p, c) ==
  LET nodes == <<p>> \o Ancestors(s, p)
      step[i \in 1 .. Len(nodes)] ==
        IF i = 1 THEN WithoutKid(s, p, c)
        ELSE LET before == step[i - 1]
             IN IF before.merged = 0 THEN before
                ELSE WithoutKid(before.db, nodes[i], before.merged)
      freed[i \in 0 .. Len(nodes)] ==
        IF i = 0 THEN step[Len(nodes)].db
        ELSE LET merged == step[Len(nodes) + 1 - i].merged
             IN IF merged = 0 THEN freed[i - 1] ELSE Freed(freed[i - 1], merged)
  IN freed[Len(nodes)]

\* merge_leaf: the rows of right go to the end of left, as far as they fit.
Appended(rows, more) ==
  LET all[i \in 0 .. Len(more)] ==
        IF i = 0 THEN rows
        ELSE LET before == all[i - 1] IN Inserted(before, Len(before) + 1, more[i])
  IN all[Len(more)]
MergeLeaf_KeepsPage(s, left, right) ==
  LET rows == s.page[left].rows \o s.page[right].rows
      next == s.page[right].next
      t == Linked([s EXCEPT !.page[left].rows = rows, !.page[left].next = next], next, left)
  IN RemoveInternalCell(t, s.page[left].parent, right)
MergeLeaf_DropsRows(s, left, right) ==
  LET next == s.page[right].next
      t == Linked([s EXCEPT !.page[left].next = next], next, left)
  IN RemoveInternalCell(Freed(t, right), s.page[left].parent, right)
MergeLeaf(s, left, right) ==
  LET next == s.page[right].next
      t == Linked([s EXCEPT !.page[left].rows = Appended(@, s.page[right].rows),
                            !.page[left].next = next], next, left)
  IN RemoveInternalCell(Freed(t, right), s.page[left].parent, right)

\* The rows of two leaves after the loop of borrow_leaf, which takes a row
\* away from src whether dst had room for it or not.
Evened(src, dst, from_beg) ==
  LET turn[i \in 0 .. Len(src)] ==
        IF i = 0 THEN [src |-> src, dst |-> dst]
        ELSE LET e == turn[i - 1]
             IN IF ~LeafUnderflows(e.dst) THEN e
                ELSE IF from_beg
                THEN [src |-> Tail(e.src), dst |-> Inserted(e.dst, Len(e.dst) + 1, Head(e.src))]
                ELSE [src |-> Front(e.src), dst |-> Inserted(e.dst, 1, Last(e.src))]
  IN turn[Len(src)]

\* borrow_leaf: the parent's key between the two is then the right one's first.
BorrowLeaf_KeepsKey(s, src, dst, from_beg) ==
  LET even == Evened(s.page[src].rows, s.page[dst].rows, from_beg)
  IN [s EXCEPT !.page[src].rows = even.src, !.page[dst].rows = even.dst]
BorrowLeaf(s, src, dst, from_beg) ==
  LET left  == IF from_beg THEN dst ELSE src
      right == IF from_beg THEN src ELSE dst
      even == Evened(s.page[src].rows, s.page[dst].rows, from_beg)
      t == [s EXCEPT !.page[src].rows = even.src, !.page[dst].rows = even.dst]
  IN IF LeafUnderflows(even.dst) \/ t.page[right].rows = <<>> THEN Fault(t)
     ELSE [t EXCEPT !.page[s.page[right].parent].cells =
             [i \in DOMAIN @ |-> IF @[i].child = left
                                 THEN [@[i] EXCEPT !.key = t.page[right].rows[1].key]
                                 ELSE @[i]]]

\* balance_leaf: the last merge does not ask whether the two have one parent.
BalanceLeaf_AnySize(s, p) ==
  LET leaf == s.page[p]
      MayBorrow(q) == q # 0 /\ s.page[q].parent = leaf.parent
  IN IF MayBorrow(leaf.prev) THEN BorrowLeaf(s, leaf.prev, p, FALSE)
     ELSE IF MayBorrow(leaf.next) THEN BorrowLeaf(s, leaf.next, p, TRUE)
     ELSE s
BalanceLeaf(s, p) ==
  LET leaf == s.page[p]
      Sibling(q) == q # 0 /\ s.page[q].parent = leaf.parent
      MayBorrow(q) == Sibling(q) /\ Taken(leaf.rows) + Taken(s.page[q].rows) >= NODE_SPACE
  IN IF MayBorrow(leaf.prev) THEN BorrowLeaf(s, leaf.prev, p, FALSE)
     ELSE IF MayBorrow(leaf.next) THEN BorrowLeaf(s, leaf.next, p, TRUE)
     ELSE IF Sibling(leaf.prev) THEN MergeLeaf(s, leaf.prev, p)
     ELSE IF leaf.next # 0 THEN MergeLeaf(s, p, leaf.next)
     ELSE s

-----------------------------------------------------------------------------
(* The operations *)

\* The second attempts of insert and update: what they return is dropped.
WithRow(s, row) ==
  [s EXCEPT !.page[LeafFor(s, row.key)].rows = Inserted(@, SlotOf(@, row.key), row)]
WithValue(s, k, v) ==
  [s EXCEPT !.page[LeafFor(s, k)].rows =
     IF UpdateFits(@, SlotOf(@, k), v) THEN [@ EXCEPT ![SlotOf(@, k)].val = v] ELSE @]

\* insert of a row with the next id, which splits the leaf once if it is full.
AfterInsert_NextId(s, v) ==
  LET row == [key |-> s.next_row + 1, val |-> v]
      t == [s EXCEPT !.next_row = @ + 1]
      p == LeafFor(t, row.key)
  IN WithRow(IF Fits(t.page[p].rows, row) THEN t ELSE SplitLeaf(t, p), row)
AfterInsert_SameId(s, v) ==
  LET row == [key |-> s.next_row, val |-> v]
      p == LeafFor(s, row.key)
  IN WithRow(IF Fits(s.page[p].rows, row) THEN s ELSE SplitLeaf(s, p), row)
AfterInsert(s, v) ==
  LET row == [key |-> s.next_row, val |-> v]
      t == [s EXCEPT !.next_row = @ + 1]
      p == LeafFor(t, row.key)
  IN WithRow(IF Fits(t.page[p].rows, row) THEN t ELSE SplitLeaf(t, p), row)

AfterUpdate(s, k, v) ==
  LET p == LeafFor(s, k)
      rows == s.page[p].rows
  IN IF ~Holds(rows, k) THEN s
     ELSE WithValue(IF UpdateFits(rows, SlotOf(rows, k), v) THEN s ELSE SplitLeaf(s, p), k, v)

\* BTree::remove: a leaf that is not the root is balanced when it underflows.
AfterDelete_Unbalanced(s, k) ==
  LET p == LeafFor(s, k)
  IN IF ~Holds(s.page[p].rows, k) THEN s
     ELSE [s EXCEPT !.page[p].rows = RemoveAt(@, SlotOf(@, k))]
AfterDelete(s, k) ==
  LET p == LeafFor(s, k)
      rows == s.page[p].rows
      t == [s EXCEPT !.page[p].rows = RemoveAt(@, SlotOf(@, k))]
  IN IF ~Holds(rows, k) THEN s
     ELSE IF t.page[p].parent # 0 /\ LeafUnderflows(t.page[p].rows) THEN BalanceLeaf(t, p)
     ELSE t

\* The executors' calls.  InsertExecutor::next takes the next id.
Insert(v) ==
  /\ ~db.fault
  /\ db.next_row < MAX_ROWS
  /\ db' = AfterInsert(db, v)

Update(k, v) == ~db.fault /\ db' = AfterUpdate(db, k, v)

Delete(k) == ~db.fault /\ db' = AfterDelete(db, k)

Ids == 0 .. MAX_ROWS - 1

Next ==
  \/ \E v \in Values : Insert(v)
  \/ \E k \in Ids, v \in Values : Update(k, v)
  \/ \E k \in Ids : Delete(k)

Spec == Init /\ [][Next]_db

-----------------------------------------------------------------------------
(* The tree as a whole *)

\* The pages from left to right, each before those below it, as deep as there
\* can be pages.
Tree ==
  LET below[depth \in 0 .. Len(db.page)] ==
        [p \in DOMAIN db.page |->
           LET kids == Kids(db.page[p])
           IN IF db.page[p].type # "internal" \/ depth = 0 THEN <<p>>
              ELSE <<p>> \o FlattenSeq([i \in DOMAIN kids |-> below[depth - 1][kids[i]]])]
  IN below[Len(db.page)][db.root_page_id]

\* The leaves below the root from left to right.
Leaves ==
  LET below[depth \in 0 .. Len(db.page)] ==
        [p \in DOMAIN db.page |->
           LET kids == Kids(db.page[p])
           IN IF db.page[p].type # "internal" \/ depth = 0 THEN <<p>>
              ELSE FlattenSeq([i \in DOMAIN kids |-> below[depth - 1][kids[i]]])]
  IN below[Len(db.page)][db.root_page_id]

\* The root, its children, theirs, and so on.
Nodes ==
  LET reached[depth \in 0 .. Len(db.page)] ==
        IF depth = 0 THEN {db.root_page_id}
        ELSE UNION {IF db.page[p].type = "internal" THEN {p} \cup ToSet(Kids(db.page[p]))
                    ELSE {p} : p \in reached[depth - 1]}
  IN reached[Len(db.page)]
InternalNodes == {p \in Nodes : db.page[p].type = "internal"}

\* The free list, as far as it can go without repeating a page, and one page more.
FreePages ==
  LET list[n \in 0 .. Len(db.page) + 1] ==
        IF n = 0 THEN <<>>
        ELSE LET before == list[n - 1]
                 next == IF before = <<>> THEN db.first_free_page ELSE db.page[Last(before)].next
             IN IF next = 0 THEN before ELSE Append(before, next)
  IN list[Len(db.page) + 1]

PageIds == DOMAIN db.page
PageOrNone == PageIds \cup {0}
Row == [key : Ids, val : Values]

\* The fields of the superblock and of every page are of their type.
TypeOK ==
  /\ \A p \in PageIds :
       /\ db.page[p].type \in {"free", "leaf", "internal"}
       /\ \A field \in {"parent", "next", "prev", "rightmost"} : db.page[p][field] \in PageOrNone
       /\ ToSet(db.page[p].rows) \subseteq Row
       /\ ToSet(db.page[p].cells) \subseteq [child : PageIds, key : Ids]
  /\ db.root_page_id \in PageIds
  /\ db.first_free_page \in PageOrNone
  /\ db.next_row \in 0 .. MAX_ROWS
  /\ db.fault \in BOOLEAN

\* No row is out of the search's reach: a leaf of the tree holds its rows in
\* the order of their keys, and the descent of find_leaf_page from the root
\* ends, for each of them, in the leaf it is stored in.
RowsReachable ==
  \A p \in Nodes \ InternalNodes :
    LET rows == db.page[p].rows
    IN /\ \A i \in DOMAIN rows, j \in DOMAIN rows : i < j => rows[i].key < rows[j].key
       /\ \A i \in DOMAIN rows : LeafFor(db, rows[i].key) = p

\* The parent each page records, by which splits and balancing climb the
\* tree, is the node that has it as a child, and the root records none.
ParentsExact ==
  /\ db.page[db.root_page_id].parent = 0
  /\ \A p \in InternalNodes : \A c \in ToSet(Kids(db.page[p])) : db.page[c].parent = p

\* The chain that scans follow is the leaves of the tree from left to right,
\* in both directions, after every split, merge and reuse of a page.
LeafChainExact ==
  LET leaves == Leaves
  IN \A i \in DOMAIN leaves :
       LET leaf == db.page[leaves[i]]
       IN /\ leaf.next = IF i < Len(leaves) THEN leaves[i + 1] ELSE 0
          /\ leaf.prev = IF i > 1 THEN leaves[i - 1] ELSE 0

\* No page is lost or used twice: each is in the tree once or else once in
\* the free list, whatever allocate_new_page and free_page did before.
PagesAccounted ==
  LET used == Tree \o FreePages
  IN Len(used) = Len(db.page) /\ ToSet(used) = PageIds

\* No handler writes beyond a page: a merge of nodes does not ask whether there is room.  Nor
\* is a cell dropped for want of it: the insert_internal_cell a split ends with does ask,
\* but its answer is not looked at.  (Attached puts the cell in all the same, so that it
\* would show here.)
NodesFit ==
  \A p \in Nodes : /\ Taken(db.page[p].rows) <= NODE_SPACE
                   /\ Len(db.page[p].cells) <= MAX_CELLS

\* No handler reads what is not there: a row of an empty leaf, a neighbour a
\* lone child does not have, a cell at index -1.
NoFault == ~db.fault

\* begin: the first leaf, and whether it has a row.
FirstLeaf ==
  LET down == [p \in DOMAIN db.page |->
                 IF db.page[p].type = "internal" THEN Kids(db.page[p])[1] ELSE p]
      page[depth \in 0 .. Len(db.page)] ==
        IF depth = 0 THEN db.root_page_id ELSE down[page[depth - 1]]
  IN page[Len(db.page)]
Begin == db.page[FirstLeaf].rows # <<>>

\* begin looks at the first leaf alone, and a table with a row in any leaf
\* must not be reported as empty.
BeginFindsRows ==
  Begin \/ \A p \in ToSet(Leaves) : db.page[p].rows = <<>>

\* What find finds of the row with id k: nothing, or the row.
FoundIn(s, k) == LET rows == s.page[LeafFor(s, k)].rows
                 IN {row \in ToSet(rows) : row.key = k}
FoundRows(s) == UNION {FoundIn(s, k) : k \in Ids}
Found == FoundRows(db)
Table == INSTANCE RowTable WITH rows <- Found, next_row <- db.next_row

\* What each call would make of the rows, with any arguments: what the call of
\* RowTable with the same arguments makes of them.
CallsAreExact ==
  ~db.fault =>
    /\ db.next_row < MAX_ROWS =>
         \A v \in Values : FoundRows(AfterInsert(db, v)) = Table!With(v)
    /\ \A k \in Ids, v \in Values : FoundRows(AfterUpdate(db, k, v)) = Table!Changed(k, v)
    /\ \A k \in Ids : FoundRows(AfterDelete(db, k)) = Table!Without(k)

\* The tree is a table of rows.  Insert, update and remove do to the row they are
\* called for what they are called for, and to no other anything, whatever they
\* do to the tree: it is not enough that each step is one of some row of the table, a call
\* that does nothing or hits another row must not pass for it.
ImplementsRowTable == Table!Spec /\ []CallsAreExact

\* No operation changes or loses a row it is not called for, whatever it does
\* to the tree, as long as it reads nothing that is not there:
\* test/query_test.cpp:89 looks for "untouched" keys.
OthersUntouched ==
  [][\/ db'.fault
     \/ \A row \in Found :
          \/ FoundIn(db', row.key) = {row}
          \/ Delete(row.key)
          \/ \E v \in Values : Update(row.key, v)]_db

\* test/query_test.cpp:54 and 117: a record is found after its insertion, and
\* has its new value after an update.
WritesAreStored ==
  [][/\ \A v \in Values :
          \/ FoundIn(db', db.next_row) = {[key |-> db.next_row, val |-> v]}
          \/ ~Insert(v)
     /\ \A row \in Found, v \in Values :
          \/ FoundIn(db', row.key) = {[row EXCEPT !.val = v]}
          \/ ~Update(row.key, v)]_db
=============================================================================
