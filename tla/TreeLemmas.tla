----------------------------- MODULE TreeLemmas -----------------------------
(***************************************************************************)
(* The shape of a B+tree, and the changes of one or two of its pages that  *)
(* keep it, for trees of every height over pages of every size.            *)
(*                                                                         *)
(* The shape is told by the division of the ids among the pages of each    *)
(* level, which the program does not have: at[j][k] is the page of level j *)
(* (0 is the leaves) that id k belongs to, and seen[j][k] the one that the *)
(* nodes of level j + 1 send it to.  The two differ on a level that was    *)
(* split or merged until the nodes above it are told.                      *)
(***************************************************************************)
EXTENDS BTree, BTreeNodeProofs

-----------------------------------------------------------------------------
(* The shape of the tree *)

Division == [Ids -> Nat]

\* Some id belongs to page p.
Used(p, a) == \E k \in Ids : a[k] = p

\* The ids of a page are next to each other.
Contiguous(a) ==
  \A i, j, k \in Ids : i <= j /\ j <= k /\ a[i] = a[k] => a[j] = a[i]

\* All that belongs to one page of a level belongs to one node of the next.
Nested(up, down) == \A j, k \in Ids : down[j] = down[k] => up[j] = up[k]

\* The ids of l and r, of which those from e on are now r's.
Shift(a, l, r, e) == [k \in Ids |-> IF a[k] \notin {l, r} THEN a[k] ELSE IF k < e THEN l ELSE r]

Rising(n) == \A i, j \in 1 .. Len(n.cells) : i < j => n.cells[i].key < n.cells[j].key

\* Node p of the division a sends its ids where the division down has them; its keys
\* are between two of its ids, and where the division changes.
KeyIn(e, p, a, down) ==
  e \in Ids /\ e - 1 \in Ids /\ a[e - 1] = p /\ a[e] = p /\ down[e - 1] # down[e]
NodeIn(n, p, a, down) ==
  /\ n \in Node /\ Rising(n)
  /\ \A i \in 1 .. Len(n.cells) : KeyIn(n.cells[i].key, p, a, down)
  /\ \A k \in Ids : a[k] = p => KidFor(n, k) = down[k]

\* Leaf p of the division a holds the rows of the table whose ids are its own.
RowsIn(rows, p, a, store) ==
  /\ rows \in Seq(Rows) /\ InOrder(rows)
  /\ \A row \in Rows : (\E i \in 1 .. Len(rows) : rows[i] = row) <=> row \in store /\ a[row.key] = p

Page == [type : {"free", "leaf", "internal"}, parent : Nat, next : Nat, prev : Nat,
         rows : Seq(Rows), cells : Seq(Cell), rightmost : Nat]

LeafLevel(pg, a, store) ==
  \A k \in Ids : LET p == a[k] IN
    /\ p \in 1 .. Len(pg) /\ pg[p].type = "leaf" /\ pg[p].cells = <<>>
    /\ RowsIn(pg[p].rows, p, a, store) /\ Taken(pg[p].rows) <= NODE_SPACE

\* The leaves are chained in the order of their ids.
Chained(pg, a) ==
  /\ \A k \in Ids : k + 1 \in Ids /\ a[k] # a[k + 1] =>
       pg[a[k]].next = a[k + 1] /\ pg[a[k + 1]].prev = a[k]
  /\ pg[a[0]].prev = 0 /\ pg[a[MAX_ROWS - 1]].next = 0

\* thin is the one node that may have no cell.
NodeLevel(pg, a, down, thin) ==
  /\ Nested(a, down)
  /\ \A k \in Ids : LET p == a[k] IN
       /\ p \in 1 .. Len(pg) /\ NodeIn(pg[p], p, a, down)
       /\ Len(pg[p].cells) <= MAX_CELLS /\ (p = thin \/ pg[p].cells # <<>>)

\* The parents are known, but of a page that the nodes above do not know.
Adopts(pg, here, seen, up) == \A k \in Ids : here[k] = seen[k] => pg[here[k]].parent = up[k]

\* A page belongs to one level.
Apart(h, at, seen) ==
  \A i, j \in 0 .. h, k, l \in Ids : at[i][k] = at[j][l] \/ seen[i][k] = at[j][l] => i = j

Grown(pg, root, store, h, at, seen, thin) ==
  /\ h \in Nat /\ at \in [Nat -> Division] /\ seen \in [Nat -> Division]
  /\ \A j \in 0 .. h : Contiguous(at[j]) /\ Contiguous(seen[j])
  /\ Apart(h, at, seen)
  /\ LeafLevel(pg, at[0], store)
  /\ Chained(pg, at[0])
  /\ \A j \in 1 .. h : NodeLevel(pg, at[j], seen[j - 1], thin)
  /\ \A j \in 1 .. h : Adopts(pg, at[j - 1], seen[j - 1], at[j])
  /\ pg[root].parent = 0 /\ \A k \in Ids : seen[h][k] = root

\* The free list from its end, list[1], to the first page: all the free pages, which are empty.
Stacked(pg, first, list, n) ==
  /\ \A i \in 1 .. n :
       /\ list[i] \in 1 .. Len(pg) /\ pg[list[i]].type = "free"
       /\ pg[list[i]].next = IF i = 1 THEN 0 ELSE list[i - 1]
  /\ \A i, j \in 1 .. n : list[i] = list[j] => i = j
  /\ \A p \in 1 .. Len(pg) :
       pg[p].type = "free" => pg[p].rows = <<>> /\ \E i \in 1 .. n : list[i] = p
  /\ first = IF n = 0 THEN 0 ELSE list[n]
Listed(pg, first) == \E list \in [Nat -> Nat], n \in Nat : Stacked(pg, first, list, n)

\* Page p is in the tree.
InTree(p, h, at) == \E j \in 0 .. h, k \in Ids : at[j][k] = p

\* Page p is not lost: there is none, or it is free or in the tree.
Home(p, s, h, at) == p \in 1 .. Len(s.page) => s.page[p].type = "free" \/ InTree(p, h, at)

\* From s to t no page gets lost, but those of L.
Keeps(t, h2, at2, s, h, at, L) ==
  \A p \in Nat : Home(p, s, h, at) => Home(p, t, h2, at2) \/ p \in L

Database == [page : Seq(Page), root_page_id : Nat, first_free_page : Nat, next_row : Nat,
             fault : {FALSE}]

\* store is the rows of the table: none has an id that is not yet given.
Sound(s, store, h, at, seen, thin) ==
  /\ s \in Database /\ s.next_row <= MAX_ROWS
  /\ \A row \in store : row \in Rows /\ row.key < s.next_row
  /\ Grown(s.page, s.root_page_id, store, h, at, seen, thin)
  /\ Listed(s.page, s.first_free_page)

-----------------------------------------------------------------------------
(* Divisions *)

LEMMA IdsAre ==
  /\ MAX_ROWS \in Nat /\ 1 <= MAX_ROWS /\ 0 \in Ids /\ MAX_ROWS - 1 \in Ids
  /\ \A k : k \in Ids <=> k \in Nat /\ k < MAX_ROWS
BY BoundAssumption DEF Ids

LEMMA ShiftAt ==
  ASSUME NEW a \in Division, NEW l \in Nat, NEW r \in Nat, NEW e
  PROVE  /\ Shift(a, l, r, e) \in Division
         /\ \A k \in Ids : Shift(a, l, r, e)[k] = IF a[k] # l /\ a[k] # r THEN a[k]
                                                  ELSE IF k < e THEN l ELSE r
BY DEF Shift, Division

\* Two neighbouring pages have the ids on the two sides of the border.
LEMMA Sides ==
  ASSUME NEW a \in Division, Contiguous(a), NEW e \in Ids, e - 1 \in Ids, a[e - 1] # a[e],
         NEW k \in Ids
  PROVE  /\ a[k] = a[e - 1] => k < e
         /\ a[k] = a[e] => e <= k
<1>1. e \in Nat /\ k \in Nat /\ e - 1 \in Ids /\ (e <= k \/ k < e)
  BY IdsAre
<1>2. CASE e <= k
  <2>1. a[k] = a[e - 1] => a[e] = a[e - 1]
    BY <1>1, <1>2, IdsAre DEF Contiguous
  <2> QED
    BY <1>1, <1>2, <2>1, IdsAre
<1>3. CASE k < e
  <2>1. k <= e - 1 /\ e - 1 <= e
    BY <1>3, IdsAre
  <2>2. a[k] = a[e] => a[e - 1] = a[k]
    BY <2>1 DEF Contiguous
  <2> QED
    BY <1>3, <2>2, IdsAre
<1> QED
  BY <1>2, <1>3, IdsAre

\* Nothing changes between two ids of one page.
LEMMA Between ==
  ASSUME NEW a \in Division, Contiguous(a), NEW j \in Ids, NEW k \in Ids, a[j] = a[k],
         NEW e \in Ids, j < e, e <= k
  PROVE  e - 1 \in Ids /\ a[e - 1] = a[j] /\ a[e] = a[j]
<1>1. e - 1 \in Ids /\ j <= e - 1 /\ e - 1 <= k /\ j <= e
  BY IdsAre
<1> QED
  BY <1>1 DEF Contiguous

LEMMA CutDivision ==
  ASSUME NEW a \in Division, Contiguous(a), NEW p \in Nat, NEW q \in Nat,
         \A k \in Ids : a[k] # q, NEW e \in Ids
  PROVE  Contiguous(Shift(a, p, q, e))
<1> DEFINE b == Shift(a, p, q, e)
<1>1. \A k \in Ids : b[k] = IF a[k] # p THEN a[k] ELSE IF k < e THEN p ELSE q
  BY ShiftAt
<1> HIDE DEF b
<1>2. SUFFICES ASSUME NEW i \in Ids, NEW j \in Ids, NEW k \in Ids, i <= j, j <= k, b[i] = b[k]
               PROVE  b[j] = b[i]
  BY DEF Contiguous, b
<1>3. a[i] = a[k]
  BY <1>1, <1>2
<1>4. a[j] = a[i]
  BY <1>2, <1>3 DEF Contiguous
<1>5. i \in Nat /\ j \in Nat /\ k \in Nat /\ e \in Nat
  BY IdsAre
<1> QED
  BY <1>1, <1>2, <1>3, <1>4, <1>5

LEMMA JoinDivision ==
  ASSUME NEW a \in Division, Contiguous(a), NEW e \in Ids, e - 1 \in Ids, a[e - 1] # a[e],
         NEW l \in Nat, NEW r \in Nat, l = a[e - 1], r = a[e]
  PROVE  /\ Contiguous(Shift(a, l, r, MAX_ROWS))
         /\ \A k \in Ids : Shift(a, l, r, MAX_ROWS)[k] = IF a[k] = r THEN l ELSE a[k]
<1> DEFINE b == Shift(a, l, r, MAX_ROWS)
<1>1. \A k \in Ids : b[k] = IF a[k] = r THEN l ELSE a[k]
  BY ShiftAt, IdsAre
<1> HIDE DEF b
<1>2. SUFFICES ASSUME NEW i \in Ids, NEW j \in Ids, NEW k \in Ids, i <= j, j <= k, b[i] = b[k]
               PROVE  b[j] = b[i]
  BY <1>1 DEF Contiguous, b
<1>3. i \in Nat /\ j \in Nat /\ k \in Nat /\ e \in Nat
  BY IdsAre
<1>4. CASE a[i] = a[k]
  <2>1. a[j] = a[i]
    BY <1>2, <1>4 DEF Contiguous
  <2> QED
    BY <1>1, <2>1
<1>5. CASE a[i] # a[k]
  <2>1. (a[i] = l /\ a[k] = r) \/ (a[i] = r /\ a[k] = l)
    BY <1>1, <1>2, <1>5
  <2>2. a[i] = l /\ a[k] = r /\ i < e /\ e <= k
    BY <1>2, <1>3, <2>1, Sides
  <2>3. CASE j < e
    <3>1. j <= e - 1 /\ e - 1 \in Ids
      BY <1>3, <2>3
    <3>2. a[j] = a[i]
      BY <1>2, <2>2, <3>1 DEF Contiguous
    <3> QED
      BY <1>1, <3>2
  <2>4. CASE e <= j
    <3>1. a[j] = a[k]
      BY <1>2, <2>2, <2>4 DEF Contiguous
    <3> QED
      BY <1>1, <2>2, <3>1
  <2> QED
    BY <1>3, <2>3, <2>4
<1> QED
  BY <1>4, <1>5

-----------------------------------------------------------------------------
(* One node *)

LEMMA NodeKeys ==
  ASSUME NEW n, NEW p, NEW a, NEW down, NodeIn(n, p, a, down)
  PROVE  /\ n \in Node /\ Ordered(n) /\ n.cells \in Seq(Cell) /\ Len(n.cells) \in Nat
         /\ \A i \in 1 .. Len(n.cells) :
              /\ n.cells[i].key \in Nat /\ n.cells[i].key \in Ids /\ n.cells[i].key - 1 \in Ids
              /\ n.cells[i].key < MAX_ROWS
              /\ a[n.cells[i].key - 1] = p /\ a[n.cells[i].key] = p
              /\ down[n.cells[i].key - 1] # down[n.cells[i].key]
         /\ \A i, j \in 1 .. Len(n.cells) : i < j => n.cells[i].key < n.cells[j].key
<1>1. n \in Node /\ Rising(n)
  BY DEF NodeIn
<1>2. n.cells \in Seq(Cell) /\ Len(n.cells) \in Nat
  BY <1>1, CellsType
<1>3. \A i \in 1 .. Len(n.cells) : KeyIn(n.cells[i].key, p, a, down)
  BY DEF NodeIn
<1>4. \A i \in 1 .. Len(n.cells) :
              /\ n.cells[i].key \in Nat /\ n.cells[i].key \in Ids /\ n.cells[i].key - 1 \in Ids
              /\ n.cells[i].key < MAX_ROWS
              /\ a[n.cells[i].key - 1] = p /\ a[n.cells[i].key] = p
              /\ down[n.cells[i].key - 1] # down[n.cells[i].key]
  BY <1>3, IdsAre DEF KeyIn
<1>5. \A i, j \in 1 .. Len(n.cells) : i < j => n.cells[i].key < n.cells[j].key
  BY <1>1 DEF Rising
<1>6. Ordered(n)
  BY <1>4, <1>5 DEF Ordered
<1> QED
  BY <1>1, <1>2, <1>4, <1>5, <1>6

LEMMA PlaceOf ==
  ASSUME NEW n, NEW p, NEW a, NEW down, NodeIn(n, p, a, down), NEW k \in Ids
  PROVE  /\ CellFor(n, k) \in 1 .. Len(n.cells) + 1
         /\ \A i \in 1 .. Len(n.cells) :
              IF i < CellFor(n, k) THEN n.cells[i].key <= k ELSE k < n.cells[i].key
<1>1. n \in Node /\ Ordered(n) /\ k \in Nat
  BY NodeKeys, IdsAre
<1>2. Divides(n, CellFor(n, k), k)
  BY <1>1, CellForDivides
<1> QED
  BY <1>2 DEF Divides

\* Ids that a node sends to different places belong to different pages below it.
LEMMA OnePlace ==
  ASSUME NEW n, NEW p, NEW a \in Division, NEW down \in Division, NodeIn(n, p, a, down),
         Contiguous(down), NEW j \in Ids, NEW k \in Ids, a[j] = p, a[k] = p, down[j] = down[k]
  PROVE  CellFor(n, j) = CellFor(n, k)
<1>1. ASSUME NEW x \in Ids, NEW y \in Ids, down[x] = down[y], CellFor(n, x) < CellFor(n, y)
      PROVE  FALSE
  <2>1. PICK i \in 1 .. Len(n.cells) : i = CellFor(n, x)
    BY <1>1, PlaceOf, NodeKeys
  <2>2. x < n.cells[i].key /\ n.cells[i].key <= y
    BY <1>1, <2>1, PlaceOf, NodeKeys
  <2>3. n.cells[i].key \in Ids /\ down[n.cells[i].key - 1] # down[n.cells[i].key]
    BY NodeKeys
  <2> QED
    BY <1>1, <2>2, <2>3, Between
<1>2. CellFor(n, j) \in Nat /\ CellFor(n, k) \in Nat
  BY PlaceOf, NodeKeys
<1>3. ~(CellFor(n, j) < CellFor(n, k)) /\ ~(CellFor(n, k) < CellFor(n, j))
  BY <1>1
<1> QED
  BY <1>2, <1>3

\* Every child has an id for which the node is asked.
EachAsked(n, p, a, down) ==
  \A i \in 1 .. Len(n.cells) + 1 :
    \E k \in Ids : a[k] = p /\ CellFor(n, k) = i /\ down[k] = Kids(n)[i]
LEMMA KidHasId ==
  ASSUME NEW n, NEW p, NEW a \in Division, NEW down \in Division, NodeIn(n, p, a, down),
         Used(p, a)
  PROVE  EachAsked(n, p, a, down)
<1> SUFFICES ASSUME NEW i \in 1 .. Len(n.cells) + 1
             PROVE  \E k \in Ids : a[k] = p /\ CellFor(n, k) = i /\ down[k] = Kids(n)[i]
  BY DEF EachAsked
<1>1. PICK L \in Nat : L = Len(n.cells)
  BY NodeKeys
<1>2. n \in Node /\ Ordered(n)
  BY NodeKeys
<1>3. ASSUME NEW k \in Ids, a[k] = p, Divides(n, i, k)
      PROVE  CellFor(n, k) = i /\ down[k] = Kids(n)[i]
  <2>1. CellFor(n, k) = i
    BY <1>2, <1>3, CellForIs, IdsAre
  <2>2. KidFor(n, k) = down[k]
    BY <1>3 DEF NodeIn
  <2> QED
    BY <2>1, <2>2 DEF KidFor
<1>4. CASE i <= L
  <2>1. PICK e \in Nat : /\ e = n.cells[i].key /\ e \in Ids /\ e - 1 \in Ids /\ a[e - 1] = p
    BY <1>1, <1>4, NodeKeys, SMTT(30)
  <2>2. e - 1 \in Nat
    BY <2>1, IdsAre
  <2>3. \A x \in 1 .. L : IF x < i THEN n.cells[x].key <= e - 1 ELSE e - 1 < n.cells[x].key
    <3>1. \A x \in 1 .. L : n.cells[x].key \in Nat
      BY <1>1, NodeKeys
    <3>2. \A x \in 1 .. L : (x < i => n.cells[x].key < e) /\ (i < x => e < n.cells[x].key)
      BY <1>1, <1>4, <2>1, NodeKeys
    <3> QED
      BY <2>1, <3>1, <3>2, SMTT(30)
  <2>4. Divides(n, i, e - 1)
    BY <1>1, <2>3 DEF Divides
  <2> QED
    BY <1>1, <1>3, <1>4, <2>1, <2>4
<1>5. CASE i = L + 1 /\ L # 0
  <2>1. PICK e \in Nat : /\ e = n.cells[L].key /\ e \in Ids /\ a[e] = p
    BY <1>1, <1>5, NodeKeys
  <2>3. \A x \in 1 .. L : n.cells[x].key <= e
    <3>1. \A x \in 1 .. L : n.cells[x].key \in Nat /\ (x < L => n.cells[x].key < e)
      BY <1>1, <1>5, <2>1, NodeKeys
    <3> QED
      BY <2>1, <3>1, SMTT(30)
  <2>4. Divides(n, i, e)
    BY <1>1, <1>5, <2>3 DEF Divides
  <2> QED
    BY <1>1, <1>3, <1>5, <2>1, <2>4
<1>6. CASE i = L + 1 /\ L = 0
  <2>1. PICK k0 \in Ids : a[k0] = p /\ Divides(n, i, k0)
    BY <1>1, <1>6 DEF Used, Divides
  <2> QED
    BY <1>1, <1>3, <1>6, <2>1
<1> QED
  BY <1>1, <1>4, <1>5, <1>6

\* The children on the two sides of a key.
LEMMA KidsAtKey ==
  ASSUME NEW n, NEW p, NEW a \in Division, NEW down \in Division, NodeIn(n, p, a, down),
         NEW i \in 1 .. Len(n.cells)
  PROVE  /\ down[n.cells[i].key - 1] = Kids(n)[i] /\ down[n.cells[i].key] = Kids(n)[i + 1]
         /\ CellFor(n, n.cells[i].key - 1) = i /\ CellFor(n, n.cells[i].key) = i + 1
<1>1. PICK L \in Nat : L = Len(n.cells)
  BY NodeKeys
<1>2. n \in Node
  BY NodeKeys
<1>3. PICK e \in Nat : /\ e = n.cells[i].key /\ e \in Ids /\ e - 1 \in Ids
                       /\ a[e - 1] = p /\ a[e] = p
  BY <1>1, NodeKeys
<1>4. \A x \in 1 .. L : /\ n.cells[x].key \in Nat /\ (x < i => n.cells[x].key < e)
                        /\ (i < x => e < n.cells[x].key)
  BY <1>1, <1>3, NodeKeys
<1>5. Divides(n, i, e - 1)
  BY <1>1, <1>3, <1>4 DEF Divides
<1>6. Divides(n, i + 1, e)
  BY <1>1, <1>3, <1>4, SMTT(30) DEF Divides
<1>7. CellFor(n, e - 1) = i /\ CellFor(n, e) = i + 1
  <2>1. e - 1 \in Nat
    BY <1>3, IdsAre
  <2> QED
    BY <1>2, <1>3, <1>5, <1>6, <2>1, CellForIs
<1>8. KidFor(n, e - 1) = down[e - 1] /\ KidFor(n, e) = down[e]
  BY <1>3 DEF NodeIn
<1> QED
  BY <1>3, <1>7, <1>8 DEF KidFor

\* Two numbers are in one order or the other.
LEMMA OneFirst ==
  ASSUME NEW j \in Nat, NEW e \in Nat
  PROVE  j < e \/ e <= j
OBVIOUS

\* What lies after place A + 1 of L.
LEMMA AfterPlace ==
  ASSUME NEW A \in Nat, NEW L \in Nat, A < L
  PROVE  L - (A + 1) \in Nat /\ A + 1 \in Nat /\ (L - (A + 1)) + (A + 1) <= L
OBVIOUS

\* Places of a part are places of the whole, in the same order.
LEMMA InPart ==
  ASSUME NEW A \in Nat, NEW B \in Nat, NEW L \in Nat, A + B <= L,
         NEW x \in 1 .. A, NEW y \in 1 .. A, x < y
  PROVE  x + B \in 1 .. L /\ y + B \in 1 .. L /\ x + B < y + B
OBVIOUS

\* A part of a node whose keys rise has rising keys.
LEMMA PartRises ==
  ASSUME NEW n, NEW m, NEW A \in Nat, NEW B \in Nat, NEW L \in Nat, A + B <= L, Len(m.cells) = A,
         \A x \in 1 .. A : m.cells[x] = n.cells[x + B],
         \A x, y \in 1 .. L : x < y => n.cells[x].key < n.cells[y].key
  PROVE  Rising(m)
<1>1. SUFFICES ASSUME NEW x \in 1 .. A, NEW y \in 1 .. A, x < y
               PROVE  m.cells[x].key < m.cells[y].key
  BY Zenon DEF Rising
<1>2. x + B \in 1 .. L /\ y + B \in 1 .. L /\ x + B < y + B
  BY <1>1, InPart, Zenon
<1>3. n.cells[x + B].key < n.cells[y + B].key
  BY <1>2, Zenon
<1> QED
  BY <1>3, Zenon

\* A node cut after its first A cells: its ids are divided at the key between the parts.
AreNodesCut(l, r, e, b, n, A, p, q, a, down) ==
  /\ l = LeftPart(n, A) /\ e = n.cells[A + 1].key /\ b = Shift(a, p, q, e)
  /\ Len(l.cells) = A /\ Len(r.cells) = Len(n.cells) - (A + 1)
  /\ e - 1 \in Ids /\ a[e - 1] = p /\ a[e] = p
  /\ NodeIn(l, p, b, down) /\ NodeIn(r, q, b, down)
  /\ Nested(b, down) /\ Contiguous(b)

LEMMA CutNode ==
  ASSUME NEW n, NEW p \in Nat, NEW q \in Nat, NEW a \in Division, NEW down \in Division,
         NodeIn(n, p, a, down), Nested(a, down), Contiguous(a), Contiguous(down),
         \A k \in Ids : a[k] # q, q # p,
         NEW A \in Nat, A < Len(n.cells), NEW r \in Node,
         r.cells = RightCells(n, A), r.rightmost = n.rightmost
  PROVE  \E l \in Node, e \in Ids, b \in Division : AreNodesCut(l, r, e, b, n, A, p, q, a, down)
<1>1. PICK L \in Nat : L = Len(n.cells)
  BY NodeKeys
<1>2. n \in Node /\ Ordered(n)
  BY NodeKeys
<1>3. PICK e \in Nat : /\ e = n.cells[A + 1].key /\ e \in Ids /\ e - 1 \in Ids
                       /\ a[e - 1] = p /\ a[e] = p /\ down[e - 1] # down[e]
  <2>1. A + 1 \in 1 .. Len(n.cells)
    BY NodeKeys
  <2> QED
    BY <2>1, NodeKeys, SMTT(30)
<1>4. PICK l \in Node :
        /\ l = LeftPart(n, A)
        /\ \A k \in Nat : KidFor(n, k) = IF k < e THEN KidFor(l, k) ELSE KidFor(r, k)
  BY <1>2, <1>3, CutRoutes
<1>5. Len(l.cells) = A /\ \A x \in 1 .. A : l.cells[x] = n.cells[x]
  BY <1>2, <1>4, LeftPartEffect DEF IsLeftPart
<1>6. Len(r.cells) = L - (A + 1) /\ \A x \in 1 .. L - (A + 1) : r.cells[x] = n.cells[x + (A + 1)]
  <2>1. /\ Len(r.cells) = Len(n.cells) - (A + 1)
        /\ \A x \in 1 .. Len(n.cells) - (A + 1) : r.cells[x] = n.cells[x + (A + 1)]
    BY <1>2, RightCellsEffect, ZenonT(40)
  <2> QED
    BY <1>1, <2>1, Zenon
<1>7. PICK b \in Division : b = Shift(a, p, q, e)
  BY ShiftAt
<1>8. \A k \in Ids : b[k] = IF a[k] # p THEN a[k] ELSE IF k < e THEN p ELSE q
  BY <1>7, ShiftAt
<1>9. /\ \A x \in 1 .. L : KeyIn(n.cells[x].key, p, a, down)
      /\ \A x \in 1 .. L : n.cells[x].key \in Nat
      /\ \A x \in 1 .. L : (x < A + 1 => n.cells[x].key < e) /\ (A + 1 < x => e < n.cells[x].key)
      /\ \A x, y \in 1 .. L : x < y => n.cells[x].key < n.cells[y].key
  <2>1. A + 1 \in 1 .. L
    BY <1>1, NodeKeys
  <2>2. \A x, y \in 1 .. L : x < y => n.cells[x].key < n.cells[y].key
    BY <1>1, NodeKeys
  <2>3. \A x \in 1 .. L : n.cells[x].key \in Nat
    BY <1>1, NodeKeys
  <2>4. \A x \in 1 .. L : KeyIn(n.cells[x].key, p, a, down)
    BY <1>1 DEF NodeIn
  <2> QED
    BY <1>3, <2>1, <2>2, <2>3, <2>4
<1>10. NodeIn(l, p, b, down)
  <2>1. Rising(l)
    <3>1. A + 0 <= L /\ 0 \in Nat
      BY <1>1
    <3>2. ASSUME NEW x \in 1 .. A PROVE l.cells[x] = n.cells[x + 0]
      <4>1. x + 0 = x
        OBVIOUS
      <4> QED
        BY <1>5, <4>1, Zenon
    <3>3. \A x, y \in 1 .. L : x < y => n.cells[x].key < n.cells[y].key
      BY <1>9
    <3>4. Len(l.cells) = A
      BY <1>5
    <3> QED
      BY <3>1, <3>2, <3>3, <3>4, PartRises, Zenon
  <2>2. ASSUME NEW x \in 1 .. A PROVE KeyIn(n.cells[x].key, p, b, down)
    <3>1. KeyIn(n.cells[x].key, p, a, down) /\ n.cells[x].key < e
      BY <1>1, <1>9
    <3>2. PICK g \in Nat : g = n.cells[x].key /\ g < e /\ KeyIn(g, p, a, down)
      <4>1. x \in 1 .. L
        BY <1>1
      <4> QED
        BY <1>9, <3>1, <4>1, Zenon
    <3>3. g < e /\ g - 1 < e /\ g \in Ids /\ g - 1 \in Ids
      <4>1. g \in Ids /\ g - 1 \in Ids
        BY <3>2, Zenon DEF KeyIn
      <4>2. g - 1 < e
        BY <1>3, <3>2, SMTT(30)
      <4> QED
        BY <3>2, <4>1, <4>2, Zenon
    <3>4. b[g] = p /\ b[g - 1] = p
      <4>1. a[g] = p /\ a[g - 1] = p
        BY <3>2, Zenon DEF KeyIn
      <4> QED
        BY <1>8, <3>3, <4>1, Zenon
    <3> QED
      BY <3>2, <3>3, <3>4, Zenon DEF KeyIn
  <2>3. \A k \in Ids : b[k] = p => KidFor(l, k) = down[k]
    <3>1. \A k \in Ids : b[k] = p => a[k] = p /\ k < e
      BY <1>8
    <3> QED
      BY <1>4, <3>1, IdsAre DEF NodeIn
  <2> QED
    BY <1>4, <1>5, <2>1, <2>2, <2>3 DEF NodeIn
<1>11. NodeIn(r, q, b, down)
  <2>1. Rising(r)
    <3>1. L - (A + 1) \in Nat /\ A + 1 \in Nat /\ (L - (A + 1)) + (A + 1) <= L
      <4>1. A < L
        BY <1>1, Zenon
      <4> QED
        BY <4>1, AfterPlace, Zenon
    <3>2. \A x, y \in 1 .. L : x < y => n.cells[x].key < n.cells[y].key
      BY <1>9
    <3> QED
      BY <1>6, <3>1, <3>2, PartRises, Zenon
  <2>2. ASSUME NEW x \in 1 .. L - (A + 1) PROVE KeyIn(n.cells[x + (A + 1)].key, q, b, down)
    <3>1. x + (A + 1) \in 1 .. L /\ A + 1 < x + (A + 1)
      BY <1>1
    <3>2. KeyIn(n.cells[x + (A + 1)].key, p, a, down) /\ e < n.cells[x + (A + 1)].key
      BY <1>9, <3>1
    <3>3. PICK g \in Nat : g = n.cells[x + (A + 1)].key /\ e < g /\ KeyIn(g, p, a, down)
      BY <1>9, <3>1, <3>2
    <3>4. ~(g < e) /\ ~(g - 1 < e) /\ g \in Ids /\ g - 1 \in Ids
      <4>1. g \in Ids /\ g - 1 \in Ids
        BY <3>3 DEF KeyIn
      <4>2. e < g
        BY <3>3
      <4>3. ~(g < e) /\ ~(g - 1 < e)
        BY <4>2
      <4> QED
        BY <4>1, <4>3
    <3>5. b[g] = q /\ b[g - 1] = q
      <4>1. a[g] = p /\ a[g - 1] = p
        BY <3>3 DEF KeyIn
      <4> QED
        BY <1>8, <3>4, <4>1, Zenon
    <3>6. down[g - 1] # down[g]
      BY <3>3 DEF KeyIn
    <3> QED
      BY <3>3, <3>4, <3>5, <3>6, Zenon DEF KeyIn
  <2>3. \A k \in Ids : b[k] = q => KidFor(r, k) = down[k]
    <3>1. \A k \in Ids : b[k] = q => a[k] = p /\ ~(k < e)
      BY <1>8
    <3> QED
      BY <1>4, <3>1, IdsAre DEF NodeIn
  <2> QED
    BY <1>6, <2>1, <2>2, <2>3 DEF NodeIn
<1>12. Nested(b, down)
  <2>1. SUFFICES ASSUME NEW j \in Ids, NEW k \in Ids, down[j] = down[k] PROVE b[j] = b[k]
    BY DEF Nested
  <2>2. a[j] = a[k]
    BY <2>1 DEF Nested
  <2>3. j < e /\ e <= k => down[e - 1] = down[e]
    BY <1>3, <2>1, Between
  <2>4. k < e /\ e <= j => down[e - 1] = down[e]
    BY <1>3, <2>1, Between, SMTT(30)
  <2>5. j < e <=> k < e
    <3>1. j \in Nat /\ k \in Nat
      BY IdsAre
    <3>2. ~(j < e /\ e <= k) /\ ~(k < e /\ e <= j)
      BY <1>3, <2>3, <2>4, Zenon
    <3>3. (j < e \/ e <= j) /\ (k < e \/ e <= k)
      <4>1. e \in Nat
        BY <1>3
      <4>2. j < e \/ e <= j
        BY <3>1, <4>1, OneFirst, Zenon
      <4>3. k < e \/ e <= k
        BY <3>1, <4>1, OneFirst, Zenon
      <4> QED
        BY <4>2, <4>3, Zenon
    <3> QED
      BY <3>2, <3>3, Zenon
  <2> QED
    BY <1>8, <2>2, <2>5, Zenon
<1>13. Contiguous(b)
  BY <1>3, <1>7, CutDivision
<1> QED
  BY <1>1, <1>3, <1>4, <1>5, <1>6, <1>7, <1>10, <1>11, <1>12, <1>13, Zenon DEF AreNodesCut

\* Two neighbours joined have the ids of both.
AreJoined(all, b, m, n, l, r, e, a, down) ==
  /\ all = Joined(m, n, e) /\ b = Shift(a, l, r, MAX_ROWS)
  /\ \A k \in Ids : b[k] = IF a[k] = r THEN l ELSE a[k]
  /\ Len(all.cells) = Len(m.cells) + 1 + Len(n.cells)
  /\ \A x \in 1 .. Len(m.cells) : all.cells[x].key = m.cells[x].key
  /\ all.cells[Len(m.cells) + 1].key = e
  /\ NodeIn(all, l, b, down) /\ Nested(b, down) /\ Contiguous(b)
LEMMA JoinNodes ==
  ASSUME NEW m, NEW n, NEW l \in Nat, NEW r \in Nat, l # r,
         NEW a \in Division, NEW down \in Division,
         NodeIn(m, l, a, down), NodeIn(n, r, a, down),
         Nested(a, down), Contiguous(a), Contiguous(down),
         NEW e \in Ids, e - 1 \in Ids, a[e - 1] = l, a[e] = r
  PROVE  \E all \in Node, b \in Division : AreJoined(all, b, m, n, l, r, e, a, down)
<1>1. PICK A \in Nat : A = Len(m.cells)
  BY NodeKeys
<1>2. PICK B \in Nat : B = Len(n.cells)
  BY NodeKeys
<1>3. m \in Node /\ n \in Node /\ Ordered(m) /\ Ordered(n) /\ e \in Nat
  BY NodeKeys, IdsAre
<1>4. /\ \A x \in 1 .. A : m.cells[x].key \in Nat /\ m.cells[x].key < e
      /\ \A x \in 1 .. B : n.cells[x].key \in Nat /\ e < n.cells[x].key
  <2>1. ASSUME NEW x \in 1 .. A PROVE m.cells[x].key \in Nat /\ m.cells[x].key < e
    <3>1. m.cells[x].key \in Ids /\ a[m.cells[x].key] = l
      BY <1>1, NodeKeys
    <3> QED
      BY <3>1, Sides, IdsAre
  <2>2. ASSUME NEW x \in 1 .. B PROVE n.cells[x].key \in Nat /\ e < n.cells[x].key
    <3>1. n.cells[x].key \in Ids /\ n.cells[x].key - 1 \in Ids /\ a[n.cells[x].key - 1] = r
      BY <1>2, NodeKeys
    <3>2. e <= n.cells[x].key - 1
      BY <3>1, Sides
    <3> QED
      BY <1>3, <3>1, <3>2, IdsAre
  <2> QED
    BY <2>1, <2>2
<1>5. KeysUpTo(m, e) /\ KeysFrom(n, e)
  BY <1>1, <1>2, <1>3, <1>4, KeysOf, SMTT(30) DEF KeysUpTo, KeysFrom
<1>6. PICK all \in Node :
        /\ all = Joined(m, n, e) /\ IsJoin(all, m, n, e)
        /\ \A k \in Nat : KidFor(all, k) = IF k < e THEN KidFor(m, k) ELSE KidFor(n, k)
  BY <1>3, <1>5, JoinedRoutes
<1>7. Len(all.cells) = A + 1 + B
  BY <1>1, <1>2, <1>6 DEF IsJoin
<1>8. ASSUME NEW x \in 1 .. A + 1 + B
      PROVE  all.cells[x].key = IF x <= A THEN m.cells[x].key
                                ELSE IF x = A + 1 THEN e ELSE n.cells[x - (A + 1)].key
  <2>1. CellKeys(all)[x] = IF x <= A THEN CellKeys(m)[x]
                       ELSE IF x = A + 1 THEN e ELSE CellKeys(n)[x - (A + 1)]
    BY <1>1, <1>6, <1>7, Zenon DEF IsJoin
  <2>2. CellKeys(all)[x] = all.cells[x].key
    BY <1>7, KeysOf
  <2>3. x <= A => CellKeys(m)[x] = m.cells[x].key
    BY <1>1, <1>3, KeysOf
  <2>4. A + 1 < x => x - (A + 1) \in 1 .. B
    OBVIOUS
  <2>5. A + 1 < x => CellKeys(n)[x - (A + 1)] = n.cells[x - (A + 1)].key
    BY <1>2, <1>3, <2>4, KeysOf
  <2> QED
    BY <2>1, <2>2, <2>3, <2>5
<1>9. PICK b \in Division : b = Shift(a, l, r, MAX_ROWS)
  BY ShiftAt
<1>10. Contiguous(b) /\ \A k \in Ids : b[k] = IF a[k] = r THEN l ELSE a[k]
  BY <1>9, JoinDivision
<1>11. Nested(b, down)
  BY <1>10 DEF Nested
<1>12. NodeIn(all, l, b, down)
  <2>1. Rising(all)
    <3>1. SUFFICES ASSUME NEW x \in 1 .. A + 1 + B, NEW y \in 1 .. A + 1 + B, x < y
                   PROVE  all.cells[x].key < all.cells[y].key
      BY <1>7 DEF Rising
    <3>2. CASE y <= A
      <4>1. m.cells[x].key < m.cells[y].key
        BY <1>1, <3>1, <3>2, NodeKeys, SMTT(30)
      <4> QED
        BY <1>8, <3>1, <3>2, <4>1
    <3>3. CASE x <= A /\ A < y
      <4>1. m.cells[x].key < e /\ m.cells[x].key \in Nat
        BY <1>4, <3>3
      <4>2. A + 1 < y => y - (A + 1) \in 1 .. B
        BY <3>1
      <4>3. A + 1 < y => e < n.cells[y - (A + 1)].key /\ n.cells[y - (A + 1)].key \in Nat
        BY <1>4, <4>2
      <4>4. all.cells[x].key = m.cells[x].key
        BY <1>8, <3>3
      <4>5. all.cells[y].key = IF y = A + 1 THEN e ELSE n.cells[y - (A + 1)].key
        BY <1>8, <3>3
      <4>6. y = A + 1 \/ A + 1 < y
        BY <3>3
      <4> QED
        BY <1>3, <4>1, <4>3, <4>4, <4>5, <4>6
    <3>4. CASE A + 1 = x
      <4>1. y - (A + 1) \in 1 .. B /\ ~(y <= A) /\ y # A + 1
        BY <3>1, <3>4
      <4>2. all.cells[x].key = e /\ all.cells[y].key = n.cells[y - (A + 1)].key
        BY <1>8, <3>4, <4>1
      <4> QED
        BY <1>4, <4>1, <4>2
    <3>5. CASE A + 1 < x
      <4>1. /\ x - (A + 1) \in 1 .. B /\ y - (A + 1) \in 1 .. B /\ x - (A + 1) < y - (A + 1)
            /\ ~(x <= A) /\ ~(y <= A) /\ x # A + 1 /\ y # A + 1
        BY <3>1, <3>5
      <4>2. n.cells[x - (A + 1)].key < n.cells[y - (A + 1)].key
        BY <1>2, <4>1, NodeKeys
      <4> QED
        BY <1>8, <4>1, <4>2
    <3> QED
      BY <3>2, <3>3, <3>4, <3>5
  <2>2. ASSUME NEW x \in 1 .. A + 1 + B PROVE KeyIn(all.cells[x].key, l, b, down)
    <3>1. CASE x <= A
      <4>1. KeyIn(m.cells[x].key, l, a, down)
        BY <1>1, <3>1 DEF NodeIn
      <4> QED
        BY <1>8, <1>10, <3>1, <4>1 DEF KeyIn
    <3>2. CASE x = A + 1
      <4>1. down[e - 1] # down[e]
        BY DEF Nested
      <4> QED
        BY <1>8, <1>10, <3>2, <4>1 DEF KeyIn
    <3>3. CASE A + 1 < x
      <4>1. x - (A + 1) \in 1 .. B /\ ~(x <= A) /\ x # A + 1
        BY <3>3
      <4>2. KeyIn(n.cells[x - (A + 1)].key, r, a, down)
        BY <1>2, <4>1 DEF NodeIn
      <4>3. all.cells[x].key = n.cells[x - (A + 1)].key
        BY <1>8, <4>1
      <4> QED
        BY <1>10, <4>2, <4>3 DEF KeyIn
    <3> QED
      BY <3>1, <3>2, <3>3
  <2>3. ASSUME NEW k \in Ids, b[k] = l PROVE KidFor(all, k) = down[k]
    <3>1. k \in Nat /\ (a[k] = l \/ a[k] = r)
      BY <1>10, <2>3, IdsAre
    <3>2. CASE a[k] = l
      <4>1. k < e
        BY <3>2, Sides
      <4> QED
        BY <1>6, <3>1, <3>2, <4>1 DEF NodeIn
    <3>3. CASE a[k] = r
      <4>1. ~(k < e)
        BY <1>3, <3>1, <3>3, Sides
      <4> QED
        BY <1>6, <3>1, <3>3, <4>1 DEF NodeIn
    <3> QED
      BY <3>1, <3>2, <3>3
  <2> QED
    BY <1>6, <1>7, <2>1, <2>2, <2>3 DEF NodeIn
<1>13. /\ \A x \in 1 .. A : all.cells[x].key = m.cells[x].key
       /\ all.cells[A + 1].key = e
  BY <1>8
<1> QED
  BY <1>1, <1>2, <1>6, <1>7, <1>9, <1>10, <1>11, <1>12, <1>13, Zenon DEF AreJoined

\* A node is right under other divisions that agree where it has ids.
LEMMA NodeInSame ==
  ASSUME NEW n, NEW p, NEW a, NEW down, NodeIn(n, p, a, down), NEW b, NEW below,
         \A k \in Ids : b[k] = p <=> a[k] = p, \A k \in Ids : a[k] = p => below[k] = down[k]
  PROVE  NodeIn(n, p, b, below)
<1>1. ASSUME NEW e, KeyIn(e, p, a, down) PROVE KeyIn(e, p, b, below)
  BY <1>1, Zenon DEF KeyIn
<1> QED
  BY <1>1, Zenon DEF NodeIn

\* No child has two places in a node.
LEMMA KidsDiffer ==
  ASSUME NEW n, NEW p, NEW a \in Division, NEW down \in Division, NodeIn(n, p, a, down),
         Contiguous(down), Used(p, a)
  PROVE  \A x, y \in 1 .. Len(n.cells) + 1 : Kids(n)[x] = Kids(n)[y] => x = y
<1>1. EachAsked(n, p, a, down)
  BY KidHasId
<1>2. \A j, k \in Ids : a[j] = p /\ a[k] = p /\ down[j] = down[k] => CellFor(n, j) = CellFor(n, k)
  BY OnePlace
<1> QED
  BY <1>1, <1>2 DEF EachAsked

\* Where two ids of a node go different ways, one after the other, it has a key.
HasKey(n, e, l, r) ==
  \E i \in 1 .. Len(n.cells) : n.cells[i].key = e /\ Kids(n)[i] = l /\ Kids(n)[i + 1] = r
LEMMA BorderIsKey ==
  ASSUME NEW n, NEW p, NEW a \in Division, NEW down \in Division, NodeIn(n, p, a, down),
         NEW e \in Ids, e - 1 \in Ids, a[e - 1] = p, a[e] = p, down[e - 1] # down[e]
  PROVE  HasKey(n, e, down[e - 1], down[e])
<1>1. PICK L \in Nat : L = Len(n.cells)
  BY NodeKeys
<1>2. KidFor(n, e - 1) # KidFor(n, e)
  BY DEF NodeIn
<1>3. CellFor(n, e - 1) # CellFor(n, e)
  BY <1>2 DEF KidFor
<1>4. PICK x \in 1 .. L + 1 : /\ x = CellFor(n, e - 1)
                              /\ \A i \in 1 .. L : IF i < x THEN n.cells[i].key <= e - 1
                                                   ELSE e - 1 < n.cells[i].key
  BY <1>1, PlaceOf
<1>5. PICK y \in 1 .. L + 1 : /\ y = CellFor(n, e)
                              /\ \A i \in 1 .. L : IF i < y THEN n.cells[i].key <= e
                                                   ELSE e < n.cells[i].key
  BY <1>1, PlaceOf
<1>6. e \in Nat /\ \A i \in 1 .. L : n.cells[i].key \in Nat
  BY <1>1, NodeKeys, IdsAre
<1>7. x # y
  BY <1>3, <1>4, <1>5
<1>8. PICK i \in 1 .. L : n.cells[i].key = e
  <2>1. CASE x < y
    <3>1. x \in 1 .. L
      BY <2>1
    <3> QED
      BY <1>4, <1>5, <1>6, <2>1, <3>1
  <2>2. CASE y < x
    <3>1. y \in 1 .. L
      BY <2>2
    <3> QED
      BY <1>4, <1>5, <1>6, <2>2, <3>1
  <2> QED
    BY <1>7, <2>1, <2>2
<1> QED
  BY <1>1, <1>8, KidsAtKey, ZenonT(40) DEF HasKey

\* A cell for the new page r that has the ids of l from e on.
IsKidAdded(m, below, n, p, l, r, e, a, down) ==
  /\ m = WithCell(n, e, l, r) /\ below = Shift(down, l, r, e)
  /\ \A k \in Ids : below[k] = IF down[k] # l THEN down[k] ELSE IF k < e THEN l ELSE r
  /\ Len(m.cells) = Len(n.cells) + 1
  /\ NodeIn(m, p, a, below) /\ Nested(a, below) /\ Contiguous(below)
LEMMA AddKid ==
  ASSUME NEW n, NEW p \in Nat, NEW l \in Nat, NEW r \in Nat, l # r,
         NEW a \in Division, NEW down \in Division, NEW e \in Ids, e - 1 \in Ids,
         NodeIn(n, p, a, down), Nested(a, down), Contiguous(down),
         down[e - 1] = l, down[e] = l, a[e] = p, \A k \in Ids : down[k] # r
  PROVE  \E m \in Node, below \in Division : IsKidAdded(m, below, n, p, l, r, e, a, down)
<1>1. PICK L \in Nat : L = Len(n.cells)
  BY NodeKeys
<1>2. n \in Node /\ Ordered(n) /\ e \in Nat
  BY NodeKeys, IdsAre
<1>3. PICK m \in Node :
        /\ m = WithCell(n, e, l, r) /\ Len(m.cells) = L + 1
        /\ \A x \in 1 .. L + 1 :
             CellKeys(m)[x] = IF x < CellFor(n, e) THEN CellKeys(n)[x]
                          ELSE IF x = CellFor(n, e) THEN e ELSE CellKeys(n)[x - 1]
        /\ \A q \in Nat : KidFor(m, q) = IF CellFor(n, q) # CellFor(n, e) THEN KidFor(n, q)
                                         ELSE IF q < e THEN l ELSE r
  BY <1>1, <1>2, WithCellRoutes
<1>4. PICK i \in 1 .. L + 1 :
        /\ i = CellFor(n, e)
        /\ \A x \in 1 .. L : IF x < i THEN n.cells[x].key <= e ELSE e < n.cells[x].key
  BY <1>1, PlaceOf
<1>5. /\ \A x \in 1 .. L : n.cells[x].key \in Nat
      /\ \A x, y \in 1 .. L : x < y => n.cells[x].key < n.cells[y].key
  BY <1>1, NodeKeys
<1>6. \A x \in 1 .. L : n.cells[x].key # e
  BY <1>1, NodeKeys
<1>7. \A x \in 1 .. L + 1 : m.cells[x].key = IF x < i THEN n.cells[x].key
                                             ELSE IF x = i THEN e ELSE n.cells[x - 1].key
  <2>1. ASSUME NEW x \in 1 .. L + 1
        PROVE  m.cells[x].key = IF x < i THEN n.cells[x].key
                                ELSE IF x = i THEN e ELSE n.cells[x - 1].key
    <3>1. m.cells[x].key = CellKeys(m)[x]
      BY <1>3, KeysOf
    <3>2. x < i => CellKeys(n)[x] = n.cells[x].key
      <4>1. x < i => x \in 1 .. L
        OBVIOUS
      <4> QED
        BY <1>1, <1>2, <4>1, KeysOf
    <3>3. i < x => CellKeys(n)[x - 1] = n.cells[x - 1].key
      <4>1. i < x => x - 1 \in 1 .. L
        OBVIOUS
      <4> QED
        BY <1>1, <1>2, <4>1, KeysOf
    <3>4. x < i \/ x = i \/ i < x
      OBVIOUS
    <3> QED
      BY <1>3, <1>4, <3>1, <3>2, <3>3, <3>4
  <2> QED
    BY <2>1
<1>8. PICK below \in Division : below = Shift(down, l, r, e)
  BY ShiftAt
<1>9. \A k \in Ids : below[k] = IF down[k] # l THEN down[k] ELSE IF k < e THEN l ELSE r
  <2>1. \A k \in Ids : Shift(down, l, r, e)[k] = IF down[k] # l /\ down[k] # r THEN down[k]
                                                 ELSE IF k < e THEN l ELSE r
    BY ShiftAt
  <2> QED
    BY <1>8, <2>1
<1>10. Contiguous(below)
  BY <1>8, CutDivision, Zenon
<1>11. Nested(a, below)
  BY <1>9 DEF Nested
<1>12. NodeIn(m, p, a, below)
  <2>1. Rising(m)
    <3>1. SUFFICES ASSUME NEW x \in 1 .. L + 1, NEW y \in 1 .. L + 1, x < y
                   PROVE  m.cells[x].key < m.cells[y].key
      BY <1>3 DEF Rising
    <3>2. CASE y < i
      BY <1>5, <1>7, <3>1, <3>2
    <3>3. CASE y = i
      <4>1. x \in 1 .. L /\ x < i
        BY <3>1, <3>3
      <4>2. n.cells[x].key <= e /\ n.cells[x].key # e
        BY <1>4, <1>6, <4>1
      <4> QED
        BY <1>2, <1>5, <1>7, <3>3, <4>1, <4>2
    <3>4. CASE x < i /\ i < y
      <4>1. x \in 1 .. L /\ y - 1 \in 1 .. L /\ x < y - 1 /\ ~(y < i) /\ y # i
        BY <3>4
      <4>2. n.cells[x].key < n.cells[y - 1].key
        BY <1>5, <4>1
      <4> QED
        BY <1>7, <3>4, <4>1, <4>2
    <3>5. CASE x = i
      <4>1. y - 1 \in 1 .. L /\ ~(y - 1 < i) /\ ~(y < i) /\ y # i
        BY <3>1, <3>5
      <4>2. e < n.cells[y - 1].key
        BY <1>4, <4>1
      <4> QED
        BY <1>7, <3>5, <4>1, <4>2
    <3>6. CASE i < x
      <4>1. /\ x - 1 \in 1 .. L /\ y - 1 \in 1 .. L /\ x - 1 < y - 1
            /\ ~(x < i) /\ x # i /\ ~(y < i) /\ y # i
        BY <3>1, <3>6
      <4>2. n.cells[x - 1].key < n.cells[y - 1].key
        BY <1>5, <4>1
      <4> QED
        BY <1>7, <4>1, <4>2
    <3> QED
      BY <3>1, <3>2, <3>3, <3>4, <3>5, <3>6
  <2>2. ASSUME NEW g, KeyIn(g, p, a, down) PROVE KeyIn(g, p, a, below)
    <3>1. g \in Ids /\ g - 1 \in Ids /\ down[g - 1] # down[g]
      BY <2>2 DEF KeyIn
    <3>2. below[g - 1] # below[g]
      BY <1>9, <3>1
    <3> QED
      BY <2>2, <3>2 DEF KeyIn
  <2>3. KeyIn(e, p, a, below)
    <3>1. a[e - 1] = p
      BY DEF Nested
    <3>2. below[e - 1] = l /\ below[e] = r
      BY <1>2, <1>9
    <3> QED
      BY <3>1, <3>2 DEF KeyIn
  <2>4. ASSUME NEW x \in 1 .. L + 1 PROVE KeyIn(m.cells[x].key, p, a, below)
    <3>1. \A y \in 1 .. L : KeyIn(n.cells[y].key, p, a, below)
      BY <1>1, <2>2 DEF NodeIn
    <3>2. CASE x < i
      <4>1. x \in 1 .. L
        BY <3>2
      <4> QED
        BY <1>7, <3>1, <3>2, <4>1
    <3>3. CASE x = i
      BY <1>7, <2>3, <3>3
    <3>4. CASE i < x
      <4>1. x - 1 \in 1 .. L /\ ~(x < i) /\ x # i
        BY <3>4
      <4> QED
        BY <1>7, <3>1, <4>1
    <3> QED
      BY <3>2, <3>3, <3>4
  <2>5. ASSUME NEW k \in Ids, a[k] = p PROVE KidFor(m, k) = below[k]
    <3>1. KidFor(n, k) = down[k] /\ KidFor(n, e) = down[e] /\ k \in Nat
      BY <2>5, IdsAre DEF NodeIn
    <3>2. CASE CellFor(n, k) = CellFor(n, e)
      <4>1. down[k] = l
        BY <3>1, <3>2 DEF KidFor
      <4> QED
        BY <1>3, <1>9, <3>1, <3>2, <4>1
    <3>3. CASE CellFor(n, k) # CellFor(n, e)
      <4>1. down[k] # l
        BY <2>5, <3>3, OnePlace
      <4> QED
        BY <1>3, <1>9, <3>1, <3>3, <4>1
    <3> QED
      BY <3>2, <3>3
  <2> QED
    BY <1>3, <2>1, <2>4, <2>5 DEF NodeIn
<1> QED
  BY <1>1, <1>3, <1>8, <1>9, <1>10, <1>11, <1>12, Zenon DEF IsKidAdded

\* The child on the right of a border goes, and the one on the left has its ids.
IsKidDropped(m, below, n, p, l, r, a, down) ==
  /\ m = WithoutChild(n, r) /\ below = Shift(down, l, r, MAX_ROWS)
  /\ \A k \in Ids : below[k] = IF down[k] = r THEN l ELSE down[k]
  /\ Len(m.cells) = Len(n.cells) - 1
  /\ NodeIn(m, p, a, below) /\ Nested(a, below) /\ Contiguous(below)
LEMMA DropKid ==
  ASSUME NEW n, NEW p \in Nat, NEW l \in Nat, NEW r \in Nat, l # r,
         NEW a \in Division, NEW down \in Division, NEW e \in Ids, e - 1 \in Ids,
         NodeIn(n, p, a, down), Nested(a, down), Contiguous(down),
         down[e - 1] = l, down[e] = r, a[e - 1] = p, a[e] = p
  PROVE  \E m \in Node, below \in Division : IsKidDropped(m, below, n, p, l, r, a, down)
<1>1. PICK L \in Nat : L = Len(n.cells)
  BY NodeKeys
<1>2. n \in Node /\ Ordered(n) /\ e \in Nat
  BY NodeKeys, IdsAre
<1>3. PICK i \in 1 .. L : n.cells[i].key = e /\ Kids(n)[i] = l /\ Kids(n)[i + 1] = r
  <2>1. HasKey(n, e, down[e - 1], down[e])
    BY BorderIsKey
  <2> QED
    BY <1>1, <2>1 DEF HasKey
<1>4. \A x, y \in 1 .. L + 1 : Kids(n)[x] = Kids(n)[y] => x = y
  BY <1>1, KidsDiffer, ZenonT(40) DEF Used
<1>5. i + 1 \in 1 .. L + 1 /\ i + 1 # 1 /\ i + 1 - 1 = i
  OBVIOUS
<1>6. PICK m \in Node :
        /\ m = WithoutChild(n, r) /\ IsWithout(m, n, i + 1, i)
        /\ \A q \in Nat : KidFor(m, q) = IF CellFor(n, q) # i + 1 THEN KidFor(n, q) ELSE l
  <2>1. PICK j \in 1 .. L + 1 : j = i + 1
    BY <1>5
  <2>2. \A x \in 1 .. L + 1 : x # j => Kids(n)[x] # Kids(n)[j]
    BY <1>4
  <2>3. n.cells # <<>>
    BY <1>1, <1>2, CellsType
  <2>4. PICK m \in Node :
        /\ m = WithoutChild(n, Kids(n)[j]) /\ IsWithout(m, n, j, IF j = 1 THEN 1 ELSE j - 1)
        /\ \A q \in Nat : KidFor(m, q) = IF CellFor(n, q) # j THEN KidFor(n, q)
                                         ELSE Kids(n)[IF j = 1 THEN 2 ELSE j - 1]
    BY <1>1, <1>2, <2>2, <2>3, WithoutChildRoutes, SMTT(30)
  <2>5. j # 1 /\ j - 1 = i
    BY <2>1
  <2> QED
    BY <1>3, <2>1, <2>4, <2>5
<1>7. Len(m.cells) = L - 1
  BY <1>1, <1>6 DEF IsWithout
<1>8. \A x \in 1 .. L - 1 : \E y \in 1 .. L :
        m.cells[x].key = n.cells[y].key /\ y # i /\ y = IF x < i THEN x ELSE x + 1
  <2>1. ASSUME NEW x \in 1 .. L - 1
        PROVE  \E y \in 1 .. L :
                 m.cells[x].key = n.cells[y].key /\ y # i /\ y = IF x < i THEN x ELSE x + 1
    <3>1. PICK y \in 1 .. L : y # i /\ y = IF x < i THEN x ELSE x + 1
      <4>1. x \in 1 .. L /\ x + 1 \in 1 .. L
        OBVIOUS
      <4> QED
        BY <4>1
    <3>2. CellKeys(m)[x] = IF x < i THEN CellKeys(n)[x] ELSE CellKeys(n)[x + 1]
      BY <1>1, <1>6 DEF IsWithout
    <3>3. CellKeys(m)[x] = m.cells[x].key
      BY <1>7, KeysOf
    <3>4. CellKeys(n)[y] = n.cells[y].key
      BY <1>1, <1>2, KeysOf
    <3> QED
      BY <3>1, <3>2, <3>3, <3>4
  <2> QED
    BY <2>1
<1>9. PICK below \in Division :
        /\ below = Shift(down, l, r, MAX_ROWS) /\ Contiguous(below)
        /\ \A k \in Ids : below[k] = IF down[k] = r THEN l ELSE down[k]
  BY ShiftAt, JoinDivision
<1>10. Nested(a, below)
  BY <1>9 DEF Nested
<1>11. ASSUME NEW y \in 1 .. L, y # i PROVE KeyIn(n.cells[y].key, p, a, below)
  <2>1. PICK g \in Ids : g = n.cells[y].key /\ KeyIn(g, p, a, down) /\ g # e
    <3>1. n.cells[y].key # e
      BY <1>1, <1>3, <1>11, NodeKeys, SMTT(30)
    <3> QED
      BY <1>1, <3>1 DEF NodeIn, KeyIn
  <2>2. g - 1 \in Ids /\ down[g - 1] # down[g]
    BY <2>1 DEF KeyIn
  <2>3. /\ down[g - 1] = l => g - 1 < e
        /\ down[g - 1] = r => e <= g - 1
        /\ down[g] = l => g < e
        /\ down[g] = r => e <= g
    BY <2>2, Sides
  <2>4. g \in Nat
    BY IdsAre
  <2>5. ~(down[g - 1] = l /\ down[g] = r) /\ ~(down[g - 1] = r /\ down[g] = l)
    BY <1>2, <2>1, <2>3, <2>4
  <2>6. below[g - 1] # below[g]
    BY <1>9, <2>2, <2>5
  <2> QED
    BY <2>1, <2>6 DEF KeyIn
<1>12. NodeIn(m, p, a, below)
  <2>1. Rising(m)
    <3>1. SUFFICES ASSUME NEW x \in 1 .. L - 1, NEW z \in 1 .. L - 1, x < z
                   PROVE  m.cells[x].key < m.cells[z].key
      BY <1>7 DEF Rising
    <3>2. PICK x2 \in 1 .. L : m.cells[x].key = n.cells[x2].key /\ x2 = IF x < i THEN x ELSE x + 1
      BY <1>8
    <3>3. PICK z2 \in 1 .. L : m.cells[z].key = n.cells[z2].key /\ z2 = IF z < i THEN z ELSE z + 1
      BY <1>8
    <3>4. x2 < z2
      BY <3>1, <3>2, <3>3
    <3>5. n.cells[x2].key < n.cells[z2].key
      BY <1>1, <3>4, NodeKeys
    <3> QED
      BY <3>2, <3>3, <3>5
  <2>2. ASSUME NEW x \in 1 .. L - 1 PROVE KeyIn(m.cells[x].key, p, a, below)
    BY <1>8, <1>11
  <2>3. ASSUME NEW k \in Ids, a[k] = p PROVE KidFor(m, k) = below[k]
    <3>1. k \in Nat /\ KidFor(n, k) = down[k] /\ CellFor(n, k) \in 1 .. L + 1
      <4>1. KidFor(n, k) = down[k]
        BY <2>3 DEF NodeIn
      <4> QED
        BY <1>1, <4>1, IdsAre, PlaceOf
    <3>2. CellFor(n, k) = i + 1 <=> down[k] = r
      BY <1>3, <1>4, <1>5, <3>1 DEF KidFor
    <3> QED
      BY <1>6, <1>9, <3>1, <3>2
  <2> QED
    BY <1>6, <1>7, <2>1, <2>2, <2>3 DEF NodeIn
<1> QED
  BY <1>1, <1>6, <1>7, <1>9, <1>10, <1>12, Zenon DEF IsKidDropped

\* The border between two neighbours moves from e to g.
LEMMA MoveDivision ==
  ASSUME NEW a \in Division, Contiguous(a), NEW e \in Ids, e - 1 \in Ids, a[e - 1] # a[e],
         NEW l \in Nat, NEW r \in Nat, l = a[e - 1], r = a[e], NEW g \in Ids
  PROVE  \E b \in Division :
           /\ b = Shift(a, l, r, g) /\ Contiguous(b)
           /\ \A k \in Ids : b[k] = IF a[k] # l /\ a[k] # r THEN a[k] ELSE IF k < g THEN l ELSE r
<1>1. PICK c \in Division : /\ Contiguous(c)
                            /\ \A k \in Ids : c[k] = IF a[k] = r THEN l ELSE a[k]
  BY ShiftAt, JoinDivision
<1>2. \A k \in Ids : c[k] # r
  BY <1>1
<1>3. PICK b \in Division : b = Shift(c, l, r, g) /\ Contiguous(b)
  BY <1>1, <1>2, CutDivision, ShiftAt
<1>4. \A k \in Ids : b[k] = IF c[k] # l /\ c[k] # r THEN c[k] ELSE IF k < g THEN l ELSE r
  BY <1>3, ShiftAt
<1>5. PICK d \in Division :
        /\ d = Shift(a, l, r, g)
        /\ \A k \in Ids : d[k] = IF a[k] # l /\ a[k] # r THEN a[k] ELSE IF k < g THEN l ELSE r
  BY ShiftAt
<1>6. \A k \in Ids : b[k] = d[k]
  BY <1>1, <1>4, <1>5
<1>7. b = d
  BY <1>6 DEF Division
<1> QED
  BY <1>3, <1>5, <1>7

IsRekeyed(m, n, i, g) ==
  /\ Len(m.cells) = Len(n.cells)
  /\ \A x \in 1 .. Len(n.cells) : m.cells[x].key = IF x = i THEN g ELSE n.cells[x].key
  /\ \A x \in 1 .. Len(n.cells) + 1 : Kids(m)[x] = Kids(n)[x]

\* The key of a node moves with the border between the children on its two sides.
IsBorderMoved(below, m, p, l, r, g, a, down) ==
  /\ below = Shift(down, l, r, g)
  /\ \A k \in Ids : below[k] = IF down[k] # l /\ down[k] # r THEN down[k]
                               ELSE IF k < g THEN l ELSE r
  /\ NodeIn(m, p, a, below) /\ Nested(a, below) /\ Contiguous(below)
LEMMA Rekey ==
  ASSUME NEW n, NEW m \in Node, NEW p \in Nat, NEW l \in Nat, NEW r \in Nat, l # r,
         NEW a \in Division, NEW down \in Division, NEW e \in Ids, e - 1 \in Ids,
         NodeIn(n, p, a, down), Nested(a, down), Contiguous(down),
         down[e - 1] = l, down[e] = r, a[e - 1] = p, a[e] = p,
         NEW i \in 1 .. Len(n.cells), n.cells[i].key = e,
         NEW g \in Ids, g - 1 \in Ids, down[g - 1] \in {l, r}, down[g] \in {l, r},
         IsRekeyed(m, n, i, g)
  PROVE  \E below \in Division : IsBorderMoved(below, m, p, l, r, g, a, down)
<1>1. PICK L \in Nat : L = Len(n.cells)
  BY NodeKeys
<1>2. n \in Node /\ Ordered(n) /\ e \in Nat /\ g \in Nat
  BY NodeKeys, IdsAre
<1>3. Kids(n)[i] = l /\ Kids(n)[i + 1] = r
  BY KidsAtKey, ZenonT(40)
<1>4. \A x, y \in 1 .. L + 1 : Kids(n)[x] = Kids(n)[y] => x = y
  <2>1. Used(p, a)
    BY DEF Used
  <2> QED
    BY <1>1, <2>1, KidsDiffer
<1>5. PICK below \in Division :
        /\ below = Shift(down, l, r, g) /\ Contiguous(below)
        /\ \A k \in Ids : below[k] = IF down[k] # l /\ down[k] # r THEN down[k]
                                     ELSE IF k < g THEN l ELSE r
  BY MoveDivision
<1>6. Nested(a, below)
  BY <1>5 DEF Nested
<1>7. \A k \in Ids : k \in Nat /\ (down[k] = l => k < e) /\ (down[k] = r => e <= k)
  BY Sides, IdsAre
<1>8. a[g - 1] = p /\ a[g] = p
  BY DEF Nested
<1>9. below[g - 1] = l /\ below[g] = r
  BY <1>2, <1>5
\* Between the two borders there is nothing but l and r.
<1>10. ASSUME NEW k \in Ids, (g <= k /\ k < e) \/ (e <= k /\ k < g)
       PROVE  down[k] = l \/ down[k] = r
  <2>1. CASE g <= k /\ k < e
    <3>1. down[g] = l
      BY <1>2, <1>7, <2>1
    <3>2. k <= e - 1
      BY <1>2, <1>7, <2>1
    <3> QED
      BY <2>1, <3>1, <3>2 DEF Contiguous
  <2>2. CASE e <= k /\ k < g
    <3>1. k <= g - 1 /\ e <= g - 1
      BY <1>2, <1>7, <2>2
    <3>2. down[g - 1] = r
      BY <1>2, <1>7, <3>1
    <3> QED
      BY <2>2, <3>1, <3>2 DEF Contiguous
  <2> QED
    BY <1>10, <2>1, <2>2
<1>11. \A x \in 1 .. L : /\ n.cells[x].key \in Ids /\ n.cells[x].key - 1 \in Ids
                         /\ n.cells[x].key \in Nat
                         /\ down[n.cells[x].key - 1] # down[n.cells[x].key]
                         /\ (x < i => n.cells[x].key < e) /\ (i < x => e < n.cells[x].key)
  BY <1>1, NodeKeys, SMTT(30)
<1>12. \A x \in 1 .. L : /\ x < i => n.cells[x].key < g
                         /\ i < x => g < n.cells[x].key
  <2>1. ASSUME NEW f \in Ids, f - 1 \in Ids, down[f - 1] # down[f]
        PROVE  (f < e => f < g) /\ (e < f => g < f)
    <3>1. f \in Nat /\ e \in Nat /\ g \in Nat /\ f - 1 \in Nat
      BY <2>1, IdsAre
    <3>2. ASSUME f < e, ~(f < g) PROVE FALSE
      <4>1. g <= f /\ f - 1 < e
        BY <3>1, <3>2
      <4>2. f = g \/ g <= f - 1
        BY <3>1, <4>1
      <4>3. down[f] = l \/ down[f] = r
        BY <1>10, <3>2, <4>1
      <4>8. ~(e <= f)
        BY <3>1, <3>2
      <4>4. down[f] = l
        BY <1>7, <4>3, <4>8
      <4>5. down[f - 1] = l \/ down[f - 1] = r
        <5>1. CASE f = g
          BY <5>1
        <5>2. CASE g <= f - 1
          BY <1>10, <2>1, <4>1, <5>2
        <5> QED
          BY <4>2, <5>1, <5>2
      <4>6. ~(e <= f - 1)
        BY <3>1, <4>1
      <4>7. down[f - 1] = l
        BY <1>7, <2>1, <4>5, <4>6
      <4> QED
        BY <2>1, <4>4, <4>7
    <3>3. ASSUME e < f, ~(g < f) PROVE FALSE
      <4>1. e <= f - 1 /\ f - 1 < g /\ ~(f < e) /\ ~(f - 1 < e)
        BY <3>1, <3>3
      <4>2. f = g \/ (e <= f /\ f < g)
        BY <3>1, <3>3
      <4>3. down[f - 1] = l \/ down[f - 1] = r
        BY <1>10, <2>1, <4>1
      <4>4. down[f - 1] = r
        BY <1>7, <2>1, <4>1, <4>3
      <4>5. down[f] = l \/ down[f] = r
        BY <1>10, <4>2
      <4>6. down[f] = r
        BY <1>7, <4>1, <4>5
      <4> QED
        BY <2>1, <4>4, <4>6
    <3> QED
      BY <3>2, <3>3
  <2> QED
    BY <1>11, <2>1
<1>13. /\ Len(m.cells) = L
       /\ \A x \in 1 .. L : m.cells[x].key = IF x = i THEN g ELSE n.cells[x].key
       /\ \A x \in 1 .. L + 1 : Kids(m)[x] = Kids(n)[x]
  BY <1>1 DEF IsRekeyed
<1>14. NodeIn(m, p, a, below)
  <2>1. Rising(m)
    <3>1. SUFFICES ASSUME NEW x \in 1 .. L, NEW y \in 1 .. L, x < y
                   PROVE  m.cells[x].key < m.cells[y].key
      BY <1>13 DEF Rising
    <3>2. n.cells[x].key < n.cells[y].key
      BY <1>1, <3>1, NodeKeys
    <3>3. x = i => m.cells[y].key = n.cells[y].key /\ i < y
      BY <1>13, <3>1
    <3>4. y = i => m.cells[x].key = n.cells[x].key /\ x < i
      BY <1>13, <3>1
    <3> QED
      BY <1>12, <1>13, <3>1, <3>2, <3>3, <3>4
  <2>2. ASSUME NEW f, KeyIn(f, p, a, down), f # e PROVE KeyIn(f, p, a, below)
    <3>1. f \in Ids /\ f - 1 \in Ids /\ f \in Nat /\ down[f - 1] # down[f]
      BY <2>2, IdsAre DEF KeyIn
    <3>2. ~(down[f - 1] = l /\ down[f] = r) /\ ~(down[f - 1] = r /\ down[f] = l)
      <4>1. /\ (down[f] = l => f < e) /\ (down[f] = r => e <= f)
            /\ (down[f - 1] = l => f - 1 < e) /\ (down[f - 1] = r => e <= f - 1)
        BY <1>7, <3>1
      <4> QED
        BY <1>2, <2>2, <3>1, <4>1
    <3>3. below[f - 1] # below[f]
      BY <1>5, <3>1, <3>2
    <3> QED
      BY <2>2, <3>3 DEF KeyIn
  <2>3. ASSUME NEW x \in 1 .. L PROVE KeyIn(m.cells[x].key, p, a, below)
    <3>1. CASE x = i
      BY <1>8, <1>9, <1>13, <3>1 DEF KeyIn
    <3>2. CASE x # i
      <4>1. n.cells[x].key # e
        BY <1>1, <3>2, NodeKeys
      <4>2. KeyIn(n.cells[x].key, p, a, down)
        BY <1>1 DEF NodeIn
      <4> QED
        BY <1>13, <2>2, <3>2, <4>1, <4>2
    <3> QED
      BY <3>1, <3>2
  <2>4. ASSUME NEW k \in Ids, a[k] = p PROVE KidFor(m, k) = below[k]
    <3>1. PICK j \in 1 .. L + 1 :
            /\ j = CellFor(n, k)
            /\ \A x \in 1 .. L : IF x < j THEN n.cells[x].key <= k ELSE k < n.cells[x].key
      BY <1>1, PlaceOf
    <3>2. k \in Nat /\ Kids(n)[j] = down[k]
      BY <2>4, <3>1, IdsAre DEF NodeIn, KidFor
    <3>3. (j = i <=> down[k] = l) /\ (j = i + 1 <=> down[k] = r)
      <4>1. i \in 1 .. L + 1 /\ i + 1 \in 1 .. L + 1
        BY <1>1
      <4> QED
        BY <1>3, <1>4, <3>2, <4>1
    <3>4. ASSUME NEW d \in 1 .. L + 1,
                 \A x \in 1 .. L : IF x < d THEN m.cells[x].key <= k ELSE k < m.cells[x].key
          PROVE  KidFor(m, k) = Kids(n)[d]
      <4>1. Divides(m, d, k)
        BY <1>13, <3>4 DEF Divides
      <4> QED
        BY <1>13, <3>2, <4>1, CellForIs DEF KidFor
    <3>5. CASE down[k] # l /\ down[k] # r
      <4>1. ~(g <= k /\ k < e) /\ ~(e <= k /\ k < g)
        BY <1>10, <3>5
      <4>2. i < j => e <= k
        BY <1>1, <3>1
      <4>3. ~(i < j) => k < e
        BY <1>1, <3>1
      <4>4. IF i < j THEN g <= k ELSE k < g
        BY <1>2, <3>2, <4>1, <4>2, <4>3
      <4>5. \A x \in 1 .. L : IF x < j THEN m.cells[x].key <= k ELSE k < m.cells[x].key
        BY <1>13, <3>1, <4>4
      <4> QED
        BY <1>5, <3>2, <3>4, <3>5, <4>5
    <3>6. CASE down[k] = l \/ down[k] = r
      <4>1. /\ \A x \in 1 .. L : x < i => n.cells[x].key <= k
            /\ \A x \in 1 .. L : i < x => k < n.cells[x].key
        <5>1. j = i \/ j = i + 1
          BY <3>3, <3>6
        <5> QED
          BY <3>1, <5>1
      <4>2. CASE k < g
        <5>1. \A x \in 1 .. L : IF x < i THEN m.cells[x].key <= k ELSE k < m.cells[x].key
          BY <1>13, <4>1, <4>2, SMTT(30)
        <5> QED
          BY <1>1, <1>3, <1>5, <3>4, <3>6, <4>2, <5>1
      <4>3. CASE ~(k < g)
        <5>1. g <= k
          BY <1>2, <3>2, <4>3
        <5>2. ASSUME NEW x \in 1 .. L
              PROVE  IF x < i + 1 THEN m.cells[x].key <= k ELSE k < m.cells[x].key
          <6>1. (x < i /\ x < i + 1) \/ x = i \/ (i < x /\ ~(x < i + 1))
            BY <1>1
          <6>2. CASE x = i
            BY <1>13, <5>1, <6>2
          <6>3. CASE x < i
            BY <1>13, <4>1, <6>3
          <6>4. CASE i < x
            BY <1>13, <4>1, <6>4
          <6> QED
            BY <6>1, <6>2, <6>3, <6>4
        <5> QED
          BY <1>1, <1>3, <1>5, <3>4, <3>6, <4>3, <5>2
      <4> QED
        BY <4>2, <4>3
    <3> QED
      BY <3>5, <3>6
  <2> QED
    BY <1>13, <2>1, <2>3, <2>4 DEF NodeIn
<1> QED
  BY <1>5, <1>6, <1>14, Zenon DEF IsBorderMoved

\* A node of one key and two children sends every id to one of them.
LEMMA NodeOfTwo ==
  ASSUME NEW p \in Nat, NEW l \in Nat, NEW r \in Nat, l # r, NEW e \in Ids, e - 1 \in Ids,
         NEW n \in Node, n.cells = <<[child |-> l, key |-> e]>>, n.rightmost = r,
         NEW a \in Division, \A k \in Ids : a[k] = p,
         NEW down \in Division, \A k \in Ids : down[k] = IF k < e THEN l ELSE r
  PROVE  NodeIn(n, p, a, down) /\ Nested(a, down) /\ Len(n.cells) = 1
<1>1. e \in Nat /\ e - 1 \in Nat
  BY IdsAre
<1>2. Len(n.cells) = 1 /\ n.cells[1].key = e /\ n.cells[1].child = l
  OBVIOUS
<1>3. Kids(n)[1] = l /\ Kids(n)[2] = r
  <2>1. \A i \in 1 .. Len(n.cells) + 1 :
          Kids(n)[i] = IF i <= Len(n.cells) THEN n.cells[i].child ELSE n.rightmost
    BY KidAt
  <2>2. 1 \in 1 .. Len(n.cells) + 1 /\ 2 \in 1 .. Len(n.cells) + 1
    BY <1>2
  <2>3. 1 <= Len(n.cells) /\ ~(2 <= Len(n.cells))
    BY <1>2
  <2>4. Kids(n)[1] = n.cells[1].child
    BY <2>1, <2>2, <2>3
  <2>5. Kids(n)[2] = n.rightmost
    BY <2>1, <2>2, <2>3
  <2> QED
    BY <1>2, <2>4, <2>5
<1>4. Rising(n)
  BY <1>2 DEF Rising
<1>5. KeyIn(e, p, a, down)
  BY <1>1 DEF KeyIn
<1>6. ASSUME NEW k \in Ids PROVE KidFor(n, k) = down[k]
  <2>1. k \in Nat
    BY IdsAre
  <2>2. CASE k < e
    <3>1. Divides(n, 1, k)
      BY <1>2, <2>1, <2>2 DEF Divides
    <3>2. CellFor(n, k) = 1
      BY <2>1, <3>1, CellForIs
    <3> QED
      BY <1>3, <2>2, <3>2 DEF KidFor
  <2>3. CASE ~(k < e)
    <3>1. e <= k
      BY <1>1, <2>1, <2>3
    <3>2. Divides(n, 2, k)
      BY <1>2, <2>1, <3>1 DEF Divides
    <3>3. CellFor(n, k) = 2
      BY <2>1, <3>2, CellForIs
    <3> QED
      BY <1>3, <2>3, <3>3 DEF KidFor
  <2> QED
    BY <2>2, <2>3
<1>7. \A i \in 1 .. Len(n.cells) : KeyIn(n.cells[i].key, p, a, down)
  BY <1>2, <1>5
<1>8. NodeIn(n, p, a, down)
  BY <1>4, <1>6, <1>7 DEF NodeIn
<1> QED
  BY <1>2, <1>8 DEF Nested

-----------------------------------------------------------------------------
(* One leaf *)

\* d is s and then t.
IsConcat(d, s, t) ==
  /\ Len(d) = Len(s) + Len(t)
  /\ \A x \in 1 .. Len(s) + Len(t) : d[x] = IF x <= Len(s) THEN s[x] ELSE t[x - Len(s)]

LEMMA SumsConcat ==
  ASSUME NEW s \in Seq(Nat), NEW t \in Seq(Nat), NEW d \in Seq(Nat), IsConcat(d, s, t)
  PROVE  Sums(d)[Len(d)] = Sums(s)[Len(s)] + Sums(t)[Len(t)]
<1>1. PICK A \in Nat : A = Len(s)
  OBVIOUS
<1>2. PICK B \in Nat : B = Len(t)
  OBVIOUS
<1>3. Len(d) = A + B /\ \A x \in 1 .. A + B : d[x] = IF x <= A THEN s[x] ELSE t[x - A]
  BY <1>1, <1>2 DEF IsConcat
<1>4. /\ \A i \in 1 .. A + B : Sums(d)[i] = Sums(d)[i - 1] + d[i]
      /\ \A i \in 0 .. A + B : Sums(d)[i] \in Nat
  BY <1>3, SumsAre
<1>5. /\ Sums(t)[0] = 0 /\ \A i \in 1 .. B : Sums(t)[i] = Sums(t)[i - 1] + t[i]
      /\ \A i \in 0 .. B : Sums(t)[i] \in Nat
  BY <1>2, SumsAre
<1>6. Sums(d)[A] = Sums(s)[A] /\ Sums(s)[A] \in Nat
  <2>1. \A x \in 1 .. A : d[x] = s[x]
    BY <1>3
  <2>2. \A x \in 0 .. A : Sums(d)[x] = Sums(s)[x]
    <3>1. A <= Len(s) /\ A <= Len(d)
      BY <1>1, <1>3
    <3> QED
      BY <2>1, <3>1, SumsAgree
  <2> QED
    BY <1>1, <2>2, SumsAre
<1> DEFINE P == {x \in 0 .. B : Sums(d)[A + x] = Sums(s)[A] + Sums(t)[x]}
<1>7. 0 \in P
  BY <1>5, <1>6
<1>8. ASSUME NEW x \in 1 .. B, x - 1 \in P PROVE x \in P
  <2>1. PICK y \in 1 .. A + B : y = A + x /\ y - 1 = A + (x - 1) /\ ~(y <= A) /\ y - A = x
    OBVIOUS
  <2>2. d[y] = t[x]
    BY <1>3, <2>1
  <2>3. Sums(d)[y] = Sums(d)[y - 1] + t[x]
    BY <1>4, <2>2
  <2>4. Sums(d)[y - 1] = Sums(s)[A] + Sums(t)[x - 1]
    BY <1>8, <2>1
  <2>5. Sums(t)[x] = Sums(t)[x - 1] + t[x] /\ t[x] \in Nat /\ Sums(t)[x - 1] \in Nat
    BY <1>2, <1>5, SMTT(30)
  <2>6. Sums(d)[y] = Sums(s)[A] + Sums(t)[x]
    <3>1. PICK u \in Nat : u = Sums(s)[A]
      BY <1>6
    <3>2. PICK v \in Nat : v = Sums(t)[x - 1]
      BY <2>5
    <3>3. PICK w \in Nat : w = t[x]
      BY <2>5
    <3>4. Sums(d)[y] = (u + v) + w /\ Sums(t)[x] = v + w
      BY <2>3, <2>4, <2>5, <3>1, <3>2, <3>3
    <3> QED
      BY <3>1, <3>4
  <2> QED
    BY <2>1, <2>6
<1> HIDE DEF P
<1>9. \A x \in 0 .. B : x \in P
  BY <1>7, <1>8, UpTo
<1>10. B \in P
  BY <1>9
<1> QED
  BY <1>1, <1>2, <1>3, <1>10 DEF P

LEMMA TakenConcat ==
  ASSUME NEW s \in Seq(Rows), NEW t \in Seq(Rows), NEW d \in Seq(Rows), IsConcat(d, s, t)
  PROVE  Taken(d) = Taken(s) + Taken(t)
<1>1. PICK A \in Nat : A = Len(s)
  OBVIOUS
<1>2. PICK B \in Nat : B = Len(t)
  OBVIOUS
<1>3. Len(d) = A + B /\ \A x \in 1 .. A + B : d[x] = IF x <= A THEN s[x] ELSE t[x - A]
  BY <1>1, <1>2 DEF IsConcat
<1>4. /\ Costs(s) \in Seq(Nat) /\ Len(Costs(s)) = A
      /\ \A i \in 1 .. A : Costs(s)[i] = Cost(s[i])
  BY <1>1, CostsType
<1>5. /\ Costs(t) \in Seq(Nat) /\ Len(Costs(t)) = B
      /\ \A i \in 1 .. B : Costs(t)[i] = Cost(t[i])
  BY <1>2, CostsType
<1>6. /\ Costs(d) \in Seq(Nat) /\ Len(Costs(d)) = A + B
      /\ \A i \in 1 .. A + B : Costs(d)[i] = Cost(d[i])
  BY <1>3, CostsType
<1>7. ASSUME NEW x \in 1 .. A + B
      PROVE  Costs(d)[x] = IF x <= A THEN Costs(s)[x] ELSE Costs(t)[x - A]
  <2>1. CASE x <= A
    <3>1. x \in 1 .. A
      BY <2>1
    <3> QED
      BY <1>3, <1>4, <1>6, <2>1, <3>1
  <2>2. CASE ~(x <= A)
    <3>1. x - A \in 1 .. B
      BY <2>2
    <3> QED
      BY <1>3, <1>5, <1>6, <2>2, <3>1
  <2> QED
    BY <2>1, <2>2
<1>8. IsConcat(Costs(d), Costs(s), Costs(t))
  BY <1>4, <1>5, <1>6, <1>7 DEF IsConcat
<1>9. Sums(Costs(d))[A + B] = Sums(Costs(s))[A] + Sums(Costs(t))[B]
  <2>1. Sums(Costs(d))[Len(Costs(d))]
          = Sums(Costs(s))[Len(Costs(s))] + Sums(Costs(t))[Len(Costs(t))]
    BY <1>4, <1>5, <1>6, <1>8, SumsConcat
  <2> QED
    BY <1>4, <1>5, <1>6, <2>1
<1> QED
  BY <1>4, <1>5, <1>6, <1>9, TakenIs

\* The rows of a table have ids that rows may have.
Stored(store) == \A row \in store : row \in Rows /\ row.key \in Ids

LEMMA RowOf ==
  ASSUME NEW rows, NEW p, NEW a, NEW store, RowsIn(rows, p, a, store), Stored(store)
  PROVE  /\ rows \in Seq(Rows) /\ InOrder(rows) /\ Len(rows) \in Nat
         /\ \A i \in 1 .. Len(rows) :
              /\ rows[i] \in store /\ rows[i] \in Rows
              /\ rows[i].key \in Ids /\ rows[i].key \in Nat /\ a[rows[i].key] = p
<1>1. rows \in Seq(Rows) /\ InOrder(rows) /\ Len(rows) \in Nat
  BY DEF RowsIn
<1>2. ASSUME NEW i \in 1 .. Len(rows)
      PROVE  /\ rows[i] \in store /\ rows[i] \in Rows
             /\ rows[i].key \in Ids /\ rows[i].key \in Nat /\ a[rows[i].key] = p
  <2>1. rows[i] \in Rows
    BY <1>1
  <2>2. rows[i] \in store /\ a[rows[i].key] = p
    BY <2>1 DEF RowsIn
  <2> QED
    BY <2>1, <2>2, IdsAre DEF Stored
<1> QED
  BY <1>1, <1>2

\* The rows of two neighbours, one after the other, are those of their ids.
LEMMA JoinRows ==
  ASSUME NEW store, Stored(store), NEW l \in Nat, NEW r \in Nat, l # r,
         NEW a \in Division, Contiguous(a), NEW e \in Ids, e - 1 \in Ids, a[e - 1] = l, a[e] = r,
         NEW s, NEW t, RowsIn(s, l, a, store), RowsIn(t, r, a, store),
         NEW d \in Seq(Rows), IsConcat(d, s, t),
         NEW b, \A k \in Ids : b[k] = IF a[k] = r THEN l ELSE a[k]
  PROVE  RowsIn(d, l, b, store)
<1>1. PICK A \in Nat : A = Len(s)
  BY RowOf
<1>2. PICK B \in Nat : B = Len(t)
  BY RowOf
<1>3. Len(d) = A + B /\ \A x \in 1 .. A + B : d[x] = IF x <= A THEN s[x] ELSE t[x - A]
  BY <1>1, <1>2 DEF IsConcat
<1>4. \A x \in 1 .. A : /\ s[x] \in store /\ s[x].key \in Ids /\ s[x].key \in Nat
                        /\ a[s[x].key] = l /\ s[x].key < e
  BY <1>1, RowOf, Sides
<1>5. \A x \in 1 .. B : /\ t[x] \in store /\ t[x].key \in Ids /\ t[x].key \in Nat
                        /\ a[t[x].key] = r /\ e <= t[x].key
  BY <1>2, RowOf, Sides, SMTT(30)
<1>6. /\ \A x, y \in 1 .. A : x < y => s[x].key < s[y].key
      /\ \A x, y \in 1 .. B : x < y => t[x].key < t[y].key
  BY <1>1, <1>2 DEF RowsIn, InOrder
<1>7. \A x \in 1 .. A + B : /\ x <= A => x \in 1 .. A /\ d[x] = s[x]
                            /\ ~(x <= A) => x - A \in 1 .. B /\ d[x] = t[x - A]
  BY <1>3
<1>8. InOrder(d)
  <2>1. SUFFICES ASSUME NEW x \in 1 .. A + B, NEW y \in 1 .. A + B, x < y
                 PROVE  d[x].key < d[y].key
    BY <1>3 DEF InOrder
  <2>2. CASE y <= A
    <3>1. x <= A
      BY <2>1, <2>2
    <3> QED
      BY <1>6, <1>7, <2>1, <2>2, <3>1
  <2>3. CASE x <= A /\ ~(y <= A)
    <3>1. PICK z \in 1 .. B : d[y] = t[z]
      BY <1>7, <2>3
    <3>2. d[x].key < e /\ e <= d[y].key /\ d[x].key \in Nat /\ d[y].key \in Nat /\ e \in Nat
      BY <1>4, <1>5, <1>7, <2>3, <3>1, IdsAre
    <3> QED
      BY <3>2, SMTT(30)
  <2>4. CASE ~(x <= A)
    <3>1. ~(y <= A) /\ x - A < y - A
      BY <2>1, <2>4
    <3> QED
      BY <1>6, <1>7, <2>4, <3>1
  <2> QED
    BY <2>2, <2>3, <2>4
<1>9. ASSUME NEW row \in Rows
      PROVE  (\E i \in 1 .. Len(d) : d[i] = row) <=> row \in store /\ b[row.key] = l
  <2>1. ASSUME NEW i \in 1 .. A + B, d[i] = row PROVE row \in store /\ b[row.key] = l
    <3>1. row \in store /\ row.key \in Ids /\ (a[row.key] = l \/ a[row.key] = r)
      BY <1>4, <1>5, <1>7, <2>1
    <3> QED
      BY <3>1
  <2>2. ASSUME row \in store, b[row.key] = l PROVE \E i \in 1 .. A + B : d[i] = row
    <3>1. row.key \in Ids /\ (a[row.key] = l \/ a[row.key] = r)
      BY <2>2 DEF Stored
    <3>2. CASE a[row.key] = l
      <4>1. PICK i \in 1 .. A : s[i] = row
        BY <1>1, <2>2, <3>2 DEF RowsIn
      <4>2. i \in 1 .. A + B /\ i <= A
        OBVIOUS
      <4> QED
        BY <1>3, <4>1, <4>2
    <3>3. CASE a[row.key] = r
      <4>1. PICK i \in 1 .. B : t[i] = row
        BY <1>2, <2>2, <3>3 DEF RowsIn
      <4>2. A + i \in 1 .. A + B /\ ~(A + i <= A) /\ (A + i) - A = i
        OBVIOUS
      <4>3. d[A + i] = t[i]
        BY <1>3, <4>2
      <4> QED
        BY <4>1, <4>2, <4>3
    <3> QED
      BY <3>1, <3>2, <3>3
  <2> QED
    BY <1>3, <2>1, <2>2
<1> QED
  BY <1>8, <1>9 DEF RowsIn

\* The rows of a leaf in two parts: its ids are divided at the first one of the second.
AreRowsCut(b, e, a, p, q, s, t, store) ==
  /\ e = t[1].key /\ e - 1 \in Ids /\ a[e - 1] = p /\ a[e] = p
  /\ b = Shift(a, p, q, e) /\ Contiguous(b)
  /\ \A k \in Ids : b[k] = IF a[k] # p THEN a[k] ELSE IF k < e THEN p ELSE q
  /\ RowsIn(s, p, b, store) /\ RowsIn(t, q, b, store)

LEMMA CutRows ==
  ASSUME NEW store, Stored(store), NEW p \in Nat, NEW q \in Nat, p # q,
         NEW a \in Division, Contiguous(a), \A k \in Ids : a[k] # q,
         NEW d, RowsIn(d, p, a, store),
         NEW s \in Seq(Rows), NEW t \in Seq(Rows), IsConcat(d, s, t), s # <<>>, t # <<>>
  PROVE  \E b \in Division, e \in Ids : AreRowsCut(b, e, a, p, q, s, t, store)
<1>1. PICK A \in Nat : A = Len(s) /\ A # 0
  OBVIOUS
<1>2. PICK B \in Nat : B = Len(t) /\ B # 0
  OBVIOUS
<1>3. Len(d) = A + B /\ \A x \in 1 .. A + B : d[x] = IF x <= A THEN s[x] ELSE t[x - A]
  BY <1>1, <1>2 DEF IsConcat
<1>4. \A x \in 1 .. A + B : /\ d[x] \in store /\ d[x].key \in Ids /\ d[x].key \in Nat
                            /\ a[d[x].key] = p
  <2>1. \A x \in 1 .. Len(d) : /\ d[x] \in store /\ d[x] \in Rows
                               /\ d[x].key \in Ids /\ d[x].key \in Nat /\ a[d[x].key] = p
    BY RowOf
  <2> QED
    BY <1>3, <2>1
<1>5. \A x, y \in 1 .. A + B : x < y => d[x].key < d[y].key
  BY <1>3 DEF RowsIn, InOrder
<1>6. /\ \A x \in 1 .. A : x \in 1 .. A + B /\ d[x] = s[x]
      /\ \A x \in 1 .. B : A + x \in 1 .. A + B /\ d[A + x] = t[x]
  <2>1. ASSUME NEW x \in 1 .. B PROVE A + x \in 1 .. A + B /\ d[A + x] = t[x]
    <3>1. A + x \in 1 .. A + B /\ ~(A + x <= A) /\ (A + x) - A = x
      OBVIOUS
    <3> QED
      BY <1>3, <3>1
  <2> QED
    BY <1>3, <2>1
<1>7. PICK e \in Ids : e = t[1].key /\ e = d[A + 1].key /\ e \in Nat /\ a[e] = p
  BY <1>2, <1>4, <1>6, SMTT(30)
<1>8. A \in 1 .. A + B /\ A + 1 \in 1 .. A + B /\ A < A + 1
  BY <1>1, <1>2
<1>9. PICK f \in Ids : f = d[A].key /\ f \in Nat /\ a[f] = p /\ f < e
  BY <1>4, <1>5, <1>7, <1>8
<1>10. e - 1 \in Ids /\ a[e - 1] = p
  <2>1. a[f] = a[e] /\ e <= e
    BY <1>7, <1>9
  <2> QED
    BY <1>9, <2>1, Between
<1>11. PICK b \in Division :
         /\ b = Shift(a, p, q, e) /\ Contiguous(b)
         /\ \A k \in Ids : b[k] = IF a[k] # p THEN a[k] ELSE IF k < e THEN p ELSE q
  <2>1. \A k \in Ids : Shift(a, p, q, e)[k] = IF a[k] # p /\ a[k] # q THEN a[k]
                                              ELSE IF k < e THEN p ELSE q
    BY ShiftAt
  <2>2. Contiguous(Shift(a, p, q, e)) /\ Shift(a, p, q, e) \in Division
    BY CutDivision, ShiftAt
  <2> QED
    BY <2>1, <2>2
<1>12. /\ \A x \in 1 .. A : s[x].key < e /\ b[s[x].key] = p
       /\ \A x \in 1 .. B : e <= t[x].key /\ b[t[x].key] = q
  <2>1. ASSUME NEW x \in 1 .. A PROVE s[x].key < e /\ b[s[x].key] = p
    <3>1. x < A + 1
      OBVIOUS
    <3>2. s[x].key < e
      BY <1>5, <1>6, <1>7, <1>8, <3>1
    <3> QED
      BY <1>4, <1>6, <1>11, <3>2
  <2>2. ASSUME NEW x \in 1 .. B PROVE e <= t[x].key /\ b[t[x].key] = q
    <3>1. A + x = A + 1 \/ A + 1 < A + x
      OBVIOUS
    <3>2. t[x].key \in Nat /\ (e = t[x].key \/ e < t[x].key)
      BY <1>4, <1>5, <1>6, <1>7, <1>8, <3>1, ZenonT(40)
    <3>3. e <= t[x].key /\ ~(t[x].key < e)
      BY <1>7, <3>2, SMTT(30)
    <3> QED
      BY <1>4, <1>6, <1>11, <3>3, SMTT(30)
  <2> QED
    BY <2>1, <2>2
<1>13. InOrder(s)
  BY <1>1, <1>5, <1>6 DEF InOrder
<1>14. InOrder(t)
  <2>1. SUFFICES ASSUME NEW x \in 1 .. B, NEW y \in 1 .. B, x < y PROVE t[x].key < t[y].key
    BY <1>2 DEF InOrder
  <2>2. A + x < A + y
    BY <2>1
  <2> QED
    BY <1>5, <1>6, <2>2
<1>15. ASSUME NEW row \in Rows
       PROVE  /\ (\E i \in 1 .. A : s[i] = row) <=> row \in store /\ b[row.key] = p
              /\ (\E i \in 1 .. B : t[i] = row) <=> row \in store /\ b[row.key] = q
  <2>1. ASSUME NEW i \in 1 .. A, s[i] = row PROVE row \in store /\ b[row.key] = p
    BY <1>4, <1>6, <1>12, <2>1
  <2>2. ASSUME NEW i \in 1 .. B, t[i] = row PROVE row \in store /\ b[row.key] = q
    BY <1>4, <1>6, <1>12, <2>2
  <2>3. ASSUME row \in store, b[row.key] = p \/ b[row.key] = q
        PROVE  (\E i \in 1 .. A : s[i] = row) \/ (\E i \in 1 .. B : t[i] = row)
    <3>1. row.key \in Ids
      BY <2>3 DEF Stored
    <3>2. a[row.key] = p
      BY <1>11, <2>3, <3>1
    <3>3. PICK x \in 1 .. A + B : d[x] = row
      BY <1>3, <2>3, <3>2 DEF RowsIn
    <3>4. x <= A => x \in 1 .. A
      OBVIOUS
    <3>5. ~(x <= A) => x - A \in 1 .. B
      OBVIOUS
    <3> QED
      BY <1>3, <3>3, <3>4, <3>5
  <2> QED
    BY <1>12, <2>1, <2>2, <2>3
<1>16. RowsIn(s, p, b, store) /\ RowsIn(t, q, b, store)
  BY <1>1, <1>2, <1>13, <1>14, <1>15 DEF RowsIn
<1> QED
  BY <1>7, <1>10, <1>11, <1>16 DEF AreRowsCut

\* A loop whose turn i takes a state of X[i - 1] to one of X[i].
Closed(n, X, G) == \A i \in 1 .. n : \A x \in X[i - 1] : G[i][x] \in X[i]
IsRun(f, n, X, G, z) ==
  /\ f = [i \in 0 .. n |-> IF i = 0 THEN z ELSE G[i][f[i - 1]]]
  /\ \A i \in 0 .. n : f[i] \in X[i]
LEMMA Recursion ==
  ASSUME NEW n \in Nat, NEW X, NEW G, NEW z, z \in X[0], Closed(n, X, G)
  PROVE  \E f : IsRun(f, n, X, G, z)
<1> DEFINE P == {m \in 0 .. n : \E f : IsRun(f, m, X, G, z)}
<1>1. 0 \in P
  <2>1. IsRun([i \in 0 .. 0 |-> z], 0, X, G, z)
    BY DEF IsRun
  <2> QED
    BY <2>1
<1>2. ASSUME NEW m \in 1 .. n, m - 1 \in P PROVE m \in P
  <2>1. PICK f : IsRun(f, m - 1, X, G, z)
    BY <1>2
  <2> DEFINE g == [i \in 0 .. m |-> IF i = m THEN G[m][f[m - 1]] ELSE f[i]]
  <2>2. m - 1 \in 0 .. m - 1 /\ G[m][f[m - 1]] \in X[m]
    BY <2>1 DEF IsRun, Closed
  <2>3. ASSUME NEW i \in 0 .. m
        PROVE  g[i] = (IF i = 0 THEN z ELSE G[i][g[i - 1]]) /\ g[i] \in X[i]
    <3>1. CASE i = m
      BY <2>2, <3>1
    <3>2. CASE i # m
      <4>1. i \in 0 .. m - 1
        BY <3>2
      <4>2. f[i] = (IF i = 0 THEN z ELSE G[i][f[i - 1]]) /\ f[i] \in X[i]
        BY <2>1, <4>1 DEF IsRun
      <4> QED
        BY <3>2, <4>1, <4>2
    <3> QED
      BY <3>1, <3>2
  <2>4. IsRun(g, m, X, G, z)
    BY <2>3 DEF IsRun
  <2> HIDE DEF g
  <2> QED
    BY <2>4
<1>3. n \in P
  <2> HIDE DEF P
  <2>1. \A i \in 0 .. n : i \in P
    BY <1>1, <1>2, UpTo
  <2> QED
    BY <2>1
<1> QED
  BY <1>3

\* The first row of t becomes the last one of s.
LEMMA MovedLeft ==
  ASSUME NEW d, NEW s \in Seq(Rows), NEW t \in Seq(Rows), IsConcat(d, s, t), t # <<>>
  PROVE  \E s2, t2 \in Seq(Rows) :
           /\ s2 = InsertAt(s, Len(s) + 1, Head(t)) /\ t2 = Tail(t)
           /\ IsConcat(d, s2, t2) /\ Len(t2) = Len(t) - 1
           /\ Head(t) \in Rows /\ Taken(s2) = Taken(s) + Cost(Head(t))
<1>1. PICK A \in Nat : A = Len(s)
  OBVIOUS
<1>2. PICK B \in Nat : B = Len(t) /\ B # 0
  OBVIOUS
<1>3. Len(d) = A + B /\ \A x \in 1 .. A + B : d[x] = IF x <= A THEN s[x] ELSE t[x - A]
  BY <1>1, <1>2 DEF IsConcat
<1>4. PICK e \in Rows : e = Head(t) /\ e = t[1]
  BY <1>2
<1>5. PICK t2 \in Seq(Rows) : t2 = Tail(t) /\ Len(t2) = B - 1 /\ \A x \in 1 .. B - 1 : t2[x] = t[x + 1]
  <2>1. Tail(t) \in Seq(Rows) /\ Len(Tail(t)) = Len(t) - 1
    OBVIOUS
  <2>2. \A x \in 1 .. Len(t) - 1 : Tail(t)[x] = t[x + 1]
    OBVIOUS
  <2> QED
    BY <1>2, <2>1, <2>2
<1>6. PICK s2 \in Seq(Rows) : s2 = InsertAt(s, A + 1, e) /\ IsInsertion(s2, s, A + 1, e)
  <2>1. A + 1 \in 1 .. Len(s) + 1
    BY <1>1
  <2> QED
    BY <2>1, InsertAtEffect
<1>7. Len(s2) = A + 1 /\ \A x \in 1 .. A + 1 : s2[x] = IF x <= A THEN s[x] ELSE e
  BY <1>1, <1>6 DEF IsInsertion
<1>8. ASSUME NEW x \in 1 .. A + B
      PROVE  d[x] = IF x <= A + 1 THEN s2[x] ELSE t2[x - (A + 1)]
  <2>1. CASE x <= A
    <3>1. x \in 1 .. A + 1
      BY <2>1
    <3> QED
      BY <1>3, <1>7, <2>1, <3>1
  <2>2. CASE x = A + 1
    <3>1. ~(x <= A) /\ x - A = 1 /\ x \in 1 .. A + 1
      BY <2>2
    <3> QED
      BY <1>3, <1>4, <1>7, <2>2, <3>1
  <2>3. CASE A + 1 < x
    <3>1. ~(x <= A) /\ ~(x <= A + 1) /\ x - (A + 1) \in 1 .. B - 1 /\ (x - (A + 1)) + 1 = x - A
      BY <2>3
    <3>2. t2[x - (A + 1)] = t[x - A]
      BY <1>5, <3>1
    <3> QED
      BY <1>3, <3>1, <3>2
  <2> QED
    BY <2>1, <2>2, <2>3
<1>9. IsConcat(d, s2, t2)
  <2>1. (A + 1) + (B - 1) = A + B
    OBVIOUS
  <2> QED
    BY <1>3, <1>5, <1>7, <1>8, <2>1 DEF IsConcat
<1>10. Taken(s2) = Taken(s) + Cost(e)
  <2>1. A + 1 \in 1 .. Len(s) + 1
    BY <1>1
  <2> QED
    BY <1>6, <2>1, TakenInserted
<1> QED
  BY <1>1, <1>2, <1>4, <1>5, <1>6, <1>9, <1>10

\* The last row of s becomes the first one of t.
LEMMA MovedRight ==
  ASSUME NEW d, NEW s \in Seq(Rows), NEW t \in Seq(Rows), IsConcat(d, s, t), s # <<>>
  PROVE  \E s2, t2 \in Seq(Rows) :
           /\ s2 = Front(s) /\ t2 = InsertAt(t, 1, Last(s))
           /\ IsConcat(d, s2, t2) /\ Len(s2) = Len(s) - 1
           /\ Last(s) \in Rows /\ Taken(t2) = Taken(t) + Cost(Last(s))
<1>1. PICK A \in Nat : A = Len(s) /\ A # 0
  OBVIOUS
<1>2. PICK B \in Nat : B = Len(t)
  OBVIOUS
<1>3. Len(d) = A + B /\ \A x \in 1 .. A + B : d[x] = IF x <= A THEN s[x] ELSE t[x - A]
  BY <1>1, <1>2 DEF IsConcat
<1>4. PICK e \in Rows : e = Last(s) /\ e = s[A]
  BY <1>1 DEF Last
<1>5. PICK s2 \in Seq(Rows) : s2 = Front(s) /\ Len(s2) = A - 1 /\ \A x \in 1 .. A - 1 : s2[x] = s[x]
  <2>1. Front(s) = SubSeq(s, 1, A - 1)
    BY <1>1 DEF Front
  <2>2. A - 1 \in Nat /\ 1 \in 1 .. Len(s) + 1 /\ 1 <= (A - 1) + 1 /\ A - 1 <= Len(s)
    BY <1>1
  <2>3. /\ SubSeq(s, 1, A - 1) \in Seq(Rows) /\ Len(SubSeq(s, 1, A - 1)) = (A - 1) + 1 - 1
        /\ \A x \in 1 .. (A - 1) + 1 - 1 : SubSeq(s, 1, A - 1)[x] = s[1 + x - 1]
    BY <2>2, SubSeqEffect
  <2>4. \A x \in 1 .. A - 1 : SubSeq(s, 1, A - 1)[x] = s[x]
    BY <2>3
  <2> QED
    BY <2>1, <2>3, <2>4, SMTT(30)
<1>6. PICK t2 \in Seq(Rows) : t2 = InsertAt(t, 1, e) /\ IsInsertion(t2, t, 1, e)
  <2>1. 1 \in 1 .. Len(t) + 1
    BY <1>2
  <2> QED
    BY <2>1, InsertAtEffect
<1>7. Len(t2) = B + 1 /\ \A x \in 1 .. B + 1 : t2[x] = IF x = 1 THEN e ELSE t[x - 1]
  BY <1>2, <1>6 DEF IsInsertion
<1>8. ASSUME NEW x \in 1 .. A + B
      PROVE  d[x] = IF x <= A - 1 THEN s2[x] ELSE t2[x - (A - 1)]
  <2>1. CASE x <= A - 1
    <3>1. x \in 1 .. A - 1 /\ x <= A
      BY <2>1
    <3> QED
      BY <1>3, <1>5, <2>1, <3>1
  <2>2. CASE x = A
    <3>1. ~(x <= A - 1) /\ x - (A - 1) = 1 /\ 1 \in 1 .. B + 1 /\ x <= A
      BY <2>2
    <3> QED
      BY <1>3, <1>4, <1>7, <2>2, <3>1
  <2>3. CASE A < x
    <3>1. /\ ~(x <= A - 1) /\ ~(x <= A) /\ x - (A - 1) \in 1 .. B + 1 /\ x - (A - 1) # 1
          /\ (x - (A - 1)) - 1 = x - A
      BY <2>3
    <3>2. t2[x - (A - 1)] = t[x - A]
      BY <1>7, <3>1
    <3> QED
      BY <1>3, <3>1, <3>2
  <2> QED
    BY <2>1, <2>2, <2>3
<1>9. IsConcat(d, s2, t2)
  <2>1. (A - 1) + (B + 1) = A + B
    OBVIOUS
  <2> QED
    BY <1>3, <1>5, <1>7, <1>8, <2>1 DEF IsConcat
<1>10. Taken(t2) = Taken(t) + Cost(e)
  <2>1. 1 \in 1 .. Len(t) + 1
    BY <1>2
  <2> QED
    BY <1>6, <2>1, TakenInserted
<1> QED
  BY <1>1, <1>2, <1>4, <1>5, <1>6, <1>9, <1>10

\* A row and its slot take at most half a page, as far as a page of rows goes.
HalfPages == \A v \in Values : 2 * (SLOT_SIZE + Size[v]) <= NODE_SPACE

LEMMA HalfOf ==
  /\ NODE_SPACE \in Nat /\ NODE_SPACE \div 2 \in Nat
  /\ 2 * (NODE_SPACE \div 2) <= NODE_SPACE /\ NODE_SPACE <= 2 * (NODE_SPACE \div 2) + 1
BY NodeAssumption

LEMMA EmptyTakes == Taken(<<>>) = 0
<1>1. PICK none \in Seq(Rows) : none = <<>> /\ Len(none) = 0
  <2>1. <<>> \in Seq(Rows) /\ Len(<<>>) = 0
    OBVIOUS
  <2> QED
    BY <2>1, Zenon
<1>2. Costs(none) \in Seq(Nat) /\ Len(Costs(none)) = 0
  BY <1>1, CostsType
<1>3. Taken(none) = Sums(Costs(none))[0]
  BY <1>2, TakenIs
<1> QED
  BY <1>1, <1>2, <1>3, SumsAre

\* A turn of borrow_leaf's loop keeps all the rows and ends it or goes on with one row less.
Whole(all, src, dst, from_beg) ==
  IF from_beg THEN IsConcat(all, dst, src) ELSE IsConcat(all, src, dst)
Turned(e, all, src, from_beg, i) ==
  /\ e.src \in Seq(Rows) /\ e.dst \in Seq(Rows)
  /\ Whole(all, e.src, e.dst, from_beg)
  /\ Taken(e.dst) < NODE_SPACE /\ Taken(e.src) <= Taken(src)
  /\ ~LeafUnderflows(e.dst) \/ Len(e.src) = Len(src) - i

LEMMA WholeTakes ==
  ASSUME NEW all \in Seq(Rows), NEW src \in Seq(Rows), NEW dst \in Seq(Rows), NEW from_beg,
         Whole(all, src, dst, from_beg)
  PROVE  Taken(all) = Taken(src) + Taken(dst)
<1>1. Taken(src) \in Nat /\ Taken(dst) \in Nat
  BY TakenIs
<1>2. CASE from_beg
  <2>1. Taken(all) = Taken(dst) + Taken(src)
    BY <1>2, TakenConcat DEF Whole
  <2> QED
    BY <1>1, <2>1
<1>3. CASE ~from_beg
  BY <1>3, TakenConcat DEF Whole
<1> QED
  BY <1>2, <1>3

LEMMA OneTurn ==
  ASSUME HalfPages, NEW all \in Seq(Rows), Taken(all) >= NODE_SPACE, NEW src \in Seq(Rows),
         NEW from_beg, NEW i \in 1 .. Len(src), NEW e, Turned(e, all, src, from_beg, i - 1)
  PROVE  Turned(IF ~LeafUnderflows(e.dst) THEN e
                ELSE IF from_beg
                THEN [src |-> Tail(e.src), dst |-> Inserted(e.dst, Len(e.dst) + 1, Head(e.src))]
                ELSE [src |-> Front(e.src), dst |-> Inserted(e.dst, 1, Last(e.src))],
                all, src, from_beg, i)
<1>1. CASE ~LeafUnderflows(e.dst)
  BY <1>1 DEF Turned
<1>2. CASE LeafUnderflows(e.dst)
  <2>1. PICK s, d \in Seq(Rows) :
          /\ s = e.src /\ d = e.dst /\ Whole(all, s, d, from_beg)
          /\ Taken(d) < NODE_SPACE \div 2 /\ Taken(s) <= Taken(src) /\ Len(s) = Len(src) - (i - 1)
    BY <1>2 DEF Turned, LeafUnderflows
  <2>2. Taken(all) = Taken(s) + Taken(d) /\ Taken(s) \in Nat /\ Taken(d) \in Nat /\ Taken(all) \in Nat
    BY <2>1, WholeTakes, TakenIs, SMTT(30)
  <2>3. s # <<>>
    BY <2>1
  <2>4. ASSUME NEW row \in Rows
        PROVE  2 * Cost(row) <= NODE_SPACE /\ Fits(d, row)
    <3>1. 2 * Cost(row) <= NODE_SPACE /\ Cost(row) \in Nat
      BY CostType DEF HalfPages, Cost
    <3>2. Taken(d) + Cost(row) <= NODE_SPACE
      BY <2>1, <2>2, <3>1, HalfOf, SMTT(30)
    <3> QED
      BY <3>1, <3>2 DEF Fits
  <2>5. ASSUME NEW s2 \in Seq(Rows), NEW d2 \in Seq(Rows), NEW row \in Rows,
               Whole(all, s2, d2, from_beg), Len(s2) = Len(s) - 1, Taken(d2) = Taken(d) + Cost(row)
        PROVE  Turned([src |-> s2, dst |-> d2], all, src, from_beg, i)
    <3>1. /\ Taken(all) = Taken(s2) + Taken(d2) /\ Taken(s2) \in Nat /\ Taken(d2) \in Nat
          /\ Cost(row) \in Nat /\ 2 * Cost(row) <= NODE_SPACE
      BY <2>4, <2>5, WholeTakes, TakenIs, CostType, ZenonT(40)
    <3>5. PICK c \in Nat : c = Cost(row) /\ 2 * c <= NODE_SPACE /\ Taken(d2) = Taken(d) + c
      BY <2>5, <3>1
    <3>6. PICK half \in Nat : half = NODE_SPACE \div 2 /\ 2 * half <= NODE_SPACE /\ NODE_SPACE \in Nat
      BY HalfOf
    <3>7. PICK x \in Nat : x = Taken(s) /\ x <= Taken(src)
      BY <2>1, <2>2
    <3>8. PICK y \in Nat : y = Taken(d) /\ y < half
      BY <2>1, <2>2, <3>6
    <3>9. PICK w \in Nat : w = Taken(s2)
      BY <3>1
    <3>10. x + y = w + (y + c)
      BY <2>2, <3>1, <3>5, <3>7, <3>8, <3>9
    <3>11. y + c < NODE_SPACE /\ w <= x
      <4>1. y + c < NODE_SPACE
        BY <3>5, <3>6, <3>8, SMTT(30)
      <4>2. w <= x
        BY <3>10
      <4> QED
        BY <4>1, <4>2
    <3>2. Taken(d2) < NODE_SPACE
      BY <3>5, <3>8, <3>11
    <3>3. Taken(s2) <= Taken(src)
      <4>1. Taken(src) \in Nat
        BY TakenIs
      <4> QED
        BY <3>7, <3>9, <3>11, <4>1
    <3>4. Len(s2) = Len(src) - i
      BY <2>1, <2>5
    <3> QED
      BY <2>5, <3>2, <3>3, <3>4 DEF Turned
  <2>6. CASE from_beg
    <3>1. PICK d2, s2 \in Seq(Rows) :
            /\ d2 = InsertAt(d, Len(d) + 1, Head(s)) /\ s2 = Tail(s)
            /\ IsConcat(all, d2, s2) /\ Len(s2) = Len(s) - 1
            /\ Head(s) \in Rows /\ Taken(d2) = Taken(d) + Cost(Head(s))
      BY <2>1, <2>3, <2>6, MovedLeft, ZenonT(40) DEF Whole
    <3>2. Inserted(d, Len(d) + 1, Head(s)) = d2
      BY <2>4, <3>1 DEF Inserted
    <3>3. Whole(all, s2, d2, from_beg)
      BY <2>6, <3>1 DEF Whole
    <3>4. Turned([src |-> s2, dst |-> d2], all, src, from_beg, i)
      BY <2>5, <3>1, <3>3, ZenonT(40)
    <3> QED
      BY <1>2, <2>1, <2>6, <3>1, <3>2, <3>4
  <2>7. CASE ~from_beg
    <3>1. PICK s2, d2 \in Seq(Rows) :
            /\ s2 = Front(s) /\ d2 = InsertAt(d, 1, Last(s))
            /\ IsConcat(all, s2, d2) /\ Len(s2) = Len(s) - 1
            /\ Last(s) \in Rows /\ Taken(d2) = Taken(d) + Cost(Last(s))
      BY <2>1, <2>3, <2>7, MovedRight, ZenonT(40) DEF Whole
    <3>2. Inserted(d, 1, Last(s)) = d2
      BY <2>4, <3>1 DEF Inserted
    <3>3. Whole(all, s2, d2, from_beg)
      BY <2>7, <3>1 DEF Whole
    <3>4. Turned([src |-> s2, dst |-> d2], all, src, from_beg, i)
      BY <2>5, <3>1, <3>3
    <3> QED
      BY <1>2, <2>1, <2>7, <3>1, <3>2, <3>4
  <2> QED
    BY <2>6, <2>7
<1> QED
  BY <1>1, <1>2

\* borrow_leaf: dst is filled to half, src is not emptied, and no row is lost.
AreEvened(s, d, all, src, dst, from_beg) ==
  /\ s = Evened(src, dst, from_beg).src /\ d = Evened(src, dst, from_beg).dst
  /\ Whole(all, s, d, from_beg) /\ ~LeafUnderflows(d) /\ s # <<>> /\ d # <<>>
  /\ Taken(s) <= Taken(src) /\ Taken(d) <= NODE_SPACE
LEMMA EvenedRows ==
  ASSUME HalfPages, NEW all \in Seq(Rows), Taken(all) >= NODE_SPACE,
         NEW src \in Seq(Rows), NEW dst \in Seq(Rows), NEW from_beg,
         Whole(all, src, dst, from_beg), LeafUnderflows(dst)
  PROVE  \E s, d \in Seq(Rows) : AreEvened(s, d, all, src, dst, from_beg)
<1> DEFINE After(e) == IF ~LeafUnderflows(e.dst) THEN e
                       ELSE IF from_beg
                       THEN [src |-> Tail(e.src),
                             dst |-> Inserted(e.dst, Len(e.dst) + 1, Head(e.src))]
                       ELSE [src |-> Front(e.src), dst |-> Inserted(e.dst, 1, Last(e.src))]
           z == [src |-> src, dst |-> dst]
           Pairs == [src : Seq(Rows), dst : Seq(Rows)]
           X == [i \in 0 .. Len(src) |-> {e \in Pairs : Turned(e, all, src, from_beg, i)}]
           G == [i \in 1 .. Len(src) |-> [e \in X[i - 1] |-> After(e)]]
<1>1. Len(src) \in Nat
  OBVIOUS
<1>2. z \in X[0]
  <2>1. Taken(dst) < NODE_SPACE
    BY TakenIs, HalfOf DEF LeafUnderflows
  <2>2. Turned(z, all, src, from_beg, 0)
    BY <2>1, TakenIs DEF Turned
  <2> QED
    BY <1>1, <2>2
<1>3. ASSUME NEW i \in 1 .. Len(src), NEW e \in X[i - 1] PROVE After(e) \in X[i]
  <2>1. i - 1 \in 0 .. Len(src) /\ i \in 0 .. Len(src)
    BY <1>1
  <2>2. e \in Pairs /\ Turned(e, all, src, from_beg, i - 1)
    BY <1>3, <2>1
  <2>3. Turned(After(e), all, src, from_beg, i)
    BY <2>2, OneTurn
  <2>4. After(e) \in Pairs
    <3>1. After(e).src \in Seq(Rows) /\ After(e).dst \in Seq(Rows)
      BY <2>3 DEF Turned
    <3> QED
      BY <2>2, <3>1
  <2> QED
    BY <2>1, <2>3, <2>4
<1> HIDE DEF After, z
<1>4. \E f : f = [i \in 0 .. Len(src) |-> IF i = 0 THEN z ELSE After(f[i - 1])]
  <2>1. \A i \in 1 .. Len(src) : \A e \in X[i - 1] : G[i][e] = After(e)
    OBVIOUS
  <2> HIDE DEF X, G
  <2>2. Closed(Len(src), X, G)
    BY <1>3, <2>1 DEF Closed
  <2>3. PICK f : IsRun(f, Len(src), X, G, z)
    BY <1>1, <1>2, <2>2, Recursion
  <2>4. ASSUME NEW i \in 1 .. Len(src) PROVE G[i][f[i - 1]] = After(f[i - 1])
    <3>1. i - 1 \in 0 .. Len(src)
      BY <1>1
    <3> QED
      BY <2>1, <2>3, <3>1 DEF IsRun
  <2>5. ASSUME NEW i \in 0 .. Len(src) PROVE f[i] = IF i = 0 THEN z ELSE After(f[i - 1])
    <3>1. f[i] = IF i = 0 THEN z ELSE G[i][f[i - 1]]
      BY <2>3 DEF IsRun
    <3>2. i # 0 => i \in 1 .. Len(src)
      BY <1>1
    <3> QED
      BY <2>4, <3>1, <3>2
  <2>6. f = [i \in 0 .. Len(src) |-> f[i]]
    BY <2>3 DEF IsRun
  <2>7. f = [i \in 0 .. Len(src) |-> IF i = 0 THEN z ELSE After(f[i - 1])]
    BY <2>5, <2>6
  <2> QED
    BY <2>7
<1> DEFINE turn == CHOOSE f : f = [i \in 0 .. Len(src) |-> IF i = 0 THEN z ELSE After(f[i - 1])]
<1>5. turn = [i \in 0 .. Len(src) |-> IF i = 0 THEN z ELSE After(turn[i - 1])]
  BY <1>4
<1>6. Evened(src, dst, from_beg) = turn[Len(src)]
  BY DEF Evened, After, z
<1> HIDE DEF turn
<1>7. turn[Len(src)] \in X[Len(src)]
  <2> DEFINE P == {i \in 0 .. Len(src) : turn[i] \in X[i]}
  <2> HIDE DEF X
  <2>1. 0 \in P
    BY <1>1, <1>2, <1>5
  <2>2. \A i \in 1 .. Len(src) : i - 1 \in P => i \in P
    BY <1>1, <1>3, <1>5
  <2> HIDE DEF P
  <2>3. \A i \in 0 .. Len(src) : i \in P
    BY <1>1, <2>1, <2>2, UpTo
  <2> QED
    BY <1>1, <2>3 DEF P
<1>8. PICK e \in Pairs : e = Evened(src, dst, from_beg) /\ Turned(e, all, src, from_beg, Len(src))
  BY <1>1, <1>6, <1>7
<1>9. PICK s, d \in Seq(Rows) :
        /\ s = e.src /\ d = e.dst /\ Whole(all, s, d, from_beg) /\ Taken(d) < NODE_SPACE
        /\ Taken(s) <= Taken(src) /\ (~LeafUnderflows(d) \/ Len(s) = 0)
  BY <1>1, <1>8 DEF Turned
<1>10. Taken(all) = Taken(s) + Taken(d) /\ Taken(s) \in Nat /\ Taken(d) \in Nat
  BY <1>9, WholeTakes, TakenIs, SMTT(30)
<1>11. Taken(s) > 0 /\ Taken(d) <= NODE_SPACE
  BY <1>9, <1>10, HalfOf
<1>12. s # <<>>
  BY <1>11, EmptyTakes
<1>13. ~LeafUnderflows(d)
  BY <1>9, <1>12
<1>14. d # <<>>
  <2>1. NODE_SPACE \div 2 > 0
    BY NodeAssumption
  <2> QED
    BY <1>13, <2>1, EmptyTakes DEF LeafUnderflows
<1> QED
  BY <1>8, <1>9, <1>11, <1>12, <1>13, <1>14 DEF AreEvened

\* A place is the last one or before it.
LEMMA LastOrBefore ==
  ASSUME NEW a \in Nat, NEW x \in 1 .. a
  PROVE  x < a \/ x = a
OBVIOUS

\* merge_leaf: rows that fit into one page are appended, all of them.
LEMMA AppendedRows ==
  ASSUME NEW s \in Seq(Rows), NEW t \in Seq(Rows), Taken(s) + Taken(t) <= NODE_SPACE
  PROVE  /\ Appended(s, t) \in Seq(Rows) /\ IsConcat(Appended(s, t), s, t)
         /\ Taken(Appended(s, t)) = Taken(s) + Taken(t)
<1>1. PICK A \in Nat : A = Len(s)
  OBVIOUS
<1>2. PICK B \in Nat : B = Len(t)
  OBVIOUS
<1> DEFINE After(i, d) == Inserted(d, Len(d) + 1, t[i])
           So(d, i) == /\ Len(d) = A + i
                       /\ \A x \in 1 .. A + i : d[x] = IF x <= A THEN s[x] ELSE t[x - A]
           X == [i \in 0 .. B |-> {d \in Seq(Rows) : So(d, i)}]
           G == [i \in 1 .. B |-> [d \in X[i - 1] |-> After(i, d)]]
<1>3. s \in X[0]
  BY <1>1, <1>2
<1>4. ASSUME NEW i \in 1 .. B, NEW d \in X[i - 1] PROVE After(i, d) \in X[i]
  <2>1. i - 1 \in 0 .. B /\ i \in 0 .. B
    BY <1>2
  <2>2. /\ d \in Seq(Rows) /\ Len(d) = A + (i - 1)
        /\ \A x \in 1 .. A + (i - 1) : d[x] = IF x <= A THEN s[x] ELSE t[x - A]
    BY <1>4, <2>1
  <2> HIDE DEF After, So, X, G
  <2>3. t[i] \in Rows
    BY <1>2
  <2>4. PICK e : e = InsertAt(d, Len(d) + 1, t[i])
    OBVIOUS
  <2>5. e \in Seq(Rows) /\ IsInsertion(e, d, Len(d) + 1, t[i])
    <3>1. Len(d) + 1 \in 1 .. Len(d) + 1
      BY <2>2
    <3> QED
      BY <2>2, <2>3, <2>4, <3>1, InsertAtEffect, SMTT(30)
  <2>6. Len(e) = A + i /\ \A x \in 1 .. A + i : e[x] = IF x < A + i THEN d[x] ELSE t[i]
    BY <2>2, <2>5 DEF IsInsertion
  <2>7. ASSUME NEW x \in 1 .. A + i PROVE e[x] = IF x <= A THEN s[x] ELSE t[x - A]
    <3>1. CASE x < A + i
      <4>1. x \in 1 .. A + (i - 1)
        BY <3>1
      <4> QED
        BY <2>2, <2>6, <3>1, <4>1
    <3>2. CASE x = A + i
      <4>1. x - A = i /\ ~(x <= A) /\ ~(x < A + i)
        BY <3>2
      <4> QED
        BY <2>6, <4>1
    <3>3. x < A + i \/ x = A + i
      <4>1. A + i \in Nat
        BY <1>1, <1>2
      <4> QED
        BY <4>1, LastOrBefore, Zenon
    <3> QED
      BY <3>1, <3>2, <3>3
  <2>8. So(e, i)
    BY <2>6, <2>7 DEF So
  <2>9. Fits(d, t[i])
    <3>1. PICK u \in Seq(Rows) : u = SubSeq(t, 1, i) /\ Taken(u) <= Taken(t)
      <4>1. i \in 0 .. Len(t)
        BY <1>2
      <4> QED
        BY <4>1, TakenPrefix
    <3>2. Len(u) = i /\ \A x \in 1 .. i : u[x] = t[x]
      <4>1. 1 \in 1 .. Len(t) + 1 /\ i \in Nat /\ 1 <= i + 1 /\ i <= Len(t)
        BY <1>2
      <4>2. Len(u) = i + 1 - 1 /\ \A x \in 1 .. i + 1 - 1 : u[x] = t[1 + x - 1]
        BY <3>1, <4>1, SubSeqEffect
      <4> QED
        BY <4>2
    <3>3. IsConcat(e, s, u)
      <4>1. ASSUME NEW x \in 1 .. A + i PROVE e[x] = IF x <= A THEN s[x] ELSE u[x - A]
        <5>1. ~(x <= A) => x - A \in 1 .. i
          OBVIOUS
        <5> QED
          BY <2>7, <3>2, <5>1
      <4> QED
        BY <1>1, <2>6, <3>2, <4>1 DEF IsConcat
    <3>4. Taken(e) = Taken(s) + Taken(u) /\ Taken(s) \in Nat /\ Taken(u) \in Nat /\ Taken(t) \in Nat
      BY <2>5, <3>3, TakenConcat, TakenIs
    <3>5. Taken(e) = Taken(d) + Cost(t[i])
      <4>1. Len(d) + 1 \in 1 .. Len(d) + 1
        BY <2>2
      <4> QED
        BY <2>2, <2>3, <2>5, <4>1, TakenInserted
    <3>6. Taken(e) <= NODE_SPACE
      <4>1. PICK x, y, w \in Nat : x = Taken(s) /\ y = Taken(u) /\ w = Taken(t)
        BY <3>4
      <4>2. x + w <= NODE_SPACE /\ y <= w /\ NODE_SPACE \in Nat
        BY <3>1, <4>1, NodeAssumption
      <4>3. x + y <= NODE_SPACE
        BY <4>2
      <4> QED
        BY <3>4, <4>1, <4>3
    <3> QED
      BY <3>5, <3>6 DEF Fits
  <2>10. After(i, d) = e
    BY <2>4, <2>9 DEF Inserted, After
  <2> QED
    BY <2>1, <2>5, <2>8, <2>10 DEF X
<1>5. \A i \in 1 .. B : \A d \in X[i - 1] : G[i][d] = After(i, d)
  OBVIOUS
<1>6. \A d \in X[B] : d \in Seq(Rows) /\ So(d, B)
  OBVIOUS
<1> HIDE DEF After, So, X, G
<1>7. \E f : f = [i \in 0 .. B |-> IF i = 0 THEN s ELSE After(i, f[i - 1])]
  <2>1. Closed(B, X, G)
    BY <1>4, <1>5 DEF Closed
  <2>2. PICK f : IsRun(f, B, X, G, s)
    BY <1>3, <2>1, Recursion
  <2>3. ASSUME NEW i \in 0 .. B PROVE f[i] = IF i = 0 THEN s ELSE After(i, f[i - 1])
    <3>1. f[i] = IF i = 0 THEN s ELSE G[i][f[i - 1]]
      BY <2>2 DEF IsRun
    <3>2. i # 0 => i \in 1 .. B /\ i - 1 \in 0 .. B
      OBVIOUS
    <3> QED
      BY <1>5, <2>2, <3>1, <3>2 DEF IsRun
  <2>4. f = [i \in 0 .. B |-> f[i]]
    BY <2>2 DEF IsRun
  <2> QED
    BY <2>3, <2>4
<1> DEFINE all == CHOOSE f : f = [i \in 0 .. B |-> IF i = 0 THEN s ELSE After(i, f[i - 1])]
<1>8. all = [i \in 0 .. B |-> IF i = 0 THEN s ELSE After(i, all[i - 1])]
  BY <1>7
<1>9. Appended(s, t) = all[B]
  BY <1>2 DEF Appended, After
<1> HIDE DEF all
<1>10. all[B] \in X[B]
  <2> DEFINE P == {i \in 0 .. B : all[i] \in X[i]}
  <2>1. 0 \in P
    BY <1>3, <1>8
  <2>2. \A i \in 1 .. B : i - 1 \in P => i \in P
    BY <1>4, <1>8
  <2> HIDE DEF P
  <2>3. \A i \in 0 .. B : i \in P
    BY <2>1, <2>2, UpTo
  <2> QED
    BY <2>3 DEF P
<1>11. Appended(s, t) \in Seq(Rows) /\ So(Appended(s, t), B)
  BY <1>6, <1>9, <1>10
<1>12. IsConcat(Appended(s, t), s, t)
  BY <1>1, <1>2, <1>11 DEF IsConcat, So
<1> QED
  BY <1>11, <1>12, TakenConcat

-----------------------------------------------------------------------------
(* How many cells a node has *)

\* What the comparisons of sizes in bytes say of the number of cells.
LEMMA CellCounts ==
  /\ MAX_CELLS \in Nat /\ MIN_CELLS \in Nat /\ 1 <= MIN_CELLS /\ MIN_CELLS + 2 <= MAX_CELLS
  /\ \A c \in Nat : CELL_SIZE * (c + 1) <= NODE_SPACE <=> c + 1 <= MAX_CELLS
  /\ \A c \in Nat : c * CELL_SIZE < NODE_SPACE \div 2 => c < MIN_CELLS
<1>1. /\ CELL_SIZE \in Nat /\ CELL_SIZE > 0 /\ NODE_SPACE \in Nat /\ NODE_SPACE >= 4 * CELL_SIZE
      /\ NODE_SPACE \div 2 \in Nat
  BY NodeAssumption, HalfOf
<1>2. ASSUME NEW x \in Nat, NEW d \in Nat, d > 0
      PROVE  x \div d \in Nat /\ d * (x \div d) <= x /\ x < d * (x \div d) + d
  BY <1>2
<1>3. MAX_CELLS \in Nat /\ CELL_SIZE * MAX_CELLS <= NODE_SPACE
      /\ NODE_SPACE < CELL_SIZE * MAX_CELLS + CELL_SIZE
  BY <1>1, <1>2 DEF MAX_CELLS
<1>4. MIN_CELLS \in Nat /\ NODE_SPACE \div 2 <= CELL_SIZE * MIN_CELLS
  <2>1. PICK x \in Nat : x = (NODE_SPACE \div 2) + CELL_SIZE - 1
    BY <1>1
  <2>2. /\ x \div CELL_SIZE \in Nat /\ x < CELL_SIZE * (x \div CELL_SIZE) + CELL_SIZE
    BY <1>1, <1>2
  <2>3. x \div CELL_SIZE = MIN_CELLS
    BY <2>1 DEF MIN_CELLS
  <2> QED
    BY <1>1, <2>1, <2>2, <2>3
<1>5. ASSUME NEW x \in Nat, NEW y \in Nat
      PROVE  /\ x <= y => CELL_SIZE * x <= CELL_SIZE * y
             /\ x < y => CELL_SIZE * x + CELL_SIZE <= CELL_SIZE * y
  <2>1. PICK c \in Nat : c = CELL_SIZE
    BY <1>1
  <2>2. x <= y => c * x <= c * y
    BY SMT
  <2>3. x < y => c * x + c <= c * y
    <3>1. x < y => c * (x + 1) <= c * y
      BY SMT
    <3> QED
      BY <3>1
  <2> QED
    BY <2>1, <2>2, <2>3
<1>6. ASSUME NEW c \in Nat PROVE CELL_SIZE * (c + 1) <= NODE_SPACE <=> c + 1 <= MAX_CELLS
  <2>1. c + 1 <= MAX_CELLS => CELL_SIZE * (c + 1) <= CELL_SIZE * MAX_CELLS
    BY <1>3, <1>5
  <2>2. MAX_CELLS < c + 1 => CELL_SIZE * MAX_CELLS + CELL_SIZE <= CELL_SIZE * (c + 1)
    BY <1>3, <1>5
  <2>3. PICK x \in Nat : x = CELL_SIZE * (c + 1)
    BY <1>1
  <2>4. PICK y \in Nat : y = CELL_SIZE * MAX_CELLS
    BY <1>1, <1>3
  <2> QED
    BY <1>1, <1>3, <2>1, <2>2, <2>3, <2>4
<1>7. ASSUME NEW c \in Nat, c * CELL_SIZE < NODE_SPACE \div 2 PROVE c < MIN_CELLS
  <2>1. MIN_CELLS <= c => CELL_SIZE * MIN_CELLS <= CELL_SIZE * c
    BY <1>4, <1>5
  <2>2. CELL_SIZE * c = c * CELL_SIZE /\ CELL_SIZE * c \in Nat
    BY <1>1
  <2>3. PICK y \in Nat : y = CELL_SIZE * MIN_CELLS
    BY <1>1, <1>4
  <2> QED
    BY <1>1, <1>4, <1>7, <2>1, <2>2, <2>3
<1>8. 1 <= MIN_CELLS
  <2>1. 0 * CELL_SIZE < NODE_SPACE \div 2
    BY <1>1, HalfOf
  <2> QED
    BY <1>4, <1>7, <2>1
<1> QED
  BY <1>3, <1>4, <1>6, <1>7, <1>8, CellAssumption

-----------------------------------------------------------------------------
(* Pages and the superblock *)

LEMMA PagesAre ==
  ASSUME NEW s \in Database
  PROVE  /\ s.page \in Seq(Page) /\ Len(s.page) \in Nat /\ DOMAIN s.page = 1 .. Len(s.page)
         /\ s.root_page_id \in Nat /\ s.first_free_page \in Nat /\ s.next_row \in Nat
         /\ s.fault = FALSE
         /\ \A p \in 1 .. Len(s.page) : s.page[p] \in Page
<1>1. s.page \in Seq(Page)
  BY DEF Database
<1>2. Len(s.page) \in Nat /\ DOMAIN s.page = 1 .. Len(s.page)
      /\ \A p \in 1 .. Len(s.page) : s.page[p] \in Page
  <2> HIDE DEF Page
  <2> QED
    BY <1>1
<1>3. /\ s.root_page_id \in Nat /\ s.first_free_page \in Nat /\ s.next_row \in Nat
      /\ s.fault = FALSE
  BY DEF Database
<1> QED
  BY <1>1, <1>2, <1>3

\* The fields of a page.
LEMMA PageIs ==
  ASSUME NEW x \in Page
  PROVE  /\ x.type \in {"free", "leaf", "internal"} /\ x.parent \in Nat /\ x.next \in Nat
         /\ x.prev \in Nat /\ x.rows \in Seq(Rows) /\ x.cells \in Seq(Cell) /\ x.rightmost \in Nat
BY DEF Page

\* t is s with other pages.
IsRepaged(t, s, pg) ==
  /\ t \in Database /\ t.page = pg /\ t.root_page_id = s.root_page_id
  /\ t.first_free_page = s.first_free_page /\ t.next_row = s.next_row
LEMMA Repaged ==
  ASSUME NEW s \in Database, NEW pg \in Seq(Page)
  PROVE  IsRepaged([s EXCEPT !.page = pg], s, pg)
BY DEF Database, IsRepaged

\* One page is another one.
IsReplaced(pg, old, p, x) ==
  /\ pg \in Seq(Page) /\ Len(pg) = Len(old) /\ pg[p] = x
  /\ \A y \in 1 .. Len(old) : y # p => pg[y] = old[y]
LEMMA Replaced ==
  ASSUME NEW old \in Seq(Page), NEW p \in 1 .. Len(old), NEW x \in Page
  PROVE  IsReplaced([old EXCEPT ![p] = x], old, p, x)
BY DEF IsReplaced

LEMMA Put ==
  ASSUME NEW s \in Database, NEW p \in 1 .. Len(s.page), NEW x \in Page
  PROVE  \E pg : IsRepaged([s EXCEPT !.page[p] = x], s, pg) /\ IsReplaced(pg, s.page, p, x)
<1>1. PICK pg : pg = [s.page EXCEPT ![p] = x]
  OBVIOUS
<1>2. [s EXCEPT !.page[p] = x] = [s EXCEPT !.page = pg]
  BY <1>1
<1>3. IsReplaced(pg, s.page, p, x)
  BY <1>1, PagesAre, Replaced
<1>4. pg \in Seq(Page)
  BY <1>3 DEF IsReplaced
<1> QED
  BY <1>2, <1>3, <1>4, Repaged

\* The superblock has other numbers.
LEMMA Renumbered ==
  ASSUME NEW s \in Database, NEW p \in Nat
  PROVE  /\ LET t == [s EXCEPT !.root_page_id = p]
            IN /\ t \in Database /\ t.page = s.page /\ t.root_page_id = p
               /\ t.first_free_page = s.first_free_page /\ t.next_row = s.next_row
         /\ LET t == [s EXCEPT !.first_free_page = p]
            IN /\ t \in Database /\ t.page = s.page /\ t.root_page_id = s.root_page_id
               /\ t.first_free_page = p /\ t.next_row = s.next_row
BY DEF Database

LEMMA NewPageIs ==
  ASSUME NEW type \in {"free", "leaf", "internal"}
  PROVE  /\ NewPage(type) \in Page /\ NewPage(type).type = type
         /\ NewPage(type).rows = <<>> /\ NewPage(type).cells = <<>>
         /\ NewPage(type).next = 0 /\ NewPage(type).parent = 0
BY DEF NewPage, Page

\* A page that is not free is changed and stays so: the free list is as it was.
LEMMA ListedKept ==
  ASSUME NEW pg, NEW first, Listed(pg, first), NEW pg2, Len(pg) \in Nat, Len(pg2) \in Nat,
         Len(pg) <= Len(pg2),
         \A p \in 1 .. Len(pg) : pg[p].type = "free" => pg2[p].type = "free" /\ pg2[p].next = pg[p].next,
         \A p \in 1 .. Len(pg2) :
           pg2[p].type = "free" => p \in 1 .. Len(pg) /\ pg[p].type = "free" /\ pg2[p].rows = pg[p].rows
  PROVE  Listed(pg2, first)
<1>1. PICK list \in [Nat -> Nat], n \in Nat : Stacked(pg, first, list, n)
  BY DEF Listed
<1>2. \A x \in 1 .. Len(pg) : x \in 1 .. Len(pg2)
  OBVIOUS
<1>3. Stacked(pg2, first, list, n)
  BY <1>1, <1>2 DEF Stacked
<1> QED
  BY <1>3 DEF Listed

\* allocate_new_page takes a page that is in no tree, and leaves all others as they are.
IsAllocated(t, s, q, type) ==
  /\ q = NewId(s) /\ q \in 1 .. Len(t.page) /\ Len(s.page) <= Len(t.page) /\ q # 0
  /\ t.page[q] = NewPage(type)
  /\ \A p \in 1 .. Len(s.page) : p # q => t.page[p] = s.page[p]
  /\ \A p \in 1 .. Len(s.page) : s.page[p].type # "free" => p # q
  /\ \A p \in 1 .. Len(t.page) : p = q \/ p \in 1 .. Len(s.page)
  /\ t.root_page_id = s.root_page_id /\ t.next_row = s.next_row

LEMMA AllocatedEffect ==
  ASSUME NEW s \in Database, Listed(s.page, s.first_free_page), NEW type \in {"leaf", "internal"}
  PROVE  \E t \in Database, q \in Nat :
           t = Allocated(s, type) /\ IsAllocated(t, s, q, type) /\ Listed(t.page, t.first_free_page)
<1>1. PICK N \in Nat : N = Len(s.page)
  BY PagesAre
<1>2. PICK x \in Page : x = NewPage(type) /\ x.type # "free"
  BY NewPageIs
<1>3. CASE s.first_free_page = 0
  <2>1. PICK pg : pg = Append(s.page, x)
    OBVIOUS
  <2>2. /\ pg \in Seq(Page) /\ Len(pg) = N + 1 /\ pg[N + 1] = x
        /\ \A p \in 1 .. N : pg[p] = s.page[p]
    <3>1. s.page \in Seq(Page)
      BY PagesAre
    <3> QED
      BY <1>1, <2>1, <3>1
  <2>3. PICK t : t = [s EXCEPT !.page = pg]
    OBVIOUS
  <2>4. IsRepaged(t, s, pg)
    BY <2>2, <2>3, Repaged
  <2>5. t = Allocated(s, type) /\ NewId(s) = N + 1
    BY <1>1, <1>2, <1>3, <2>1, <2>3 DEF Allocated, NewId
  <2>6. /\ \A p \in 1 .. N : p # N + 1
        /\ \A p \in 1 .. N + 1 : p = N + 1 \/ p \in 1 .. N
    OBVIOUS
  <2>7. IsAllocated(t, s, N + 1, type)
    BY <1>1, <1>2, <2>2, <2>4, <2>5, <2>6 DEF IsAllocated, IsRepaged
  <2>8. Listed(pg, s.first_free_page)
    <3>1. Len(s.page) <= Len(pg)
      BY <1>1, <2>2
    <3>2. ASSUME NEW p \in 1 .. N + 1, pg[p].type = "free"
          PROVE  p \in 1 .. N /\ s.page[p].type = "free" /\ pg[p].rows = s.page[p].rows
      BY <1>2, <2>2, <2>6, <3>2
    <3> QED
      BY <1>1, <2>2, <3>1, <3>2, ListedKept
  <2> QED
    BY <2>4, <2>5, <2>7, <2>8 DEF IsRepaged
<1>4. CASE s.first_free_page # 0
  <2>1. PICK list \in [Nat -> Nat], n \in Nat : Stacked(s.page, s.first_free_page, list, n)
    BY DEF Listed
  <2>16. /\ \A i \in 1 .. n : /\ list[i] \in Nat /\ list[i] \in 1 .. Len(s.page)
                              /\ s.page[list[i]].type = "free"
                              /\ s.page[list[i]].next = IF i = 1 THEN 0 ELSE list[i - 1]
         /\ \A i, j \in 1 .. n : i # j => list[i] # list[j]
         /\ \A p \in 1 .. Len(s.page) :
              s.page[p].type = "free" => s.page[p].rows = <<>> /\ \E i \in 1 .. n : list[i] = p
         /\ s.first_free_page = IF n = 0 THEN 0 ELSE list[n]
    <3>1. \A i \in 1 .. n : list[i] \in Nat
      OBVIOUS
    <3> QED
      BY <2>1, <3>1, Zenon DEF Stacked
  <2>17. \A i \in 1 .. n : list[i] \in 1 .. Len(s.page) /\ (\A j \in 1 .. n : i # j => list[i] # list[j])
    BY <2>16
  <2>2. PICK q \in Nat : /\ q = s.first_free_page /\ n # 0 /\ q = list[n] /\ q \in 1 .. N
                         /\ s.page[q].type = "free"
                         /\ s.page[q].next = IF n = 1 THEN 0 ELSE list[n - 1]
    <3>1. n # 0 /\ s.first_free_page = list[n]
      BY <1>4, <2>16
    <3>2. n \in 1 .. n
      BY <3>1
    <3> QED
      BY <1>1, <2>16, <3>1, <3>2
  <2>3. PICK next \in Nat : next = s.page[q].next
    BY <1>1, <2>2, PagesAre, PageIs
  <2>4. PICK u : u = [s EXCEPT !.page[q] = x]
    OBVIOUS
  <2>5. PICK pg : IsRepaged(u, s, pg) /\ IsReplaced(pg, s.page, q, x)
    BY <1>1, <2>2, <2>4, Put
  <2>6. PICK t : t = [u EXCEPT !.first_free_page = next]
    OBVIOUS
  <2>7. /\ t \in Database /\ t.page = pg /\ t.root_page_id = s.root_page_id
        /\ t.next_row = s.next_row /\ t.first_free_page = next
    BY <2>5, <2>6, Renumbered, ZenonT(40) DEF IsRepaged
  <2>8. NewId(s) = q
    BY <1>4, <2>2 DEF NewId
  <2>9. t = Allocated(s, type)
    BY <1>2, <1>4, <2>3, <2>4, <2>6, <2>8 DEF Allocated
  <2>10. /\ Len(pg) = N /\ pg[q] = x /\ \A p \in 1 .. N : p # q => pg[p] = s.page[p]
    BY <1>1, <2>5 DEF IsReplaced
  <2>11. IsAllocated(t, s, q, type)
    <3>1. q # 0 /\ N <= N
      BY <2>2
    <3> QED
      BY <1>1, <1>2, <2>2, <2>7, <2>8, <2>10, <3>1 DEF IsAllocated
  <2>12. Listed(pg, next)
    <3>1. ASSUME NEW i \in 1 .. n - 1
          PROVE  /\ list[i] \in 1 .. Len(pg) /\ pg[list[i]].type = "free"
                 /\ pg[list[i]].next = IF i = 1 THEN 0 ELSE list[i - 1]
      <4>1. i \in 1 .. n /\ n \in 1 .. n /\ i # n
        BY <2>2
      <4>2. list[i] # q /\ list[i] \in 1 .. N
        BY <1>1, <2>17, <2>2, <4>1, ZenonT(40)
      <4>3. /\ s.page[list[i]].type = "free"
            /\ s.page[list[i]].next = IF i = 1 THEN 0 ELSE list[i - 1]
        BY <2>16, <4>1
      <4> QED
        BY <2>10, <4>2, <4>3
    <3>2. \A i, j \in 1 .. n - 1 : i # j => list[i] # list[j]
      <4>1. \A i \in 1 .. n - 1 : i \in 1 .. n
        OBVIOUS
      <4> QED
        BY <2>16, <4>1
    <3>3. next = IF n - 1 = 0 THEN 0 ELSE list[n - 1]
      BY <2>2, <2>3
    <3>4. n - 1 \in Nat
      BY <2>2
    <3>5. \A i, j \in 1 .. n - 1 : list[i] = list[j] => i = j
      BY <3>2
    <3>7. ASSUME NEW p \in 1 .. Len(pg), pg[p].type = "free"
          PROVE  pg[p].rows = <<>> /\ \E i \in 1 .. n - 1 : list[i] = p
      <4>1. p # q /\ p \in 1 .. N /\ pg[p] = s.page[p]
        BY <1>2, <2>10, <3>7
      <4>2. PICK i \in 1 .. n : list[i] = p
        BY <1>1, <2>16, <3>7, <4>1
      <4>3. i \in 1 .. n - 1
        BY <2>2, <4>1, <4>2
      <4> QED
        BY <1>1, <2>16, <3>7, <4>1, <4>2, <4>3
    <3>6. Stacked(pg, next, list, n - 1)
      BY <3>1, <3>3, <3>5, <3>7, Zenon DEF Stacked
    <3> QED
      BY <3>4, <3>6 DEF Listed
  <2>13. Listed(t.page, t.first_free_page)
    BY <2>7, <2>12
  <2> QED
    BY <2>2, <2>7, <2>9, <2>11, <2>13
<1> QED
  BY <1>3, <1>4

\* free_page puts the page on the list, unless it is on it.
LEMMA FreedEffect ==
  ASSUME NEW s \in Database, Listed(s.page, s.first_free_page), NEW q \in 1 .. Len(s.page)
  PROVE  \E t \in Database :
           /\ t = Freed(s, q) /\ Len(t.page) = Len(s.page)
           /\ \A p \in 1 .. Len(s.page) : p # q => t.page[p] = s.page[p]
           /\ t.page[q].type = "free"
           /\ t.root_page_id = s.root_page_id /\ t.next_row = s.next_row
           /\ Listed(t.page, t.first_free_page)
<1>1. PICK N \in Nat : N = Len(s.page)
  BY PagesAre
<1>2. CASE s.page[q].type = "free"
  BY <1>2 DEF Freed
<1>3. CASE s.page[q].type # "free"
  <2>1. PICK list \in [Nat -> Nat], n \in Nat : Stacked(s.page, s.first_free_page, list, n)
    BY DEF Listed
  <2>16. /\ \A i \in 1 .. n : /\ list[i] \in Nat /\ list[i] \in 1 .. Len(s.page)
                              /\ s.page[list[i]].type = "free"
                              /\ s.page[list[i]].next = IF i = 1 THEN 0 ELSE list[i - 1]
         /\ \A i, j \in 1 .. n : i # j => list[i] # list[j]
         /\ \A p \in 1 .. Len(s.page) :
              s.page[p].type = "free" => s.page[p].rows = <<>> /\ \E i \in 1 .. n : list[i] = p
         /\ s.first_free_page = IF n = 0 THEN 0 ELSE list[n]
    <3>1. \A i \in 1 .. n : list[i] \in Nat
      BY SMTT(30)
    <3> QED
      BY <2>1, <3>1, Zenon DEF Stacked
  <2>2. PICK x \in Page : /\ x = [NewPage("free") EXCEPT !.next = s.first_free_page]
                          /\ x.type = "free" /\ x.next = s.first_free_page /\ x.rows = <<>>
    <3>1. PICK f \in Nat : f = s.first_free_page
      BY PagesAre
    <3>2. PICK y : y = NewPage("free")
      OBVIOUS
    <3>3. y \in Page /\ y.type = "free" /\ y.rows = <<>>
      BY <3>2, NewPageIs
    <3>4. PICK x : x = [y EXCEPT !.next = f]
      OBVIOUS
    <3>5. x \in Page /\ x.type = "free" /\ x.next = f /\ x.rows = <<>>
      BY <3>3, <3>4 DEF Page
    <3> QED
      BY <3>1, <3>2, <3>4, <3>5
  <2>3. PICK u : u = [s EXCEPT !.page[q] = x]
    OBVIOUS
  <2>4. PICK pg : IsRepaged(u, s, pg) /\ IsReplaced(pg, s.page, q, x)
    BY <2>3, Put
  <2>5. PICK t : t = [u EXCEPT !.first_free_page = q]
    OBVIOUS
  <2>6. /\ t \in Database /\ t.page = pg /\ t.root_page_id = s.root_page_id
        /\ t.next_row = s.next_row /\ t.first_free_page = q
    <3>1. q \in Nat
      BY <1>1
    <3> QED
      BY <2>4, <2>5, <3>1, Renumbered, ZenonT(40) DEF IsRepaged
  <2>7. t = Freed(s, q)
    BY <1>3, <2>2, <2>3, <2>5 DEF Freed
  <2>15. /\ Len(pg) = N /\ pg[q] = x /\ \A p \in 1 .. N : p # q => pg[p] = s.page[p]
    BY <1>1, <2>4 DEF IsReplaced
  <2> DEFINE list2 == [i \in Nat |-> IF i = n + 1 THEN q ELSE list[i]]
  <2>8. list2 \in [Nat -> Nat] /\ list2[n + 1] = q /\ \A i \in 1 .. n : list2[i] = list[i]
    BY SMTT(30)
  <2> HIDE DEF list2
  <2>9. \A i \in 1 .. n : list[i] # q /\ list[i] \in 1 .. N
    BY <1>1, <1>3, <2>16
  <2>10. ASSUME NEW i \in 1 .. n + 1
         PROVE  /\ list2[i] \in 1 .. Len(pg) /\ pg[list2[i]].type = "free"
                /\ pg[list2[i]].next = IF i = 1 THEN 0 ELSE list2[i - 1]
    <3>1. CASE i = n + 1
      <4>1. s.first_free_page = IF n = 0 THEN 0 ELSE list2[n]
        <5>1. n # 0 => n \in 1 .. n
          OBVIOUS
        <5> QED
          BY <2>16, <2>8, <5>1
      <4>2. i - 1 = n /\ (n = 0 <=> i = 1)
        BY <3>1
      <4> QED
        BY <1>1, <2>2, <2>15, <2>8, <3>1, <4>1, <4>2
    <3>2. CASE i # n + 1
      <4>1. i \in 1 .. n /\ (i # 1 => i - 1 \in 1 .. n)
        BY <3>2
      <4>2. /\ list2[i] = list[i] /\ (i # 1 => list2[i - 1] = list[i - 1])
            /\ pg[list[i]] = s.page[list[i]]
        BY <2>15, <2>8, <2>9, <4>1
      <4>3. /\ s.page[list[i]].type = "free"
            /\ s.page[list[i]].next = IF i = 1 THEN 0 ELSE list[i - 1]
        BY <2>16, <4>1
      <4> QED
        BY <2>15, <2>9, <4>1, <4>2, <4>3
    <3> QED
      BY <3>1, <3>2
  <2>11. ASSUME NEW i \in 1 .. n + 1, NEW j \in 1 .. n + 1, i # j PROVE list2[i] # list2[j]
    <3>1. (i = n + 1 \/ i \in 1 .. n) /\ (j = n + 1 \/ j \in 1 .. n)
      BY SMTT(30)
    <3> QED
      BY <2>1, <2>8, <2>9, <2>11, <3>1, <2>16
  <2>12. Listed(pg, q)
    <3>1. n + 1 \in Nat /\ n + 1 # 0
      OBVIOUS
    <3>2. \A i, j \in 1 .. n + 1 : list2[i] = list2[j] => i = j
      BY <2>11
    <3>3. q = IF n + 1 = 0 THEN 0 ELSE list2[n + 1]
      BY <2>8, <3>1
    <3>5. ASSUME NEW p \in 1 .. Len(pg), pg[p].type = "free"
          PROVE  pg[p].rows = <<>> /\ \E i \in 1 .. n + 1 : list2[i] = p
      <4>1. CASE p = q
        <5>1. n + 1 \in 1 .. n + 1
          OBVIOUS
        <5> QED
          BY <2>2, <2>8, <2>15, <4>1, <5>1
      <4>2. CASE p # q
        <5>1. p \in 1 .. N /\ pg[p] = s.page[p]
          BY <2>15, <4>2
        <5>2. PICK i \in 1 .. n : list[i] = p
          BY <1>1, <2>16, <3>5, <5>1
        <5>3. i \in 1 .. n + 1 /\ list2[i] = p
          BY <2>8, <5>2
        <5> QED
          BY <1>1, <2>16, <3>5, <5>1, <5>3
      <4> QED
        BY <4>1, <4>2
    <3>4. Stacked(pg, q, list2, n + 1)
      BY <2>10, <3>2, <3>3, <3>5, Zenon DEF Stacked
    <3> QED
      BY <2>8, <3>1, <3>4 DEF Listed
  <2>13. Listed(t.page, t.first_free_page)
    BY <2>6, <2>12
  <2>14. t.page[q].type = "free"
    BY <2>2, <2>6, <2>15
  <2> QED
    BY <1>1, <2>15, <2>6, <2>7, <2>13, <2>14
<1> QED
  BY <1>2, <1>3
-----------------------------------------------------------------------------
(* What a change of some fields leaves *)

\* Page y has what x has in it, at the same place among the leaves.
SameBody(y, x) ==
  y.type = x.type /\ y.rows = x.rows /\ y.cells = x.cells /\ y.rightmost = x.rightmost
SameLinks(y, x) == y.next = x.next /\ y.prev = x.prev

\* Some pages have parent p.
IsAdopted(t, s, C, p) ==
  /\ t \in Database /\ Len(t.page) = Len(s.page)
  /\ \A x \in 1 .. Len(s.page) :
       /\ SameBody(t.page[x], s.page[x]) /\ SameLinks(t.page[x], s.page[x])
       /\ t.page[x].parent = IF x \in C THEN p ELSE s.page[x].parent
  /\ t.root_page_id = s.root_page_id /\ t.next_row = s.next_row
  /\ t.first_free_page = s.first_free_page

LEMMA AdoptedEffect ==
  ASSUME NEW s \in Database, NEW C, NEW p \in Nat
  PROVE  IsAdopted(Adopted(s, C, p), s, C, p)
<1>1. PICK N \in Nat : N = Len(s.page)
  BY PagesAre
<1>2. DOMAIN s.page = 1 .. N /\ \A x \in 1 .. N : s.page[x] \in Page
  BY <1>1, PagesAre
<1> DEFINE One(x) == IF x \in C THEN [s.page[x] EXCEPT !.parent = p] ELSE s.page[x]
<1>3. ASSUME NEW x \in 1 .. N
      PROVE  /\ One(x) \in Page /\ SameBody(One(x), s.page[x]) /\ SameLinks(One(x), s.page[x])
             /\ One(x).parent = IF x \in C THEN p ELSE s.page[x].parent
  <2>1. PICK y \in Page : y = s.page[x]
    BY <1>2
  <2>2. PICK z : z = [y EXCEPT !.parent = p]
    OBVIOUS
  <2>3. z \in Page /\ SameBody(z, y) /\ SameLinks(z, y) /\ z.parent = p
    BY <2>2 DEF Page, SameBody, SameLinks
  <2> QED
    BY <2>1, <2>2, <2>3 DEF SameBody, SameLinks
<1>4. PICK pg : pg = [x \in 1 .. N |-> One(x)]
  OBVIOUS
<1>5. /\ pg \in Seq(Page) /\ Len(pg) = N /\ \A x \in 1 .. N : pg[x] = One(x)
  <2> HIDE DEF One
  <2> QED
    BY <1>3, <1>4
<1>6. PICK t : t = [s EXCEPT !.page = pg]
  OBVIOUS
<1>7. t = Adopted(s, C, p)
  BY <1>2, <1>4, <1>6 DEF Adopted
<1>8. IsRepaged(t, s, pg)
  BY <1>5, <1>6, Repaged
<1> HIDE DEF One
<1>9. IsAdopted(t, s, C, p)
  BY <1>1, <1>3, <1>5, <1>8 DEF IsAdopted, IsRepaged
<1> QED
  BY <1>7, <1>9

\* One page is told its left neighbour.
IsLinked(t, s, next, p) ==
  /\ t \in Database /\ Len(t.page) = Len(s.page)
  /\ \A x \in 1 .. Len(s.page) :
       /\ SameBody(t.page[x], s.page[x]) /\ t.page[x].next = s.page[x].next
       /\ t.page[x].prev = IF next # 0 /\ x = next THEN p ELSE s.page[x].prev
       /\ t.page[x].parent = s.page[x].parent
  /\ t.root_page_id = s.root_page_id /\ t.next_row = s.next_row
  /\ t.first_free_page = s.first_free_page

LEMMA LinkedEffect ==
  ASSUME NEW s \in Database, NEW next, next = 0 \/ next \in 1 .. Len(s.page), NEW p \in Nat
  PROVE  IsLinked(Linked(s, next, p), s, next, p)
<1>1. CASE next = 0
  BY <1>1 DEF Linked, IsLinked, SameBody
<1>2. CASE next # 0
  <2>1. PICK y \in Page : y = s.page[next] /\ next \in 1 .. Len(s.page)
    BY <1>2, PagesAre
  <2>2. PICK z : z = [y EXCEPT !.prev = p]
    OBVIOUS
  <2>3. z \in Page /\ SameBody(z, y) /\ z.next = y.next /\ z.prev = p /\ z.parent = y.parent
    BY <2>2 DEF Page, SameBody
  <2>4. PICK t : t = [s EXCEPT !.page[next] = z]
    OBVIOUS
  <2>5. PICK pg : IsRepaged(t, s, pg) /\ IsReplaced(pg, s.page, next, z)
    BY <2>1, <2>3, <2>4, Put
  <2>6. t = Linked(s, next, p)
    BY <1>2, <2>1, <2>2, <2>4 DEF Linked
  <2>7. \A x \in 1 .. Len(s.page) : pg[x] = IF x = next THEN z ELSE s.page[x]
    BY <2>5 DEF IsReplaced
  <2>8. IsLinked(t, s, next, p)
    <3>1. /\ t \in Database /\ t.page = pg /\ Len(pg) = Len(s.page)
          /\ t.root_page_id = s.root_page_id /\ t.next_row = s.next_row
          /\ t.first_free_page = s.first_free_page
      BY <2>5 DEF IsRepaged, IsReplaced
    <3>2. ASSUME NEW x \in 1 .. Len(s.page)
          PROVE  /\ SameBody(pg[x], s.page[x]) /\ pg[x].next = s.page[x].next
                 /\ pg[x].prev = IF next # 0 /\ x = next THEN p ELSE s.page[x].prev
                 /\ pg[x].parent = s.page[x].parent
      BY <1>2, <2>1, <2>3, <2>7 DEF SameBody
    <3> QED
      BY <3>1, <3>2 DEF IsLinked
  <2> QED
    BY <2>6, <2>8
<1> QED
  BY <1>1, <1>2

LEMMA LeafLevelKept ==
  ASSUME NEW pg, NEW pg2, NEW a, NEW store, LeafLevel(pg, a, store),
         \A k \in Ids : a[k] \in 1 .. Len(pg2) /\ SameBody(pg2[a[k]], pg[a[k]])
  PROVE  LeafLevel(pg2, a, store)
BY DEF LeafLevel, SameBody

LEMMA ChainedKept ==
  ASSUME NEW pg, NEW pg2, NEW a, Chained(pg, a), \A k \in Ids : SameLinks(pg2[a[k]], pg[a[k]])
  PROVE  Chained(pg2, a)
<1>1. 0 \in Ids /\ MAX_ROWS - 1 \in Ids
  BY IdsAre
<1> QED
  BY <1>1 DEF Chained, SameLinks

LEMMA NodeKept ==
  ASSUME NEW x, NEW y \in Page, SameBody(y, x), NEW p, NEW a, NEW down, NodeIn(x, p, a, down)
  PROVE  NodeIn(y, p, a, down)
<1>1. x \in Node /\ Rising(x)
  BY DEF NodeIn
<1>2. y.type = "internal" /\ y.rows = <<>> /\ y.cells = x.cells /\ y.rightmost = x.rightmost
  BY <1>1 DEF Node, SameBody
<1>3. y \in Node
  BY <1>2 DEF Node, Page
<1>4. Rising(y)
  BY <1>1, <1>2 DEF Rising
<1>5. \A k : KidFor(y, k) = KidFor(x, k)
  BY <1>2 DEF KidFor, Kids, CellFor
<1> QED
  BY <1>2, <1>3, <1>4, <1>5 DEF NodeIn

LEMMA NodeLevelKept ==
  ASSUME NEW pg, NEW pg2, NEW a, NEW down, NEW thin, NodeLevel(pg, a, down, thin),
         \A k \in Ids : a[k] \in 1 .. Len(pg2) /\ pg2[a[k]] \in Page /\ SameBody(pg2[a[k]], pg[a[k]])
  PROVE  NodeLevel(pg2, a, down, thin)
<1>1. ASSUME NEW k \in Ids
      PROVE  /\ a[k] \in 1 .. Len(pg2) /\ NodeIn(pg2[a[k]], a[k], a, down)
             /\ Len(pg2[a[k]].cells) <= MAX_CELLS /\ (a[k] = thin \/ pg2[a[k]].cells # <<>>)
  <2>1. /\ NodeIn(pg[a[k]], a[k], a, down)
        /\ Len(pg[a[k]].cells) <= MAX_CELLS /\ (a[k] = thin \/ pg[a[k]].cells # <<>>)
    BY DEF NodeLevel
  <2>2. NodeIn(pg2[a[k]], a[k], a, down)
    BY <2>1, NodeKept
  <2> QED
    BY <2>1, <2>2 DEF SameBody
<1>2. Nested(a, down)
  BY DEF NodeLevel
<1> QED
  BY <1>1, <1>2 DEF NodeLevel

-----------------------------------------------------------------------------
(* The pages of the levels *)

\* A page that belongs to no level.
Fresh(q, h, at, seen) == \A j \in 0 .. h, k \in Ids : at[j][k] # q /\ seen[j][k] # q

\* The pages that are asked for on a level are pages of it.
Inside(h, at, seen) == \A j \in 0 .. h, k \in Ids : \E l \in Ids : seen[j][k] = at[j][l]

\* What a level of the tree has: leaves, or nodes.
IsLevel(pg, a, type) ==
  \A k \in Ids : a[k] \in Nat /\ a[k] \in 1 .. Len(pg) /\ a[k] # 0 /\ pg[a[k]].type = type

LEMMA LevelIs ==
  ASSUME NEW pg, Len(pg) \in Nat, NEW root, NEW store, NEW h, NEW at, NEW seen, NEW thin,
         Grown(pg, root, store, h, at, seen, thin)
  PROVE  /\ h \in Nat /\ at \in [Nat -> Division] /\ seen \in [Nat -> Division]
         /\ IsLevel(pg, at[0], "leaf")
         /\ \A j \in 1 .. h : IsLevel(pg, at[j], "internal")
<1>1. h \in Nat /\ at \in [Nat -> Division] /\ seen \in [Nat -> Division]
  BY DEF Grown
<1>2. \A x \in 1 .. Len(pg) : x \in Nat /\ x # 0
  OBVIOUS
<1>3. IsLevel(pg, at[0], "leaf")
  <2>1. LeafLevel(pg, at[0], store)
    BY DEF Grown
  <2> QED
    BY <1>2, <2>1 DEF LeafLevel, IsLevel
<1>4. ASSUME NEW j \in 1 .. h PROVE IsLevel(pg, at[j], "internal")
  <2>1. NodeLevel(pg, at[j], seen[j - 1], thin)
    BY DEF Grown
  <2>2. ASSUME NEW k \in Ids PROVE at[j][k] \in 1 .. Len(pg) /\ pg[at[j][k]].type = "internal"
    <3>1. at[j][k] \in 1 .. Len(pg) /\ NodeIn(pg[at[j][k]], at[j][k], at[j], seen[j - 1])
      BY <2>1 DEF NodeLevel
    <3>2. pg[at[j][k]] \in Node
      BY <3>1 DEF NodeIn
    <3> QED
      BY <3>1, <3>2 DEF Node
  <2> QED
    BY <1>2, <2>2 DEF IsLevel
<1> QED
  BY <1>1, <1>3, <1>4

\* Some level has the page.
LEMMA PageOfLevel ==
  ASSUME NEW pg, Len(pg) \in Nat, NEW root, NEW store, NEW h, NEW at, NEW seen, NEW thin,
         Grown(pg, root, store, h, at, seen, thin)
  PROVE  \A j \in 0 .. h, k \in Ids :
           at[j][k] \in Nat /\ at[j][k] \in 1 .. Len(pg) /\ at[j][k] # 0 /\ pg[at[j][k]].type # "free"
<1> SUFFICES ASSUME NEW j \in 0 .. h, NEW k \in Ids
             PROVE  /\ at[j][k] \in Nat /\ at[j][k] \in 1 .. Len(pg) /\ at[j][k] # 0
                    /\ pg[at[j][k]].type # "free"
  OBVIOUS
<1>1. h \in Nat
  BY DEF Grown
<1>2. j = 0 \/ j \in 1 .. h
  BY <1>1
<1>3. IsLevel(pg, at[j], "leaf") \/ IsLevel(pg, at[j], "internal")
  BY <1>2, LevelIs
<1> QED
  BY <1>3 DEF IsLevel

LEMMA AllocatedFresh ==
  ASSUME NEW s \in Database, NEW root, NEW store, NEW h, NEW at, NEW seen, NEW thin,
         Grown(s.page, root, store, h, at, seen, thin), Inside(h, at, seen),
         NEW t, NEW q, NEW type, IsAllocated(t, s, q, type)
  PROVE  /\ Fresh(q, h, at, seen)
         /\ \A j \in 0 .. h, k \in Ids : /\ at[j][k] # q /\ t.page[at[j][k]] = s.page[at[j][k]]
                                         /\ at[j][k] \in 1 .. Len(t.page)
<1>1. Len(s.page) \in Nat
  BY PagesAre
<1>2. \A j \in 0 .. h, k \in Ids : at[j][k] \in 1 .. Len(s.page) /\ s.page[at[j][k]].type # "free"
  BY <1>1, PageOfLevel
<1>3. \A j \in 0 .. h, k \in Ids : at[j][k] # q
  BY <1>2 DEF IsAllocated
<1>4. \A j \in 0 .. h, k \in Ids : seen[j][k] # q
  BY <1>3 DEF Inside
<1>5. \A j \in 0 .. h, k \in Ids : t.page[at[j][k]] = s.page[at[j][k]]
  BY <1>2, <1>3 DEF IsAllocated
<1>6. \A j \in 0 .. h, k \in Ids : at[j][k] \in 1 .. Len(t.page)
  <2>1. 1 .. Len(s.page) \subseteq 1 .. Len(t.page)
    BY <1>1 DEF IsAllocated
  <2> QED
    BY <1>2, <2>1
<1> QED
  BY <1>3, <1>4, <1>5, <1>6 DEF Fresh

\* The pages of the levels after a step are pages they had before, each on its level,
\* and the page q on level j0.
Among(h2, at2, seen2, h, at, seen, j0, q) ==
  \A i \in 0 .. h2, k \in Ids :
    /\ (at2[i][k] = q /\ i = j0) \/ (i \in 0 .. h /\ \E l \in Ids : at2[i][k] = at[i][l])
    /\ \/ seen2[i][k] = q /\ i = j0
       \/ i \in 0 .. h /\ \E l \in Ids : seen2[i][k] = at[i][l] \/ seen2[i][k] = seen[i][l]

LEMMA ApartAt ==
  ASSUME NEW h, NEW at, NEW seen, Apart(h, at, seen), NEW i \in 0 .. h, NEW j \in 0 .. h,
         NEW k \in Ids, NEW l \in Ids, at[i][k] = at[j][l] \/ seen[i][k] = at[j][l]
  PROVE  i = j
BY DEF Apart

LEMMA ApartStill ==
  ASSUME NEW h, NEW at, NEW seen, Apart(h, at, seen), NEW q, Fresh(q, h, at, seen),
         NEW h2, NEW at2, NEW seen2, NEW j0, Among(h2, at2, seen2, h, at, seen, j0, q)
  PROVE  Apart(h2, at2, seen2)
<1> SUFFICES ASSUME NEW i \in 0 .. h2, NEW j \in 0 .. h2, NEW k \in Ids, NEW l \in Ids,
                    at2[i][k] = at2[j][l] \/ seen2[i][k] = at2[j][l]
             PROVE  i = j
  BY DEF Apart
<1>1. (at2[j][l] = q /\ j = j0) \/ (j \in 0 .. h /\ \E m \in Ids : at2[j][l] = at[j][m])
  BY DEF Among
<1>2. /\ (at2[i][k] = q /\ i = j0) \/ (i \in 0 .. h /\ \E m \in Ids : at2[i][k] = at[i][m])
      /\ \/ seen2[i][k] = q /\ i = j0
         \/ i \in 0 .. h /\ \E m \in Ids : seen2[i][k] = at[i][m] \/ seen2[i][k] = seen[i][m]
  BY DEF Among
<1>3. \A x \in 0 .. h, y \in Ids : at[x][y] # q /\ seen[x][y] # q
  BY DEF Fresh
<1>4. CASE at2[j][l] = q
  BY <1>1, <1>2, <1>3, <1>4
<1>5. CASE at2[j][l] # q
  <2>1. PICK m \in Ids : at2[j][l] = at[j][m] /\ j \in 0 .. h
    BY <1>1, <1>5
  <2>2. PICK n \in Ids : (at[i][n] = at[j][m] \/ seen[i][n] = at[j][m]) /\ i \in 0 .. h
    BY <1>2, <1>5, <2>1
  <2> QED
    BY <2>1, <2>2, ApartAt
<1> QED
  BY <1>4, <1>5

\* No new page.
NoNew(h2, at2, seen2, at, seen) ==
  \A i \in 0 .. h2, k \in Ids :
    /\ \E l \in Ids : at2[i][k] = at[i][l]
    /\ \E l \in Ids : seen2[i][k] = at[i][l] \/ seen2[i][k] = seen[i][l]

LEMMA ApartSame ==
  ASSUME NEW h \in Nat, NEW at \in [Nat -> Division], NEW seen \in [Nat -> Division],
         Apart(h, at, seen), NEW h2 \in Nat, h2 <= h, NEW at2, NEW seen2,
         NoNew(h2, at2, seen2, at, seen)
  PROVE  Apart(h2, at2, seen2)
<1>1. PICK q : q = -1
  OBVIOUS
<1>2. Fresh(q, h, at, seen)
  <2>1. ASSUME NEW j \in 0 .. h, NEW k \in Ids PROVE at[j][k] \in Nat /\ seen[j][k] \in Nat
    <3>1. j \in Nat
      OBVIOUS
    <3>2. at[j] \in [Ids -> Nat] /\ seen[j] \in [Ids -> Nat]
      BY <3>1 DEF Division
    <3> QED
      BY <3>2
  <2>2. \A x \in Nat : x # q
    BY <1>1
  <2> QED
    BY <2>1, <2>2 DEF Fresh
<1>3. \A i \in 0 .. h2 : i \in 0 .. h
  OBVIOUS
<1>4. Among(h2, at2, seen2, h, at, seen, 0, q)
  BY <1>3 DEF Among, NoNew
<1> QED
  BY <1>2, <1>4, ApartStill

-----------------------------------------------------------------------------
(* The chain of the leaves *)

\* The first and the last id of a page.
IsEnds(f, m, p, a) ==
  /\ f \in Ids /\ m \in Ids /\ a[f] = p /\ a[m] = p
  /\ \A k \in Ids : a[k] = p => f <= k /\ k <= m
  /\ f = 0 \/ (f - 1 \in Ids /\ a[f - 1] # p)
  /\ m = MAX_ROWS - 1 \/ (m + 1 \in Ids /\ a[m + 1] # p)

LEMMA Ends ==
  ASSUME NEW a \in Division, NEW p, Used(p, a)
  PROVE  \E f, m \in Ids : IsEnds(f, m, p, a)
<1>1. PICK M \in Nat : M = MAX_ROWS /\ 1 <= M /\ \A k : k \in Ids <=> k \in Nat /\ k < M
  BY IdsAre
<1>2. PICK k0 \in Ids : a[k0] = p
  BY DEF Used
<1>3. PICK f \in Ids : a[f] = p /\ \A k \in Ids : a[k] = p => f <= k
  <2> DEFINE T == {k \in Ids : a[k] = p}
  <2>1. T \in SUBSET Nat /\ T # {}
    BY <1>1, <1>2
  <2> HIDE DEF T
  <2>2. PICK f \in T : \A k \in T : f <= k
    BY <2>1, LeastNat
  <2> QED
    BY <2>2 DEF T
<1>4. PICK m \in Ids : a[m] = p /\ \A k \in Ids : a[k] = p => k <= m
  <2> DEFINE T == {x \in Nat : M - 1 - x \in Ids /\ a[M - 1 - x] = p}
  <2>1. T \in SUBSET Nat
    OBVIOUS
  <2>2. T # {}
    <3>1. M - 1 - k0 \in Nat /\ M - 1 - (M - 1 - k0) = k0
      BY <1>1
    <3>2. M - 1 - k0 \in T
      BY <1>2, <3>1
    <3> QED
      BY <3>2
  <2> HIDE DEF T
  <2>3. PICK x \in T : \A y \in T : x <= y
    BY <2>1, <2>2, LeastNat
  <2>4. x \in Nat /\ M - 1 - x \in Ids /\ a[M - 1 - x] = p
    BY <2>3 DEF T
  <2>5. ASSUME NEW k \in Ids, a[k] = p PROVE k <= M - 1 - x
    <3>1. k \in Nat /\ M - 1 - k \in Nat /\ M - 1 - (M - 1 - k) = k
      BY <1>1
    <3>2. M - 1 - k \in T
      BY <2>5, <3>1 DEF T
    <3>3. x <= M - 1 - k
      BY <2>3, <3>2
    <3> QED
      BY <2>4, <3>1, <3>3
  <2> QED
    BY <2>4, <2>5
<1>5. f = 0 \/ (f - 1 \in Ids /\ a[f - 1] # p)
  <2>1. f \in Nat /\ (f # 0 => f - 1 \in Ids /\ ~(f <= f - 1))
    BY <1>1
  <2> QED
    BY <1>3, <2>1
<1>6. m = MAX_ROWS - 1 \/ (m + 1 \in Ids /\ a[m + 1] # p)
  <2>1. m \in Nat /\ (m # M - 1 => m + 1 \in Ids /\ ~(m + 1 <= m))
    BY <1>1
  <2> QED
    BY <1>1, <1>4, <2>1
<1> QED
  BY <1>3, <1>4, <1>5, <1>6 DEF IsEnds

\* The neighbours of a leaf in the chain.
IsBetween(pg, p, a, f, m) ==
  /\ IsEnds(f, m, p, a)
  /\ pg[p].prev = IF f = 0 THEN 0 ELSE a[f - 1]
  /\ pg[p].next = IF m = MAX_ROWS - 1 THEN 0 ELSE a[m + 1]
LEMMA Neighbours ==
  ASSUME NEW pg, NEW a \in Division, Chained(pg, a), NEW p, Used(p, a)
  PROVE  \E f, m \in Ids : IsBetween(pg, p, a, f, m)
<1>1. PICK f, m \in Ids : IsEnds(f, m, p, a)
  BY Ends
<1>2. f = 0 => pg[p].prev = 0
  BY <1>1 DEF Chained, IsEnds
<1>3. f # 0 => pg[p].prev = a[f - 1]
  <2>1. ASSUME f # 0 PROVE f - 1 \in Ids /\ f - 1 + 1 \in Ids /\ f - 1 + 1 = f /\ a[f - 1] # a[f]
    BY <1>1, <2>1, IdsAre DEF IsEnds
  <2> QED
    BY <1>1, <2>1 DEF Chained, IsEnds
<1>4. m = MAX_ROWS - 1 => pg[p].next = 0
  BY <1>1 DEF Chained, IsEnds
<1>5. m # MAX_ROWS - 1 => pg[p].next = a[m + 1]
  <2>1. ASSUME m # MAX_ROWS - 1 PROVE m + 1 \in Ids /\ a[m] # a[m + 1]
    BY <1>1, <2>1 DEF IsEnds
  <2> QED
    BY <1>1, <2>1 DEF Chained, IsEnds
<1> QED
  BY <1>1, <1>2, <1>3, <1>4, <1>5 DEF IsBetween

\* What the one before a page in the order of the ids is.
LEMMA FirstIs ==
  ASSUME NEW a \in Division, Contiguous(a), NEW k \in Ids, k + 1 \in Ids, a[k] # a[k + 1],
         NEW f \in Ids, NEW m \in Ids
  PROVE  /\ IsEnds(f, m, a[k + 1], a) => f = k + 1
         /\ IsEnds(f, m, a[k], a) => m = k
<1>1. k \in Nat /\ f \in Nat /\ m \in Nat
  BY IdsAre
<1>2. ASSUME IsEnds(f, m, a[k + 1], a) PROVE f = k + 1
  <2>1. f <= k + 1 /\ a[f] = a[k + 1]
    BY <1>2 DEF IsEnds
  <2>2. f <= k => a[k] = a[f]
    <3>1. k <= k + 1
      BY <1>1
    <3> QED
      BY <2>1, <3>1 DEF Contiguous
  <2> QED
    BY <1>1, <2>1, <2>2
<1>3. ASSUME IsEnds(f, m, a[k], a) PROVE m = k
  <2>1. k <= m /\ a[m] = a[k]
    BY <1>3 DEF IsEnds
  <2>2. k + 1 <= m => a[k + 1] = a[k]
    <3>1. k <= k + 1
      BY <1>1
    <3> QED
      BY <2>1, <3>1 DEF Contiguous
  <2> QED
    BY <1>1, <2>1, <2>2
<1> QED
  BY <1>2, <1>3

\* A new leaf q between p and the one behind it.
IsDivided(b, a, p, q, e) ==
  \A k \in Ids : b[k] = IF a[k] # p THEN a[k] ELSE IF k < e THEN p ELSE q
IsChainedIn(pg2, pg, a, p, q, next) ==
  /\ pg2[p].next = q /\ pg2[q].prev = p /\ pg2[q].next = next
  /\ next # 0 => pg2[next].prev = q
  /\ \A k \in Ids : a[k] # p => pg2[a[k]].next = pg[a[k]].next
  /\ \A k \in Ids : a[k] # next => pg2[a[k]].prev = pg[a[k]].prev
LEMMA ChainCut ==
  ASSUME NEW pg, NEW pg2, NEW a \in Division, Contiguous(a), Chained(pg, a),
         \A k \in Ids : a[k] # 0,
         NEW p \in Nat, NEW q \in Nat, p # q,
         NEW e \in Ids, e - 1 \in Ids, a[e - 1] = p, a[e] = p,
         NEW b \in Division, IsDivided(b, a, p, q, e),
         NEW next, next = pg[p].next, IsChainedIn(pg2, pg, a, p, q, next)
  PROVE  Chained(pg2, b)
<1>1. PICK f, m \in Ids : IsBetween(pg, p, a, f, m)
  <2>1. Used(p, a)
    BY DEF Used
  <2> QED
    BY <2>1, Neighbours
<1>2. /\ a[f] = p /\ a[m] = p /\ f <= e - 1 /\ e <= m
      /\ m = MAX_ROWS - 1 \/ (m + 1 \in Ids /\ a[m + 1] # p)
      /\ next = IF m = MAX_ROWS - 1 THEN 0 ELSE a[m + 1]
  BY <1>1 DEF IsBetween, IsEnds
<1>3. e \in Nat /\ m \in Nat /\ f \in Nat /\ MAX_ROWS \in Nat /\ 0 \in Ids /\ MAX_ROWS - 1 \in Ids
      /\ \A k \in Ids : k \in Nat /\ k <= MAX_ROWS - 1
  BY IdsAre
<1>7. /\ pg2[p].next = q /\ pg2[q].prev = p /\ pg2[q].next = next
      /\ next # 0 => pg2[next].prev = q
  BY DEF IsChainedIn
<1>8. ASSUME NEW k \in Ids
      PROVE  /\ b[k] = IF a[k] # p THEN a[k] ELSE IF k < e THEN p ELSE q
             /\ a[k] # p => pg2[a[k]].next = pg[a[k]].next
             /\ a[k] # next => pg2[a[k]].prev = pg[a[k]].prev
  BY DEF IsChainedIn, IsDivided
<1>9. ASSUME NEW k \in Ids, k + 1 \in Ids, a[k] # a[k + 1], a[k + 1] = next PROVE a[k] = p
  <2>1. m # MAX_ROWS - 1 /\ m + 1 \in Ids /\ a[m + 1] = next /\ a[m] # a[m + 1]
    BY <1>2, <1>9
  <2>2. PICK f2, m2 \in Ids : IsEnds(f2, m2, next, a)
    <3>1. Used(next, a)
      BY <2>1 DEF Used
    <3> QED
      BY <3>1, Ends
  <2>3. f2 = k + 1 /\ f2 = m + 1
    BY <1>9, <2>1, <2>2, FirstIs
  <2>4. k = m
    BY <1>3, <2>3
  <2> QED
    BY <1>2, <2>4
<1>4. ASSUME NEW k \in Ids, k + 1 \in Ids, b[k] # b[k + 1]
      PROVE  pg2[b[k]].next = b[k + 1] /\ pg2[b[k + 1]].prev = b[k]
  <2>1. k \in Nat /\ (k < e - 1 \/ k = e - 1 \/ e <= k)
    BY <1>3
  <2>5. PICK l, r, x, y \in Nat : l = a[k] /\ r = a[k + 1] /\ x = b[k] /\ y = b[k + 1]
    BY <1>4 DEF Division
  <2>6. x = (IF l # p THEN l ELSE IF k < e THEN p ELSE q)
        /\ y = (IF r # p THEN r ELSE IF k + 1 < e THEN p ELSE q)
    BY <1>4, <1>8, <2>5
  <2>7. (l # p => pg2[l].next = pg[l].next) /\ (r # next => pg2[r].prev = pg[r].prev)
    BY <1>4, <1>8, <2>5
  <2>8. x # y
    BY <1>4, <2>5
  <2>2. CASE k = e - 1
    <3>1. k + 1 = e /\ k < e /\ ~(e < e) /\ l = p /\ r = p
      BY <1>3, <2>2, <2>5
    <3>2. x = p /\ y = q
      BY <2>6, <3>1
    <3> QED
      BY <1>7, <2>5, <3>2
  <2>3. CASE k # e - 1 /\ l = r
    <3>1. k < e <=> k + 1 < e
      BY <1>3, <2>1, <2>3
    <3> QED
      BY <2>6, <2>8, <2>3, <3>1
  <2>4. CASE k # e - 1 /\ l # r
    <3>1. pg[l].next = r /\ pg[r].prev = l
      BY <1>4, <2>4, <2>5 DEF Chained
    <3>2. CASE l = p
      <4>1. m = k
        <5>1. IsEnds(f, m, a[k], a) /\ a[k] # a[k + 1]
          BY <1>1, <2>4, <2>5, <3>2 DEF IsBetween
        <5> QED
          BY <1>4, <5>1, FirstIs
      <4>2. ~(k < e)
        BY <1>2, <1>3, <4>1
      <4>3. x = q /\ y = r /\ next = r
        BY <2>4, <2>6, <3>1, <3>2, <4>2
      <4>4. r # 0
        BY <1>4, <2>5
      <4> QED
        BY <1>7, <2>5, <4>3, <4>4
    <3>3. CASE l # p /\ r = p
      <4>1. f = k + 1
        <5>1. IsEnds(f, m, a[k + 1], a) /\ a[k] # a[k + 1]
          BY <1>1, <2>4, <2>5, <3>3 DEF IsBetween
        <5> QED
          BY <1>4, <5>1, FirstIs
      <4>2. k + 1 < e
        BY <1>2, <1>3, <4>1
      <4>3. x = l /\ y = r
        BY <2>6, <3>3, <4>2
      <4>4. r # next
        BY <1>2, <1>4, <2>5, <3>3
      <4> QED
        BY <2>5, <2>7, <3>1, <3>3, <4>3, <4>4
    <3>4. CASE l # p /\ r # p
      <4>1. x = l /\ y = r
        BY <2>6, <3>4
      <4>2. r # next
        BY <1>4, <1>9, <2>4, <2>5, <3>4
      <4> QED
        BY <2>5, <2>7, <3>1, <3>4, <4>1, <4>2
    <3> QED
      BY <3>2, <3>3, <3>4
  <2> QED
    BY <2>2, <2>3, <2>4
<1>5. pg2[b[0]].prev = 0
  <2>1. b[0] = a[0]
    <3>1. 0 < e
      BY <1>3, IdsAre
    <3> QED
      BY <1>3, <1>8, <3>1
  <2>2. a[0] # next
    <3>1. SUFFICES ASSUME a[0] = next PROVE FALSE
      OBVIOUS
    <3>2. m + 1 \in Ids /\ a[m + 1] = a[0] /\ a[m] # a[0]
      BY <1>2, <1>3, <3>1
    <3>3. 0 <= m /\ m <= m + 1
      BY <1>3
    <3> QED
      BY <1>3, <3>2, <3>3 DEF Contiguous
  <2>3. pg[a[0]].prev = 0
    BY DEF Chained
  <2> QED
    BY <1>3, <1>8, <2>1, <2>2, <2>3
<1>6. pg2[b[MAX_ROWS - 1]].next = 0
  <2>1. pg[a[MAX_ROWS - 1]].next = 0
    BY DEF Chained
  <2>2. CASE a[MAX_ROWS - 1] = p
    <3>1. ~(MAX_ROWS - 1 < e) /\ b[MAX_ROWS - 1] = q
      BY <1>3, <1>8, <2>2
    <3> QED
      BY <1>7, <2>1, <2>2, <3>1
  <2>3. CASE a[MAX_ROWS - 1] # p
    BY <1>3, <1>8, <2>1, <2>3
  <2> QED
    BY <2>2, <2>3
<1> QED
  BY <1>4, <1>5, <1>6 DEF Chained

-----------------------------------------------------------------------------
(* Changes of one page *)

\* Page p is x in t, and all else is as in s.
IsSet(t, s, p, x) ==
  /\ t \in Database /\ Len(t.page) = Len(s.page) /\ x \in Page /\ t.page[p] = x
  /\ \A y \in 1 .. Len(s.page) : y # p => t.page[y] = s.page[y]
  /\ t.root_page_id = s.root_page_id /\ t.next_row = s.next_row
  /\ t.first_free_page = s.first_free_page

LEMMA SetPage ==
  ASSUME NEW s \in Database, NEW p \in 1 .. Len(s.page), NEW x \in Page
  PROVE  IsSet([s EXCEPT !.page[p] = x], s, p, x)
<1>1. PICK t : t = [s EXCEPT !.page[p] = x]
  OBVIOUS
<1>2. PICK pg : IsRepaged(t, s, pg) /\ IsReplaced(pg, s.page, p, x)
  BY <1>1, Put
<1>3. t \in Database /\ t.page = pg /\ t.root_page_id = s.root_page_id
      /\ t.first_free_page = s.first_free_page /\ t.next_row = s.next_row
  BY <1>2, Zenon DEF IsRepaged
<1>4. Len(pg) = Len(s.page) /\ pg[p] = x /\ \A y \in 1 .. Len(s.page) : y # p => pg[y] = s.page[y]
  BY <1>2, Zenon DEF IsReplaced
<1>5. IsSet(t, s, p, x)
  BY <1>3, <1>4, Zenon DEF IsSet
<1> QED
  BY <1>1, <1>5, Zenon

\* Page y is x but for one field.
IsWithRows(y, x, rows) ==
  /\ y \in Page /\ y.type = x.type /\ y.parent = x.parent /\ SameLinks(y, x)
  /\ y.rows = rows /\ y.cells = x.cells /\ y.rightmost = x.rightmost
IsWithCells(y, x, cells, rightmost) ==
  /\ y \in Page /\ y.type = x.type /\ y.parent = x.parent /\ SameLinks(y, x)
  /\ y.rows = x.rows /\ y.cells = cells /\ y.rightmost = rightmost
IsWithNext(y, x, next) ==
  /\ y \in Page /\ SameBody(y, x) /\ y.parent = x.parent /\ y.prev = x.prev /\ y.next = next

LEMMA PageWith ==
  ASSUME NEW x \in Page
  PROVE  /\ \A rows \in Seq(Rows) : IsWithRows([x EXCEPT !.rows = rows], x, rows)
         /\ \A next \in Nat : IsWithNext([x EXCEPT !.next = next], x, next)
         /\ \A cells \in Seq(Cell) : IsWithCells([x EXCEPT !.cells = cells], x, cells, x.rightmost)
         /\ \A r \in Nat : IsWithCells([x EXCEPT !.rightmost = r], x, x.cells, r)
<1>1. \A rows \in Seq(Rows) : IsWithRows([x EXCEPT !.rows = rows], x, rows)
  BY DEF Page, IsWithRows, SameLinks
<1>2. \A next \in Nat : IsWithNext([x EXCEPT !.next = next], x, next)
  BY DEF Page, IsWithNext, SameBody
<1>3. \A cells \in Seq(Cell) : IsWithCells([x EXCEPT !.cells = cells], x, cells, x.rightmost)
  BY DEF Page, IsWithCells, SameLinks
<1>4. \A r \in Nat : IsWithCells([x EXCEPT !.rightmost = r], x, x.cells, r)
  BY DEF Page, IsWithCells, SameLinks
<1> QED
  BY <1>1, <1>2, <1>3, <1>4

LEMMA SetRows ==
  ASSUME NEW s \in Database, NEW p \in 1 .. Len(s.page), NEW rows \in Seq(Rows)
  PROVE  \E y : /\ IsSet([s EXCEPT !.page[p].rows = rows], s, p, y)
                /\ IsWithRows(y, s.page[p], rows)
<1>1. PICK x \in Page : x = s.page[p]
  BY PagesAre
<1>2. PICK y : y = [x EXCEPT !.rows = rows]
  OBVIOUS
<1>3. IsWithRows(y, x, rows)
  BY <1>2, PageWith
<1>4. y \in Page
  BY <1>3 DEF IsWithRows
<1>5. [s EXCEPT !.page[p].rows = rows] = [s EXCEPT !.page[p] = y]
  BY <1>1, <1>2
<1> QED
  BY <1>1, <1>3, <1>4, <1>5, SetPage

LEMMA SetNext ==
  ASSUME NEW s \in Database, NEW p \in 1 .. Len(s.page), NEW next \in Nat
  PROVE  \E y : /\ IsSet([s EXCEPT !.page[p].next = next], s, p, y)
                /\ IsWithNext(y, s.page[p], next)
<1>1. PICK x \in Page : x = s.page[p]
  BY PagesAre
<1>2. PICK y : y = [x EXCEPT !.next = next]
  OBVIOUS
<1>3. IsWithNext(y, x, next)
  BY <1>2, PageWith
<1>4. y \in Page
  BY <1>3 DEF IsWithNext
<1>5. [s EXCEPT !.page[p].next = next] = [s EXCEPT !.page[p] = y]
  BY <1>1, <1>2
<1> QED
  BY <1>1, <1>3, <1>4, <1>5, SetPage

LEMMA SetCells ==
  ASSUME NEW s \in Database, NEW p \in 1 .. Len(s.page), NEW cells \in Seq(Cell)
  PROVE  \E y : /\ IsSet([s EXCEPT !.page[p].cells = cells], s, p, y)
                /\ IsWithCells(y, s.page[p], cells, s.page[p].rightmost)
<1>1. PICK x \in Page : x = s.page[p]
  BY PagesAre
<1>2. PICK y : y = [x EXCEPT !.cells = cells]
  OBVIOUS
<1>3. IsWithCells(y, x, cells, x.rightmost)
  BY <1>2, PageWith
<1>4. y \in Page
  BY <1>3 DEF IsWithCells
<1>5. [s EXCEPT !.page[p].cells = cells] = [s EXCEPT !.page[p] = y]
  BY <1>1, <1>2
<1> QED
  BY <1>1, <1>3, <1>4, <1>5, SetPage

LEMMA SetRightmost ==
  ASSUME NEW s \in Database, NEW p \in 1 .. Len(s.page), NEW r \in Nat
  PROVE  \E y : /\ IsSet([s EXCEPT !.page[p].rightmost = r], s, p, y)
                /\ IsWithCells(y, s.page[p], s.page[p].cells, r)
<1>1. PICK x \in Page : x = s.page[p]
  BY PagesAre
<1>2. PICK y : y = [x EXCEPT !.rightmost = r]
  OBVIOUS
<1>3. IsWithCells(y, x, x.cells, r)
  BY <1>2, PageWith
<1>4. y \in Page
  BY <1>3 DEF IsWithCells
<1>5. [s EXCEPT !.page[p].rightmost = r] = [s EXCEPT !.page[p] = y]
  BY <1>1, <1>2
<1> QED
  BY <1>1, <1>3, <1>4, <1>5, SetPage

-----------------------------------------------------------------------------
(* The cut of a page *)

\* The ids of p on level j from e on are those of the new page q.
IsCut(at2, at, j, p, q, e) ==
  /\ p \in Nat /\ q \in Nat /\ p # q /\ e \in Ids /\ e - 1 \in Ids
  /\ at[j][e - 1] = p /\ at[j][e] = p
  /\ at2 = [at EXCEPT ![j] = Shift(at[j], p, q, e)]

\* What is so of the divisions of all levels.
IsDivision(h, at, seen) ==
  /\ h \in Nat /\ at \in [Nat -> Division] /\ seen \in [Nat -> Division]
  /\ \A j \in 0 .. h : Contiguous(at[j]) /\ Contiguous(seen[j])
  /\ Apart(h, at, seen)

\* at2 is at after the cut.
HasCut(h, at2, at, seen, j, p, q, e) ==
  /\ IsDivision(h, at2, seen) /\ Inside(h, at2, seen)
  /\ \A i \in Nat : i # j => at2[i] = at[i]
  /\ at2[j] = Shift(at[j], p, q, e) /\ IsDivided(at2[j], at[j], p, q, e)

LEMMA CutGhost ==
  ASSUME NEW h, NEW at, NEW seen, IsDivision(h, at, seen), Inside(h, at, seen),
         NEW j \in 0 .. h, NEW p, NEW q, NEW e, NEW at2, IsCut(at2, at, j, p, q, e),
         Fresh(q, h, at, seen)
  PROVE  HasCut(h, at2, at, seen, j, p, q, e)
<1>1. h \in Nat /\ j \in Nat /\ at \in [Nat -> Division] /\ seen \in [Nat -> Division]
  BY DEF IsDivision
<1>2. /\ p \in Nat /\ q \in Nat /\ p # q /\ e \in Ids /\ e - 1 \in Ids
      /\ at[j][e - 1] = p /\ at[j][e] = p
  BY DEF IsCut
<1>3. PICK a, b \in Division : a = at[j] /\ b = Shift(a, p, q, e)
  BY <1>1, <1>2, ShiftAt
<1>4. \A k \in Ids : a[k] # q
  BY <1>3 DEF Fresh
<1>5. IsDivided(b, a, p, q, e)
  BY <1>2, <1>3, <1>4, ShiftAt DEF IsDivided
<1>6. at2 \in [Nat -> Division] /\ at2[j] = b /\ \A i \in Nat : i # j => at2[i] = at[i]
  BY <1>1, <1>3 DEF IsCut
<1>7. ASSUME NEW i \in 0 .. h PROVE Contiguous(at2[i]) /\ Contiguous(seen[i])
  <2>1. Contiguous(at[i]) /\ Contiguous(seen[i])
    BY DEF IsDivision
  <2>2. i = j => Contiguous(b)
    BY <1>2, <1>3, <1>4, <2>1, CutDivision
  <2>3. i \in Nat
    BY <1>1
  <2> QED
    BY <1>6, <2>1, <2>2, <2>3
<1>8. \A k \in Ids : b[k] = q \/ b[k] = a[k]
  BY <1>5 DEF IsDivided
<1>9. Among(h, at2, seen, h, at, seen, j, q)
  <2>1. ASSUME NEW i \in 0 .. h, NEW k \in Ids
        PROVE  (at2[i][k] = q /\ i = j) \/ at2[i][k] = at[i][k]
    <3>1. i \in Nat
      BY <1>1
    <3> QED
      BY <1>3, <1>6, <1>8, <3>1
  <2> QED
    BY <2>1 DEF Among
<1>10. Apart(h, at2, seen)
  BY <1>9, ApartStill DEF IsDivision
<1>11. Inside(h, at2, seen)
  <2>1. ASSUME NEW i \in 0 .. h, NEW k \in Ids PROVE \E l \in Ids : seen[i][k] = at2[i][l]
    <3>1. PICK l \in Ids : seen[i][k] = at[i][l]
      BY DEF Inside
    <3>2. i \in Nat
      BY <1>1
    <3>3. CASE i # j
      BY <1>6, <3>1, <3>2, <3>3
    <3>4. CASE i = j /\ a[l] # p
      <4>1. b[l] = a[l]
        BY <1>5, <3>4 DEF IsDivided
      <4> QED
        BY <1>3, <1>6, <3>1, <3>4, <4>1
    <3>5. CASE i = j /\ a[l] = p
      <4>1. e - 1 < e
        BY <1>2, IdsAre
      <4>2. b[e - 1] = p
        BY <1>2, <1>3, <1>5, <4>1 DEF IsDivided
      <4> QED
        BY <1>2, <1>3, <1>6, <3>1, <3>5, <4>2
    <3> QED
      BY <3>3, <3>4, <3>5
  <2> QED
    BY <2>1 DEF Inside
<1> QED
  BY <1>1, <1>3, <1>5, <1>6, <1>7, <1>10, <1>11 DEF IsDivision, HasCut

\* What a cut of p that makes q leaves alone.
SameOthers(t, s, p, q) ==
  /\ Len(s.page) <= Len(t.page) /\ t.next_row = s.next_row
  /\ \A x \in 1 .. Len(t.page) : x = q \/ x \in 1 .. Len(s.page)
  /\ \A x \in 1 .. Len(s.page) : x # p /\ x # q => SameBody(t.page[x], s.page[x])

\* A cut loses no page.
LEMMA CutKeeps ==
  ASSUME NEW t, NEW s, NEW h \in Nat, NEW at \in [Nat -> Division], NEW j \in 0 .. h,
         NEW p, NEW q, NEW e, NEW at2, IsCut(at2, at, j, p, q, e), SameOthers(t, s, p, q)
  PROVE  Keeps(t, h, at2, s, h, at, {})
<1>1. PICK a \in Division : a = at[j]
  OBVIOUS
<1>2. /\ at2[j] = Shift(a, p, q, e) /\ \A i \in 0 .. h : i # j => at2[i] = at[i]
      /\ p \in Nat /\ q \in Nat /\ p # q /\ e \in Ids /\ e - 1 \in Ids /\ a[e - 1] = p /\ a[e] = p
  BY <1>1 DEF IsCut
<1>3. \A k \in Ids : at2[j][k] = IF a[k] # p /\ a[k] # q THEN a[k] ELSE IF k < e THEN p ELSE q
  BY <1>2, ShiftAt
<1>4. InTree(p, h, at2) /\ InTree(q, h, at2)
  <2>1. e - 1 < e /\ ~(e < e)
    BY <1>2, IdsAre
  <2> QED
    BY <1>2, <1>3, <2>1 DEF InTree
<1>5. ASSUME NEW x, InTree(x, h, at) PROVE InTree(x, h, at2)
  <2>1. PICK i \in 0 .. h, k \in Ids : at[i][k] = x
    BY <1>5 DEF InTree
  <2>2. x = p \/ x = q \/ at2[i][k] = x
    BY <1>1, <1>2, <1>3, <2>1
  <2> QED
    BY <1>4, <2>2 DEF InTree
<1>6. ASSUME NEW x \in 1 .. Len(t.page), Home(x, s, h, at), x # p, x # q
      PROVE  t.page[x].type = "free" \/ InTree(x, h, at2)
  BY <1>5, <1>6 DEF SameOthers, SameBody, Home
<1> QED
  BY <1>4, <1>6 DEF Keeps, Home

\* No page is new, none that was free is used, and those of L alone are in the tree no more.
LEMMA KeepsTo ==
  ASSUME NEW t, NEW s, NEW h, NEW at, NEW h2, NEW at2, NEW L,
         Len(t.page) = Len(s.page),
         \A x \in 1 .. Len(s.page) : s.page[x].type = "free" => t.page[x].type = "free",
         \A x : InTree(x, h, at) => InTree(x, h2, at2) \/ x \in L
  PROVE  Keeps(t, h2, at2, s, h, at, L)
BY DEF Keeps, Home

\* One change after another.
LEMMA KeepsAfter ==
  ASSUME NEW s, NEW h, NEW at, NEW t, NEW h2, NEW at2, NEW u, NEW h3, NEW at3, NEW L, NEW M, NEW N,
         Keeps(t, h2, at2, s, h, at, L), Keeps(u, h3, at3, t, h2, at2, M), L \cup M \subseteq N
  PROVE  Keeps(u, h3, at3, s, h, at, N)
BY DEF Keeps

\* What split_leaf_node does to the pages before it goes to the parent: the rows of p
\* are A and those of the new page q are B.
IsLeafCut(t, s, p, q, A, B) ==
  /\ t \in Database /\ Len(s.page) <= Len(t.page) /\ q \in 1 .. Len(t.page)
  /\ \A x \in 1 .. Len(t.page) : x = q \/ x \in 1 .. Len(s.page)
  /\ t.page[p].type = "leaf" /\ t.page[p].cells = <<>> /\ t.page[p].rows = A
  /\ t.page[p].next = q /\ t.page[p].prev = s.page[p].prev /\ t.page[p].parent = s.page[p].parent
  /\ t.page[q].type = "leaf" /\ t.page[q].cells = <<>> /\ t.page[q].rows = B
  /\ t.page[q].next = s.page[p].next /\ t.page[q].prev = p
  /\ \A x \in 1 .. Len(s.page) : x # p /\ x # q =>
       /\ SameBody(t.page[x], s.page[x]) /\ t.page[x].next = s.page[x].next
       /\ t.page[x].parent = s.page[x].parent
       /\ t.page[x].prev = IF x = s.page[p].next THEN q ELSE s.page[x].prev
  /\ t.root_page_id = s.root_page_id /\ t.next_row = s.next_row
  /\ Listed(t.page, t.first_free_page)

LEMMA CutLeafPages ==
  ASSUME NEW s \in Database, Listed(s.page, s.first_free_page), NEW p \in 1 .. Len(s.page),
         s.page[p].type = "leaf", s.page[p].cells = <<>>, Len(s.page[p].rows) >= 2,
         NEW next, next = s.page[p].next,
         next = 0 \/ (next \in 1 .. Len(s.page) /\ next # p /\ s.page[next].type # "free")
  PROVE  \E t, u \in Database, q \in Nat, A, B \in Seq(Rows) :
           /\ CutLeaf(s, p) = [db |-> t, left |-> p, right |-> q, key |-> B[1].key]
           /\ IsAllocated(u, s, q, "leaf") /\ IsLeafCut(t, s, p, q, A, B)
           /\ IsConcat(s.page[p].rows, A, B)
           /\ A # <<>> /\ B # <<>> /\ Len(A) < Len(s.page[p].rows) /\ Len(B) < Len(s.page[p].rows)
<1>1. PICK leaf \in Page : leaf = s.page[p]
  BY PagesAre
<1>2. PICK R \in Seq(Rows) : R = leaf.rows
  BY <1>1, PageIs
<1>3. PICK L \in Nat : L = Len(R) /\ L >= 2
  BY <1>1, <1>2
<1>4. PICK half \in Nat : half = L \div 2
  OBVIOUS
<1>24. 1 <= half /\ half < L
  BY <1>3, <1>4
<1>5. PICK A \in Seq(Rows) : A = SubSeq(R, 1, half) /\ Len(A) = half /\ \A x \in 1 .. half : A[x] = R[x]
  <2>1. 1 \in 1 .. Len(R) + 1 /\ 1 <= half + 1 /\ half <= Len(R)
    BY <1>3, <1>24
  <2>2. /\ SubSeq(R, 1, half) \in Seq(Rows) /\ Len(SubSeq(R, 1, half)) = half + 1 - 1
        /\ \A x \in 1 .. half + 1 - 1 : SubSeq(R, 1, half)[x] = R[1 + x - 1]
    BY <2>1, SubSeqEffect
  <2>3. half + 1 - 1 = half /\ \A x \in 1 .. half : 1 + x - 1 = x
    OBVIOUS
  <2> QED
    BY <2>2, <2>3, ZenonT(40)
<1>6. PICK B \in Seq(Rows) : /\ B = SubSeq(R, half + 1, L) /\ Len(B) = L - half
                             /\ \A x \in 1 .. L - half : B[x] = R[half + x]
  <2>1. half + 1 \in 1 .. Len(R) + 1 /\ half + 1 <= L + 1 /\ L <= Len(R)
    BY <1>3, <1>24
  <2>2. /\ SubSeq(R, half + 1, L) \in Seq(Rows) /\ Len(SubSeq(R, half + 1, L)) = L + 1 - (half + 1)
        /\ \A x \in 1 .. L + 1 - (half + 1) : SubSeq(R, half + 1, L)[x] = R[half + 1 + x - 1]
    BY <2>1, SubSeqEffect
  <2>3. L + 1 - (half + 1) = L - half /\ \A x \in 1 .. L - half : half + 1 + x - 1 = half + x
    BY <1>3, <1>24
  <2>4. PICK B : B = SubSeq(R, half + 1, L)
    OBVIOUS
  <2>5. B \in Seq(Rows) /\ Len(B) = L - half
    BY <2>2, <2>3, <2>4, Zenon
  <2>6. ASSUME NEW x \in 1 .. L - half PROVE B[x] = R[half + x]
    <3>1. x \in 1 .. L + 1 - (half + 1)
      BY <2>3, Zenon
    <3> QED
      BY <2>2, <2>3, <2>4, <3>1, Zenon
  <2> QED
    BY <2>4, <2>5, <2>6, Zenon
<1>7. IsConcat(R, A, B)
  <2>1. Len(R) = Len(A) + Len(B)
    BY <1>3, <1>24, <1>5, <1>6
  <2>2. ASSUME NEW x \in 1 .. Len(A) + Len(B)
        PROVE  R[x] = IF x <= Len(A) THEN A[x] ELSE B[x - Len(A)]
    <3>1. CASE x <= half
      <4>1. x \in 1 .. half
        BY <3>1
      <4> QED
        BY <1>5, <3>1, <4>1
    <3>2. CASE ~(x <= half)
      <4>1. x - half \in 1 .. L - half /\ half + (x - half) = x
        BY <1>3, <1>24, <1>5, <1>6, <3>2
      <4> QED
        BY <1>5, <1>6, <3>2, <4>1
    <3> QED
      BY <3>1, <3>2
  <2> QED
    BY <2>1, <2>2 DEF IsConcat
<1>8. B[1].key = leaf.rows[half + 1].key
  <2>1. 1 \in 1 .. L - half
    BY <1>3, <1>24
  <2> QED
    BY <1>2, <1>6, <2>1
<1>9. PICK u \in Database, q \in Nat : /\ u = Allocated(s, "leaf") /\ IsAllocated(u, s, q, "leaf")
                                      /\ Listed(u.page, u.first_free_page)
  BY AllocatedEffect
<1>10. /\ q = NewId(s) /\ q \in 1 .. Len(u.page) /\ u.page[q] = NewPage("leaf")
       /\ Len(s.page) \in Nat /\ Len(u.page) \in Nat /\ Len(s.page) <= Len(u.page)
       /\ \A x \in 1 .. Len(s.page) : x \in 1 .. Len(u.page) /\ (x # q => u.page[x] = s.page[x])
       /\ p # q /\ next # q
       /\ u.root_page_id = s.root_page_id /\ u.next_row = s.next_row
       /\ \A x \in 1 .. Len(u.page) : x = q \/ x \in 1 .. Len(s.page)
  <2>1. Len(s.page) \in Nat /\ Len(u.page) \in Nat
    BY PagesAre
  <2>2. next # q
    BY <1>9 DEF IsAllocated
  <2>3. p # q
    BY <1>1, <1>9 DEF IsAllocated
  <2> QED
    BY <1>9, <2>1, <2>2, <2>3, SMTT(30) DEF IsAllocated
<1>11. PICK t1, y1 : /\ t1 = [u EXCEPT !.page[p].rows = A] /\ IsSet(t1, u, p, y1)
                     /\ IsWithRows(y1, u.page[p], A)
  BY <1>10, SetRows
<1>12. PICK t2, y2 : /\ t2 = [t1 EXCEPT !.page[p].next = q] /\ IsSet(t2, t1, p, y2)
                     /\ IsWithNext(y2, t1.page[p], q)
  <2>1. t1 \in Database /\ p \in 1 .. Len(t1.page)
    BY <1>10, <1>11 DEF IsSet
  <2> QED
    BY <2>1, SetNext
<1>13. PICK right : right = [leaf EXCEPT !.rows = B, !.prev = p]
  OBVIOUS
<1>14. /\ right \in Page /\ right.type = leaf.type /\ right.cells = leaf.cells /\ right.rows = B
       /\ right.prev = p /\ right.next = leaf.next /\ right.parent = leaf.parent
  <2>1. p \in Nat
    BY <1>10
  <2> QED
    BY <1>13, <2>1 DEF Page
<1>15. PICK t3 : t3 = [t2 EXCEPT !.page[q] = right] /\ IsSet(t3, t2, q, right)
  <2>1. t2 \in Database /\ q \in 1 .. Len(t2.page)
    BY <1>10, <1>11, <1>12 DEF IsSet
  <2> QED
    BY <1>14, <2>1, SetPage
<1>16. PICK t : t = Linked(t3, next, q) /\ IsLinked(t, t3, next, q)
  <2>1. t3 \in Database /\ (next = 0 \/ next \in 1 .. Len(t3.page))
    BY <1>10, <1>11, <1>12, <1>15, SMTT(30) DEF IsSet
  <2> QED
    BY <2>1, LinkedEffect
<1>17. CutLeaf(s, p) = [db |-> t, left |-> p, right |-> q, key |-> B[1].key]
  <2>1. t3 = [Allocated(s, "leaf") EXCEPT !.page[p].rows = SubSeq(leaf.rows, 1, half),
                                         !.page[p].next = q, !.page[q] = right]
    BY <1>2, <1>5, <1>9, <1>11, <1>12, <1>15
  <2>2. right = [leaf EXCEPT !.rows = SubSeq(@, half + 1, Len(@)), !.prev = p]
    BY <1>2, <1>3, <1>6, <1>13
  <2>3. half = Len(leaf.rows) \div 2
    BY <1>2, <1>3, <1>4
  <2>4. t = Linked(t3, leaf.next, q)
    BY <1>1, <1>16
  <2> QED
    BY <1>1, <1>8, <1>10, <2>1, <2>2, <2>3, <2>4, ZenonT(40) DEF CutLeaf
<1>18. \A x \in 1 .. Len(u.page) : t3.page[x] = IF x = q THEN right ELSE IF x = p THEN y2 ELSE u.page[x]
  BY <1>10, <1>11, <1>12, <1>15, SMTT(30) DEF IsSet
<1>19. /\ y2.type = "leaf" /\ y2.cells = <<>> /\ y2.rows = A /\ y2.next = q
       /\ y2.prev = leaf.prev /\ y2.parent = leaf.parent
  <2>1. u.page[p] = leaf /\ t1.page[p] = y1
    BY <1>1, <1>10, <1>11 DEF IsSet
  <2> QED
    BY <1>1, <1>11, <1>12, <2>1, SMTT(30) DEF IsWithRows, IsWithNext, SameBody, SameLinks
<1>20. /\ t3 \in Database /\ Len(t3.page) = Len(u.page) /\ t3.root_page_id = s.root_page_id
       /\ t3.next_row = s.next_row /\ t3.first_free_page = u.first_free_page
  BY <1>10, <1>11, <1>12, <1>15, SMTT(30) DEF IsSet
<1>21. /\ t \in Database /\ Len(t.page) = Len(u.page) /\ t.root_page_id = s.root_page_id
       /\ t.next_row = s.next_row /\ t.first_free_page = u.first_free_page
       /\ \A x \in 1 .. Len(u.page) :
            /\ SameBody(t.page[x], t3.page[x]) /\ t.page[x].next = t3.page[x].next
            /\ t.page[x].prev = IF next # 0 /\ x = next THEN q ELSE t3.page[x].prev
            /\ t.page[x].parent = t3.page[x].parent
  BY <1>16, <1>20, ZenonT(40) DEF IsLinked
<1>22. Listed(t.page, t.first_free_page)
  <2>1. ASSUME NEW x \in 1 .. Len(u.page), u.page[x].type = "free"
        PROVE  t.page[x].type = "free" /\ t.page[x].next = u.page[x].next
    <3>1. x # q /\ x # p
      BY <1>1, <1>10, <2>1, NewPageIs
    <3>2. t3.page[x] = u.page[x]
      BY <1>18, <3>1
    <3> QED
      BY <1>21, <2>1, <3>2, SMTT(30) DEF SameBody
  <2>2. Len(u.page) <= Len(t.page) /\ Len(t.page) \in Nat
    BY <1>10, <1>21
  <2>3. ASSUME NEW x \in 1 .. Len(t.page), t.page[x].type = "free"
        PROVE  x \in 1 .. Len(u.page) /\ u.page[x].type = "free" /\ t.page[x].rows = u.page[x].rows
    <3>1. x \in 1 .. Len(u.page) /\ t3.page[x].type = "free" /\ t.page[x].rows = t3.page[x].rows
      BY <1>21, <2>3, SMTT(30) DEF SameBody
    <3>2. x # q /\ x # p
      BY <1>1, <1>10, <1>14, <1>18, <1>19, <3>1
    <3> QED
      BY <1>18, <3>1, <3>2
  <2> QED
    BY <1>9, <1>10, <1>21, <2>1, <2>2, <2>3, ListedKept
<1>23. IsLeafCut(t, s, p, q, A, B)
  <2>1. p \in 1 .. Len(u.page) /\ t3.page[p] = y2 /\ t3.page[q] = right
    BY <1>10, <1>18
  <2>2. ASSUME NEW x \in 1 .. Len(s.page), x # p, x # q
        PROVE  /\ SameBody(t.page[x], s.page[x]) /\ t.page[x].next = s.page[x].next
               /\ t.page[x].parent = s.page[x].parent
               /\ t.page[x].prev = IF x = s.page[p].next THEN q ELSE s.page[x].prev
    <3>1. t3.page[x] = s.page[x] /\ x \in 1 .. Len(u.page) /\ x # 0
      BY <1>10, <1>18, <2>2
    <3> QED
      BY <1>21, <3>1
  <2>3. /\ t.page[p].type = "leaf" /\ t.page[p].cells = <<>> /\ t.page[p].rows = A
        /\ t.page[p].next = q /\ t.page[p].prev = s.page[p].prev
        /\ t.page[p].parent = s.page[p].parent
    BY <1>1, <1>19, <1>21, <2>1 DEF SameBody
  <2>4. /\ t.page[q].type = "leaf" /\ t.page[q].cells = <<>> /\ t.page[q].rows = B
        /\ t.page[q].next = s.page[p].next /\ t.page[q].prev = p
    BY <1>1, <1>10, <1>14, <1>21, <2>1, ZenonT(40) DEF SameBody
  <2> QED
    BY <1>10, <1>21, <1>22, <2>2, <2>3, <2>4 DEF IsLeafCut
<1> QED
  <2>3. Len(A) # 0 /\ Len(B) # 0 /\ Len(A) < L /\ Len(B) < L
    <3>1. Len(A) = half /\ Len(B) = L - half
      BY <1>5, <1>6
    <3> QED
      BY <1>3, <1>24, <3>1, SMTT(30)
  <2>1. A # <<>> /\ B # <<>> /\ Len(A) < L /\ Len(B) < L
    BY <2>3
  <2>2. t \in Database
    BY <1>21
  <2> QED
    BY <1>1, <1>2, <1>3, <1>7, <1>9, <1>17, <1>23, <2>1, <2>2

\* The rows of a sound table have ids.
LEMMA SoundStored ==
  ASSUME NEW s, NEW store, NEW h, NEW at, NEW seen, NEW thin, Sound(s, store, h, at, seen, thin)
  PROVE  Stored(store)
<1>1. s.next_row \in Nat /\ s.next_row <= MAX_ROWS
  BY PagesAre DEF Sound
<1>2. ASSUME NEW row \in store PROVE row \in Rows /\ row.key \in Ids
  <2>1. row \in Rows /\ row.key < s.next_row
    BY DEF Sound
  <2>2. row.key \in Nat
    BY <2>1 DEF Rows
  <2> QED
    BY <1>1, <2>1, <2>2, IdsAre
<1> QED
  BY <1>2 DEF Stored

\* The rows of a leaf whose ids are the same under another division.
LEMMA RowsInSame ==
  ASSUME NEW rows, NEW x, NEW a, NEW store, RowsIn(rows, x, a, store), Stored(store),
         NEW b, \A k \in Ids : b[k] = x <=> a[k] = x
  PROVE  RowsIn(rows, x, b, store)
BY DEF RowsIn, Stored

LEMMA CutLeafSound ==
  ASSUME NEW s, NEW store, NEW h, NEW at, Sound(s, store, h, at, at, 0),
         NEW p \in Nat, Used(p, at[0]), Len(s.page[p].rows) >= 2
  PROVE  \E t \in Database, q \in Nat, e \in Ids : \E at2 :
           /\ CutLeaf(s, p) = [db |-> t, left |-> p, right |-> q, key |-> e]
           /\ IsCut(at2, at, 0, p, q, e) /\ Fresh(q, h, at, at)
           /\ Sound(t, store, h, at2, at, 0) /\ Inside(h, at2, at) /\ SameOthers(t, s, p, q)
           /\ Len(t.page[p].rows) < Len(s.page[p].rows)
           /\ Len(t.page[q].rows) < Len(s.page[p].rows)
<1>1. /\ s \in Database /\ Listed(s.page, s.first_free_page) /\ Stored(store)
      /\ Grown(s.page, s.root_page_id, store, h, at, at, 0)
  BY SoundStored DEF Sound
<1>2. Len(s.page) \in Nat
  BY <1>1, PagesAre
<1>3. /\ IsDivision(h, at, at) /\ LeafLevel(s.page, at[0], store) /\ Chained(s.page, at[0])
      /\ \A j \in 1 .. h : NodeLevel(s.page, at[j], at[j - 1], 0)
      /\ \A j \in 1 .. h : Adopts(s.page, at[j - 1], at[j - 1], at[j])
      /\ s.page[s.root_page_id].parent = 0 /\ \A k \in Ids : at[h][k] = s.root_page_id
  BY <1>1 DEF Grown, IsDivision
<1>4. h \in Nat /\ at \in [Nat -> Division] /\ 0 \in 0 .. h /\ Apart(h, at, at) /\ h \in 0 .. h
  BY <1>3 DEF IsDivision
<1>5. PICK a \in Division : a = at[0] /\ Contiguous(a)
  BY <1>3, <1>4 DEF IsDivision
<1>6. Inside(h, at, at)
  BY DEF Inside
<1>7. \A j \in 0 .. h, k \in Ids : /\ at[j][k] \in Nat /\ at[j][k] \in 1 .. Len(s.page)
                                   /\ at[j][k] # 0 /\ s.page[at[j][k]].type # "free"
  BY <1>1, <1>2, PageOfLevel
<1>8. PICK k0 \in Ids : a[k0] = p
  BY <1>5 DEF Used
<1>9. PICK R \in Seq(Rows) :
        /\ R = s.page[p].rows /\ RowsIn(R, p, a, store) /\ Taken(R) <= NODE_SPACE
        /\ p \in 1 .. Len(s.page) /\ s.page[p].type = "leaf" /\ s.page[p].cells = <<>>
  <2>1. PICK R : R = s.page[p].rows
    OBVIOUS
  <2>2. /\ RowsIn(R, p, a, store) /\ Taken(R) <= NODE_SPACE
        /\ p \in 1 .. Len(s.page) /\ s.page[p].type = "leaf" /\ s.page[p].cells = <<>>
    BY <1>3, <1>5, <1>8, <2>1 DEF LeafLevel
  <2>3. R \in Seq(Rows)
    BY <2>2 DEF RowsIn
  <2> QED
    BY <2>1, <2>2, <2>3
<1>10. PICK next : next = s.page[p].next
  OBVIOUS
<1>11. next = 0 \/ (next \in 1 .. Len(s.page) /\ next # p /\ s.page[next].type # "free")
  <2>1. PICK f, m \in Ids : IsBetween(s.page, p, a, f, m)
    BY <1>3, <1>5, Neighbours
  <2>2. next = 0 \/ (m + 1 \in Ids /\ next = a[m + 1] /\ a[m + 1] # p)
    BY <1>10, <2>1 DEF IsBetween, IsEnds
  <2> QED
    BY <1>4, <1>5, <1>7, <2>2
<1>12. PICK t, u \in Database, q \in Nat, A, B \in Seq(Rows) :
         /\ CutLeaf(s, p) = [db |-> t, left |-> p, right |-> q, key |-> B[1].key]
         /\ IsAllocated(u, s, q, "leaf") /\ IsLeafCut(t, s, p, q, A, B)
         /\ IsConcat(R, A, B)
         /\ A # <<>> /\ B # <<>> /\ Len(A) < Len(R) /\ Len(B) < Len(R)
  BY <1>1, <1>9, <1>10, <1>11, CutLeafPages
<1>13. Fresh(q, h, at, at) /\ \A j \in 0 .. h, k \in Ids : at[j][k] # q
  <2>1. Fresh(q, h, at, at)
    BY <1>1, <1>6, <1>12, AllocatedFresh
  <2> QED
    BY <2>1 DEF Fresh
<1>14. p # q /\ \A k \in Ids : a[k] # q
  BY <1>4, <1>5, <1>8, <1>13
<1>15. PICK b \in Division, e \in Ids :
         /\ e = B[1].key /\ e - 1 \in Ids /\ a[e - 1] = p /\ a[e] = p
         /\ b = Shift(a, p, q, e)
         /\ RowsIn(A, p, b, store) /\ RowsIn(B, q, b, store)
  <2>1. PICK b \in Division, e \in Ids : AreRowsCut(b, e, a, p, q, A, B, store)
    BY <1>1, <1>5, <1>9, <1>12, <1>14, CutRows
  <2> QED
    BY <2>1 DEF AreRowsCut
<1>16. PICK at2 : IsCut(at2, at, 0, p, q, e)
  BY <1>5, <1>14, <1>15 DEF IsCut
<1>17. /\ IsDivision(h, at2, at) /\ Inside(h, at2, at)
       /\ \A i \in Nat : i # 0 => at2[i] = at[i]
       /\ at2[0] = b /\ IsDivided(b, a, p, q, e)
  <2>1. /\ IsDivision(h, at2, at) /\ Inside(h, at2, at)
        /\ \A i \in Nat : i # 0 => at2[i] = at[i]
        /\ at2[0] = Shift(at[0], p, q, e) /\ IsDivided(at2[0], at[0], p, q, e)
    <3>1. HasCut(h, at2, at, at, 0, p, q, e)
      BY <1>3, <1>4, <1>6, <1>13, <1>16, CutGhost
    <3> QED
      BY <3>1 DEF HasCut
  <2> QED
    BY <1>5, <1>15, <2>1
<1>18. \A k \in Ids : b[k] = p \/ b[k] = q \/ (b[k] = a[k] /\ a[k] # p)
  BY <1>17 DEF IsDivided
<1>19. \A x \in 1 .. Len(s.page) : x # q => t.page[x].parent = s.page[x].parent
  BY <1>12 DEF IsLeafCut
<1>20. \A x \in 1 .. Len(s.page) : x # q => x \in 1 .. Len(t.page)
  BY <1>2, <1>12, PagesAre DEF IsLeafCut
<1>21. ASSUME NEW j \in 0 .. h, NEW k \in Ids, at[j][k] # p
       PROVE  /\ at[j][k] \in 1 .. Len(t.page) /\ t.page[at[j][k]] \in Page
              /\ SameBody(t.page[at[j][k]], s.page[at[j][k]])
  <2>1. at[j][k] \in 1 .. Len(s.page) /\ at[j][k] # q /\ at[j][k] \in 1 .. Len(t.page)
    BY <1>7, <1>13, <1>20
  <2> QED
    BY <1>12, <1>21, <2>1, PagesAre DEF IsLeafCut
<1>22. LeafLevel(t.page, b, store)
  <2>1. Taken(R) = Taken(A) + Taken(B) /\ Taken(A) \in Nat /\ Taken(B) \in Nat
    BY <1>9, <1>12, TakenConcat, TakenIs
  <2>2. Taken(A) <= NODE_SPACE /\ Taken(B) <= NODE_SPACE
    <3>1. PICK x, y, z \in Nat : x = Taken(A) /\ y = Taken(B) /\ z = NODE_SPACE
      BY <2>1, NodeAssumption
    <3> QED
      BY <1>9, <2>1, <3>1
  <2>3. /\ p \in 1 .. Len(t.page) /\ q \in 1 .. Len(t.page)
        /\ t.page[p].type = "leaf" /\ t.page[p].cells = <<>> /\ t.page[p].rows = A
        /\ t.page[q].type = "leaf" /\ t.page[q].cells = <<>> /\ t.page[q].rows = B
    BY <1>9, <1>12, <1>14, <1>20 DEF IsLeafCut
  <2>4. ASSUME NEW k \in Ids, b[k] = a[k], a[k] # p
        PROVE  /\ b[k] \in 1 .. Len(t.page) /\ t.page[b[k]].type = "leaf" /\ t.page[b[k]].cells = <<>>
               /\ RowsIn(t.page[b[k]].rows, b[k], b, store) /\ Taken(t.page[b[k]].rows) <= NODE_SPACE
    <3>1. PICK x \in Nat : x = a[k] /\ x # p /\ x # q
      BY <1>14, <2>4 DEF Division
    <3>2. /\ s.page[x].type = "leaf" /\ s.page[x].cells = <<>>
          /\ RowsIn(s.page[x].rows, x, a, store) /\ Taken(s.page[x].rows) <= NODE_SPACE
      BY <1>3, <1>5, <3>1 DEF LeafLevel
    <3>3. x \in 1 .. Len(t.page) /\ SameBody(t.page[x], s.page[x])
      BY <1>4, <1>5, <1>21, <3>1
    <3>4. \A l \in Ids : b[l] = x <=> a[l] = x
      BY <1>17, <3>1 DEF IsDivided
    <3>5. RowsIn(s.page[x].rows, x, b, store)
      BY <1>1, <3>2, <3>4, RowsInSame
    <3> QED
      BY <2>4, <3>1, <3>2, <3>3, <3>5 DEF SameBody
  <2>5. ASSUME NEW k \in Ids
        PROVE  /\ b[k] \in 1 .. Len(t.page) /\ t.page[b[k]].type = "leaf" /\ t.page[b[k]].cells = <<>>
               /\ RowsIn(t.page[b[k]].rows, b[k], b, store) /\ Taken(t.page[b[k]].rows) <= NODE_SPACE
    <3>1. CASE b[k] = p
      BY <1>15, <2>2, <2>3, <3>1
    <3>2. CASE b[k] = q
      BY <1>15, <2>2, <2>3, <3>2
    <3> QED
      BY <1>18, <2>4, <3>1, <3>2
  <2> QED
    BY <2>5 DEF LeafLevel
<1>23. Chained(t.page, b)
  <2>1. IsChainedIn(t.page, s.page, a, p, q, next)
    <3>1. ASSUME NEW k \in Ids
          PROVE  /\ a[k] # p => t.page[a[k]].next = s.page[a[k]].next
                 /\ a[k] # next => t.page[a[k]].prev = s.page[a[k]].prev
      <4>1. a[k] \in 1 .. Len(s.page) /\ a[k] # q
        BY <1>4, <1>5, <1>7, <1>14
      <4> QED
        BY <1>10, <1>12, <4>1 DEF IsLeafCut
    <3>2. next # 0 => t.page[next].prev = q
      <4>1. ASSUME next # 0 PROVE next \in 1 .. Len(s.page) /\ next # p /\ next # q
        BY <1>11, <1>12, <4>1 DEF IsAllocated
      <4> QED
        BY <1>10, <1>12, <4>1 DEF IsLeafCut
    <3> QED
      BY <1>10, <1>12, <3>1, <3>2 DEF IsLeafCut, IsChainedIn
  <2>2. \A k \in Ids : a[k] # 0
    BY <1>4, <1>5, <1>7
  <2>3. Chained(s.page, a)
    BY <1>3, <1>5
  <2> QED
    BY <1>5, <1>10, <1>14, <1>15, <1>17, <2>1, <2>2, <2>3, ChainCut
<1>24. ASSUME NEW j \in 1 .. h PROVE NodeLevel(t.page, at2[j], at[j - 1], 0)
  <2>1. j \in 0 .. h /\ j # 0 /\ j \in Nat
    BY <1>4
  <2>2. \A k \in Ids : at[j][k] # p
    <3>1. \A k \in Ids : at[j][k] = at[0][k0] => j = 0
      BY <1>4, <2>1 DEF Apart
    <3> QED
      BY <1>5, <1>8, <2>1, <3>1
  <2>3. \A k \in Ids : /\ at[j][k] \in 1 .. Len(t.page) /\ t.page[at[j][k]] \in Page
                       /\ SameBody(t.page[at[j][k]], s.page[at[j][k]])
    BY <1>21, <2>1, <2>2
  <2>4. NodeLevel(s.page, at[j], at[j - 1], 0)
    BY <1>3
  <2>5. NodeLevel(t.page, at[j], at[j - 1], 0)
    BY <2>3, <2>4, NodeLevelKept
  <2> QED
    BY <1>17, <2>1, <2>5
<1>25. ASSUME NEW j \in 1 .. h PROVE Adopts(t.page, at2[j - 1], at[j - 1], at2[j])
  <2>1. j - 1 \in 0 .. h /\ j # 0 /\ j \in Nat /\ at2[j] = at[j]
    BY <1>4, <1>17
  <2>2. ASSUME NEW k \in Ids, at2[j - 1][k] = at[j - 1][k]
        PROVE  t.page[at2[j - 1][k]].parent = at2[j][k]
    <3>1. PICK x : x = at[j - 1][k]
      OBVIOUS
    <3>2. s.page[x].parent = at[j][k]
      BY <1>3, <3>1 DEF Adopts
    <3>3. x \in 1 .. Len(s.page) /\ x # q
      BY <1>7, <1>13, <2>1, <3>1
    <3> QED
      BY <1>19, <2>1, <2>2, <3>1, <3>2, <3>3
  <2> QED
    BY <2>2 DEF Adopts
<1>26. t.root_page_id = s.root_page_id /\ t.page[s.root_page_id].parent = 0
  <2>1. s.root_page_id = at[h][k0]
    BY <1>3
  <2>2. s.root_page_id \in 1 .. Len(s.page) /\ s.root_page_id # q
    BY <1>4, <1>7, <1>13, <2>1
  <2> QED
    BY <1>3, <1>12, <1>19, <2>2 DEF IsLeafCut
<1>27. Grown(t.page, t.root_page_id, store, h, at2, at, 0)
  <2>1. /\ h \in Nat /\ at2 \in [Nat -> Division] /\ at \in [Nat -> Division]
        /\ \A j \in 0 .. h : Contiguous(at2[j]) /\ Contiguous(at[j])
        /\ Apart(h, at2, at)
    BY <1>17 DEF IsDivision
  <2>2. LeafLevel(t.page, at2[0], store) /\ Chained(t.page, at2[0])
    BY <1>17, <1>22, <1>23
  <2> QED
    BY <1>3, <1>24, <1>25, <1>26, <2>1, <2>2 DEF Grown
<1>28. Sound(t, store, h, at2, at, 0)
  <2>1. t \in Database /\ t.next_row = s.next_row /\ Listed(t.page, t.first_free_page)
    BY <1>12 DEF IsLeafCut
  <2> QED
    BY <1>27, <2>1 DEF Sound
<1>29. t.page[p].rows = A /\ t.page[q].rows = B /\ SameOthers(t, s, p, q)
  BY <1>12 DEF IsLeafCut, SameOthers
<1> QED
  BY <1>9, <1>12, <1>13, <1>15, <1>16, <1>17, <1>28, <1>29

-----------------------------------------------------------------------------
(* The cut of a node *)

LEMMA NodeIsPage ==
  ASSUME NEW n \in Node
  PROVE  n \in Page /\ n.type = "internal" /\ n.rows = <<>> /\ n.cells \in Seq(Cell)
         /\ n.parent \in Nat /\ n.rightmost \in Nat
<1>1. <<>> \in Seq(Rows)
  OBVIOUS
<1>2. /\ n.type = "internal" /\ n.parent \in Nat /\ n.next \in Nat /\ n.prev \in Nat /\ n.rows = <<>>
      /\ n.cells \in Seq(Cell) /\ n.rightmost \in Nat
      /\ n = [type |-> n.type, parent |-> n.parent, next |-> n.next, prev |-> n.prev, rows |-> n.rows,
              cells |-> n.cells, rightmost |-> n.rightmost]
  BY DEF Node
<1> QED
  BY <1>1, <1>2 DEF Page

\* What split_internal_node does to the pages before it goes to the parent.
IsNodeCut(t, s, p, q, l, r) ==
  /\ t \in Database /\ Len(s.page) <= Len(t.page) /\ q \in 1 .. Len(t.page)
  /\ \A x \in 1 .. Len(t.page) : x = q \/ x \in 1 .. Len(s.page)
  /\ SameBody(t.page[p], l) /\ SameBody(t.page[q], r)
  /\ \A x \in 1 .. Len(s.page) : x # p /\ x # q =>
       SameBody(t.page[x], s.page[x]) /\ SameLinks(t.page[x], s.page[x])
  /\ \A x \in 1 .. Len(s.page) : x # q =>
       t.page[x].parent = IF x \in ToSet(Kids(r)) THEN q ELSE s.page[x].parent
  /\ t.root_page_id = s.root_page_id /\ t.next_row = s.next_row
  /\ Listed(t.page, t.first_free_page)

LEMMA CutInternalPages ==
  ASSUME NEW s \in Database, Listed(s.page, s.first_free_page), NEW p \in 1 .. Len(s.page),
         NEW n \in Node, n = s.page[p], Middle(n) < Len(n.cells)
  PROVE  \E t, u \in Database, q \in Nat, r \in Node :
           /\ CutInternal(s, p) = [db |-> t, left |-> p, right |-> q, key |-> PushedUp(n)]
           /\ IsAllocated(u, s, q, "internal")
           /\ r.cells = RightCells(n, Middle(n)) /\ r.rightmost = n.rightmost
           /\ IsNodeCut(t, s, p, q, LeftPart(n, Middle(n)), r)
<1>1. PICK A \in Nat : A = Middle(n) /\ A < Len(n.cells)
  <2>1. PICK L \in Nat : L = Len(n.cells)
    BY CellsType
  <2>2. L \div 2 \in Nat
    OBVIOUS
  <2>3. Middle(n) = L \div 2
    BY <2>1, Zenon DEF Middle
  <2> QED
    BY <2>2, <2>3
<1>2. PICK l \in Node : l = LeftPart(n, A) /\ l.parent = n.parent
  <2>1. LeftPart(n, A) \in Node
    BY <1>1, LeftPartEffect
  <2>2. LeftPart(n, A).parent = n.parent
    BY DEF LeftPart, Node
  <2> QED
    BY <2>1, <2>2
<1>3. PICK R \in Seq(Cell) : R = RightCells(n, A)
  <2>1. PICK c \in Seq(Cell) : c = n.cells /\ Len(c) \in Nat
    BY CellsType
  <2>2. A + 2 \in 1 .. Len(c) + 1 /\ A + 2 <= Len(c) + 1 /\ Len(c) <= Len(c)
    BY <1>1, <2>1
  <2>3. SubSeq(c, A + 2, Len(c)) \in Seq(Cell)
    BY <2>1, <2>2, SubSeqEffect
  <2> QED
    BY <2>1, <2>3 DEF RightCells
<1>4. PICK u \in Database, q \in Nat : /\ u = Allocated(s, "internal") /\ IsAllocated(u, s, q, "internal")
                                      /\ Listed(u.page, u.first_free_page)
  BY AllocatedEffect
<1>5. /\ q = NewId(s) /\ q \in 1 .. Len(u.page) /\ u.page[q] = NewPage("internal")
      /\ Len(s.page) \in Nat /\ Len(u.page) \in Nat /\ Len(s.page) <= Len(u.page)
      /\ \A x \in 1 .. Len(s.page) : x \in 1 .. Len(u.page) /\ (x # q => u.page[x] = s.page[x])
      /\ p # q
      /\ u.root_page_id = s.root_page_id /\ u.next_row = s.next_row
      /\ \A x \in 1 .. Len(u.page) : x = q \/ x \in 1 .. Len(s.page)
  <2>1. Len(s.page) \in Nat /\ Len(u.page) \in Nat
    BY PagesAre
  <2>2. n.type = "internal"
    BY NodeIsPage
  <2>3. p # q
    BY <1>4, <2>2 DEF IsAllocated
  <2> QED
    BY <1>4, <2>1, <2>3 DEF IsAllocated
<1>6. PICK r : r = [NewPage("internal") EXCEPT !.parent = n.parent, !.cells = R, !.rightmost = n.rightmost]
  OBVIOUS
<1>7. r \in Node /\ r.cells = R /\ r.rightmost = n.rightmost
  <2>1. n.parent \in Nat /\ n.rightmost \in Nat
    BY NodeIsPage
  <2> QED
    BY <1>6, <2>1 DEF NewPage, Node
<1>8. PICK t1 : t1 = [u EXCEPT !.page[p] = l] /\ IsSet(t1, u, p, l)
  <2>1. l \in Page /\ p \in 1 .. Len(u.page)
    BY <1>2, <1>5, NodeIsPage
  <2> QED
    BY <2>1, SetPage
<1>9. PICK t2 : t2 = [t1 EXCEPT !.page[q] = r] /\ IsSet(t2, t1, q, r)
  <2>1. t1 \in Database /\ q \in 1 .. Len(t1.page) /\ r \in Page
    BY <1>5, <1>7, <1>8, NodeIsPage DEF IsSet
  <2> QED
    BY <2>1, SetPage
<1>10. PICK t : t = Adopted(t2, ToSet(Kids(r)), q) /\ IsAdopted(t, t2, ToSet(Kids(r)), q)
  <2>1. t2 \in Database
    BY <1>9 DEF IsSet
  <2> QED
    BY <2>1, AdoptedEffect
<1>11. CutInternal(s, p) = [db |-> t, left |-> p, right |-> q, key |-> PushedUp(n)]
  <2>1. t2 = [Allocated(s, "internal") EXCEPT !.page[p] = LeftPart(n, Middle(n)), !.page[q] = r]
    BY <1>1, <1>2, <1>4, <1>8, <1>9
  <2>2. r = [NewPage("internal") EXCEPT !.parent = n.parent, !.cells = RightCells(n, Middle(n)),
                                        !.rightmost = n.rightmost]
    BY <1>1, <1>3, <1>6
  <2> QED
    BY <1>5, <1>10, <2>1, <2>2 DEF CutInternal
<1>12. \A x \in 1 .. Len(u.page) : t2.page[x] = IF x = q THEN r ELSE IF x = p THEN l ELSE u.page[x]
  BY <1>5, <1>8, <1>9 DEF IsSet
<1>13. /\ t2 \in Database /\ Len(t2.page) = Len(u.page) /\ t2.root_page_id = s.root_page_id
       /\ t2.next_row = s.next_row /\ t2.first_free_page = u.first_free_page
  BY <1>5, <1>8, <1>9 DEF IsSet
<1>14. /\ t \in Database /\ Len(t.page) = Len(u.page) /\ t.root_page_id = s.root_page_id
       /\ t.next_row = s.next_row /\ t.first_free_page = u.first_free_page
       /\ \A x \in 1 .. Len(u.page) :
            /\ SameBody(t.page[x], t2.page[x]) /\ SameLinks(t.page[x], t2.page[x])
            /\ t.page[x].parent = IF x \in ToSet(Kids(r)) THEN q ELSE t2.page[x].parent
  BY <1>10, <1>13 DEF IsAdopted
<1>15. Listed(t.page, t.first_free_page)
  <2>1. ASSUME NEW x \in 1 .. Len(u.page), u.page[x].type = "free"
        PROVE  t.page[x].type = "free" /\ t.page[x].next = u.page[x].next
    <3>1. x # q /\ x # p
      BY <1>5, <2>1, NewPageIs, NodeIsPage
    <3>2. t2.page[x] = u.page[x]
      BY <1>12, <3>1
    <3> QED
      BY <1>14, <2>1, <3>2 DEF SameBody, SameLinks
  <2>2. Len(u.page) <= Len(t.page) /\ Len(t.page) \in Nat
    BY <1>5, <1>14
  <2>3. ASSUME NEW x \in 1 .. Len(t.page), t.page[x].type = "free"
        PROVE  x \in 1 .. Len(u.page) /\ u.page[x].type = "free" /\ t.page[x].rows = u.page[x].rows
    <3>1. x \in 1 .. Len(u.page) /\ t2.page[x].type = "free" /\ t.page[x].rows = t2.page[x].rows
      BY <1>14, <2>3 DEF SameBody
    <3>2. x # q /\ x # p
      BY <1>2, <1>7, <1>12, <3>1, NodeIsPage
    <3> QED
      BY <1>12, <3>1, <3>2
  <2> QED
    BY <1>4, <1>5, <1>14, <2>1, <2>2, <2>3, ListedKept
<1>16. IsNodeCut(t, s, p, q, l, r)
  <2>1. p \in 1 .. Len(u.page) /\ t2.page[p] = l /\ t2.page[q] = r
    BY <1>5, <1>12
  <2>2. ASSUME NEW x \in 1 .. Len(s.page), x # p, x # q
        PROVE  SameBody(t.page[x], s.page[x]) /\ SameLinks(t.page[x], s.page[x])
    <3>1. t2.page[x] = s.page[x] /\ x \in 1 .. Len(u.page)
      BY <1>5, <1>12, <2>2
    <3> QED
      BY <1>14, <3>1
  <2>3. ASSUME NEW x \in 1 .. Len(s.page), x # q
        PROVE  t.page[x].parent = IF x \in ToSet(Kids(r)) THEN q ELSE s.page[x].parent
    <3>1. x \in 1 .. Len(u.page) /\ t2.page[x].parent = s.page[x].parent
      BY <1>2, <1>5, <1>12, <2>3
    <3> QED
      BY <1>14, <3>1
  <2>4. SameBody(t.page[p], l) /\ SameBody(t.page[q], r)
    BY <1>5, <1>14, <2>1
  <2> QED
    BY <1>5, <1>14, <1>15, <2>2, <2>3, <2>4 DEF IsNodeCut
<1> QED
  BY <1>1, <1>2, <1>3, <1>4, <1>7, <1>11, <1>14, <1>16

\* A full node has as many cells as one may have, and both its halves have some.
LEMMA HalvesOfFull ==
  ASSUME NEW n \in Node, ~HasRoom(n), Len(n.cells) <= MAX_CELLS
  PROVE  /\ Middle(n) \in Nat /\ Middle(n) < Len(n.cells)
         /\ 1 <= Middle(n) /\ Middle(n) < MAX_CELLS
         /\ 1 <= Len(n.cells) - (Middle(n) + 1) /\ Len(n.cells) - (Middle(n) + 1) < MAX_CELLS
<1>1. PICK L \in Nat : L = Len(n.cells)
  BY CellsType
<1>2. PICK M \in Nat : M = MAX_CELLS /\ 3 <= M
  <2>1. PICK N \in Nat : N = MIN_CELLS /\ 1 <= N
    BY CellCounts
  <2>2. MAX_CELLS \in Nat /\ N + 2 <= MAX_CELLS
    BY <2>1, CellCounts
  <2> QED
    BY <2>1, <2>2
<1>3. L = M
  <2>1. ~(L + 1 <= MAX_CELLS)
    BY <1>1, CellCounts DEF HasRoom
  <2> QED
    BY <1>1, <1>2, <2>1
<1>4. PICK A \in Nat : A = L \div 2
  OBVIOUS
<1>5. 1 <= A /\ A < L /\ 1 <= L - (A + 1) /\ L - (A + 1) < L
  BY <1>2, <1>3, <1>4
<1>6. Middle(n) = A
  BY <1>1, <1>4, Zenon DEF Middle
<1> QED
  BY <1>1, <1>2, <1>3, <1>5, <1>6

LEMMA CutInternalSound ==
  ASSUME NEW s, NEW store, NEW h, NEW g, NEW at, Sound(s, store, h, g, at, 0), Inside(h, g, at),
         NEW j \in 1 .. h, \A i \in Nat : i >= j => g[i] = at[i],
         NEW p \in Nat, Used(p, at[j]), ~HasRoom(s.page[p])
  PROVE  \E t \in Database, q \in Nat, e \in Ids : \E g2 :
           /\ CutInternal(s, p) = [db |-> t, left |-> p, right |-> q, key |-> e]
           /\ IsCut(g2, g, j, p, q, e) /\ Fresh(q, h, g, at)
           /\ Sound(t, store, h, g2, at, 0) /\ Inside(h, g2, at) /\ SameOthers(t, s, p, q)
           /\ Len(t.page[p].cells) < MAX_CELLS /\ Len(t.page[q].cells) < MAX_CELLS
<1>1. /\ s \in Database /\ Listed(s.page, s.first_free_page)
      /\ Grown(s.page, s.root_page_id, store, h, g, at, 0)
  BY DEF Sound
<1>2. Len(s.page) \in Nat
  BY <1>1, PagesAre
<1>3. /\ IsDivision(h, g, at) /\ LeafLevel(s.page, g[0], store) /\ Chained(s.page, g[0])
      /\ \A i \in 1 .. h : NodeLevel(s.page, g[i], at[i - 1], 0)
      /\ \A i \in 1 .. h : Adopts(s.page, g[i - 1], at[i - 1], g[i])
      /\ s.page[s.root_page_id].parent = 0 /\ \A k \in Ids : at[h][k] = s.root_page_id
  BY <1>1 DEF Grown, IsDivision
<1>4. /\ h \in Nat /\ g \in [Nat -> Division] /\ at \in [Nat -> Division] /\ Apart(h, g, at)
      /\ j \in Nat /\ j \in 0 .. h /\ j # 0 /\ j - 1 \in 0 .. h /\ j - 1 \in Nat /\ j - 1 < j /\ h \in 0 .. h
      /\ g[j] = at[j]
  BY <1>3 DEF IsDivision
<1>5. PICK a \in Division : a = at[j] /\ a = g[j] /\ Contiguous(a)
  BY <1>3, <1>4 DEF IsDivision
<1>6. PICK down \in Division : down = at[j - 1] /\ Contiguous(down)
  BY <1>3, <1>4 DEF IsDivision
<1>7. \A i \in 0 .. h, k \in Ids : /\ g[i][k] \in Nat /\ g[i][k] \in 1 .. Len(s.page)
                                   /\ g[i][k] # 0 /\ s.page[g[i][k]].type # "free"
  BY <1>1, <1>2, PageOfLevel
<1>8. PICK k0 \in Ids : a[k0] = p
  BY <1>5 DEF Used
<1>9. PICK n : n = s.page[p]
  OBVIOUS
<1>10. /\ n \in Node /\ NodeIn(n, p, a, down) /\ Nested(a, down) /\ Len(n.cells) <= MAX_CELLS
       /\ p \in 1 .. Len(s.page) /\ ~HasRoom(n)
  <2>1. NodeLevel(s.page, a, down, 0)
    BY <1>3, <1>5, <1>6
  <2>2. NodeIn(n, p, a, down) /\ Nested(a, down) /\ Len(n.cells) <= MAX_CELLS /\ p \in 1 .. Len(s.page)
    BY <1>8, <1>9, <2>1 DEF NodeLevel
  <2> QED
    BY <1>9, <2>2 DEF NodeIn
<1>11. PICK A \in Nat : /\ A = Middle(n) /\ A < Len(n.cells) /\ 1 <= A /\ A < MAX_CELLS
                        /\ 1 <= Len(n.cells) - (A + 1) /\ Len(n.cells) - (A + 1) < MAX_CELLS
  BY <1>10, HalvesOfFull
<1>12. PICK t, u \in Database, q \in Nat, r \in Node :
         /\ CutInternal(s, p) = [db |-> t, left |-> p, right |-> q, key |-> PushedUp(n)]
         /\ IsAllocated(u, s, q, "internal")
         /\ r.cells = RightCells(n, A) /\ r.rightmost = n.rightmost
         /\ IsNodeCut(t, s, p, q, LeftPart(n, A), r)
  BY <1>1, <1>9, <1>10, <1>11, CutInternalPages
<1>13. Fresh(q, h, g, at)
  BY <1>1, <1>12, AllocatedFresh
<1>14. /\ \A i \in 0 .. h, k \in Ids : g[i][k] # q /\ at[i][k] # q
       /\ p # q /\ \A k \in Ids : a[k] # q
  <2>1. \A i \in 0 .. h, k \in Ids : g[i][k] # q /\ at[i][k] # q
    BY <1>13 DEF Fresh
  <2> QED
    BY <1>4, <1>5, <1>8, <2>1
<1>15. PICK l \in Node, e \in Ids, b \in Division : AreNodesCut(l, r, e, b, n, A, p, q, a, down)
  BY <1>5, <1>6, <1>10, <1>11, <1>12, <1>14, CutNode
<1>16. /\ l = LeftPart(n, A) /\ e = n.cells[A + 1].key /\ b = Shift(a, p, q, e)
       /\ Len(l.cells) = A /\ Len(r.cells) = Len(n.cells) - (A + 1)
       /\ e - 1 \in Ids /\ a[e - 1] = p /\ a[e] = p
       /\ NodeIn(l, p, b, down) /\ NodeIn(r, q, b, down) /\ Nested(b, down)
  BY <1>15 DEF AreNodesCut
<1>17. PICK g2 : IsCut(g2, g, j, p, q, e)
  BY <1>5, <1>14, <1>16 DEF IsCut
<1>18. /\ IsDivision(h, g2, at) /\ Inside(h, g2, at)
       /\ \A i \in Nat : i # j => g2[i] = g[i]
       /\ g2[j] = b /\ IsDivided(b, a, p, q, e)
  <2>1. HasCut(h, g2, g, at, j, p, q, e)
    BY <1>3, <1>4, <1>13, <1>17, CutGhost
  <2> QED
    BY <1>5, <1>16, <2>1 DEF HasCut
<1>19. \A k \in Ids : (b[k] = p \/ b[k] = q \/ (b[k] = a[k] /\ a[k] # p)) /\ (b[k] # q => b[k] = a[k])
  BY <1>18 DEF IsDivided
<1>20. PICK C : /\ C = ToSet(Kids(r))
                /\ \A x \in 1 .. Len(s.page) : x # q =>
                     t.page[x].parent = IF x \in C THEN q ELSE s.page[x].parent
  BY <1>12 DEF IsNodeCut
<1>21. ASSUME NEW x \in C PROVE \E k \in Ids : b[k] = q /\ down[k] = x
  <2>1. EachAsked(r, q, b, down)
    <3>1. Used(q, b)
      <4>1. b[e] = IF a[e] # p THEN a[e] ELSE IF e < e THEN p ELSE q
        BY <1>18 DEF IsDivided
      <4>2. e \in Nat /\ ~(e < e)
        BY IdsAre
      <4> QED
        BY <1>16, <4>1, <4>2 DEF Used
    <3> QED
      BY <1>16, <3>1, KidHasId
  <2>2. PICK i \in 1 .. Len(r.cells) + 1 : Kids(r)[i] = x
    <3>1. Len(Kids(r)) = Len(r.cells) + 1 /\ DOMAIN Kids(r) = 1 .. Len(r.cells) + 1
      BY CellsType DEF Kids
    <3> QED
      BY <1>20, <3>1 DEF ToSet
  <2> QED
    BY <2>1, <2>2 DEF EachAsked
<1>22. ASSUME NEW k \in Ids, b[k] = q PROVE down[k] \in C
  <2>1. KidFor(r, k) = down[k]
    BY <1>16, <1>22 DEF NodeIn
  <2>2. CellFor(r, k) \in 1 .. Len(r.cells) + 1
    BY <1>16, PlaceOf
  <2>3. DOMAIN Kids(r) = 1 .. Len(r.cells) + 1
    BY CellsType DEF Kids
  <2> QED
    BY <1>20, <2>1, <2>2, <2>3 DEF KidFor, ToSet
<1>23. ASSUME NEW i \in 0 .. h, i # j - 1, NEW k \in Ids PROVE g[i][k] \notin C
  <2>1. SUFFICES ASSUME g[i][k] \in C PROVE FALSE
    OBVIOUS
  <2>2. PICK m \in Ids : at[j - 1][m] = g[i][k]
    BY <1>6, <1>21, <2>1
  <2> QED
    BY <1>4, <1>23, <2>2, ApartAt
<1>24. \A x \in 1 .. Len(s.page) : x # q => x \in 1 .. Len(t.page)
  BY <1>2, <1>12, PagesAre DEF IsNodeCut
<1>25. ASSUME NEW i \in 0 .. h, NEW k \in Ids, g[i][k] # p
       PROVE  /\ g[i][k] \in 1 .. Len(t.page) /\ t.page[g[i][k]] \in Page
              /\ SameBody(t.page[g[i][k]], s.page[g[i][k]]) /\ SameLinks(t.page[g[i][k]], s.page[g[i][k]])
  <2>1. g[i][k] \in 1 .. Len(s.page) /\ g[i][k] # q /\ g[i][k] \in 1 .. Len(t.page)
    BY <1>7, <1>14, <1>24
  <2>2. t.page[g[i][k]] \in Page
    BY <1>12, <2>1, PagesAre
  <2> QED
    BY <1>12, <1>25, <2>1, <2>2 DEF IsNodeCut
<1>26. ASSUME NEW i \in 0 .. h, i # j, NEW k \in Ids PROVE g[i][k] # p
  BY <1>4, <1>5, <1>8, <1>26, ApartAt
<1>27. LeafLevel(t.page, g2[0], store) /\ Chained(t.page, g2[0])
  <2>1. 0 \in 0 .. h /\ 0 # j /\ g2[0] = g[0]
    BY <1>4, <1>18
  <2>2. \A k \in Ids : /\ g[0][k] \in 1 .. Len(t.page)
                       /\ SameBody(t.page[g[0][k]], s.page[g[0][k]])
                       /\ SameLinks(t.page[g[0][k]], s.page[g[0][k]])
    BY <1>25, <1>26, <2>1
  <2>3. LeafLevel(t.page, g[0], store)
    BY <1>3, <2>2, LeafLevelKept
  <2>4. Chained(t.page, g[0])
    BY <1>3, <2>2, ChainedKept
  <2> QED
    BY <2>1, <2>3, <2>4
<1>28. /\ p \in 1 .. Len(t.page) /\ q \in 1 .. Len(t.page)
       /\ SameBody(t.page[p], l) /\ SameBody(t.page[q], r)
       /\ t.page[p] \in Page /\ t.page[q] \in Page
  <2>1. p \in 1 .. Len(t.page) /\ q \in 1 .. Len(t.page)
    BY <1>10, <1>12, <1>14, <1>24 DEF IsNodeCut
  <2>2. SameBody(t.page[p], l) /\ SameBody(t.page[q], r)
    BY <1>12, <1>16, SMTT(30) DEF IsNodeCut
  <2> QED
    BY <1>12, <2>1, <2>2, PagesAre
<1>29. NodeLevel(t.page, b, down, 0)
  <2>1. /\ NodeIn(t.page[p], p, b, down) /\ Len(t.page[p].cells) <= MAX_CELLS /\ t.page[p].cells # <<>>
        /\ NodeIn(t.page[q], q, b, down) /\ Len(t.page[q].cells) <= MAX_CELLS /\ t.page[q].cells # <<>>
    <3>1. NodeIn(t.page[p], p, b, down) /\ NodeIn(t.page[q], q, b, down)
      BY <1>16, <1>28, NodeKept
    <3>2. Len(t.page[p].cells) = A /\ Len(t.page[q].cells) = Len(n.cells) - (A + 1)
      BY <1>16, <1>28 DEF SameBody
    <3>3. PICK B \in Nat : B = Len(t.page[q].cells) /\ 1 <= B /\ B < MAX_CELLS /\ MAX_CELLS \in Nat
      <4>1. t.page[q].cells \in Seq(Cell)
        BY <1>28, PageIs
      <4>2. Len(t.page[q].cells) \in Nat
        BY <4>1
      <4> QED
        BY <1>11, <3>2, <4>2, CellCounts
    <3>4. t.page[p].cells # <<>> /\ t.page[q].cells # <<>>
      <4>1. Len(t.page[p].cells) # 0 /\ Len(t.page[q].cells) # 0
        BY <1>11, <3>2, <3>3
      <4> QED
        BY <4>1
    <3> QED
      BY <1>11, <3>1, <3>2, <3>3, <3>4
  <2>2. ASSUME NEW k \in Ids, b[k] = a[k], a[k] # p
        PROVE  /\ b[k] \in 1 .. Len(t.page) /\ NodeIn(t.page[b[k]], b[k], b, down)
               /\ Len(t.page[b[k]].cells) <= MAX_CELLS /\ t.page[b[k]].cells # <<>>
    <3>1. PICK x \in Nat : x = a[k] /\ x # p /\ x # q /\ x # 0
      <4>1. a[k] \in Nat /\ a[k] # 0
        BY <1>4, <1>5, <1>7
      <4> QED
        BY <1>14, <2>2, <4>1
    <3>2. /\ NodeIn(s.page[x], x, a, down) /\ Len(s.page[x].cells) <= MAX_CELLS
          /\ s.page[x].cells # <<>>
      <4>1. NodeLevel(s.page, a, down, 0)
        BY <1>3, <1>5, <1>6
      <4> QED
        BY <3>1, <4>1 DEF NodeLevel
    <3>3. x \in 1 .. Len(t.page) /\ t.page[x] \in Page /\ SameBody(t.page[x], s.page[x])
      BY <1>4, <1>5, <1>25, <3>1
    <3>4. \A m \in Ids : b[m] = x <=> a[m] = x
      BY <1>18, <3>1 DEF IsDivided
    <3>5. NodeIn(s.page[x], x, b, down)
      BY <3>2, <3>4, NodeInSame
    <3>6. NodeIn(t.page[x], x, b, down)
      BY <3>3, <3>5, NodeKept
    <3> QED
      BY <2>2, <3>1, <3>2, <3>3, <3>6 DEF SameBody
  <2>3. ASSUME NEW k \in Ids
        PROVE  /\ b[k] \in 1 .. Len(t.page) /\ NodeIn(t.page[b[k]], b[k], b, down)
               /\ Len(t.page[b[k]].cells) <= MAX_CELLS /\ t.page[b[k]].cells # <<>>
    BY <1>19, <1>28, <2>1, <2>2
  <2> QED
    BY <1>16, <2>3, ZenonT(40) DEF NodeLevel
<1>30. ASSUME NEW i \in 1 .. h PROVE NodeLevel(t.page, g2[i], at[i - 1], 0)
  <2>1. CASE i = j
    BY <1>6, <1>18, <1>29, <2>1
  <2>2. CASE i # j
    <3>1. i \in 0 .. h /\ i \in Nat /\ g2[i] = g[i]
      BY <1>4, <1>18, <2>2
    <3>2. \A k \in Ids : /\ g[i][k] \in 1 .. Len(t.page) /\ t.page[g[i][k]] \in Page
                         /\ SameBody(t.page[g[i][k]], s.page[g[i][k]])
      BY <1>25, <1>26, <2>2, <3>1
    <3>3. NodeLevel(s.page, g[i], at[i - 1], 0)
      BY <1>3
    <3> QED
      BY <3>1, <3>2, <3>3, NodeLevelKept
  <2> QED
    BY <2>1, <2>2
<1>31. ASSUME NEW i \in 1 .. h PROVE Adopts(t.page, g2[i - 1], at[i - 1], g2[i])
  <2>1. /\ i - 1 \in 0 .. h /\ i \in 0 .. h /\ i \in Nat /\ i - 1 \in Nat
        /\ Adopts(s.page, g[i - 1], at[i - 1], g[i])
    BY <1>3, <1>4
  <2>2. SUFFICES ASSUME NEW k \in Ids, g2[i - 1][k] = at[i - 1][k]
                 PROVE  t.page[g2[i - 1][k]].parent = g2[i][k]
    BY DEF Adopts
  <2>3. PICK x : x = at[i - 1][k] /\ x = g2[i - 1][k] /\ x # q
    BY <1>14, <2>1, <2>2
  <2>4. x = g[i - 1][k]
    <3>1. CASE i - 1 = j
      BY <1>5, <1>18, <1>19, <2>3, <3>1
    <3>2. CASE i - 1 # j
      BY <1>18, <2>1, <2>3, <3>2
    <3> QED
      BY <3>1, <3>2
  <2>5. s.page[x].parent = g[i][k] /\ x \in 1 .. Len(s.page)
    BY <1>7, <2>1, <2>3, <2>4 DEF Adopts
  <2>6. t.page[x].parent = IF x \in C THEN q ELSE g[i][k]
    BY <1>20, <2>3, <2>5
  <2>7. CASE i # j
    <3>1. x \notin C
      <4>1. i - 1 # j - 1
        BY <1>4, <2>1, <2>7
      <4> QED
        BY <1>23, <2>1, <2>4, <4>1
    <3>2. g2[i] = g[i]
      BY <1>18, <2>1, <2>7
    <3> QED
      BY <2>3, <2>6, <3>1, <3>2
  <2>8. CASE i = j
    <3>1. g[i] = a /\ g2[i] = b /\ x = down[k]
      BY <1>5, <1>6, <1>18, <2>3, <2>8
    <3>2. CASE b[k] = q
      BY <1>22, <2>3, <2>6, <3>1, <3>2
    <3>3. CASE b[k] # q
      <4>1. x \notin C
        <5>1. SUFFICES ASSUME x \in C PROVE FALSE
          OBVIOUS
        <5>2. PICK m \in Ids : b[m] = q /\ down[m] = x
          BY <1>21, <5>1
        <5> QED
          BY <1>16, <3>1, <3>3, <5>2 DEF Nested
      <4> QED
        BY <1>19, <2>3, <2>6, <3>1, <3>3, <4>1
    <3> QED
      BY <3>2, <3>3
  <2> QED
    BY <2>7, <2>8
<1>32. t.root_page_id = s.root_page_id /\ t.page[s.root_page_id].parent = 0
  <2>1. s.root_page_id = g[h][k0]
    <3>1. g[h] = at[h]
      BY <1>4
    <3> QED
      BY <1>3, <3>1
  <2>2. s.root_page_id \in 1 .. Len(s.page) /\ s.root_page_id # q
    BY <1>4, <1>7, <1>14, <2>1
  <2>3. s.root_page_id \notin C
    <3>1. h # j - 1
      BY <1>4
    <3> QED
      BY <1>4, <1>23, <2>1, <3>1
  <2>4. t.page[s.root_page_id].parent = s.page[s.root_page_id].parent
    BY <1>20, <2>2, <2>3
  <2> QED
    BY <1>3, <1>12, <2>4 DEF IsNodeCut
<1>33. Grown(t.page, t.root_page_id, store, h, g2, at, 0)
  <2>1. /\ h \in Nat /\ g2 \in [Nat -> Division] /\ at \in [Nat -> Division]
        /\ \A i \in 0 .. h : Contiguous(g2[i]) /\ Contiguous(at[i])
        /\ Apart(h, g2, at)
    BY <1>18 DEF IsDivision
  <2> QED
    BY <1>3, <1>27, <1>30, <1>31, <1>32, <2>1 DEF Grown
<1>34. Sound(t, store, h, g2, at, 0)
  <2>1. t \in Database /\ t.next_row = s.next_row /\ Listed(t.page, t.first_free_page)
    BY <1>12 DEF IsNodeCut
  <2> QED
    BY <1>33, <2>1 DEF Sound
<1>35. SameOthers(t, s, p, q)
  BY <1>12 DEF IsNodeCut, SameOthers
<1>36. Len(t.page[p].cells) < MAX_CELLS /\ Len(t.page[q].cells) < MAX_CELLS
  <2>1. Len(t.page[p].cells) = A /\ Len(t.page[q].cells) = Len(n.cells) - (A + 1)
    BY <1>16, <1>28 DEF SameBody
  <2> QED
    BY <1>11, <2>1
<1>37. PushedUp(n) = e
  BY <1>11, <1>16 DEF PushedUp
<1> QED
  BY <1>12, <1>13, <1>17, <1>18, <1>34, <1>35, <1>36, <1>37
=============================================================================
