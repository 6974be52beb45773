-------------------------- MODULE BTreeNodeProofs --------------------------
(***************************************************************************)
(* One page of the tree.  Where a search goes from an internal node, and   *)
(* that the changes to a node keep it right: for nodes of every size, with *)
(* any keys in order.  The space the rows of a leaf take, and that         *)
(* searching, inserting, removing and changing them keeps them in order:   *)
(* for leaves of every size and rows of every length.                      *)
(***************************************************************************)
EXTENDS BTreeNode, Integers, FiniteSetTheorems, WellFoundedInduction, TLAPS

-----------------------------------------------------------------------------
(* Sequences and numbers: what concatenation, SubSeq, InsertAt and RemoveAt do *)
(* at each place, and the least element of a set of numbers, which gives  *)
(* induction with a set in place of a predicate. *)

LEMMA LeastNat ==
  ASSUME NEW T \in SUBSET Nat, T # {}
  PROVE  \E n \in T : \A m \in T : n <= m
<1>1. PICK n \in T : \A m \in T : ~(<<m, n>> \in OpToRel(<, Nat))
  BY NatLessThanWellFounded, WFMin
<1>2. \A m \in T : ~(m < n)
  BY <1>1 DEF OpToRel
<1> QED
  BY <1>2

\* Induction up to n, with a set for the predicate.
LEMMA UpTo ==
  ASSUME NEW n \in Nat, NEW P, 0 \in P, \A i \in 1 .. n : i - 1 \in P => i \in P
  PROVE  \A i \in 0 .. n : i \in P
<1> DEFINE T == {i \in 0 .. n : i \notin P}
<1>1. SUFFICES ASSUME T # {} PROVE FALSE
  OBVIOUS
<1>2. PICK i \in T : \A j \in T : i <= j
  <2>1. T \in SUBSET Nat
    OBVIOUS
  <2> QED
    BY <1>1, <2>1, LeastNat
<1>3. i \in 1 .. n /\ i - 1 \in 0 .. n
  OBVIOUS
<1>4. i - 1 \in P
  BY <1>2, <1>3
<1> QED
  BY <1>3, <1>4

LEMMA ConcatEffect ==
  ASSUME NEW S, NEW s \in Seq(S), NEW t \in Seq(S)
  PROVE  /\ s \o t \in Seq(S) /\ Len(s \o t) = Len(s) + Len(t)
         /\ \A x \in 1 .. Len(s) + Len(t) :
              (s \o t)[x] = IF x <= Len(s) THEN s[x] ELSE t[x - Len(s)]
OBVIOUS

LEMMA SubSeqEffect ==
  ASSUME NEW S, NEW s \in Seq(S), NEW a \in 1 .. Len(s) + 1, NEW b \in Nat,
         a <= b + 1, b <= Len(s)
  PROVE  /\ SubSeq(s, a, b) \in Seq(S) /\ Len(SubSeq(s, a, b)) = b + 1 - a
         /\ \A x \in 1 .. b + 1 - a : SubSeq(s, a, b)[x] = s[a + x - 1]
OBVIOUS

\* A sequence made of an element with sequences before and behind it.
IsAround(d, a, e, b) ==
  /\ Len(d) = Len(a) + 1 + Len(b)
  /\ \A x \in 1 .. Len(a) + 1 + Len(b) :
       d[x] = IF x <= Len(a) THEN a[x] ELSE IF x = Len(a) + 1 THEN e
              ELSE b[x - (Len(a) + 1)]

LEMMA Around ==
  ASSUME NEW S, NEW a \in Seq(S), NEW e \in S, NEW b \in Seq(S), NEW d,
         d = (a \o <<e>>) \o b
  PROVE  d \in Seq(S) /\ IsAround(d, a, e, b)
<1>0. Len(a) \in Nat /\ Len(b) \in Nat
  OBVIOUS
<1>1. PICK c \in Seq(S) : c = a \o <<e>>
  <2>1. <<e>> \in Seq(S)
    OBVIOUS
  <2> QED
    BY <2>1, ConcatEffect
<1>2. /\ Len(c) = Len(a) + 1
      /\ \A x \in 1 .. Len(a) + 1 : c[x] = IF x <= Len(a) THEN a[x] ELSE e
  <2>1. <<e>> \in Seq(S) /\ Len(<<e>>) = 1 /\ <<e>>[1] = e
    OBVIOUS
  <2> QED
    BY <1>0, <1>1, <2>1, ConcatEffect
<1>3. d = c \o b
  BY <1>1
<1>4. /\ d \in Seq(S) /\ Len(d) = Len(c) + Len(b)
      /\ \A x \in 1 .. Len(c) + Len(b) :
              d[x] = IF x <= Len(c) THEN c[x] ELSE b[x - Len(c)]
  <2>1. /\ c \o b \in Seq(S) /\ Len(c \o b) = Len(c) + Len(b)
        /\ \A x \in 1 .. Len(c) + Len(b) :
              (c \o b)[x] = IF x <= Len(c) THEN c[x] ELSE b[x - Len(c)]
    BY ConcatEffect, Zenon
  <2> QED
    BY <1>3, <2>1
<1>5. ASSUME NEW x \in 1 .. Len(a) + 1 + Len(b)
      PROVE  d[x] = IF x <= Len(a) THEN a[x] ELSE IF x = Len(a) + 1 THEN e
                     ELSE b[x - (Len(a) + 1)]
  BY <1>0, <1>2, <1>4
<1> QED
  BY <1>0, <1>2, <1>4, <1>5 DEF IsAround

IsInsertion(d, s, i, e) ==
  /\ Len(d) = Len(s) + 1
  /\ \A x \in 1 .. Len(s) + 1 :
       d[x] = IF x < i THEN s[x] ELSE IF x = i THEN e ELSE s[x - 1]

LEMMA InsertAtEffect ==
  ASSUME NEW S, NEW s \in Seq(S), NEW i \in 1 .. Len(s) + 1, NEW e \in S,
         NEW d, d = InsertAt(s, i, e)
  PROVE  d \in Seq(S) /\ IsInsertion(d, s, i, e)
<1>0. Len(s) \in Nat /\ i \in Nat
  OBVIOUS
<1>1. PICK a \in Seq(S) : a = SubSeq(s, 1, i - 1)
  <2>1. SubSeq(s, 1, i - 1) \in Seq(S)
    BY <1>0
  <2> QED
    BY <2>1
<1>2. PICK b \in Seq(S) : b = SubSeq(s, i, Len(s))
  <2>1. SubSeq(s, i, Len(s)) \in Seq(S)
    BY <1>0
  <2> QED
    BY <2>1
<1>3. Len(a) = i - 1 /\ \A x \in 1 .. i - 1 : a[x] = s[x]
  BY <1>0, <1>1
<1>4. Len(b) = Len(s) + 1 - i /\ \A x \in 1 .. Len(s) + 1 - i : b[x] = s[i + x - 1]
  BY <1>0, <1>2
<1>5. d = (a \o <<e>>) \o b
  BY <1>1, <1>2 DEF InsertAt
<1>6. /\ d \in Seq(S) /\ Len(d) = Len(s) + 1
      /\ \A x \in 1 .. Len(s) + 1 :
           d[x] = IF x <= i - 1 THEN a[x] ELSE IF x = i THEN e ELSE b[x - i]
  <2>1. d \in Seq(S) /\ IsAround(d, a, e, b)
    BY <1>5, Around
  <2> QED
    BY <1>0, <1>3, <1>4, <2>1 DEF IsAround
<1>7. ASSUME NEW x \in 1 .. Len(s) + 1, x > i PROVE b[x - i] = s[x - 1]
  <2>1. x - i \in 1 .. Len(s) + 1 - i /\ i + (x - i) - 1 = x - 1
    BY <1>0, <1>7
  <2> QED
    BY <1>4, <2>1
<1>8. ASSUME NEW x \in 1 .. Len(s) + 1
      PROVE  d[x] = IF x < i THEN s[x] ELSE IF x = i THEN e ELSE s[x - 1]
  <2>1. CASE x \in 1 .. i - 1
    BY <1>0, <1>3, <1>6, <2>1
  <2>2. CASE x = i
    BY <1>0, <1>6, <2>2
  <2>3. CASE x > i
    BY <1>0, <1>6, <1>7, <2>3
  <2> QED
    BY <1>0, <2>1, <2>2, <2>3
<1>9. \A x \in 1 .. Len(s) + 1 :
              d[x] = IF x < i THEN s[x] ELSE IF x = i THEN e ELSE s[x - 1]
  BY <1>8
<1>10. d \in Seq(S) /\ Len(d) = Len(s) + 1
  BY <1>6
<1> QED
  BY <1>9, <1>10 DEF IsInsertion

LEMMA RemoveAtEffect ==
  ASSUME NEW S, NEW s \in Seq(S), NEW i \in 1 .. Len(s), NEW d, d = RemoveAt(s, i)
  PROVE  /\ d \in Seq(S) /\ Len(d) = Len(s) - 1
         /\ \A x \in 1 .. Len(s) - 1 : d[x] = IF x < i THEN s[x] ELSE s[x + 1]
<1>0. Len(s) \in Nat /\ i \in Nat
  OBVIOUS
<1>1. PICK a \in Seq(S) : a = SubSeq(s, 1, i - 1)
  <2>1. SubSeq(s, 1, i - 1) \in Seq(S)
    BY <1>0
  <2> QED
    BY <2>1
<1>2. PICK b \in Seq(S) : b = SubSeq(s, i + 1, Len(s))
  <2>1. SubSeq(s, i + 1, Len(s)) \in Seq(S)
    BY <1>0
  <2> QED
    BY <2>1
<1>3. Len(a) = i - 1 /\ \A x \in 1 .. i - 1 : a[x] = s[x]
  BY <1>0, <1>1
<1>4. Len(b) = Len(s) - i /\ \A x \in 1 .. Len(s) - i : b[x] = s[i + x]
  BY <1>0, <1>2
<1>5. d = a \o b
  BY <1>1, <1>2 DEF RemoveAt
<1>6. /\ d \in Seq(S) /\ Len(d) = Len(s) - 1
      /\ \A x \in 1 .. Len(s) - 1 : d[x] = IF x <= i - 1 THEN a[x] ELSE b[x - (i - 1)]
  <2>1. /\ d \in Seq(S) /\ Len(d) = Len(a) + Len(b)
        /\ \A x \in 1 .. Len(a) + Len(b) :
             d[x] = IF x <= Len(a) THEN a[x] ELSE b[x - Len(a)]
    BY <1>5, ConcatEffect
  <2>2. Len(a) = i - 1 /\ Len(a) + Len(b) = Len(s) - 1
    BY <1>0, <1>3, <1>4
  <2> QED
    BY <2>1, <2>2
<1>7. ASSUME NEW x \in 1 .. Len(s) - 1, x >= i PROVE b[x - (i - 1)] = s[x + 1]
  <2>1. x - (i - 1) \in 1 .. Len(s) - i /\ i + (x - (i - 1)) = x + 1
    BY <1>0, <1>7
  <2> QED
    BY <1>4, <2>1
<1>8. ASSUME NEW x \in 1 .. Len(s) - 1 PROVE d[x] = IF x < i THEN s[x] ELSE s[x + 1]
  <2>1. CASE x \in 1 .. i - 1
    BY <1>0, <1>3, <1>6, <2>1
  <2>2. CASE x >= i
    BY <1>0, <1>6, <1>7, <2>2
  <2> QED
    BY <1>0, <2>1, <2>2
<1>9. d \in Seq(S) /\ Len(d) = Len(s) - 1
  BY <1>6
<1> QED
  BY <1>8, <1>9

IsRemoval(d, s, i) ==
  /\ Len(d) = Len(s) - 1
  /\ \A x \in 1 .. Len(s) - 1 : d[x] = IF x < i THEN s[x] ELSE s[x + 1]

LEMMA RemovalEffect ==
  ASSUME NEW S, NEW s \in Seq(S), NEW i \in 1 .. Len(s), NEW d, d = RemoveAt(s, i)
  PROVE  d \in Seq(S) /\ IsRemoval(d, s, i)
BY RemoveAtEffect DEF IsRemoval

-----------------------------------------------------------------------------
(* Nodes *)

Cell == [child : Nat, key : Nat]
Node == [type : {"internal"}, parent : Nat, next : Nat, prev : Nat, rows : {<<>>},
         cells : Seq(Cell), rightmost : Nat]

Ordered(n) ==
  \A i, j \in 1 .. Len(n.cells) : i < j => n.cells[i].key <= n.cells[j].key

CellKeys(n) == [i \in 1 .. Len(n.cells) |-> n.cells[i].key]

\* The child find_leaf_page descends to in search of q.
KidFor(n, q) == Kids(n)[CellFor(n, q)]

\* The cells before place j have keys up to q, and those from it on larger ones.
Divides(n, j, q) ==
  /\ j \in 1 .. Len(n.cells) + 1
  /\ \A i \in 1 .. Len(n.cells) : IF i < j THEN n.cells[i].key <= q ELSE q < n.cells[i].key

LEMMA CellsType ==
  ASSUME NEW n \in Node
  PROVE  /\ n.cells \in Seq(Cell) /\ Len(n.cells) \in Nat /\ DOMAIN n.cells = 1 .. Len(n.cells)
         /\ \A i \in 1 .. Len(n.cells) : /\ n.cells[i] \in Cell
                                         /\ n.cells[i].key \in Nat
                                         /\ n.cells[i].child \in Nat
         /\ n.rightmost \in Nat
<1>1. n.cells \in Seq(Cell) /\ n.rightmost \in Nat
  BY DEF Node
<1>2. Len(n.cells) \in Nat /\ DOMAIN n.cells = 1 .. Len(n.cells)
  BY <1>1
<1>3. ASSUME NEW i \in 1 .. Len(n.cells) PROVE n.cells[i] \in Cell
  BY <1>1
<1>4. \A c \in Cell : c.key \in Nat /\ c.child \in Nat
  BY DEF Cell
<1> QED
  BY <1>1, <1>2, <1>3, <1>4

LEMMA KidAt ==
  ASSUME NEW n \in Node, NEW i \in 1 .. Len(n.cells) + 1
  PROVE  Kids(n)[i] = IF i <= Len(n.cells) THEN n.cells[i].child ELSE n.rightmost
<1> DEFINE s == [j \in 1 .. Len(n.cells) |-> n.cells[j].child]
<1>1. s \in Seq(Nat) /\ Len(s) = Len(n.cells)
  BY CellsType
<1>2. Kids(n) = Append(s, n.rightmost)
  BY CellsType DEF Kids
<1>3. Append(s, n.rightmost)[i] = IF i <= Len(s) THEN s[i] ELSE n.rightmost
  BY <1>1, CellsType
<1>4. i <= Len(n.cells) => s[i] = n.cells[i].child
  BY CellsType
<1> QED
  BY <1>1, <1>2, <1>3, <1>4

\* The binary search of find_leaf_page ends at the one place that divides.
LEMMA CellForIs ==
  ASSUME NEW n \in Node, NEW q \in Nat, NEW j, Divides(n, j, q)
  PROVE  CellFor(n, q) = j
<1> DEFINE S == {i \in DOMAIN n.cells : n.cells[i].key <= q}
<1>1. j \in 1 .. Len(n.cells) + 1 /\ Len(n.cells) \in Nat
  BY CellsType DEF Divides
<1>2. S = 1 .. j - 1
  <2>1. ASSUME NEW i \in 1 .. Len(n.cells) PROVE n.cells[i].key <= q <=> i < j
    BY <2>1, CellsType DEF Divides
  <2> QED
    BY <1>1, <2>1, CellsType
<1>3. Cardinality(1 .. j - 1) = j - 1
  BY <1>1, FS_Interval
<1>4. CellFor(n, q) = 1 + Cardinality(S)
  BY DEF CellFor
<1> HIDE DEF S
<1> QED
  BY <1>1, <1>2, <1>3, <1>4

LEMMA SomePlaceDivides ==
  ASSUME NEW n \in Node, Ordered(n), NEW q \in Nat
  PROVE  \E j : Divides(n, j, q)
<1> DEFINE L == Len(n.cells)
           T == {j \in 1 .. L : q < n.cells[j].key} \cup {L + 1}
<1>1. L \in Nat /\ T \in SUBSET Nat /\ L + 1 \in T
  BY CellsType
<1>2. PICK j \in T : \A i \in T : j <= i
  BY <1>1, LeastNat
<1>3. \A i \in T : ~(i < j)
  BY <1>1, <1>2
<1>4. j \in 1 .. L + 1
  BY <1>1
<1>5. ASSUME NEW i \in 1 .. L, i < j PROVE n.cells[i].key <= q
  <2>1. i \notin T
    BY <1>3, <1>5
  <2> QED
    BY <2>1, CellsType
<1>6. ASSUME NEW i \in 1 .. L, ~(i < j) PROVE q < n.cells[i].key
  <2>1. j \in 1 .. L /\ j <= i
    BY <1>1, <1>4, <1>6
  <2>2. q < n.cells[j].key
    BY <1>1, <2>1
  <2>3. n.cells[j].key <= n.cells[i].key
    BY <1>6, <2>1, CellsType DEF Ordered
  <2> QED
    BY <1>6, <2>1, <2>2, <2>3, CellsType
<1> QED
  BY <1>4, <1>5, <1>6 DEF Divides

LEMMA CellForDivides ==
  ASSUME NEW n \in Node, Ordered(n), NEW q \in Nat
  PROVE  Divides(n, CellFor(n, q), q)
BY SomePlaceDivides, CellForIs

-----------------------------------------------------------------------------
(* A child is split *)

LEMMA KeysOf ==
  ASSUME NEW n \in Node, NEW x \in 1 .. Len(n.cells)
  PROVE  CellKeys(n)[x] = n.cells[x].key /\ CellKeys(n)[x] \in Nat
BY CellsType DEF CellKeys

LEMMA DividesKeys ==
  ASSUME NEW n \in Node, NEW j, NEW q
  PROVE  Divides(n, j, q) <=>
           /\ j \in 1 .. Len(n.cells) + 1
           /\ \A x \in 1 .. Len(n.cells) : IF x < j THEN CellKeys(n)[x] <= q ELSE q < CellKeys(n)[x]
BY KeysOf DEF Divides

LEMMA OrderedKeys ==
  ASSUME NEW n \in Node
  PROVE  Ordered(n) <=> \A x, y \in 1 .. Len(n.cells) : x < y => CellKeys(n)[x] <= CellKeys(n)[y]
BY KeysOf DEF Ordered

\* A key put in where it divides the others: they stay in order, and what
\* divided them at j before does so at j or one place later.
LEMMA KeyPutIn ==
  ASSUME NEW L \in Nat, NEW i \in 1 .. L + 1, NEW k \in Nat, NEW a, NEW b,
         \A x \in 1 .. L : a[x] \in Nat,
         \A x, y \in 1 .. L : x < y => a[x] <= a[y],
         \A x \in 1 .. L : IF x < i THEN a[x] <= k ELSE k < a[x],
         \A x \in 1 .. L + 1 : b[x] = IF x < i THEN a[x] ELSE IF x = i THEN k ELSE a[x - 1]
  PROVE  /\ \A x, y \in 1 .. L + 1 : x < y => b[x] <= b[y]
         /\ \A q \in Nat, j \in 1 .. L + 1 :
              (\A x \in 1 .. L : IF x < j THEN a[x] <= q ELSE q < a[x])
              => /\ j < i => q < k
                 /\ i < j => k <= q
                 /\ \A x \in 1 .. L + 1 :
                      IF x < (IF q < k THEN j ELSE j + 1) THEN b[x] <= q ELSE q < b[x]
<1>1. ASSUME NEW x \in 1 .. L + 1, NEW y \in 1 .. L + 1, x < y PROVE b[x] <= b[y]
  <2>1. CASE y < i
    BY <1>1, <2>1
  <2>2. CASE y = i
    BY <1>1, <2>2
  <2>3. CASE i < y /\ x < i
    BY <1>1, <2>3
  <2>4. CASE i < y /\ x = i
    BY <1>1, <2>4
  <2>5. CASE i < x
    BY <1>1, <2>5
  <2> QED
    BY <1>1, <2>1, <2>2, <2>3, <2>4, <2>5
<1>2. ASSUME NEW q \in Nat, NEW j \in 1 .. L + 1,
             \A x \in 1 .. L : IF x < j THEN a[x] <= q ELSE q < a[x]
      PROVE  /\ j < i => q < k
             /\ i < j => k <= q
             /\ \A x \in 1 .. L + 1 :
                  IF x < (IF q < k THEN j ELSE j + 1) THEN b[x] <= q ELSE q < b[x]
  <2>1. ASSUME j < i PROVE q < k
    <3>1. j \in 1 .. L /\ q < a[j] /\ a[j] <= k /\ a[j] \in Nat
      BY <1>2, <2>1
    <3> QED
      BY <3>1
  <2>2. ASSUME i < j PROVE k <= q
    <3>1. i \in 1 .. L /\ a[i] <= q /\ k < a[i] /\ a[i] \in Nat
      BY <1>2, <2>2
    <3> QED
      BY <3>1
  <2>3. ASSUME NEW x \in 1 .. L + 1
        PROVE  IF x < (IF q < k THEN j ELSE j + 1) THEN b[x] <= q ELSE q < b[x]
    <3>1. CASE x < i
      <4>1. x \in 1 .. L /\ b[x] = a[x]
        BY <3>1
      <4>2. q < k \/ x < j
        BY <2>1, <3>1
      <4>3. ~(q < k) => x < j /\ i <= j
        BY <2>1, <3>1
      <4> QED
        BY <1>2, <4>1, <4>2, <4>3
    <3>2. CASE x = i
      BY <2>1, <2>2, <3>2
    <3>3. CASE i < x
      <4>1. x - 1 \in 1 .. L /\ b[x] = a[x - 1] /\ i <= x - 1
        BY <3>3
      <4>2. IF x - 1 < j THEN a[x - 1] <= q ELSE q < a[x - 1]
        BY <1>2, <4>1
      <4>3. CASE q < k
        <5>1. j <= i
          BY <2>2, <4>3
        <5> QED
          BY <4>1, <4>2, <4>3, <5>1
      <4>4. CASE ~(q < k)
        BY <4>1, <4>2, <4>4
      <4> QED
        BY <4>3, <4>4
    <3> QED
      BY <3>1, <3>2, <3>3
  <2> QED
    BY <2>1, <2>2, <2>3
<1> QED
  BY <1>1, <1>2

LEMMA CellMade ==
  ASSUME NEW c \in Nat, NEW k \in Nat
  PROVE  /\ [child |-> c, key |-> k] \in Cell
         /\ [child |-> c, key |-> k].child = c /\ [child |-> c, key |-> k].key = k
BY DEF Cell

LEMMA CellChanged ==
  ASSUME NEW c \in Cell, NEW v \in Nat
  PROVE  /\ [c EXCEPT !.child = v] \in Cell
         /\ [c EXCEPT !.child = v].child = v /\ [c EXCEPT !.child = v].key = c.key
BY DEF Cell

LEMMA CellRekeyed ==
  ASSUME NEW c \in Cell, NEW k \in Nat
  PROVE  /\ [c EXCEPT !.key = k] \in Cell
         /\ [c EXCEPT !.key = k].child = c.child /\ [c EXCEPT !.key = k].key = k
BY DEF Cell

\* The keys and the children of a node that has got a cell.
LEMMA WithCellEffect ==
  ASSUME NEW n \in Node, NEW k \in Nat, NEW left \in Nat, NEW right \in Nat,
         CellFor(n, k) \in 1 .. Len(n.cells) + 1
  PROVE  \E i \in 1 .. Len(n.cells) + 1, m \in Node :
         /\ i = CellFor(n, k) /\ m = WithCell(n, k, left, right)
         /\ Len(m.cells) = Len(n.cells) + 1
         /\ \A x \in 1 .. Len(n.cells) + 1 :
              CellKeys(m)[x] = IF x < i THEN CellKeys(n)[x] ELSE IF x = i THEN k ELSE CellKeys(n)[x - 1]
         /\ \A x \in 1 .. Len(n.cells) + 2 :
              Kids(m)[x] = IF x < i THEN Kids(n)[x] ELSE IF x = i THEN left
                           ELSE IF x = i + 1 THEN right ELSE Kids(n)[x - 1]
<1>0. PICK m : m = WithCell(n, k, left, right)
  OBVIOUS
<1>1. PICK L \in Nat : L = Len(n.cells)
  BY CellsType
<1>9. PICK i \in 1 .. L + 1 : i = CellFor(n, k)
  BY <1>1
<1>2. PICK e \in Cell : e = [child |-> left, key |-> k] /\ e.child = left /\ e.key = k
  BY CellMade, Zenon
<1>3. PICK c : c = InsertAt(n.cells, i, e)
  OBVIOUS
<1>4. /\ c \in Seq(Cell) /\ Len(c) = L + 1
      /\ \A x \in 1 .. L + 1 :
           c[x] = IF x < i THEN n.cells[x] ELSE IF x = i THEN e ELSE n.cells[x - 1]
  <2>1. PICK s \in Seq(Cell) : s = n.cells
    BY CellsType
  <2>2. Len(s) = L /\ c = InsertAt(s, i, e) /\ i \in 1 .. Len(s) + 1
    BY <1>1, <1>3, <2>1, Zenon
  <2>3. /\ c \in Seq(Cell) /\ Len(c) = Len(s) + 1
        /\ \A x \in 1 .. Len(s) + 1 :
             c[x] = IF x < i THEN s[x] ELSE IF x = i THEN e ELSE s[x - 1]
    <3>1. c \in Seq(Cell) /\ IsInsertion(c, s, i, e)
      BY <2>2, InsertAtEffect
    <3> QED
      BY <3>1 DEF IsInsertion
  <2> QED
    BY <2>1, <2>2, <2>3, Zenon
<1>5. m = IF i < Len(c)
          THEN [n EXCEPT !.cells = [c EXCEPT ![i + 1].child = right]]
          ELSE [n EXCEPT !.cells = c, !.rightmost = right]
  BY <1>0, <1>9, <1>2, <1>3, Zenon DEF WithCell
\* The cells and the rightmost child in both cases.
<1>6. PICK d \in Seq(Cell), r \in Nat :
         /\ m \in Node /\ m.cells = d /\ m.rightmost = r /\ Len(d) = L + 1
         /\ \A x \in 1 .. L + 1 : d[x].key = c[x].key
         /\ \A x \in 1 .. L + 1 : d[x].child = IF x = i + 1 THEN right ELSE c[x].child
         /\ r = IF i = L + 1 THEN right ELSE n.rightmost
  <2>1. CASE i < L + 1
    <3>1. i + 1 \in 1 .. Len(c)
      BY <1>1, <1>4, <2>1
    <3>2. c[i + 1] \in Cell
      BY <1>4, <3>1
    <3>3. PICK f \in Cell : /\ f = [c[i + 1] EXCEPT !.child = right]
                            /\ f.child = right /\ f.key = c[i + 1].key
      BY <3>2, CellChanged, ZenonT(40)
    <3>4. PICK d : d = [c EXCEPT ![i + 1] = f]
      OBVIOUS
    <3>5. d \in Seq(Cell) /\ Len(d) = L + 1
      BY <1>4, <3>1, <3>4
    <3>6. \A x \in 1 .. L + 1 : d[x] = IF x = i + 1 THEN f ELSE c[x]
      BY <1>4, <3>1, <3>4
    <3>7. m = [n EXCEPT !.cells = d]
      <4>1. d = [c EXCEPT ![i + 1].child = right]
        BY <3>3, <3>4, Zenon
      <4>2. i < Len(c)
        BY <1>4, <2>1
      <4> QED
        BY <1>5, <4>1, <4>2, Zenon
    <3>8. m \in Node /\ m.cells = d /\ m.rightmost = n.rightmost
      BY <3>5, <3>7 DEF Node
    <3>9. \A x \in 1 .. L + 1 : d[x].key = c[x].key
      BY <3>3, <3>6
    <3>10. \A x \in 1 .. L + 1 : d[x].child = IF x = i + 1 THEN right ELSE c[x].child
      BY <3>3, <3>6
    <3>11. n.rightmost = IF i = L + 1 THEN right ELSE n.rightmost
      BY <2>1
    <3> QED
      BY <3>5, <3>8, <3>9, <3>10, <3>11, CellsType
  <2>2. CASE i = L + 1
    <3>1. ~(i < Len(c))
      BY <1>4, <2>2
    <3>2. m = [n EXCEPT !.cells = c, !.rightmost = right]
      BY <1>5, <3>1, Zenon
    <3>3. m \in Node /\ m.cells = c /\ m.rightmost = right
      BY <1>4, <3>2 DEF Node
    <3>4. \A x \in 1 .. L + 1 : x # i + 1
      BY <2>2
    <3> QED
      BY <1>4, <2>2, <3>3, <3>4
  <2> QED
    BY <1>1, <2>1, <2>2
<1>7. ASSUME NEW x \in 1 .. L + 1
      PROVE  CellKeys(m)[x] = IF x < i THEN CellKeys(n)[x] ELSE IF x = i THEN k ELSE CellKeys(n)[x - 1]
  <2>1. CellKeys(m)[x] = c[x].key
    BY <1>6, KeysOf
  <2>2. CASE x < i
    <3>1. x \in 1 .. L /\ c[x] = n.cells[x]
      BY <1>1, <1>4, <2>2
    <3>2. CellKeys(n)[x] = n.cells[x].key
      BY <1>1, <3>1, KeysOf
    <3> QED
      BY <2>1, <2>2, <3>1, <3>2
  <2>3. CASE x = i
    BY <1>2, <1>4, <2>1, <2>3
  <2>4. CASE i < x
    <3>1. x - 1 \in 1 .. L /\ c[x] = n.cells[x - 1] /\ ~(x < i) /\ x # i
      BY <1>1, <1>4, <2>4
    <3>2. CellKeys(n)[x - 1] = n.cells[x - 1].key
      BY <1>1, <3>1, KeysOf
    <3> QED
      BY <2>1, <3>1, <3>2
  <2> QED
    BY <1>1, <2>2, <2>3, <2>4
<1>8. ASSUME NEW x \in 1 .. L + 2
      PROVE  Kids(m)[x] = IF x < i THEN Kids(n)[x] ELSE IF x = i THEN left
                          ELSE IF x = i + 1 THEN right ELSE Kids(n)[x - 1]
  <2>0. x \in 1 .. Len(m.cells) + 1 /\ Len(m.cells) = L + 1
    BY <1>6
  <2>1. Kids(m)[x] = IF x <= L + 1 THEN d[x].child ELSE r
    <3>1. Kids(m)[x] = IF x <= Len(m.cells) THEN m.cells[x].child ELSE m.rightmost
      BY <1>6, <2>0, KidAt, Zenon
    <3> QED
      BY <1>6, <2>0, <3>1, Zenon
  <2>2. CASE x < i
    <3>1. x \in 1 .. L /\ c[x] = n.cells[x] /\ x <= L + 1 /\ x # i + 1
      BY <1>1, <1>4, <2>2, SMTT(30)
    <3>2. Kids(n)[x] = n.cells[x].child
      BY <1>1, <3>1, KidAt, SMTT(30)
    <3> QED
      BY <1>6, <2>1, <2>2, <3>1, <3>2, SMTT(30)
  <2>3. CASE x = i
    <3>1. c[x] = e /\ x <= L + 1 /\ x # i + 1
      BY <1>1, <1>4, <2>3, SMTT(30)
    <3> QED
      BY <1>2, <1>6, <2>1, <2>3, <3>1, SMTT(30)
  <2>4. CASE x = i + 1
    BY <1>1, <1>6, <2>1, <2>4, SMTT(30)
  <2>5. CASE i + 1 < x /\ x <= L + 1
    <3>0. x - 1 \in 1 .. L /\ x \in 1 .. L + 1 /\ ~(x < i) /\ x # i
      BY <2>5
    <3>1. c[x] = n.cells[x - 1]
      BY <1>4, <3>0, Zenon
    <3>2. Kids(n)[x - 1] = n.cells[x - 1].child
      BY <1>1, <3>0, KidAt, SMTT(30)
    <3> QED
      BY <1>6, <2>1, <2>5, <3>0, <3>1, <3>2
  <2>6. CASE i + 1 < x /\ x = L + 2
    <3>1. Kids(n)[x - 1] = n.rightmost
      BY <1>1, <2>6, KidAt, SMTT(30)
    <3> QED
      BY <1>1, <1>6, <2>1, <2>6, <3>1, SMTT(30)
  <2> QED
    BY <1>1, <2>2, <2>3, <2>4, <2>5, <2>6, SMTT(30)
<1> QED
  <2>1. Len(m.cells) = L + 1
    BY <1>6
  <2> QED
    BY <1>0, <1>1, <1>9, <1>6, <1>7, <1>8, <2>1, ZenonT(40)

(* A cell for a split child keeps the node in order, and changes the way   *)
(* for no key but those that led to the child split: they are divided at   *)
(* the new key (insert_internal_cell, btree.cpp:15).                      *)
THEOREM WithCellRoutes ==
  ASSUME NEW n \in Node, Ordered(n), NEW k \in Nat, NEW left \in Nat, NEW right \in Nat
  PROVE  \E m \in Node :
         /\ m = WithCell(n, k, left, right) /\ Ordered(m)
         /\ Len(m.cells) = Len(n.cells) + 1
         /\ \A x \in 1 .. Len(n.cells) + 1 :
              CellKeys(m)[x] = IF x < CellFor(n, k) THEN CellKeys(n)[x]
                           ELSE IF x = CellFor(n, k) THEN k ELSE CellKeys(n)[x - 1]
         /\ \A q \in Nat :
              KidFor(m, q) = IF CellFor(n, q) # CellFor(n, k) THEN KidFor(n, q)
                             ELSE IF q < k THEN left ELSE right
<1>1. PICK L \in Nat : L = Len(n.cells)
  BY CellsType
<1>2. Divides(n, CellFor(n, k), k) /\ CellFor(n, k) \in 1 .. Len(n.cells) + 1
  BY CellForDivides DEF Divides
<1>3. PICK i \in 1 .. L + 1, m \in Node :
      /\ i = CellFor(n, k) /\ m = WithCell(n, k, left, right)
      /\ Divides(n, i, k) /\ Len(m.cells) = L + 1
      /\ \A x \in 1 .. L + 1 :
           CellKeys(m)[x] = IF x < i THEN CellKeys(n)[x] ELSE IF x = i THEN k ELSE CellKeys(n)[x - 1]
      /\ \A x \in 1 .. L + 2 :
           Kids(m)[x] = IF x < i THEN Kids(n)[x] ELSE IF x = i THEN left
                        ELSE IF x = i + 1 THEN right ELSE Kids(n)[x - 1]
  <2>1. PICK i \in 1 .. Len(n.cells) + 1, m \in Node :
         /\ i = CellFor(n, k) /\ m = WithCell(n, k, left, right)
         /\ Len(m.cells) = Len(n.cells) + 1
         /\ \A x \in 1 .. Len(n.cells) + 1 :
              CellKeys(m)[x] = IF x < i THEN CellKeys(n)[x] ELSE IF x = i THEN k ELSE CellKeys(n)[x - 1]
         /\ \A x \in 1 .. Len(n.cells) + 2 :
              Kids(m)[x] = IF x < i THEN Kids(n)[x] ELSE IF x = i THEN left
                           ELSE IF x = i + 1 THEN right ELSE Kids(n)[x - 1]
    BY <1>2, WithCellEffect, SMTT(30)
  <2>2. Divides(n, i, k)
    BY <1>2, <2>1
  <2> QED
    BY <1>1, <2>1, <2>2, ZenonT(40)
<1>4. /\ \A x, y \in 1 .. L + 1 : x < y => CellKeys(m)[x] <= CellKeys(m)[y]
      /\ \A q \in Nat, j \in 1 .. L + 1 :
           (\A x \in 1 .. L : IF x < j THEN CellKeys(n)[x] <= q ELSE q < CellKeys(n)[x])
           => /\ j < i => q < k
              /\ i < j => k <= q
              /\ \A x \in 1 .. L + 1 :
                   IF x < (IF q < k THEN j ELSE j + 1) THEN CellKeys(m)[x] <= q
                   ELSE q < CellKeys(m)[x]
  <2>1. PICK a : a = CellKeys(n)
    OBVIOUS
  <2>2. PICK b : b = CellKeys(m)
    OBVIOUS
  <2>3. \A x \in 1 .. L : a[x] \in Nat
    BY <1>1, <2>1, KeysOf
  <2>4. \A x, y \in 1 .. L : x < y => a[x] <= a[y]
    BY <1>1, <2>1, OrderedKeys
  <2>5. \A x \in 1 .. L : IF x < i THEN a[x] <= k ELSE k < a[x]
    BY <1>1, <1>3, <2>1, DividesKeys
  <2>6. \A x \in 1 .. L + 1 : b[x] = IF x < i THEN a[x] ELSE IF x = i THEN k ELSE a[x - 1]
    BY <1>3, <2>1, <2>2, Zenon
  <2>7. /\ \A x, y \in 1 .. L + 1 : x < y => b[x] <= b[y]
        /\ \A q \in Nat, j \in 1 .. L + 1 :
             (\A x \in 1 .. L : IF x < j THEN a[x] <= q ELSE q < a[x])
             => /\ j < i => q < k
                /\ i < j => k <= q
                /\ \A x \in 1 .. L + 1 :
                     IF x < (IF q < k THEN j ELSE j + 1) THEN b[x] <= q ELSE q < b[x]
    BY <2>3, <2>4, <2>5, <2>6, KeyPutIn
  <2> QED
    BY <2>1, <2>2, <2>7, Zenon
<1>5. Ordered(m)
  BY <1>3, <1>4, OrderedKeys
<1>6. ASSUME NEW q \in Nat
      PROVE  KidFor(m, q) = IF CellFor(n, q) # i THEN KidFor(n, q)
                            ELSE IF q < k THEN left ELSE right
  <2>1. PICK j \in 1 .. L + 1 : j = CellFor(n, q) /\ Divides(n, j, q)
    BY <1>1, CellForDivides DEF Divides
  <2>2. \A x \in 1 .. L : IF x < j THEN CellKeys(n)[x] <= q ELSE q < CellKeys(n)[x]
    BY <1>1, <2>1, DividesKeys
  <2>3. /\ j < i => q < k
        /\ i < j => k <= q
        /\ \A x \in 1 .. L + 1 :
             IF x < (IF q < k THEN j ELSE j + 1) THEN CellKeys(m)[x] <= q ELSE q < CellKeys(m)[x]
    BY <1>4, <2>2
  <2>4. PICK h : h = IF q < k THEN j ELSE j + 1
    OBVIOUS
  <2>5. h \in 1 .. L + 2
    BY <2>4
  <2>6. CellFor(m, q) = h
    <3>1. Divides(m, h, q)
      <4>1. \A x \in 1 .. L + 1 : IF x < h THEN CellKeys(m)[x] <= q ELSE q < CellKeys(m)[x]
        BY <2>3, <2>4, Zenon
      <4>2. h \in 1 .. Len(m.cells) + 1
        BY <1>3, <2>5
      <4> QED
        BY <1>3, <4>1, <4>2, DividesKeys, Zenon
    <3> QED
      BY <1>3, <3>1, CellForIs
  <2>7. KidFor(m, q) = Kids(m)[h] /\ KidFor(n, q) = Kids(n)[j]
    BY <2>1, <2>6 DEF KidFor
  <2>8. Kids(m)[h] = IF h < i THEN Kids(n)[h] ELSE IF h = i THEN left
                     ELSE IF h = i + 1 THEN right ELSE Kids(n)[h - 1]
    BY <1>3, <2>5
  <2>9. CASE q < k
    <3>1. h = j /\ j <= i
      BY <2>3, <2>4, <2>9
    <3> QED
      BY <2>1, <2>7, <2>8, <2>9, <3>1
  <2>10. CASE ~(q < k)
    <3>1. h = j + 1 /\ i <= j
      BY <2>3, <2>4, <2>10
    <3>2. h - 1 = j
      BY <3>1
    <3>3. i = j \/ i < j
      BY <3>1
    <3> QED
      BY <2>1, <2>7, <2>8, <2>10, <3>1, <3>2, <3>3
  <2> QED
    BY <2>9, <2>10
<1> QED
  BY <1>1, <1>3, <1>5, <1>6, Zenon

-----------------------------------------------------------------------------
(* Two nodes become one *)

\* n is l and r with the key k between them.
IsJoin(n, l, r, k) ==
  /\ Len(n.cells) = Len(l.cells) + 1 + Len(r.cells)
  /\ \A x \in 1 .. Len(n.cells) :
       CellKeys(n)[x] = IF x <= Len(l.cells) THEN CellKeys(l)[x]
                    ELSE IF x = Len(l.cells) + 1 THEN k ELSE CellKeys(r)[x - (Len(l.cells) + 1)]
  /\ \A x \in 1 .. Len(n.cells) + 1 :
       Kids(n)[x] = IF x <= Len(l.cells) + 1 THEN Kids(l)[x]
                    ELSE Kids(r)[x - (Len(l.cells) + 1)]

KeysUpTo(n, k) == \A x \in 1 .. Len(n.cells) : n.cells[x].key <= k
KeysFrom(n, k) == \A x \in 1 .. Len(n.cells) : k <= n.cells[x].key

\* The keys on both sides of k: which order they are in, and what divides them.
LEMMA KeysJoined ==
  ASSUME NEW A \in Nat, NEW B \in Nat, NEW k \in Nat, NEW a, NEW b, NEW c,
         \A x \in 1 .. A : a[x] \in Nat /\ a[x] <= k,
         \A x \in 1 .. B : b[x] \in Nat /\ k <= b[x],
         \A x, y \in 1 .. A : x < y => a[x] <= a[y],
         \A x, y \in 1 .. B : x < y => b[x] <= b[y],
         \A x \in 1 .. A + 1 + B :
           c[x] = IF x <= A THEN a[x] ELSE IF x = A + 1 THEN k ELSE b[x - (A + 1)]
  PROVE  /\ \A x, y \in 1 .. A + 1 + B : x < y => c[x] <= c[y]
         /\ \A q \in Nat, j \in 1 .. A + 1 :
              (q < k /\ \A x \in 1 .. A : IF x < j THEN a[x] <= q ELSE q < a[x])
              => \A x \in 1 .. A + 1 + B : IF x < j THEN c[x] <= q ELSE q < c[x]
         /\ \A q \in Nat, j \in 1 .. B + 1 :
              (k <= q /\ \A x \in 1 .. B : IF x < j THEN b[x] <= q ELSE q < b[x])
              => \A x \in 1 .. A + 1 + B : IF x < A + 1 + j THEN c[x] <= q ELSE q < c[x]
<1>0. ASSUME NEW x \in 1 .. A + 1 + B
      PROVE  /\ x <= A => x \in 1 .. A /\ c[x] = a[x]
             /\ x = A + 1 => c[x] = k
             /\ A + 1 < x => x - (A + 1) \in 1 .. B /\ c[x] = b[x - (A + 1)]
  BY <1>0
<1>1. ASSUME NEW x \in 1 .. A + 1 + B, NEW y \in 1 .. A + 1 + B, x < y PROVE c[x] <= c[y]
  <2>1. CASE y <= A
    BY <1>0, <1>1, <2>1
  <2>2. CASE x <= A + 1 /\ A + 1 <= y
    <3>1. c[x] <= k /\ c[x] \in Nat
      BY <1>0, <2>2
    <3>2. k <= c[y] /\ c[y] \in Nat
      BY <1>0, <2>2
    <3> QED
      BY <3>1, <3>2
  <2>3. CASE A + 1 < x
    <3>1. x - (A + 1) < y - (A + 1) /\ A + 1 < y
      BY <1>1, <2>3
    <3> QED
      BY <1>0, <2>3, <3>1
  <2> QED
    BY <1>1, <2>1, <2>2, <2>3
<1>2. ASSUME NEW q \in Nat, NEW j \in 1 .. A + 1, q < k,
             \A x \in 1 .. A : IF x < j THEN a[x] <= q ELSE q < a[x],
             NEW x \in 1 .. A + 1 + B
      PROVE  IF x < j THEN c[x] <= q ELSE q < c[x]
  <2>1. CASE x <= A
    BY <1>0, <1>2, <2>1
  <2>2. CASE x = A + 1
    BY <1>0, <1>2, <2>2
  <2>3. CASE A + 1 < x
    <3>1. k <= c[x] /\ c[x] \in Nat
      BY <1>0, <2>3
    <3> QED
      BY <1>2, <2>3, <3>1
  <2> QED
    BY <2>1, <2>2, <2>3
<1>3. ASSUME NEW q \in Nat, NEW j \in 1 .. B + 1, k <= q,
             \A x \in 1 .. B : IF x < j THEN b[x] <= q ELSE q < b[x],
             NEW x \in 1 .. A + 1 + B
      PROVE  IF x < A + 1 + j THEN c[x] <= q ELSE q < c[x]
  <2>1. CASE x <= A
    <3>1. c[x] <= k /\ c[x] \in Nat
      BY <1>0, <2>1
    <3> QED
      BY <1>3, <2>1, <3>1
  <2>2. CASE x = A + 1
    BY <1>0, <1>3, <2>2
  <2>3. CASE A + 1 < x
    <3>1. IF x - (A + 1) < j THEN c[x] <= q ELSE q < c[x]
      BY <1>0, <1>3, <2>3
    <3> QED
      BY <2>3, <3>1
  <2> QED
    BY <2>1, <2>2, <2>3
<1> QED
  BY <1>1, <1>2, <1>3

\* Where a search goes from a node that is a join.
LEMMA JoinRoutes ==
  ASSUME NEW n \in Node, NEW l \in Node, NEW r \in Node, NEW k \in Nat,
         IsJoin(n, l, r, k), Ordered(l), Ordered(r), KeysUpTo(l, k), KeysFrom(r, k)
  PROVE  /\ Ordered(n)
         /\ \A q \in Nat : KidFor(n, q) = IF q < k THEN KidFor(l, q) ELSE KidFor(r, q)
<1>1. PICK A \in Nat : A = Len(l.cells)
  BY CellsType
<1>2. PICK B \in Nat : B = Len(r.cells)
  BY CellsType
<1>3. Len(n.cells) = A + 1 + B
  BY <1>1, <1>2 DEF IsJoin
<1>4. \A x \in 1 .. A + 1 + B :
        CellKeys(n)[x] = IF x <= A THEN CellKeys(l)[x]
                     ELSE IF x = A + 1 THEN k ELSE CellKeys(r)[x - (A + 1)]
  BY <1>1, <1>3, Zenon DEF IsJoin
<1>5. \A x \in 1 .. A + 1 + B + 1 :
        Kids(n)[x] = IF x <= A + 1 THEN Kids(l)[x] ELSE Kids(r)[x - (A + 1)]
  BY <1>1, <1>3, Zenon DEF IsJoin
<1>6. /\ \A x, y \in 1 .. A + 1 + B : x < y => CellKeys(n)[x] <= CellKeys(n)[y]
      /\ \A q \in Nat, j \in 1 .. A + 1 :
           (q < k /\ \A x \in 1 .. A : IF x < j THEN CellKeys(l)[x] <= q ELSE q < CellKeys(l)[x])
           => \A x \in 1 .. A + 1 + B : IF x < j THEN CellKeys(n)[x] <= q ELSE q < CellKeys(n)[x]
      /\ \A q \in Nat, j \in 1 .. B + 1 :
           (k <= q /\ \A x \in 1 .. B : IF x < j THEN CellKeys(r)[x] <= q ELSE q < CellKeys(r)[x])
           => \A x \in 1 .. A + 1 + B :
                IF x < A + 1 + j THEN CellKeys(n)[x] <= q ELSE q < CellKeys(n)[x]
  <2>1. PICK a : a = CellKeys(l)
    OBVIOUS
  <2>2. PICK b : b = CellKeys(r)
    OBVIOUS
  <2>3. PICK c : c = CellKeys(n)
    OBVIOUS
  <2>4. \A x \in 1 .. A : a[x] \in Nat /\ a[x] <= k
    BY <1>1, <2>1, KeysOf DEF KeysUpTo
  <2>5. \A x \in 1 .. B : b[x] \in Nat /\ k <= b[x]
    BY <1>2, <2>2, KeysOf DEF KeysFrom
  <2>6. \A x, y \in 1 .. A : x < y => a[x] <= a[y]
    BY <1>1, <2>1, OrderedKeys
  <2>7. \A x, y \in 1 .. B : x < y => b[x] <= b[y]
    BY <1>2, <2>2, OrderedKeys
  <2>8. \A x \in 1 .. A + 1 + B :
          c[x] = IF x <= A THEN a[x] ELSE IF x = A + 1 THEN k ELSE b[x - (A + 1)]
    BY <1>4, <2>1, <2>2, <2>3, Zenon
  <2>9. /\ \A x, y \in 1 .. A + 1 + B : x < y => c[x] <= c[y]
        /\ \A q \in Nat, j \in 1 .. A + 1 :
             (q < k /\ \A x \in 1 .. A : IF x < j THEN a[x] <= q ELSE q < a[x])
             => \A x \in 1 .. A + 1 + B : IF x < j THEN c[x] <= q ELSE q < c[x]
        /\ \A q \in Nat, j \in 1 .. B + 1 :
             (k <= q /\ \A x \in 1 .. B : IF x < j THEN b[x] <= q ELSE q < b[x])
             => \A x \in 1 .. A + 1 + B : IF x < A + 1 + j THEN c[x] <= q ELSE q < c[x]
    BY <2>4, <2>5, <2>6, <2>7, <2>8, KeysJoined
  <2> QED
    BY <2>1, <2>2, <2>3, <2>9, Zenon
<1>7. Ordered(n)
  BY <1>3, <1>6, OrderedKeys
<1>8. ASSUME NEW q \in Nat
      PROVE  KidFor(n, q) = IF q < k THEN KidFor(l, q) ELSE KidFor(r, q)
  <2>1. CASE q < k
    <3>1. PICK j \in 1 .. A + 1 : j = CellFor(l, q) /\ Divides(l, j, q)
      BY <1>1, CellForDivides DEF Divides
    <3>2. \A x \in 1 .. A : IF x < j THEN CellKeys(l)[x] <= q ELSE q < CellKeys(l)[x]
      BY <1>1, <3>1, DividesKeys
    <3>3. \A x \in 1 .. A + 1 + B : IF x < j THEN CellKeys(n)[x] <= q ELSE q < CellKeys(n)[x]
      BY <1>6, <2>1, <3>2, Zenon
    <3>4. j \in 1 .. A + 1 + B + 1
      OBVIOUS
    <3>5. Divides(n, j, q)
      BY <1>3, <3>3, <3>4, DividesKeys, Zenon
    <3>6. CellFor(n, q) = j
      BY <3>5, CellForIs
    <3>7. Kids(n)[j] = Kids(l)[j]
      BY <1>5, <3>4
    <3> QED
      BY <2>1, <3>1, <3>6, <3>7 DEF KidFor
  <2>2. CASE ~(q < k)
    <3>1. PICK j \in 1 .. B + 1 : j = CellFor(r, q) /\ Divides(r, j, q)
      BY <1>2, CellForDivides DEF Divides
    <3>2. \A x \in 1 .. B : IF x < j THEN CellKeys(r)[x] <= q ELSE q < CellKeys(r)[x]
      BY <1>2, <3>1, DividesKeys
    <3>3. k <= q
      BY <2>2
    <3>4. \A x \in 1 .. A + 1 + B :
            IF x < A + 1 + j THEN CellKeys(n)[x] <= q ELSE q < CellKeys(n)[x]
      BY <1>6, <3>2, <3>3, Zenon
    <3>5. A + 1 + j \in 1 .. A + 1 + B + 1
      OBVIOUS
    <3>6. Divides(n, A + 1 + j, q)
      BY <1>3, <3>4, <3>5, DividesKeys, Zenon
    <3>7. CellFor(n, q) = A + 1 + j
      BY <3>6, CellForIs
    <3>8. ~(A + 1 + j <= A + 1) /\ (A + 1 + j) - (A + 1) = j
      OBVIOUS
    <3>9. Kids(n)[A + 1 + j] = Kids(r)[j]
      BY <1>5, <3>5, <3>8
    <3> QED
      BY <2>2, <3>1, <3>7, <3>9 DEF KidFor
  <2> QED
    BY <2>1, <2>2
<1> QED
  BY <1>7, <1>8

(* Two neighbours whose keys do not cross the key between them become one  *)
(* node (merge_internal, btree.cpp:278) that sends every key where the two *)
(* did: those below the key between as the left one, the others as the     *)
(* right one.                                                              *)
THEOREM JoinedRoutes ==
  ASSUME NEW l \in Node, NEW r \in Node, NEW k \in Nat, Ordered(l), Ordered(r),
         KeysUpTo(l, k), KeysFrom(r, k)
  PROVE  \E n \in Node :
         /\ n = Joined(l, r, k) /\ Ordered(n) /\ IsJoin(n, l, r, k)
         /\ \A q \in Nat : KidFor(n, q) = IF q < k THEN KidFor(l, q) ELSE KidFor(r, q)
<1>1. PICK A \in Nat : A = Len(l.cells)
  BY CellsType
<1>2. PICK B \in Nat : B = Len(r.cells)
  BY CellsType
<1>3. PICK a \in Seq(Cell) : a = l.cells
  BY CellsType
<1>4. PICK b \in Seq(Cell) : b = r.cells
  BY CellsType
<1>5. l.rightmost \in Nat /\ r.rightmost \in Nat
  BY CellsType
<1>6. PICK e \in Cell : /\ e = [child |-> l.rightmost, key |-> k]
                        /\ e.child = l.rightmost /\ e.key = k
  BY <1>5, CellMade, Zenon
<1>7. PICK d : d = (a \o <<e>>) \o b
  OBVIOUS
<1>8. Len(a) = A /\ Len(b) = B
  BY <1>1, <1>2, <1>3, <1>4
<1>9. /\ d \in Seq(Cell) /\ Len(d) = A + 1 + B
      /\ \A x \in 1 .. A + 1 + B :
           d[x] = IF x <= A THEN a[x] ELSE IF x = A + 1 THEN e ELSE b[x - (A + 1)]
  <2>1. d \in Seq(Cell) /\ IsAround(d, a, e, b)
    BY <1>7, Around
  <2> QED
    BY <1>8, <2>1, Zenon DEF IsAround
<1>10. PICK n : n = Joined(l, r, k)
  OBVIOUS
<1>11. n = [l EXCEPT !.cells = d, !.rightmost = r.rightmost]
  BY <1>3, <1>4, <1>6, <1>7, <1>10, Zenon DEF Joined
<1>12. n \in Node /\ n.cells = d /\ n.rightmost = r.rightmost
  BY <1>5, <1>9, <1>11 DEF Node
<1>13. Len(n.cells) = A + 1 + B
  BY <1>9, <1>12
<1>14. ASSUME NEW x \in 1 .. A + 1 + B
       PROVE  CellKeys(n)[x] = IF x <= A THEN CellKeys(l)[x]
                           ELSE IF x = A + 1 THEN k ELSE CellKeys(r)[x - (A + 1)]
  <2>1. CellKeys(n)[x] = d[x].key
    BY <1>12, <1>13, KeysOf
  <2>2. CASE x <= A
    <3>1. CellKeys(l)[x] = a[x].key
      BY <1>1, <1>3, <2>2, KeysOf
    <3> QED
      BY <1>9, <2>1, <2>2, <3>1
  <2>3. CASE x = A + 1
    BY <1>6, <1>9, <2>1, <2>3
  <2>4. CASE A + 1 < x
    <3>1. x - (A + 1) \in 1 .. B /\ ~(x <= A) /\ x # A + 1
      BY <2>4
    <3>2. CellKeys(r)[x - (A + 1)] = b[x - (A + 1)].key
      BY <1>2, <1>4, <3>1, KeysOf
    <3> QED
      BY <1>9, <2>1, <3>1, <3>2
  <2> QED
    BY <2>2, <2>3, <2>4
<1>15. ASSUME NEW x \in 1 .. A + 1 + B + 1
       PROVE  Kids(n)[x] = IF x <= A + 1 THEN Kids(l)[x] ELSE Kids(r)[x - (A + 1)]
  <2>1. Kids(n)[x] = IF x <= A + 1 + B THEN d[x].child ELSE r.rightmost
    <3>1. x \in 1 .. Len(n.cells) + 1
      BY <1>13
    <3>2. Kids(n)[x] = IF x <= Len(n.cells) THEN n.cells[x].child ELSE n.rightmost
      BY <1>12, <3>1, KidAt, Zenon
    <3> QED
      BY <1>12, <1>13, <3>2, Zenon
  <2>2. CASE x <= A
    <3>0. x \in 1 .. Len(l.cells) + 1 /\ x <= Len(l.cells)
      BY <1>1, <2>2
    <3>1. Kids(l)[x] = a[x].child
      BY <1>3, <3>0, KidAt
    <3> QED
      BY <1>9, <2>1, <2>2, <3>1, SMTT(30)
  <2>3. CASE x = A + 1
    <3>1. Kids(l)[x] = l.rightmost
      BY <1>1, <2>3, KidAt, SMTT(30)
    <3> QED
      BY <1>6, <1>9, <2>1, <2>3, <3>1
  <2>4. CASE A + 1 < x /\ x <= A + 1 + B
    <3>1. x - (A + 1) \in 1 .. B /\ ~(x <= A + 1) /\ ~(x <= A) /\ x # A + 1
      BY <2>4
    <3>2. Kids(r)[x - (A + 1)] = b[x - (A + 1)].child
      BY <1>2, <1>4, <3>1, KidAt
    <3> QED
      BY <1>9, <2>1, <2>4, <3>1, <3>2, SMTT(30)
  <2>5. CASE x = A + 1 + B + 1
    <3>1. x - (A + 1) = B + 1 /\ ~(x <= A + 1) /\ ~(x <= A + 1 + B)
      BY <2>5
    <3>2. B + 1 \in 1 .. Len(r.cells) + 1 /\ ~(B + 1 <= Len(r.cells))
      BY <1>2
    <3>3. Kids(r)[B + 1] = r.rightmost
      BY <3>2, KidAt
    <3> QED
      BY <2>1, <3>1, <3>3
  <2> QED
    BY <2>2, <2>3, <2>4, <2>5
<1>16. IsJoin(n, l, r, k)
  BY <1>1, <1>2, <1>13, <1>14, <1>15, Zenon DEF IsJoin
<1> QED
  BY <1>10, <1>12, <1>16, JoinRoutes

-----------------------------------------------------------------------------
(* A node becomes two *)

\* What is left of the first a cells.
IsLeftPart(l, n, a) ==
  /\ Len(l.cells) = a
  /\ \A x \in 1 .. a : l.cells[x] = n.cells[x]
  /\ \A x \in 1 .. a + 1 : Kids(l)[x] = Kids(n)[x]

LEMMA LeftPartEffect ==
  ASSUME NEW n \in Node, NEW a \in Nat, a < Len(n.cells)
  PROVE  LeftPart(n, a) \in Node /\ IsLeftPart(LeftPart(n, a), n, a)
<1>1. PICK c \in Seq(Cell) : c = n.cells
  BY CellsType
<1>2. PICK d : d = SubSeq(c, 1, a)
  OBVIOUS
<1>3. d \in Seq(Cell) /\ Len(d) = a /\ \A x \in 1 .. a : d[x] = c[x]
  <2>1. 1 \in 1 .. Len(c) + 1 /\ 1 <= a + 1 /\ a <= Len(c) /\ a + 1 - 1 = a
    BY <1>1
  <2>2. d \in Seq(Cell) /\ Len(d) = a
    BY <1>2, <2>1
  <2>3. ASSUME NEW x \in 1 .. a PROVE d[x] = c[x]
    BY <1>2, <2>1
  <2> QED
    BY <2>2, <2>3
<1>4. a + 1 \in 1 .. Len(n.cells) /\ n.cells[a + 1].child \in Nat
  BY CellsType
<1>5. PICK l : l = LeftPart(n, a)
  OBVIOUS
<1>6. l = [n EXCEPT !.cells = d, !.rightmost = n.cells[a + 1].child]
  BY <1>1, <1>2, <1>5, Zenon DEF LeftPart
<1>7. l \in Node /\ l.cells = d /\ l.rightmost = n.cells[a + 1].child
  BY <1>3, <1>4, <1>6 DEF Node
<1>8. Len(l.cells) = a /\ \A x \in 1 .. a : l.cells[x] = n.cells[x]
  BY <1>1, <1>3, <1>7, Zenon
<1>9. ASSUME NEW x \in 1 .. a + 1 PROVE Kids(l)[x] = Kids(n)[x]
  <2>1. Kids(l)[x] = IF x <= a THEN l.cells[x].child ELSE l.rightmost
    BY <1>7, <1>8, KidAt
  <2>2. x \in 1 .. Len(n.cells) + 1 /\ x <= Len(n.cells)
    BY <1>4
  <2>3. Kids(n)[x] = n.cells[x].child
    BY <2>2, KidAt
  <2>4. CASE x <= a
    BY <1>8, <2>1, <2>3, <2>4
  <2>5. CASE x = a + 1
    BY <1>7, <2>1, <2>3, <2>5
  <2> QED
    BY <2>4, <2>5
<1>10. IsLeftPart(l, n, a)
  BY <1>8, <1>9 DEF IsLeftPart
<1> QED
  BY <1>5, <1>7, <1>10

\* What is behind the cell after them, in a node r that got those cells.
LEMMA RightCellsEffect ==
  ASSUME NEW n \in Node, NEW a \in Nat, a < Len(n.cells), NEW r \in Node,
         r.cells = RightCells(n, a), r.rightmost = n.rightmost
  PROVE  /\ Len(r.cells) = Len(n.cells) - (a + 1)
         /\ \A x \in 1 .. Len(n.cells) - (a + 1) : r.cells[x] = n.cells[x + (a + 1)]
         /\ \A x \in 1 .. Len(n.cells) - (a + 1) + 1 : Kids(r)[x] = Kids(n)[x + (a + 1)]
<1>1. PICK c \in Seq(Cell) : c = n.cells
  BY CellsType
<1>2. PICK d : d = SubSeq(c, a + 2, Len(c))
  OBVIOUS
<1>3. PICK L \in Nat : L = Len(n.cells) /\ L = Len(c) /\ a < L
  BY <1>1, CellsType
<1>4. /\ d \in Seq(Cell) /\ Len(d) = L - (a + 1)
      /\ \A x \in 1 .. L - (a + 1) : d[x] = c[x + (a + 1)]
  <2>1. a + 2 \in 1 .. Len(c) + 1 /\ a + 2 <= L + 1 /\ L <= Len(c)
    BY <1>3
  <2>2. d \in Seq(Cell) /\ Len(d) = L - (a + 1)
    BY <1>2, <1>3, <2>1
  <2>3. ASSUME NEW x \in 1 .. L - (a + 1) PROVE d[x] = c[x + (a + 1)]
    <3>1. (a + 2) + x - 1 = x + (a + 1)
      OBVIOUS
    <3> QED
      BY <1>2, <1>3, <2>1, <3>1
  <2> QED
    BY <2>2, <2>3
<1>5. r.cells = d
  BY <1>1, <1>2 DEF RightCells
<1>6. Len(r.cells) = L - (a + 1) /\ \A x \in 1 .. L - (a + 1) : r.cells[x] = n.cells[x + (a + 1)]
  BY <1>1, <1>4, <1>5, Zenon
<1>7. ASSUME NEW x \in 1 .. L - (a + 1) + 1 PROVE Kids(r)[x] = Kids(n)[x + (a + 1)]
  <2>1. Kids(r)[x] = IF x <= L - (a + 1) THEN r.cells[x].child ELSE r.rightmost
    <3>1. x \in 1 .. Len(r.cells) + 1
      BY <1>6
    <3>2. Kids(r)[x] = IF x <= Len(r.cells) THEN r.cells[x].child ELSE r.rightmost
      BY <3>1, KidAt, Zenon
    <3> QED
      BY <1>6, <3>2, Zenon
  <2>2. x + (a + 1) \in 1 .. L + 1
    BY <1>3
  <2>3. Kids(n)[x + (a + 1)] = IF x + (a + 1) <= L THEN n.cells[x + (a + 1)].child ELSE n.rightmost
    BY <1>3, <2>2, KidAt, Zenon
  <2>4. CASE x <= L - (a + 1)
    <3>1. x + (a + 1) <= L /\ x \in 1 .. L - (a + 1)
      BY <1>3, <2>4
    <3> QED
      BY <1>6, <2>1, <2>3, <2>4, <3>1
  <2>5. CASE x = L - (a + 1) + 1
    <3>1. ~(x + (a + 1) <= L) /\ ~(x <= L - (a + 1))
      BY <1>3, <2>5
    <3> QED
      BY <2>1, <2>3, <3>1
  <2> QED
    BY <1>3, <2>4, <2>5
<1> QED
  BY <1>3, <1>6, <1>7, Zenon

(* A node cut after its first a cells (split_internal_node,                *)
(* btree.cpp:197; borrow_internal cuts the join of two) is two nodes that, *)
(* with the key of the cell between them, send every key where it went.    *)
THEOREM CutRoutes ==
  ASSUME NEW n \in Node, Ordered(n), NEW a \in Nat, a < Len(n.cells), NEW r \in Node,
         r.cells = RightCells(n, a), r.rightmost = n.rightmost
  PROVE  \E l \in Node :
         /\ l = LeftPart(n, a) /\ Ordered(l) /\ Ordered(r)
         /\ \A q \in Nat :
              KidFor(n, q) = IF q < n.cells[a + 1].key THEN KidFor(l, q) ELSE KidFor(r, q)
<1>1. PICK L \in Nat : L = Len(n.cells) /\ a < L
  BY CellsType
<1>2. PICK k \in Nat : k = n.cells[a + 1].key
  BY CellsType, SMTT(30)
<1>13. PICK l \in Node : l = LeftPart(n, a) /\ IsLeftPart(l, n, a)
  BY LeftPartEffect
<1>3. /\ Len(l.cells) = a
      /\ \A x \in 1 .. a : l.cells[x] = n.cells[x]
      /\ \A x \in 1 .. a + 1 : Kids(l)[x] = Kids(n)[x]
  <2>1. IsLeftPart(l, n, a)
    BY <1>13
  <2> QED
    BY <2>1 DEF IsLeftPart
<1>4. PICK B \in Nat : B = L - (a + 1) /\ a + 1 + B = L
  <2>1. a < L
    BY <1>1
  <2>2. L - (a + 1) \in Nat /\ a + 1 + (L - (a + 1)) = L
    BY <2>1
  <2> QED
    BY <2>2
<1>5. /\ Len(r.cells) = B
      /\ \A x \in 1 .. B : r.cells[x] = n.cells[x + (a + 1)]
      /\ \A x \in 1 .. B + 1 : Kids(r)[x] = Kids(n)[x + (a + 1)]
  <2>1. /\ Len(r.cells) = Len(n.cells) - (a + 1)
        /\ \A x \in 1 .. Len(n.cells) - (a + 1) : r.cells[x] = n.cells[x + (a + 1)]
        /\ \A x \in 1 .. Len(n.cells) - (a + 1) + 1 : Kids(r)[x] = Kids(n)[x + (a + 1)]
    BY RightCellsEffect, ZenonT(40)
  <2>2. Len(n.cells) - (a + 1) = B
    BY <1>1, <1>4
  <2> QED
    BY <2>1, <2>2, Zenon
<1>6. \A x, y \in 1 .. L : x < y => n.cells[x].key <= n.cells[y].key
  BY <1>1 DEF Ordered
<1>7. Ordered(l)
  BY <1>1, <1>3, <1>6, SMTT(30) DEF Ordered
<1>8. Ordered(r)
  <2>1. ASSUME NEW x \in 1 .. B, NEW y \in 1 .. B, x < y
        PROVE  r.cells[x].key <= r.cells[y].key
    <3>1. x + (a + 1) \in 1 .. L /\ y + (a + 1) \in 1 .. L /\ x + (a + 1) < y + (a + 1)
      BY <1>4, <2>1
    <3> QED
      BY <1>5, <1>6, <3>1
  <2> QED
    BY <1>5, <2>1 DEF Ordered
<1>9. KeysUpTo(l, k)
  <2>1. ASSUME NEW x \in 1 .. a PROVE l.cells[x].key <= k
    <3>1. x \in 1 .. L /\ a + 1 \in 1 .. L /\ x < a + 1
      BY <1>1
    <3> QED
      BY <1>2, <1>3, <1>6, <3>1
  <2> QED
    BY <1>3, <2>1 DEF KeysUpTo
<1>10. KeysFrom(r, k)
  <2>1. ASSUME NEW x \in 1 .. B PROVE k <= r.cells[x].key
    <3>1. x + (a + 1) \in 1 .. L /\ a + 1 \in 1 .. L /\ a + 1 < x + (a + 1)
      BY <1>4
    <3> QED
      BY <1>2, <1>5, <1>6, <3>1
  <2> QED
    BY <1>5, <2>1 DEF KeysFrom
<1>11. IsJoin(n, l, r, k)
  <2>1. Len(n.cells) = Len(l.cells) + 1 + Len(r.cells)
    BY <1>1, <1>3, <1>4, <1>5
  <2>2. ASSUME NEW x \in 1 .. L
        PROVE  CellKeys(n)[x] = IF x <= a THEN CellKeys(l)[x]
                            ELSE IF x = a + 1 THEN k ELSE CellKeys(r)[x - (a + 1)]
    <3>1. CellKeys(n)[x] = n.cells[x].key
      BY <1>1, KeysOf
    <3>2. CASE x <= a
      <4>1. CellKeys(l)[x] = l.cells[x].key
        BY <1>3, <3>2, KeysOf
      <4> QED
        BY <1>3, <3>1, <3>2, <4>1
    <3>3. CASE x = a + 1
      BY <1>2, <3>1, <3>3
    <3>4. CASE a + 1 < x
      <4>1. x - (a + 1) \in 1 .. B /\ ~(x <= a) /\ x # a + 1 /\ (x - (a + 1)) + (a + 1) = x
        BY <1>4, <3>4
      <4>2. CellKeys(r)[x - (a + 1)] = r.cells[x - (a + 1)].key
        BY <1>5, <4>1, KeysOf
      <4>3. r.cells[x - (a + 1)] = n.cells[x]
        BY <1>5, <4>1
      <4> QED
        BY <3>1, <4>1, <4>2, <4>3
    <3> QED
      BY <3>2, <3>3, <3>4
  <2>3. ASSUME NEW x \in 1 .. L + 1
        PROVE  Kids(n)[x] = IF x <= a + 1 THEN Kids(l)[x] ELSE Kids(r)[x - (a + 1)]
    <3>1. CASE x <= a + 1
      BY <1>3, <3>1
    <3>2. CASE a + 1 < x
      <4>1. x - (a + 1) \in 1 .. B + 1 /\ ~(x <= a + 1) /\ (x - (a + 1)) + (a + 1) = x
        BY <1>4, <3>2
      <4> QED
        BY <1>5, <4>1
    <3> QED
      BY <3>1, <3>2
  <2> QED
    BY <1>1, <1>3, <2>1, <2>2, <2>3, Zenon DEF IsJoin
<1>12. \A q \in Nat : KidFor(n, q) = IF q < k THEN KidFor(l, q) ELSE KidFor(r, q)
  BY <1>7, <1>8, <1>9, <1>10, <1>11, JoinRoutes
<1> QED
  BY <1>2, <1>7, <1>8, <1>12, <1>13, Zenon

-----------------------------------------------------------------------------
(* A child goes *)

\* A key taken out, seen as KeyPutIn sees one put in.
LEMMA KeyTakenOut ==
  ASSUME NEW L \in Nat, NEW h \in 1 .. L, NEW a, NEW b,
         \A x \in 1 .. L : a[x] \in Nat,
         \A x, y \in 1 .. L : x < y => a[x] <= a[y],
         \A x \in 1 .. L - 1 : b[x] = IF x < h THEN a[x] ELSE a[x + 1]
  PROVE  /\ \A x, y \in 1 .. L - 1 : x < y => b[x] <= b[y]
         /\ \A q \in Nat, j \in 1 .. L + 1 :
              (\A x \in 1 .. L : IF x < j THEN a[x] <= q ELSE q < a[x])
              => \A x \in 1 .. L - 1 :
                   IF x < (IF j <= h THEN j ELSE j - 1) THEN b[x] <= q ELSE q < b[x]
<1>0. ASSUME NEW x \in 1 .. L - 1
      PROVE  /\ x < h => x \in 1 .. L /\ b[x] = a[x]
             /\ ~(x < h) => x + 1 \in 1 .. L /\ b[x] = a[x + 1]
  BY <1>0
<1>1. ASSUME NEW x \in 1 .. L - 1, NEW y \in 1 .. L - 1, x < y PROVE b[x] <= b[y]
  <2>1. CASE y < h
    BY <1>0, <1>1, <2>1
  <2>2. CASE x < h /\ ~(y < h)
    BY <1>0, <1>1, <2>2
  <2>3. CASE ~(x < h)
    <3>1. x + 1 < y + 1 /\ ~(y < h)
      BY <1>1, <2>3
    <3> QED
      BY <1>0, <2>3, <3>1
  <2> QED
    BY <1>1, <2>1, <2>2, <2>3
<1>2. ASSUME NEW q \in Nat, NEW j \in 1 .. L + 1,
             \A x \in 1 .. L : IF x < j THEN a[x] <= q ELSE q < a[x],
             NEW x \in 1 .. L - 1
      PROVE  IF x < (IF j <= h THEN j ELSE j - 1) THEN b[x] <= q ELSE q < b[x]
  <2>1. CASE x < h
    <3>1. IF x < j THEN b[x] <= q ELSE q < b[x]
      BY <1>0, <1>2, <2>1
    <3>2. ~(j <= h) => x < j /\ x < j - 1
      BY <2>1
    <3> QED
      BY <3>1, <3>2
  <2>2. CASE ~(x < h)
    <3>1. IF x + 1 < j THEN b[x] <= q ELSE q < b[x]
      BY <1>0, <1>2, <2>2
    <3>2. j <= h => ~(x + 1 < j) /\ ~(x < j)
      BY <2>2
    <3>3. ~(j <= h) => (x + 1 < j <=> x < j - 1)
      OBVIOUS
    <3> QED
      BY <3>1, <3>2, <3>3
  <2> QED
    BY <2>1, <2>2
<1> QED
  BY <1>1, <1>2

\* m is n without the child at place p and the key at place h.
IsWithout(m, n, p, h) ==
  /\ Len(m.cells) = Len(n.cells) - 1
  /\ \A x \in 1 .. Len(n.cells) - 1 :
       CellKeys(m)[x] = IF x < h THEN CellKeys(n)[x] ELSE CellKeys(n)[x + 1]
  /\ \A x \in 1 .. Len(n.cells) :
       Kids(m)[x] = IF x < p THEN Kids(n)[x] ELSE Kids(n)[x + 1]

\* The rightmost child goes: the last cell's takes its place.
LEMMA WithoutRightmost ==
  ASSUME NEW n \in Node, n.cells # <<>>
  PROVE  LET m == [n EXCEPT !.cells = Front(@), !.rightmost = Last(n.cells).child]
         IN m \in Node /\ IsWithout(m, n, Len(n.cells) + 1, Len(n.cells))
<1>1. PICK c \in Seq(Cell) : c = n.cells /\ c # <<>>
  BY CellsType
<1>2. PICK L \in Nat \ {0} : L = Len(n.cells) /\ L = Len(c)
  BY <1>1
<1>3. PICK d : d = SubSeq(c, 1, L - 1)
  OBVIOUS
<1>4. d \in Seq(Cell) /\ Len(d) = L - 1 /\ \A x \in 1 .. L - 1 : d[x] = c[x]
  BY <1>2, <1>3
<1>5. PICK m : m = [n EXCEPT !.cells = Front(@), !.rightmost = Last(n.cells).child]
  OBVIOUS
<1>6. m = [n EXCEPT !.cells = d, !.rightmost = n.cells[L].child]
  <2>1. Front(n.cells) = d
    BY <1>1, <1>2, <1>3, Zenon DEF Front
  <2>2. Last(n.cells) = n.cells[L]
    BY <1>2, Zenon DEF Last
  <2> QED
    BY <1>5, <2>1, <2>2
<1>7. L \in 1 .. Len(n.cells) /\ n.cells[L].child \in Nat
  <2>1. L \in 1 .. Len(n.cells)
    BY <1>2
  <2> QED
    BY <2>1, CellsType
<1>8. m \in Node /\ m.cells = d /\ m.rightmost = n.cells[L].child
  BY <1>4, <1>6, <1>7 DEF Node
<1>9. Len(m.cells) = L - 1
  BY <1>4, <1>8
<1>10. ASSUME NEW x \in 1 .. L - 1
       PROVE  CellKeys(m)[x] = IF x < L THEN CellKeys(n)[x] ELSE CellKeys(n)[x + 1]
  <2>1. x \in 1 .. Len(m.cells) /\ x \in 1 .. Len(n.cells) /\ x < L
    BY <1>2, <1>9
  <2>2. CellKeys(m)[x] = m.cells[x].key /\ CellKeys(n)[x] = n.cells[x].key
    BY <1>8, <2>1, KeysOf
  <2>3. m.cells[x] = n.cells[x]
    BY <1>1, <1>4, <1>8, Zenon
  <2> QED
    BY <2>1, <2>2, <2>3
<1>11. ASSUME NEW x \in 1 .. L
       PROVE  Kids(m)[x] = IF x < L + 1 THEN Kids(n)[x] ELSE Kids(n)[x + 1]
  <2>1. x \in 1 .. Len(m.cells) + 1 /\ x \in 1 .. Len(n.cells) + 1 /\ x <= Len(n.cells)
    BY <1>2, <1>9
  <2>2. Kids(m)[x] = IF x <= Len(m.cells) THEN m.cells[x].child ELSE m.rightmost
    BY <1>8, <2>1, KidAt, Zenon
  <2>3. Kids(n)[x] = n.cells[x].child
    BY <2>1, KidAt
  <2>4. CASE x < L
    <3>1. x \in 1 .. L - 1 /\ x <= Len(m.cells)
      BY <1>9, <2>4
    <3>2. m.cells[x] = n.cells[x]
      BY <1>1, <1>4, <1>8, <3>1, Zenon
    <3> QED
      BY <2>2, <2>3, <3>1, <3>2
  <2>5. CASE x = L
    <3>1. ~(x <= Len(m.cells))
      BY <1>9, <2>5
    <3> QED
      BY <1>8, <2>2, <2>3, <2>5, <3>1
  <2> QED
    BY <2>4, <2>5
<1>12. IsWithout(m, n, L + 1, L)
  BY <1>2, <1>9, <1>10, <1>11, Zenon DEF IsWithout
<1> QED
  BY <1>2, <1>5, <1>8, <1>12, Zenon

\* The child of cell i goes, and its left neighbour gets its key.
WithoutCellAt(n, i) ==
  LET cells == IF i = 1 THEN n.cells
               ELSE [n.cells EXCEPT ![i - 1].key = n.cells[i].key]
  IN [n EXCEPT !.cells = RemoveAt(cells, i)]

LEMMA WithoutCell ==
  ASSUME NEW n \in Node, NEW i \in 1 .. Len(n.cells)
  PROVE  /\ WithoutCellAt(n, i) \in Node
         /\ IsWithout(WithoutCellAt(n, i), n, i, IF i = 1 THEN 1 ELSE i - 1)
<1>1. PICK c \in Seq(Cell) : c = n.cells
  BY CellsType
<1>2. PICK L \in Nat : L = Len(n.cells) /\ L = Len(c) /\ i \in 1 .. L
  BY <1>1, CellsType
<1>3. PICK k \in Nat : k = n.cells[i].key
  BY CellsType
<1>4. PICK f : f = IF i = 1 THEN c ELSE [c EXCEPT ![i - 1].key = k]
  OBVIOUS
\* The cells before the removal, in both cases.
<1>5. /\ f \in Seq(Cell) /\ Len(f) = L
      /\ \A x \in 1 .. L : f[x].child = c[x].child
      /\ \A x \in 1 .. L : f[x].key = IF x = i - 1 THEN k ELSE c[x].key
  <2>1. CASE i = 1
    <3>1. f = c
      BY <1>4, <2>1
    <3>2. \A x \in 1 .. L : x # i - 1
      BY <2>1
    <3> QED
      BY <1>2, <3>1, <3>2
  <2>2. CASE i # 1
    <3>1. i - 1 \in 1 .. L
      BY <1>2, <2>2
    <3>2. c[i - 1] \in Cell
      BY <1>2, <3>1
    <3>3. PICK e \in Cell : /\ e = [c[i - 1] EXCEPT !.key = k]
                            /\ e.child = c[i - 1].child /\ e.key = k
      BY <3>2, CellRekeyed, Zenon
    <3>4. f = [c EXCEPT ![i - 1] = e]
      BY <1>4, <2>2, <3>3, Zenon
    <3>5. f \in Seq(Cell) /\ Len(f) = L
      BY <1>2, <3>1, <3>4
    <3>6. \A x \in 1 .. L : f[x] = IF x = i - 1 THEN e ELSE c[x]
      BY <1>2, <3>1, <3>4
    <3> QED
      BY <3>3, <3>5, <3>6
  <2> QED
    BY <2>1, <2>2
<1>6. PICK d : d = RemoveAt(f, i)
  OBVIOUS
<1>7. /\ d \in Seq(Cell) /\ Len(d) = L - 1
      /\ \A x \in 1 .. L - 1 : d[x] = IF x < i THEN f[x] ELSE f[x + 1]
  <2>1. i \in 1 .. Len(f)
    BY <1>2, <1>5
  <2>2. d \in Seq(Cell) /\ IsRemoval(d, f, i)
    BY <1>5, <1>6, <2>1, RemovalEffect
  <2> QED
    BY <1>5, <2>2, Zenon DEF IsRemoval
<1>8. PICK m : m = [n EXCEPT !.cells = d]
  OBVIOUS
<1>9. m \in Node /\ m.cells = d /\ m.rightmost = n.rightmost
  BY <1>7, <1>8 DEF Node
<1>10. Len(m.cells) = L - 1
  BY <1>7, <1>9
<1>11. PICK h \in Nat : h = IF i = 1 THEN 1 ELSE i - 1
  OBVIOUS
<1>12. ASSUME NEW x \in 1 .. L - 1
       PROVE  CellKeys(m)[x] = IF x < h THEN CellKeys(n)[x] ELSE CellKeys(n)[x + 1]
  <2>1. x \in 1 .. Len(m.cells) /\ x \in 1 .. Len(n.cells) /\ x + 1 \in 1 .. Len(n.cells)
    BY <1>2, <1>10
  <2>2. CellKeys(m)[x] = d[x].key
    BY <1>9, <2>1, KeysOf
  <2>3. CellKeys(n)[x] = c[x].key /\ CellKeys(n)[x + 1] = c[x + 1].key
    BY <1>1, <2>1, KeysOf
  <2>4. x \in 1 .. L /\ x + 1 \in 1 .. L
    OBVIOUS
  <2>5. CASE x < i - 1
    <3>1. x < h /\ x < i /\ x # i - 1
      BY <1>2, <1>11, <2>5
    <3> QED
      BY <1>5, <1>7, <2>2, <2>3, <2>4, <3>1
  <2>6. CASE x = i - 1
    <3>1. ~(x < h) /\ x < i /\ x + 1 = i
      BY <1>2, <1>11, <2>6
    <3>2. d[x] = f[x] /\ f[x].key = k
      BY <1>5, <1>7, <2>4, <2>6, <3>1
    <3>3. c[x + 1].key = k
      BY <1>1, <1>3, <3>1
    <3> QED
      BY <2>2, <2>3, <3>1, <3>2, <3>3
  <2>7. CASE i <= x
    <3>1. ~(x < h) /\ ~(x < i) /\ x + 1 # i - 1
      BY <1>2, <1>11, <2>7
    <3> QED
      BY <1>5, <1>7, <2>2, <2>3, <2>4, <3>1
  <2> QED
    BY <1>2, <2>5, <2>6, <2>7
<1>13. ASSUME NEW x \in 1 .. L
       PROVE  Kids(m)[x] = IF x < i THEN Kids(n)[x] ELSE Kids(n)[x + 1]
  <2>1. x \in 1 .. Len(m.cells) + 1 /\ x \in 1 .. Len(n.cells) + 1 /\ x + 1 \in 1 .. Len(n.cells) + 1
    BY <1>2, <1>10
  <2>2. Kids(m)[x] = IF x <= L - 1 THEN d[x].child ELSE n.rightmost
    <3>1. Kids(m)[x] = IF x <= Len(m.cells) THEN m.cells[x].child ELSE m.rightmost
      BY <1>9, <2>1, KidAt, Zenon
    <3> QED
      BY <1>9, <1>10, <3>1, Zenon
  <2>3. Kids(n)[x] = c[x].child
    <3>1. x <= Len(n.cells)
      BY <1>2
    <3>2. Kids(n)[x] = n.cells[x].child
      BY <2>1, <3>1, KidAt
    <3> QED
      BY <1>1, <3>2
  <2>4. Kids(n)[x + 1] = IF x + 1 <= L THEN c[x + 1].child ELSE n.rightmost
    <3>1. Kids(n)[x + 1] = IF x + 1 <= Len(n.cells) THEN n.cells[x + 1].child ELSE n.rightmost
      BY <2>1, KidAt, Zenon
    <3> QED
      BY <1>1, <1>2, <3>1, Zenon
  <2>5. CASE x < i
    <3>1. x \in 1 .. L - 1 /\ x <= L - 1
      BY <1>2, <2>5
    <3> QED
      BY <1>5, <1>7, <2>2, <2>3, <2>5, <3>1
  <2>6. CASE ~(x < i) /\ x <= L - 1
    <3>1. x \in 1 .. L - 1 /\ x + 1 \in 1 .. L /\ x + 1 <= L
      BY <2>6
    <3> QED
      BY <1>5, <1>7, <2>2, <2>4, <2>6, <3>1
  <2>7. CASE x = L
    <3>1. ~(x < i) /\ ~(x <= L - 1) /\ ~(x + 1 <= L)
      BY <1>2, <2>7
    <3> QED
      BY <2>2, <2>4, <3>1
  <2> QED
    BY <2>5, <2>6, <2>7
<1>14. IsWithout(m, n, i, h)
  BY <1>2, <1>10, <1>12, <1>13, Zenon DEF IsWithout
<1>15. m = WithoutCellAt(n, i)
  BY <1>1, <1>3, <1>4, <1>6, <1>8, Zenon DEF WithoutCellAt
<1> QED
  BY <1>9, <1>11, <1>14, <1>15, Zenon

(* Without a child c that a node has once and other than alone, the node   *)
(* is in order and sends no key elsewhere but those that led to c: they go *)
(* to its left neighbour, or from the first child to the second            *)
(* (remove_internal_cell, btree.cpp:50).                                   *)
THEOREM WithoutChildRoutes ==
  ASSUME NEW n \in Node, Ordered(n), n.cells # <<>>, NEW p \in 1 .. Len(n.cells) + 1,
         \A x \in 1 .. Len(n.cells) + 1 : x # p => Kids(n)[x] # Kids(n)[p]
  PROVE  \E m \in Node :
         /\ m = WithoutChild(n, Kids(n)[p]) /\ Ordered(m)
         /\ IsWithout(m, n, p, IF p = 1 THEN 1 ELSE p - 1)
         /\ \A q \in Nat :
              KidFor(m, q) = IF CellFor(n, q) # p THEN KidFor(n, q)
                             ELSE Kids(n)[IF p = 1 THEN 2 ELSE p - 1]
<1>1. PICK L \in Nat : L = Len(n.cells) /\ 1 <= L
  <2>1. Len(n.cells) \in Nat /\ n.cells \in Seq(Cell)
    BY CellsType
  <2>2. Len(n.cells) # 0
    BY <2>1
  <2> QED
    BY <2>1, <2>2
<1>2. PICK c : c = Kids(n)[p]
  OBVIOUS
<1>3. p \in 1 .. L + 1
  BY <1>1
<1>4. PICK h \in 1 .. L : h = IF p = 1 THEN 1 ELSE p - 1
  <2>1. (IF p = 1 THEN 1 ELSE p - 1) \in 1 .. L
    BY <1>1, <1>3
  <2> QED
    BY <2>1
<1>5. PICK m \in Node : m = WithoutChild(n, c) /\ IsWithout(m, n, p, h)
  <2>1. CASE p = L + 1
    <3>1. Kids(n)[p] = n.rightmost
      <4>1. ~(p <= Len(n.cells))
        BY <1>1, <2>1
      <4> QED
        BY <4>1, KidAt
    <3>2. n.rightmost = c
      BY <1>2, <3>1
    <3>3. PICK m : m = [n EXCEPT !.cells = Front(@), !.rightmost = Last(n.cells).child]
      OBVIOUS
    <3>4. m = WithoutChild(n, c)
      BY <3>2, <3>3 DEF WithoutChild
    <3>5. m \in Node /\ IsWithout(m, n, Len(n.cells) + 1, Len(n.cells))
      BY <3>3, WithoutRightmost, ZenonT(40)
    <3>6. h = L
      BY <1>1, <1>4, <2>1
    <3> QED
      BY <1>1, <2>1, <3>4, <3>5, <3>6, Zenon
  <2>2. CASE p # L + 1
    <3>1. p \in 1 .. Len(n.cells) /\ p \in DOMAIN n.cells
      BY <1>1, <1>3, <2>2, CellsType
    <3>2. n.cells[p].child = c
      <4>1. p <= Len(n.cells)
        BY <3>1, CellsType
      <4> QED
        BY <1>2, <4>1, KidAt
    <3>3. n.rightmost # c
      <4>1. L + 1 \in 1 .. Len(n.cells) + 1 /\ ~(L + 1 <= Len(n.cells))
        BY <1>1
      <4>2. Kids(n)[L + 1] = n.rightmost
        BY <4>1, KidAt
      <4> QED
        BY <1>2, <2>2, <4>1, <4>2
    <3>4. ASSUME NEW x \in DOMAIN n.cells, x # p PROVE n.cells[x].child # c
      <4>1. x \in 1 .. Len(n.cells) + 1 /\ x <= Len(n.cells)
        BY CellsType
      <4>2. Kids(n)[x] = n.cells[x].child
        BY <4>1, KidAt
      <4> QED
        BY <1>2, <3>4, <4>1, <4>2
    <3>5. (CHOOSE i \in DOMAIN n.cells : n.cells[i].child = c) = p
      BY <3>1, <3>2, <3>4
    <3>6. PICK m : m = WithoutCellAt(n, p)
      OBVIOUS
    <3>7. m = WithoutChild(n, c)
      <4>1. WithoutChild(n, c) =
              WithoutCellAt(n, CHOOSE i \in DOMAIN n.cells : n.cells[i].child = c)
        BY <3>3, Zenon DEF WithoutChild, WithoutCellAt
      <4> QED
        BY <3>5, <3>6, <4>1, Zenon
    <3>8. m \in Node /\ IsWithout(m, n, p, IF p = 1 THEN 1 ELSE p - 1)
      BY <3>1, <3>6, WithoutCell
    <3> QED
      BY <1>4, <3>7, <3>8, Zenon
  <2> QED
    BY <2>1, <2>2
<1>6. /\ Len(m.cells) = L - 1
      /\ \A x \in 1 .. L - 1 : CellKeys(m)[x] = IF x < h THEN CellKeys(n)[x] ELSE CellKeys(n)[x + 1]
      /\ \A x \in 1 .. L : Kids(m)[x] = IF x < p THEN Kids(n)[x] ELSE Kids(n)[x + 1]
  <2>1. IsWithout(m, n, p, h)
    BY <1>5
  <2> QED
    BY <1>1, <2>1, Zenon DEF IsWithout
<1>7. /\ \A x, y \in 1 .. L - 1 : x < y => CellKeys(m)[x] <= CellKeys(m)[y]
      /\ \A q \in Nat, j \in 1 .. L + 1 :
           (\A x \in 1 .. L : IF x < j THEN CellKeys(n)[x] <= q ELSE q < CellKeys(n)[x])
           => \A x \in 1 .. L - 1 :
                IF x < (IF j <= h THEN j ELSE j - 1) THEN CellKeys(m)[x] <= q ELSE q < CellKeys(m)[x]
  <2>1. PICK a : a = CellKeys(n)
    OBVIOUS
  <2>2. PICK b : b = CellKeys(m)
    OBVIOUS
  <2>3. \A x \in 1 .. L : a[x] \in Nat
    BY <1>1, <2>1, KeysOf
  <2>4. \A x, y \in 1 .. L : x < y => a[x] <= a[y]
    BY <1>1, <2>1, OrderedKeys
  <2>5. \A x \in 1 .. L - 1 : b[x] = IF x < h THEN a[x] ELSE a[x + 1]
    BY <1>6, <2>1, <2>2, Zenon
  <2>6. /\ \A x, y \in 1 .. L - 1 : x < y => b[x] <= b[y]
        /\ \A q \in Nat, j \in 1 .. L + 1 :
             (\A x \in 1 .. L : IF x < j THEN a[x] <= q ELSE q < a[x])
             => \A x \in 1 .. L - 1 :
                  IF x < (IF j <= h THEN j ELSE j - 1) THEN b[x] <= q ELSE q < b[x]
    BY <2>3, <2>4, <2>5, KeyTakenOut, SMTT(30)
  <2> QED
    BY <2>1, <2>2, <2>6, Zenon
<1>8. Ordered(m)
  BY <1>6, <1>7, OrderedKeys
<1>9. ASSUME NEW q \in Nat
      PROVE  KidFor(m, q) = IF CellFor(n, q) # p THEN KidFor(n, q)
                            ELSE Kids(n)[IF p = 1 THEN 2 ELSE p - 1]
  <2>1. PICK j \in 1 .. L + 1 : j = CellFor(n, q) /\ Divides(n, j, q)
    BY <1>1, CellForDivides DEF Divides
  <2>2. \A x \in 1 .. L : IF x < j THEN CellKeys(n)[x] <= q ELSE q < CellKeys(n)[x]
    BY <1>1, <2>1, DividesKeys
  <2>3. PICK g : g = IF j <= h THEN j ELSE j - 1
    OBVIOUS
  <2>4. g \in 1 .. L
    BY <1>1, <2>3
  <2>5. CellFor(m, q) = g
    <3>1. \A x \in 1 .. L - 1 : IF x < g THEN CellKeys(m)[x] <= q ELSE q < CellKeys(m)[x]
      BY <1>7, <2>2, <2>3, Zenon
    <3>2. g \in 1 .. Len(m.cells) + 1
      BY <1>1, <1>6, <2>4
    <3>3. Divides(m, g, q)
      BY <1>6, <3>1, <3>2, DividesKeys, Zenon
    <3> QED
      BY <3>3, CellForIs
  <2>6. KidFor(m, q) = Kids(m)[g] /\ KidFor(n, q) = Kids(n)[j]
    BY <2>1, <2>5 DEF KidFor
  <2>7. Kids(m)[g] = IF g < p THEN Kids(n)[g] ELSE Kids(n)[g + 1]
    BY <1>6, <2>4
  <2>8. CASE j < p
    <3>1. g = j /\ g < p /\ j # p
      BY <1>3, <1>4, <2>3, <2>8
    <3> QED
      BY <2>1, <2>6, <2>7, <3>1
  <2>9. CASE j = p /\ p = 1
    <3>1. g = 1 /\ ~(g < p) /\ g + 1 = 2
      BY <1>1, <1>4, <2>3, <2>9
    <3> QED
      BY <2>1, <2>6, <2>7, <2>9, <3>1
  <2>10. CASE j = p /\ p # 1
    <3>1. g = p - 1 /\ g < p
      BY <1>3, <1>4, <2>3, <2>10
    <3> QED
      BY <2>1, <2>6, <2>7, <2>10, <3>1
  <2>11. CASE p < j
    <3>1. g + 1 = j /\ ~(g < p) /\ j # p
      BY <1>3, <1>4, <2>3, <2>11
    <3> QED
      BY <2>1, <2>6, <2>7, <3>1
  <2> QED
    BY <1>3, <2>8, <2>9, <2>10, <2>11
<1> QED
  BY <1>2, <1>4, <1>5, <1>8, <1>9, Zenon

-----------------------------------------------------------------------------
(* The rows of a leaf: sums of their sizes *)

LEMMA SumsExist ==
  ASSUME NEW s \in Seq(Nat)
  PROVE  Sums(s) = [i \in 0 .. Len(s) |-> IF i = 0 THEN 0 ELSE Sums(s)[i - 1] + s[i]]
<1> DEFINE IsSum(f, n) == f = [i \in 0 .. n |-> IF i = 0 THEN 0 ELSE f[i - 1] + s[i]]
           P == {n \in 0 .. Len(s) : \E f : IsSum(f, n)}
<1>0. Len(s) \in Nat
  OBVIOUS
<1>1. 0 \in P
  <2>1. IsSum([i \in 0 .. 0 |-> 0], 0)
    OBVIOUS
  <2> HIDE DEF IsSum
  <2> QED
    BY <1>0, <2>1
<1>2. ASSUME NEW n \in 1 .. Len(s), n - 1 \in P PROVE n \in P
  <2>1. PICK f : IsSum(f, n - 1)
    BY <1>2
  <2> DEFINE g == [i \in 0 .. n |-> IF i = n THEN f[n - 1] + s[n] ELSE f[i]]
  <2>2. ASSUME NEW i \in 0 .. n PROVE g[i] = IF i = 0 THEN 0 ELSE g[i - 1] + s[i]
    <3>1. CASE i = n
      BY <1>0, <3>1
    <3>2. CASE i # n
      <4>1. i \in 0 .. n - 1
        BY <3>2
      <4>2. f[i] = IF i = 0 THEN 0 ELSE f[i - 1] + s[i]
        BY <2>1, <4>1
      <4> QED
        BY <3>2, <4>1, <4>2
    <3> QED
      BY <3>1, <3>2
  <2>3. IsSum(g, n)
    BY <2>2
  <2> HIDE DEF g, IsSum
  <2>4. n \in 0 .. Len(s)
    BY <1>0
  <2> QED
    BY <2>3, <2>4
<1>3. Len(s) \in P
  <2> HIDE DEF P
  <2>1. \A i \in 0 .. Len(s) : i \in P
    BY <1>0, <1>1, <1>2, UpTo
  <2> QED
    BY <1>0, <2>1
<1>4. \E f : IsSum(f, Len(s))
  BY <1>3
<1>5. IsSum(CHOOSE f : IsSum(f, Len(s)), Len(s))
  <2> HIDE DEF IsSum
  <2> QED
    BY <1>4, Zenon
<1> QED
  BY <1>5 DEF Sums

LEMMA SumsAre ==
  ASSUME NEW s \in Seq(Nat)
  PROVE  /\ Sums(s)[0] = 0
         /\ \A i \in 1 .. Len(s) : Sums(s)[i] = Sums(s)[i - 1] + s[i]
         /\ \A i \in 0 .. Len(s) : Sums(s)[i] \in Nat
<1>0. Len(s) \in Nat
  OBVIOUS
<1>1. PICK f : f = Sums(s)
  OBVIOUS
<1>2. f = [i \in 0 .. Len(s) |-> IF i = 0 THEN 0 ELSE f[i - 1] + s[i]]
  BY <1>1, SumsExist, Zenon
<1>3. f[0] = 0 /\ \A i \in 1 .. Len(s) : f[i] = f[i - 1] + s[i]
  BY <1>0, <1>2
<1> DEFINE P == {i \in 0 .. Len(s) : f[i] \in Nat}
<1>4. 0 \in P
  BY <1>0, <1>3
<1>5. ASSUME NEW i \in 1 .. Len(s), i - 1 \in P PROVE i \in P
  <2>1. s[i] \in Nat /\ f[i - 1] \in Nat /\ f[i] = f[i - 1] + s[i]
    BY <1>0, <1>3, <1>5
  <2> QED
    BY <1>0, <2>1
<1>6. \A i \in 0 .. Len(s) : i \in P
  <2> HIDE DEF P
  <2> QED
    BY <1>0, <1>4, <1>5, UpTo
<1> QED
  BY <1>1, <1>3, <1>6

LEMMA SumsGrow ==
  ASSUME NEW s \in Seq(Nat), NEW i \in 0 .. Len(s), NEW j \in i .. Len(s)
  PROVE  Sums(s)[i] <= Sums(s)[j]
<1> DEFINE P == {x \in 0 .. Len(s) : i <= x => Sums(s)[i] <= Sums(s)[x]}
<1>0. Len(s) \in Nat
  OBVIOUS
<1>1. 0 \in P
  BY <1>0, SumsAre
<1>2. ASSUME NEW x \in 1 .. Len(s), x - 1 \in P PROVE x \in P
  <2>1. s[x] \in Nat /\ Sums(s)[x] = Sums(s)[x - 1] + s[x]
    BY SumsAre
  <2>2. Sums(s)[x - 1] \in Nat /\ Sums(s)[i] \in Nat
    BY SumsAre
  <2> QED
    BY <1>2, <2>1, <2>2, SMTT(30)
<1>3. \A x \in 0 .. Len(s) : x \in P
  <2> HIDE DEF P
  <2> QED
    BY <1>0, <1>1, <1>2, UpTo
<1> QED
  BY <1>0, <1>3

\* Two sequences whose elements are the same up to place n.
LEMMA SumsAgree ==
  ASSUME NEW s \in Seq(Nat), NEW d \in Seq(Nat), NEW n \in Nat, n <= Len(s), n <= Len(d),
         \A x \in 1 .. n : d[x] = s[x]
  PROVE  \A x \in 0 .. n : Sums(d)[x] = Sums(s)[x]
<1> DEFINE P == {x \in 0 .. n : Sums(d)[x] = Sums(s)[x]}
<1>1. 0 \in P
  BY SumsAre
<1>2. ASSUME NEW x \in 1 .. n, x - 1 \in P PROVE x \in P
  <2>1. x \in 1 .. Len(s) /\ x \in 1 .. Len(d)
    OBVIOUS
  <2>2. Sums(s)[x] = Sums(s)[x - 1] + s[x] /\ Sums(d)[x] = Sums(d)[x - 1] + d[x]
    BY <2>1, SumsAre
  <2> QED
    BY <1>2, <2>2
<1>3. \A x \in 0 .. n : x \in P
  <2> HIDE DEF P
  <2> QED
    BY <1>1, <1>2, UpTo
<1> QED
  BY <1>3

\* An element put in counts from its place on.
LEMMA SumsInsertion ==
  ASSUME NEW s \in Seq(Nat), NEW d \in Seq(Nat), NEW i \in 1 .. Len(s) + 1, NEW e \in Nat,
         IsInsertion(d, s, i, e)
  PROVE  Sums(d)[Len(d)] = Sums(s)[Len(s)] + e
<1>0. Len(s) \in Nat /\ Len(d) = Len(s) + 1 /\ Len(d) \in Nat
  BY DEF IsInsertion
<1>1. \A x \in 1 .. Len(d) : d[x] = IF x < i THEN s[x] ELSE IF x = i THEN e ELSE s[x - 1]
  BY <1>0 DEF IsInsertion
<1>2. /\ \A x \in 1 .. Len(s) : Sums(s)[x] = Sums(s)[x - 1] + s[x]
      /\ \A x \in 0 .. Len(s) : Sums(s)[x] \in Nat
  BY SumsAre
<1>3. \A x \in 1 .. Len(d) : Sums(d)[x] = Sums(d)[x - 1] + d[x]
  BY SumsAre
<1> DEFINE P == {x \in 0 .. Len(d) :
                   Sums(d)[x] = IF x < i THEN Sums(s)[x] ELSE Sums(s)[x - 1] + e}
<1>4. 0 \in P
  BY <1>0, SumsAre
<1>5. ASSUME NEW x \in 1 .. Len(d), x - 1 \in P PROVE x \in P
  <2>1. Sums(d)[x] = Sums(d)[x - 1] + d[x]
    BY <1>3
  <2>2. CASE x < i
    <3>1. x \in 1 .. Len(s) /\ d[x] = s[x] /\ Sums(d)[x - 1] = Sums(s)[x - 1]
      BY <1>0, <1>1, <1>5, <2>2
    <3> QED
      BY <1>2, <2>1, <2>2, <3>1
  <2>3. CASE x = i
    <3>1. d[x] = e /\ Sums(d)[x - 1] = Sums(s)[x - 1]
      BY <1>0, <1>1, <1>5, <2>3
    <3> QED
      BY <2>1, <2>3, <3>1
  <2>4. CASE x > i
    <3>1. x - 1 \in 1 .. Len(s)
      BY <1>0, <2>4
    <3>2. d[x] = s[x - 1] /\ Sums(d)[x - 1] = Sums(s)[(x - 1) - 1] + e
      BY <1>0, <1>1, <1>5, <2>4
    <3>3. Sums(s)[x - 1] = Sums(s)[(x - 1) - 1] + s[x - 1]
      BY <1>2, <3>1
    <3>4. Sums(s)[(x - 1) - 1] \in Nat /\ s[x - 1] \in Nat
      BY <1>2, <3>1, SMTT(30)
    <3>5. Sums(d)[x] = Sums(s)[x - 1] + e
      BY <2>1, <3>2, <3>3, <3>4, SMTT(30)
    <3> QED
      BY <1>0, <2>4, <3>5
  <2> QED
    BY <1>0, <2>2, <2>3, <2>4
<1>6. \A x \in 0 .. Len(d) : x \in P
  <2> HIDE DEF P
  <2> QED
    BY <1>0, <1>4, <1>5, UpTo
<1>7. Len(d) \in P
  <2> HIDE DEF P
  <2> QED
    BY <1>0, <1>6
<1> QED
  BY <1>0, <1>7

\* One element changed: the sum changes by as much.
LEMMA SumsChange ==
  ASSUME NEW s \in Seq(Nat), NEW d \in Seq(Nat), NEW i \in 1 .. Len(s), Len(d) = Len(s),
         \A x \in 1 .. Len(s) : x # i => d[x] = s[x]
  PROVE  Sums(d)[Len(d)] + s[i] = Sums(s)[Len(s)] + d[i]
<1>0. Len(s) \in Nat
  OBVIOUS
<1>1. PICK f, g : f = Sums(s) /\ g = Sums(d)
  OBVIOUS
<1>2. \A x \in 0 .. i - 1 : g[x] = f[x]
  <2>1. PICK n : n = i - 1
    OBVIOUS
  <2>2. n \in Nat /\ n <= Len(s) /\ n <= Len(d) /\ \A x \in 1 .. n : d[x] = s[x]
    BY <1>0, <2>1
  <2>3. \A x \in 0 .. n : Sums(d)[x] = Sums(s)[x]
    BY <2>2, SumsAgree
  <2> QED
    BY <1>1, <2>1, <2>3
<1>3. \A x \in 1 .. Len(s) : /\ f[x] = f[x - 1] + s[x] /\ g[x] = g[x - 1] + d[x]
                             /\ s[x] \in Nat /\ d[x] \in Nat
                             /\ f[x - 1] \in Nat /\ g[x - 1] \in Nat
  <2>1. /\ \A x \in 1 .. Len(s) : f[x] = f[x - 1] + s[x] /\ g[x] = g[x - 1] + d[x]
        /\ \A x \in 0 .. Len(s) : f[x] \in Nat /\ g[x] \in Nat
    BY <1>1, SumsAre
  <2>2. \A x \in 1 .. Len(s) : x - 1 \in 0 .. Len(s) /\ s[x] \in Nat /\ d[x] \in Nat
    BY <1>0
  <2> QED
    BY <2>1, <2>2
<1> DEFINE P == {x \in 0 .. Len(s) : x < i \/ g[x] + s[i] = f[x] + d[i]}
<1>4. 0 \in P
  BY <1>0
<1>5. ASSUME NEW x \in 1 .. Len(s), x - 1 \in P PROVE x \in P
  <2>1. /\ f[x] = f[x - 1] + s[x] /\ g[x] = g[x - 1] + d[x]
        /\ s[x] \in Nat /\ d[x] \in Nat /\ s[i] \in Nat /\ d[i] \in Nat
        /\ f[x - 1] \in Nat /\ g[x - 1] \in Nat
    BY <1>3
  <2>2. CASE x = i
    BY <1>0, <1>2, <2>1, <2>2
  <2>3. CASE x > i
    <3>1. d[x] = s[x] /\ g[x - 1] + s[i] = f[x - 1] + d[i]
      BY <1>0, <1>5, <2>3
    <3>2. PICK u, v, w, p, q : /\ u = s[x] /\ v = s[i] /\ w = d[i]
                               /\ p = f[x - 1] /\ q = g[x - 1]
      OBVIOUS
    <3>3. f[x] = p + u /\ g[x] = q + u /\ q + v = p + w
      BY <2>1, <3>1, <3>2, Zenon
    <3>4. u \in Nat /\ v \in Nat /\ w \in Nat /\ p \in Nat /\ q \in Nat
      BY <2>1, <3>2, Zenon
    <3>5. (q + u) + v = (p + u) + w
      BY <3>3, <3>4
    <3>6. g[x] + v = f[x] + w
      BY <3>3, <3>5, Zenon
    <3> QED
      BY <3>2, <3>6
  <2> QED
    BY <1>0, <2>2, <2>3
<1>6. \A x \in 0 .. Len(s) : x \in P
  <2> HIDE DEF P
  <2> QED
    BY <1>0, <1>4, <1>5, UpTo
<1> QED
  BY <1>0, <1>1, <1>6

\* Every element larger by c.
LEMMA SumsShift ==
  ASSUME NEW s \in Seq(Nat), NEW d \in Seq(Nat), NEW c \in Nat, Len(d) = Len(s),
         \A x \in 1 .. Len(s) : d[x] = c + s[x]
  PROVE  Sums(d)[Len(d)] = c * Len(s) + Sums(s)[Len(s)]
<1>0. Len(s) \in Nat
  OBVIOUS
<1> DEFINE P == {x \in 0 .. Len(s) : Sums(d)[x] = c * x + Sums(s)[x]}
<1>1. 0 \in P
  <2>1. c * 0 = 0
    OBVIOUS
  <2>2. Sums(d)[0] = 0 /\ Sums(s)[0] = 0
    BY SumsAre
  <2>3. Sums(d)[0] = c * 0 + Sums(s)[0]
    BY <2>1, <2>2
  <2> QED
    BY <1>0, <2>3
<1>2. ASSUME NEW x \in 1 .. Len(s), x - 1 \in P PROVE x \in P
  <2>1. /\ Sums(d)[x] = Sums(d)[x - 1] + d[x] /\ Sums(s)[x] = Sums(s)[x - 1] + s[x]
        /\ Sums(s)[x - 1] \in Nat
    BY SumsAre, SMTT(30)
  <2>2. s[x] \in Nat /\ d[x] = c + s[x] /\ Sums(d)[x - 1] = c * (x - 1) + Sums(s)[x - 1]
    BY <1>0, <1>2, SMTT(30)
  <2>3. c * (x - 1) + c = c * x /\ c * (x - 1) \in Nat
    BY <1>0
  <2> QED
    BY <1>0, <2>1, <2>2, <2>3, SMTT(30)
<1>3. \A x \in 0 .. Len(s) : x \in P
  <2> HIDE DEF P
  <2> QED
    BY <1>0, <1>1, <1>2, UpTo
<1> QED
  BY <1>0, <1>3

-----------------------------------------------------------------------------
(* The space rows take *)

Rows == [key : Nat, val : Values]
Costs(rows) == [i \in DOMAIN rows |-> Cost(rows[i])]

LEMMA CostType ==
  ASSUME NEW row \in Rows
  PROVE  /\ row.key \in Nat /\ row.val \in Values
         /\ Size[row.val] \in Nat \ {0} /\ Cost(row) \in Nat \ {0}
<1>1. row.key \in Nat /\ row.val \in Values
  BY DEF Rows
<1>2. Size[row.val] \in Nat \ {0}
  BY <1>1, SizeAssumption
<1> QED
  BY <1>1, <1>2, NodeAssumption DEF Cost

LEMMA CostsType ==
  ASSUME NEW rows \in Seq(Rows)
  PROVE  /\ Costs(rows) \in Seq(Nat) /\ Len(Costs(rows)) = Len(rows) /\ Len(rows) \in Nat
         /\ DOMAIN rows = 1 .. Len(rows)
         /\ \A i \in 1 .. Len(rows) : rows[i] \in Rows /\ Costs(rows)[i] = Cost(rows[i])
<1>1. Len(rows) \in Nat /\ DOMAIN rows = 1 .. Len(rows) /\ \A i \in 1 .. Len(rows) : rows[i] \in Rows
  OBVIOUS
<1>2. \A i \in 1 .. Len(rows) : Cost(rows[i]) \in Nat
  BY <1>1, CostType
<1>3. Costs(rows) = [i \in 1 .. Len(rows) |-> Cost(rows[i])]
  BY <1>1 DEF Costs
<1>4. Costs(rows) \in Seq(Nat) /\ Len(Costs(rows)) = Len(rows)
  BY <1>1, <1>2, <1>3
<1> QED
  BY <1>1, <1>3, <1>4

LEMMA TakenIs ==
  ASSUME NEW rows \in Seq(Rows)
  PROVE  Taken(rows) = Sums(Costs(rows))[Len(Costs(rows))] /\ Taken(rows) \in Nat
<1>1. Taken(rows) = Sums(Costs(rows))[Len(Costs(rows))]
  BY CostsType DEF Taken, Costs
<1> QED
  BY <1>1, CostsType, SumsAre

LEMMA TakenInserted ==
  ASSUME NEW rows \in Seq(Rows), NEW d \in Seq(Rows), NEW i \in 1 .. Len(rows) + 1,
         NEW row \in Rows, IsInsertion(d, rows, i, row)
  PROVE  Taken(d) = Taken(rows) + Cost(row)
<1>1. IsInsertion(Costs(d), Costs(rows), i, Cost(row))
  <2>1. Len(d) = Len(rows) + 1
    BY DEF IsInsertion
  <2>2. ASSUME NEW x \in 1 .. Len(rows) + 1
        PROVE  Costs(d)[x] = IF x < i THEN Costs(rows)[x] ELSE IF x = i THEN Cost(row)
                             ELSE Costs(rows)[x - 1]
    <3>1. d[x] = IF x < i THEN rows[x] ELSE IF x = i THEN row ELSE rows[x - 1]
      BY DEF IsInsertion
    <3>2. Costs(d)[x] = Cost(d[x])
      BY <2>1, CostsType
    <3>3. Len(rows) \in Nat /\ (x < i => x \in 1 .. Len(rows)) /\ (x > i => x - 1 \in 1 .. Len(rows))
      OBVIOUS
    <3>4. x < i => Costs(rows)[x] = Cost(rows[x])
      BY <3>3, CostsType
    <3>5. x > i => Costs(rows)[x - 1] = Cost(rows[x - 1])
      BY <3>3, CostsType
    <3> QED
      BY <3>1, <3>2, <3>3, <3>4, <3>5
  <2> QED
    BY <2>1, <2>2, CostsType DEF IsInsertion
<1>2. Cost(row) \in Nat /\ i \in 1 .. Len(Costs(rows)) + 1
  BY CostType, CostsType
<1>3. Costs(rows) \in Seq(Nat) /\ Costs(d) \in Seq(Nat)
  BY CostsType
<1> QED
  BY <1>1, <1>2, <1>3, SumsInsertion, TakenIs

\* What is taken out was put in.
LEMMA RemovalUndone ==
  ASSUME NEW S, NEW s \in Seq(S), NEW d \in Seq(S), NEW i \in 1 .. Len(s), IsRemoval(d, s, i)
  PROVE  IsInsertion(s, d, i, s[i])
<1>1. Len(s) \in Nat /\ Len(d) = Len(s) - 1
  BY DEF IsRemoval
<1>2. \A x \in 1 .. Len(s) - 1 : d[x] = IF x < i THEN s[x] ELSE s[x + 1]
  BY DEF IsRemoval
<1>3. ASSUME NEW x \in 1 .. Len(s) PROVE s[x] = IF x < i THEN d[x] ELSE IF x = i THEN s[i] ELSE d[x - 1]
  <2>1. CASE x < i
    BY <1>1, <1>2, <2>1
  <2>2. CASE x > i
    <3>1. x - 1 \in 1 .. Len(s) - 1 /\ ~(x - 1 < i) /\ (x - 1) + 1 = x
      BY <1>1, <2>2
    <3> QED
      BY <1>2, <2>2, <3>1
  <2> QED
    BY <1>1, <2>1, <2>2
<1> QED
  BY <1>1, <1>3 DEF IsInsertion

LEMMA TakenRemoved ==
  ASSUME NEW rows \in Seq(Rows), NEW d \in Seq(Rows), NEW i \in 1 .. Len(rows),
         IsRemoval(d, rows, i)
  PROVE  Taken(d) + Cost(rows[i]) = Taken(rows)
<1>1. IsInsertion(rows, d, i, rows[i])
  BY RemovalUndone
<1>2. i \in 1 .. Len(d) + 1 /\ rows[i] \in Rows
  BY DEF IsRemoval
<1> QED
  BY <1>1, <1>2, TakenInserted

LEMMA RowUpdated ==
  ASSUME NEW row \in Rows, NEW v \in Values
  PROVE  /\ [row EXCEPT !.val = v] \in Rows
         /\ [row EXCEPT !.val = v].val = v /\ [row EXCEPT !.val = v].key = row.key
BY DEF Rows

LEMMA TakenUpdated ==
  ASSUME NEW rows \in Seq(Rows), NEW i \in 1 .. Len(rows), NEW v \in Values
  PROVE  /\ [rows EXCEPT ![i].val = v] \in Seq(Rows)
         /\ Taken([rows EXCEPT ![i].val = v]) + Size[rows[i].val] = Taken(rows) + Size[v]
<1>1. PICK d : d = [rows EXCEPT ![i].val = v]
  OBVIOUS
<1>2. rows[i] \in Rows /\ [rows[i] EXCEPT !.val = v] \in Rows
      /\ [rows[i] EXCEPT !.val = v].val = v /\ [rows[i] EXCEPT !.val = v].key = rows[i].key
  <2>1. rows[i] \in Rows
    OBVIOUS
  <2> QED
    BY <2>1, RowUpdated
<1>3. d \in Seq(Rows) /\ Len(d) = Len(rows) /\ d[i] = [rows[i] EXCEPT !.val = v]
      /\ \A x \in 1 .. Len(rows) : x # i => d[x] = rows[x]
  BY <1>1, <1>2
<1>4. /\ Costs(rows) \in Seq(Nat) /\ Costs(d) \in Seq(Nat)
      /\ Len(Costs(rows)) = Len(rows) /\ Len(Costs(d)) = Len(rows)
      /\ Costs(rows)[i] = Cost(rows[i]) /\ Costs(d)[i] = Cost(d[i])
      /\ \A x \in 1 .. Len(rows) : x # i => Costs(d)[x] = Costs(rows)[x]
  BY <1>3, CostsType
<1>5. Taken(d) + Cost(rows[i]) = Taken(rows) + Cost(d[i])
  <2>1. Sums(Costs(d))[Len(Costs(d))] + Costs(rows)[i] = Sums(Costs(rows))[Len(Costs(rows))] + Costs(d)[i]
    BY <1>4, SumsChange
  <2> QED
    BY <1>3, <1>4, <2>1, TakenIs
<1>6. Taken(d) \in Nat /\ Taken(rows) \in Nat
  BY <1>3, TakenIs
<1>7. Cost(rows[i]) = SLOT_SIZE + Size[rows[i].val] /\ Cost(d[i]) = SLOT_SIZE + Size[v]
  BY <1>2, <1>3 DEF Cost
<1>8. SLOT_SIZE \in Nat /\ Size[rows[i].val] \in Nat /\ Size[v] \in Nat
  BY <1>2, CostType, SizeAssumption, NodeAssumption
<1>9. Taken(d) + Size[rows[i].val] = Taken(rows) + Size[v]
  <2>1. PICK a, b, p, q : /\ a = Taken(d) /\ b = Taken(rows)
                          /\ p = Size[rows[i].val] /\ q = Size[v]
    OBVIOUS
  <2>2. a \in Nat /\ b \in Nat /\ p \in Nat /\ q \in Nat
    BY <1>6, <1>8, <2>1, Zenon
  <2>3. a + (SLOT_SIZE + p) = b + (SLOT_SIZE + q)
    BY <1>5, <1>7, <2>1, Zenon
  <2>4. a + p = b + q
    BY <1>8, <2>2, <2>3
  <2> QED
    BY <2>1, <2>4, Zenon
<1> QED
  BY <1>1, <1>3, <1>9

LEMMA TakenPrefix ==
  ASSUME NEW rows \in Seq(Rows), NEW n \in 0 .. Len(rows)
  PROVE  SubSeq(rows, 1, n) \in Seq(Rows) /\ Taken(SubSeq(rows, 1, n)) <= Taken(rows)
<1>1. PICK d : d = SubSeq(rows, 1, n)
  OBVIOUS
<1>2. d \in Seq(Rows) /\ Len(d) = n /\ n \in Nat /\ \A x \in 1 .. n : d[x] = rows[x]
  BY <1>1
<1>3. /\ Costs(rows) \in Seq(Nat) /\ Costs(d) \in Seq(Nat)
      /\ Len(Costs(rows)) = Len(rows) /\ Len(Costs(d)) = n
      /\ \A x \in 1 .. n : Costs(d)[x] = Costs(rows)[x]
  <2>1. \A x \in 1 .. n : x \in 1 .. Len(rows)
    OBVIOUS
  <2>2. \A x \in 1 .. n : Costs(d)[x] = Cost(d[x]) /\ Costs(rows)[x] = Cost(rows[x])
    BY <1>2, <2>1, CostsType
  <2>3. /\ Costs(rows) \in Seq(Nat) /\ Costs(d) \in Seq(Nat)
        /\ Len(Costs(rows)) = Len(rows) /\ Len(Costs(d)) = n
    BY <1>2, CostsType
  <2> QED
    BY <1>2, <2>2, <2>3
<1>4. Sums(Costs(d))[n] = Sums(Costs(rows))[n]
  <2>1. n <= Len(Costs(rows)) /\ n <= Len(Costs(d)) /\ n \in 0 .. n
    BY <1>2, <1>3
  <2> QED
    BY <1>2, <1>3, <2>1, SumsAgree
<1>5. Sums(Costs(rows))[n] <= Sums(Costs(rows))[Len(rows)]
  BY <1>3, SumsGrow
<1> QED
  BY <1>1, <1>2, <1>3, <1>4, <1>5, TakenIs

-----------------------------------------------------------------------------
(* The order of rows *)

InOrder(rows) == \A i, j \in 1 .. Len(rows) : i < j => rows[i].key < rows[j].key

\* The rows before place j have keys below k, and those from it on others.
Parts(rows, j, k) ==
  /\ j \in 1 .. Len(rows) + 1
  /\ \A i \in 1 .. Len(rows) : IF i < j THEN rows[i].key < k ELSE k <= rows[i].key

\* The binary search of find ends at the one place that parts the rows.
LEMMA SlotOfIs ==
  ASSUME NEW rows \in Seq(Rows), NEW k \in Nat, NEW j, Parts(rows, j, k)
  PROVE  SlotOf(rows, k) = j
<1> DEFINE S == {i \in DOMAIN rows : rows[i].key < k}
<1>0. /\ Len(rows) \in Nat /\ DOMAIN rows = 1 .. Len(rows)
      /\ \A i \in 1 .. Len(rows) : rows[i].key \in Nat
  BY CostType, CostsType
<1>1. j \in 1 .. Len(rows) + 1
  BY DEF Parts
<1>2. S = 1 .. j - 1
  <2>1. ASSUME NEW i \in 1 .. Len(rows) PROVE rows[i].key < k <=> i < j
    BY <1>0, <2>1 DEF Parts
  <2> QED
    BY <1>0, <1>1, <2>1
<1>3. Cardinality(1 .. j - 1) = j - 1
  BY <1>1, FS_Interval
<1>4. SlotOf(rows, k) = 1 + Cardinality(S)
  BY DEF SlotOf
<1> HIDE DEF S
<1> QED
  BY <1>1, <1>2, <1>3, <1>4

LEMMA SlotOfParts ==
  ASSUME NEW rows \in Seq(Rows), InOrder(rows), NEW k \in Nat
  PROVE  Parts(rows, SlotOf(rows, k), k)
<1> DEFINE L == Len(rows)
           T == {j \in 1 .. L : k <= rows[j].key} \cup {L + 1}
<1>0. L \in Nat /\ \A i \in 1 .. L : rows[i].key \in Nat
  BY CostType, CostsType
<1>1. PICK j \in T : \A i \in T : j <= i
  <2>1. T \in SUBSET Nat /\ L + 1 \in T
    BY <1>0
  <2> QED
    BY <2>1, LeastNat
<1>2. j \in 1 .. L + 1
  BY <1>0
<1>3. ASSUME NEW i \in 1 .. L, i < j PROVE rows[i].key < k
  <2>1. i \notin T
    BY <1>0, <1>1, <1>2, <1>3
  <2> QED
    BY <1>0, <2>1
<1>4. ASSUME NEW i \in 1 .. L, ~(i < j) PROVE k <= rows[i].key
  <2>1. j \in 1 .. L /\ j <= i /\ k <= rows[j].key
    BY <1>0, <1>2, <1>4
  <2>2. rows[j].key <= rows[i].key
    BY <1>0, <1>4, <2>1 DEF InOrder
  <2> QED
    BY <1>0, <2>1, <2>2
<1>5. Parts(rows, j, k)
  BY <1>2, <1>3, <1>4 DEF Parts
<1> QED
  BY <1>5, SlotOfIs

LEMMA SlotHolds ==
  ASSUME NEW rows \in Seq(Rows), InOrder(rows), NEW k \in Nat, Holds(rows, k)
  PROVE  SlotOf(rows, k) \in 1 .. Len(rows) /\ rows[SlotOf(rows, k)].key = k
<1>0. Len(rows) \in Nat /\ \A i \in 1 .. Len(rows) : rows[i].key \in Nat
  BY CostType, CostsType
<1>1. PICK i \in 1 .. Len(rows) : rows[i].key = k
  BY CostsType DEF Holds
<1>2. Parts(rows, i, k)
  <2>1. ASSUME NEW x \in 1 .. Len(rows)
        PROVE  IF x < i THEN rows[x].key < k ELSE k <= rows[x].key
    BY <1>0, <1>1 DEF InOrder
  <2> QED
    BY <2>1 DEF Parts
<1> QED
  BY <1>1, <1>2, SlotOfIs

LEMMA InsertedInOrder ==
  ASSUME NEW rows \in Seq(Rows), InOrder(rows), NEW row \in Rows, ~Holds(rows, row.key),
         NEW d \in Seq(Rows), IsInsertion(d, rows, SlotOf(rows, row.key), row)
  PROVE  InOrder(d)
<1>0. Len(rows) \in Nat /\ DOMAIN rows = 1 .. Len(rows) /\ row.key \in Nat
      /\ \A i \in 1 .. Len(rows) : rows[i].key \in Nat
  BY CostType, CostsType
<1>1. PICK s : s = SlotOf(rows, row.key)
  OBVIOUS
<1>2. /\ s \in 1 .. Len(rows) + 1
      /\ \A i \in 1 .. Len(rows) : IF i < s THEN rows[i].key < row.key ELSE row.key < rows[i].key
  <2>1. Parts(rows, s, row.key)
    BY <1>0, <1>1, SlotOfParts
  <2>2. \A i \in 1 .. Len(rows) : rows[i].key # row.key
    BY <1>0 DEF Holds
  <2> QED
    BY <1>0, <2>1, <2>2 DEF Parts
<1>3. /\ Len(d) = Len(rows) + 1
      /\ \A x \in 1 .. Len(rows) + 1 :
           d[x].key = IF x < s THEN rows[x].key ELSE IF x = s THEN row.key ELSE rows[x - 1].key
  BY <1>1 DEF IsInsertion
<1>4. ASSUME NEW x \in 1 .. Len(rows) + 1, NEW y \in 1 .. Len(rows) + 1, x < y
      PROVE  d[x].key < d[y].key
  <2>1. CASE y < s
    BY <1>0, <1>2, <1>3, <1>4, <2>1 DEF InOrder
  <2>2. CASE y = s
    BY <1>0, <1>2, <1>3, <1>4, <2>2
  <2>3. CASE y > s /\ x < s
    BY <1>0, <1>2, <1>3, <1>4, <2>3 DEF InOrder
  <2>4. CASE y > s /\ x = s
    BY <1>0, <1>2, <1>3, <1>4, <2>4
  <2>5. CASE x > s
    <3>1. x - 1 \in 1 .. Len(rows) /\ y - 1 \in 1 .. Len(rows) /\ x - 1 < y - 1
      BY <1>0, <1>2, <1>4, <2>5
    <3>2. d[x].key = rows[x - 1].key /\ d[y].key = rows[y - 1].key
      BY <1>0, <1>2, <1>3, <1>4, <2>5
    <3> QED
      BY <3>1, <3>2 DEF InOrder
  <2> QED
    BY <1>0, <1>2, <1>4, <2>1, <2>2, <2>3, <2>4, <2>5
<1> QED
  BY <1>3, <1>4 DEF InOrder

LEMMA RemovedInOrder ==
  ASSUME NEW rows \in Seq(Rows), InOrder(rows), NEW i \in 1 .. Len(rows),
         NEW d, IsRemoval(d, rows, i)
  PROVE  InOrder(d)
<1>1. Len(rows) \in Nat /\ Len(d) = Len(rows) - 1
  BY DEF IsRemoval
<1>2. ASSUME NEW x \in 1 .. Len(d), NEW y \in 1 .. Len(d), x < y PROVE d[x].key < d[y].key
  <2> DEFINE a == IF x < i THEN x ELSE x + 1
             b == IF y < i THEN y ELSE y + 1
  <2>1. d[x] = rows[a] /\ d[y] = rows[b]
    <3>1. \A z \in 1 .. Len(d) : d[z] = IF z < i THEN rows[z] ELSE rows[z + 1]
      BY <1>1 DEF IsRemoval
    <3> QED
      BY <3>1
  <2>2. a \in 1 .. Len(rows) /\ b \in 1 .. Len(rows) /\ a < b
    BY <1>1, <1>2
  <2> HIDE DEF a, b
  <2> QED
    BY <2>1, <2>2 DEF InOrder
<1> QED
  BY <1>2 DEF InOrder

LEMMA SameKeysInOrder ==
  ASSUME NEW rows \in Seq(Rows), InOrder(rows), NEW d \in Seq(Rows), Len(d) <= Len(rows),
         \A x \in 1 .. Len(d) : d[x].key = rows[x].key
  PROVE  InOrder(d)
<1>1. Len(rows) \in Nat /\ Len(d) \in Nat /\ \A x \in 1 .. Len(d) : x \in 1 .. Len(rows)
  OBVIOUS
<1> QED
  BY <1>1 DEF InOrder
=============================================================================
