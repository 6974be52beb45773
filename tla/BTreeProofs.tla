---------------------------- MODULE BTreeProofs ----------------------------
(***************************************************************************)
(* What holds of the B+tree for every number of rows, every size of a page *)
(* and every height of the tree: insert, update and remove take a sound    *)
(* tree (module TreeLemmas) to a sound one, and are the operations of a    *)
(* table of rows.                                                          *)
(***************************************************************************)
EXTENDS InnerNodeProofs

-----------------------------------------------------------------------------
(* The chain of the leaves when two become one, or share their rows anew *)

\* l is followed by what followed r.
IsUnchained(pg2, pg, a, l, r, next) ==
  /\ pg2[l].next = next /\ (next # 0 => pg2[next].prev = l)
  /\ \A k \in Ids : a[k] # l /\ a[k] # r => pg2[a[k]].next = pg[a[k]].next
  /\ \A k \in Ids : a[k] # r /\ a[k] # next => pg2[a[k]].prev = pg[a[k]].prev
LEMMA ChainJoin ==
  ASSUME NEW pg, NEW pg2, NEW a \in Division, Contiguous(a), Chained(pg, a),
         \A k \in Ids : a[k] # 0, NEW l, NEW r, l # r,
         NEW e \in Ids, e - 1 \in Ids, a[e - 1] = l, a[e] = r,
         NEW b, \A k \in Ids : b[k] = IF a[k] = r THEN l ELSE a[k],
         NEW next, next = pg[r].next, IsUnchained(pg2, pg, a, l, r, next)
  PROVE  Chained(pg2, b)
<1>1. /\ e \in Nat /\ e - 1 \in Nat /\ 0 \in Ids /\ MAX_ROWS - 1 \in Ids /\ MAX_ROWS \in Nat
      /\ \A k \in Ids : k \in Nat /\ k <= MAX_ROWS - 1
  BY IdsAre
<1>2. PICK d \in Ids : d = e - 1 /\ d + 1 = e /\ d < e /\ d <= e
  BY <1>1
<1>3. PICK f, m \in Ids : IsBetween(pg, r, a, f, m)
  <2>1. Used(r, a)
    BY DEF Used
  <2> QED
    BY <2>1, Neighbours
<1>4. f = e
  <2>1. d + 1 \in Ids /\ a[d] # a[d + 1] /\ IsEnds(f, m, a[d + 1], a)
    BY <1>2, <1>3 DEF IsBetween
  <2> QED
    BY <1>2, <2>1, FirstIs
<1>5. /\ a[m] = r /\ \A k \in Ids : a[k] = r => e <= k /\ k <= m
      /\ m = MAX_ROWS - 1 \/ (m + 1 \in Ids /\ a[m + 1] # r)
      /\ next = IF m = MAX_ROWS - 1 THEN 0 ELSE a[m + 1]
  BY <1>3, <1>4 DEF IsBetween, IsEnds
<1>6. /\ pg2[l].next = next /\ (next # 0 => pg2[next].prev = l)
      /\ \A k \in Ids : a[k] # l /\ a[k] # r => pg2[a[k]].next = pg[a[k]].next
      /\ \A k \in Ids : a[k] # r /\ a[k] # next => pg2[a[k]].prev = pg[a[k]].prev
  BY DEF IsUnchained
<1>7. ASSUME NEW k \in Ids, k + 1 \in Ids, a[k] # a[k + 1], a[k + 1] = next PROVE a[k] = r
  <2>1. m # MAX_ROWS - 1 /\ m + 1 \in Ids /\ a[m + 1] = next /\ a[m] # a[m + 1]
    BY <1>5, <1>7
  <2>2. PICK f2, m2 \in Ids : IsEnds(f2, m2, next, a)
    <3>1. Used(next, a)
      BY <2>1 DEF Used
    <3> QED
      BY <3>1, Ends
  <2>3. f2 = k + 1 /\ f2 = m + 1
    BY <1>7, <2>1, <2>2, FirstIs
  <2>4. k = m
    BY <1>1, <2>3
  <2> QED
    BY <1>5, <2>4
<1>8. ASSUME NEW k \in Ids, k + 1 \in Ids, a[k] # a[k + 1], a[k] = l PROVE a[k + 1] = r
  <2>1. PICK f2, m2 \in Ids : IsEnds(f2, m2, l, a)
    <3>1. Used(l, a)
      BY DEF Used
    <3> QED
      BY <3>1, Ends
  <2>2. d + 1 \in Ids /\ a[d] # a[d + 1] /\ a[d] = l
    BY <1>2
  <2>3. m2 = k /\ m2 = d
    BY <1>8, <2>1, <2>2, FirstIs
  <2> QED
    BY <1>2, <2>3
<1>9. ASSUME NEW k \in Ids, k + 1 \in Ids, b[k] # b[k + 1]
      PROVE  pg2[b[k]].next = b[k + 1] /\ pg2[b[k + 1]].prev = b[k]
  <2>1. PICK L, R : L = a[k] /\ R = a[k + 1]
    OBVIOUS
  <2>2. b[k] = (IF L = r THEN l ELSE L) /\ b[k + 1] = (IF R = r THEN l ELSE R)
    BY <1>9, <2>1
  <2>3. L # R
    BY <1>9, <2>2
  <2>4. pg[L].next = R /\ pg[R].prev = L
    BY <1>9, <2>1, <2>3 DEF Chained
  <2>5. CASE L = r
    <3>1. m = k
      <4>1. IsEnds(f, m, a[k], a)
        BY <1>3, <2>1, <2>5 DEF IsBetween
      <4> QED
        BY <1>9, <2>1, <2>3, <4>1, FirstIs
    <3>2. m # MAX_ROWS - 1
      <4>1. k + 1 <= MAX_ROWS - 1
        BY <1>1, <1>9
      <4> QED
        BY <1>1, <3>1, <4>1
    <3>3. next = R /\ R # 0
      BY <1>5, <1>9, <2>1, <3>1, <3>2
    <3> QED
      BY <1>6, <2>2, <2>3, <2>5, <3>3
  <2>6. CASE R = r
    <3>1. f = k + 1
      <4>1. IsEnds(f, m, a[k + 1], a)
        BY <1>3, <2>1, <2>6 DEF IsBetween
      <4> QED
        BY <1>9, <2>1, <2>3, <4>1, FirstIs
    <3>2. k = d
      BY <1>1, <1>2, <1>4, <3>1
    <3>3. L = l
      BY <1>2, <2>1, <3>2
    <3> QED
      BY <1>9, <2>2, <2>6, <3>3
  <2>7. CASE L # r /\ R # r
    <3>1. L # l
      BY <1>8, <1>9, <2>1, <2>3, <2>7
    <3>2. R # next
      BY <1>7, <1>9, <2>1, <2>3, <2>7
    <3>3. pg2[L].next = R
      BY <1>6, <2>1, <2>4, <2>7, <3>1
    <3>4. pg2[R].prev = L
      BY <1>6, <1>9, <2>1, <2>4, <2>7, <3>2
    <3> QED
      BY <2>2, <2>7, <3>3, <3>4
  <2> QED
    BY <2>5, <2>6, <2>7
<1>10. pg2[b[0]].prev = 0
  <2>1. a[0] # r
    <3>1. ~(e <= 0)
      BY <1>1
    <3> QED
      BY <1>1, <1>5, <3>1
  <2>2. a[0] # next
    <3>1. SUFFICES ASSUME a[0] = next PROVE FALSE
      OBVIOUS
    <3>2. m + 1 \in Ids /\ a[m + 1] = a[0]
      BY <1>1, <1>5, <3>1
    <3>3. 0 <= m /\ m <= m + 1
      BY <1>1
    <3>4. a[m] = a[0]
      BY <1>1, <3>2, <3>3 DEF Contiguous
    <3> QED
      BY <1>5, <2>1, <3>4
  <2>3. pg[a[0]].prev = 0
    BY DEF Chained
  <2> QED
    BY <1>1, <1>6, <2>1, <2>2, <2>3
<1>11. pg2[b[MAX_ROWS - 1]].next = 0
  <2>1. PICK M \in Ids : M = MAX_ROWS - 1 /\ e <= M
    BY <1>1
  <2>2. pg[a[M]].next = 0
    BY <2>1 DEF Chained
  <2>3. CASE a[M] = r
    <3>1. m = M
      BY <1>1, <1>5, <2>1, <2>3
    <3> QED
      BY <1>5, <1>6, <2>1, <2>3, <3>1
  <2>4. CASE a[M] # r
    <3>1. a[M] # l
      <4>1. SUFFICES ASSUME a[M] = l PROVE FALSE
        OBVIOUS
      <4>2. a[e] = a[d]
        BY <1>2, <2>1, <4>1 DEF Contiguous
      <4> QED
        BY <1>2, <4>2
    <3> QED
      BY <1>6, <2>1, <2>2, <2>4, <3>1
  <2> QED
    BY <2>3, <2>4
<1> QED
  BY <1>9, <1>10, <1>11 DEF Chained

\* The border between l and r is now at g.
IsMoved(b, a, l, r, g) ==
  /\ g \in Ids /\ g - 1 \in Ids /\ a[g - 1] \in {l, r} /\ a[g] \in {l, r}
  /\ \A k \in Ids : b[k] = IF a[k] # l /\ a[k] # r THEN a[k] ELSE IF k < g THEN l ELSE r
LEMMA ChainMoved ==
  ASSUME NEW pg, NEW pg2, NEW a \in Division, Contiguous(a), Chained(pg, a),
         \A k \in Ids : SameLinks(pg2[a[k]], pg[a[k]]), NEW l, NEW r, l # r,
         NEW e \in Ids, e - 1 \in Ids, a[e - 1] = l, a[e] = r,
         NEW b, NEW g, IsMoved(b, a, l, r, g)
  PROVE  Chained(pg2, b)
<1>1. /\ e \in Nat /\ e - 1 \in Nat /\ 0 \in Ids /\ MAX_ROWS - 1 \in Ids /\ MAX_ROWS \in Nat
      /\ \A k \in Ids : k \in Nat /\ k <= MAX_ROWS - 1
  BY IdsAre
<1>2. PICK d \in Ids : d = e - 1 /\ d + 1 = e /\ d < e /\ d \in Nat /\ a[d] = l
  BY <1>1
<1>3. ASSUME NEW k \in Ids PROVE (a[k] = l => k < e) /\ (a[k] = r => e <= k)
  <2>1. a[e - 1] # a[e]
    OBVIOUS
  <2> QED
    BY <2>1, Sides
<1>4. /\ g \in Ids /\ g \in Nat
      /\ \A k \in Ids : b[k] = IF a[k] # l /\ a[k] # r THEN a[k] ELSE IF k < g THEN l ELSE r
  BY <1>1 DEF IsMoved
<1>5. PICK c \in Ids : c = g - 1 /\ c \in Nat /\ c + 1 = g /\ a[c] \in {l, r} /\ a[g] \in {l, r}
  <2>1. g - 1 \in Ids /\ a[g - 1] \in {l, r} /\ a[g] \in {l, r}
    BY DEF IsMoved
  <2>2. PICK c \in Ids : c = g - 1
    BY <2>1
  <2>3. c \in Nat /\ c + 1 = g
    BY <1>1, <1>4, <2>2
  <2> QED
    BY <2>1, <2>2, <2>3
<1>6. ASSUME NEW i \in Ids, NEW j \in Ids, NEW k \in Ids, i <= j, j <= k, a[i] = a[k]
      PROVE  a[j] = a[i]
  BY <1>6 DEF Contiguous
<1>7. ASSUME NEW k \in Ids, NEW y \in Ids, y = k + 1, a[k] # a[y]
      PROVE  pg2[a[k]].next = a[y] /\ pg2[a[y]].prev = a[k]
  <2>1. pg[a[k]].next = a[y] /\ pg[a[y]].prev = a[k]
    BY <1>7 DEF Chained
  <2> QED
    BY <2>1 DEF SameLinks
<1>8. pg2[l].next = r /\ pg2[r].prev = l
  BY <1>1, <1>2, <1>7
<1>9. ASSUME NEW k \in Ids, k + 1 \in Ids, b[k] # b[k + 1]
      PROVE  pg2[b[k]].next = b[k + 1] /\ pg2[b[k + 1]].prev = b[k]
  <2>1. PICK y \in Ids : y = k + 1 /\ y \in Nat /\ k \in Nat /\ k < y
    BY <1>1, <1>9
  <2>2. PICK L, R : L = a[k] /\ R = a[y]
    OBVIOUS
  <2>3. /\ b[k] = IF L # l /\ L # r THEN L ELSE IF k < g THEN l ELSE r
        /\ b[y] = IF R # l /\ R # r THEN R ELSE IF y < g THEN l ELSE r
    BY <1>4, <2>2
  <2>4. CASE L \in {l, r} /\ R \in {l, r}
    <3>1. b[k] = l /\ b[y] = r
      <4>1. y < g => k < g
        BY <1>4, <2>1
      <4> QED
        BY <1>9, <2>1, <2>3, <2>4, <4>1
    <3> QED
      BY <1>8, <2>1, <3>1
  <2>5. CASE L \notin {l, r} /\ R \in {l, r}
    <3>1. R = l
      <4>1. SUFFICES ASSUME R = r PROVE FALSE
        BY <2>5
      <4>2. e <= y
        BY <1>3, <2>2, <4>1
      <4>3. CASE e <= k
        <5>1. a[k] = a[e]
          <6>1. k <= y /\ a[e] = a[y]
            BY <2>1, <2>2, <4>1
          <6> QED
            BY <1>6, <4>3, <6>1
        <5> QED
          BY <2>2, <2>5, <5>1
      <4>4. CASE ~(e <= k)
        <5>1. k = d
          BY <1>1, <1>2, <2>1, <4>2, <4>4
        <5> QED
          BY <1>2, <2>2, <2>5, <5>1
      <4> QED
        BY <4>3, <4>4
    <3>2. y < g
      <4>1. SUFFICES ASSUME ~(y < g) PROVE FALSE
        OBVIOUS
      <4>2. c <= k /\ k <= y
        BY <1>4, <1>5, <2>1, <4>1
      <4>3. a[c] # l
        <5>1. SUFFICES ASSUME a[c] = l PROVE FALSE
          OBVIOUS
        <5>2. a[k] = a[c]
          BY <1>6, <2>2, <3>1, <4>2, <5>1
        <5> QED
          BY <2>2, <2>5, <5>1, <5>2
      <4>4. e <= c /\ y < e
        BY <1>3, <1>5, <2>2, <3>1, <4>3
      <4> QED
        BY <1>1, <1>5, <2>1, <4>2, <4>4
    <3>3. b[k] = L /\ b[y] = l
      BY <2>3, <2>5, <3>2
    <3>4. a[k] # a[y]
      BY <2>2, <2>5, <3>1
    <3>5. pg2[a[k]].next = a[y] /\ pg2[a[y]].prev = a[k]
      BY <1>7, <2>1, <3>4
    <3>6. b[k] = a[k] /\ b[y] = a[y]
      BY <2>2, <3>1, <3>3
    <3> QED
      BY <2>1, <3>5, <3>6
  <2>6. CASE L \in {l, r} /\ R \notin {l, r}
    <3>1. L = r
      <4>1. SUFFICES ASSUME L = l PROVE FALSE
        BY <2>6
      <4>2. k < e
        BY <1>3, <2>2, <4>1
      <4>3. y # e
        BY <2>2, <2>6
      <4>4. k <= y /\ y <= d
        BY <1>1, <1>2, <2>1, <4>2, <4>3
      <4>5. a[y] = a[k]
        BY <1>2, <1>6, <2>2, <4>1, <4>4
      <4> QED
        BY <2>2, <2>6, <4>5
    <3>2. ~(k < g)
      <4>1. SUFFICES ASSUME k < g PROVE FALSE
        OBVIOUS
      <4>2. k <= y /\ y <= g
        BY <1>4, <2>1, <4>1
      <4>3. a[g] # r
        <5>1. SUFFICES ASSUME a[g] = r PROVE FALSE
          OBVIOUS
        <5>2. a[y] = a[k]
          BY <1>4, <1>6, <2>2, <3>1, <4>2, <5>1
        <5> QED
          BY <2>2, <2>6, <5>2
      <4>4. g < e /\ e <= k
        BY <1>3, <1>4, <1>5, <2>2, <3>1, <4>3
      <4> QED
        BY <1>1, <1>4, <2>1, <4>1, <4>4
    <3>3. b[k] = r /\ b[y] = R
      BY <2>3, <2>6, <3>2
    <3>4. a[k] # a[y]
      BY <2>2, <2>6, <3>1
    <3>5. pg2[a[k]].next = a[y] /\ pg2[a[y]].prev = a[k]
      BY <1>7, <2>1, <3>4
    <3>6. b[k] = a[k] /\ b[y] = a[y]
      BY <2>2, <3>1, <3>3
    <3> QED
      BY <2>1, <3>5, <3>6
  <2>7. CASE L \notin {l, r} /\ R \notin {l, r}
    <3>1. b[k] = L /\ b[y] = R
      BY <2>3, <2>7
    <3> QED
      BY <1>7, <1>9, <2>1, <2>2, <3>1
  <2> QED
    BY <2>4, <2>5, <2>6, <2>7
<1>10. b[0] = a[0]
  <2>1. a[0] # r
    <3>1. ~(e <= 0)
      BY <1>1
    <3> QED
      BY <1>1, <1>3, <3>1
  <2>2. 0 < g
    BY <1>4, <1>5
  <2> QED
    BY <1>1, <1>4, <2>1, <2>2
<1>11. b[MAX_ROWS - 1] = a[MAX_ROWS - 1]
  <2>1. a[MAX_ROWS - 1] # l
    <3>1. ~(MAX_ROWS - 1 < e)
      BY <1>1
    <3> QED
      BY <1>1, <1>3, <3>1
  <2>2. ~(MAX_ROWS - 1 < g)
    BY <1>1, <1>4
  <2> QED
    BY <1>1, <1>4, <2>1, <2>2
<1>12. pg2[a[0]].prev = 0 /\ pg2[a[MAX_ROWS - 1]].next = 0
  BY <1>1 DEF Chained, SameLinks
<1> QED
  BY <1>9, <1>10, <1>11, <1>12 DEF Chained

-----------------------------------------------------------------------------
(* The leaves are divided anew *)

\* What a change of leaves and of the nodes above them leaves as it was.
IsAbove(t, s, h, at) ==
  /\ t \in Database /\ Len(t.page) = Len(s.page)
  /\ \A j \in 0 .. h, k \in Ids :
       /\ t.page[at[j][k]].parent = s.page[at[j][k]].parent
       /\ j # 0 /\ j # 1 => SameBody(t.page[at[j][k]], s.page[at[j][k]])
  /\ t.root_page_id = s.root_page_id /\ t.next_row = s.next_row
  /\ Listed(t.page, t.first_free_page)

\* The rows of a table whose next id is n.
AreRows(store, n) == \A row \in store : row \in Rows /\ row.key < n

\* Every page of b is one of a.
Drawn(b, a) == \A k \in Ids : \E x \in Ids : b[k] = a[x]

\* The nodes above the leaves send their ids where c has them, and are their parents.
AreToldOf(pg, h, at, b, c) ==
  h # 0 => NodeLevel(pg, at[1], c, 0) /\ Adopts(pg, b, c, at[1])

LEMMA LeavesChanged ==
  ASSUME NEW s, NEW store, NEW h, NEW at, Sound(s, store, h, at, at, 0),
         NEW b \in Division, Contiguous(b), Drawn(b, at[0]),
         NEW c \in {b, at[0]}, h = 0 => b = at[0], NEW t, IsAbove(t, s, h, at),
         NEW store2, AreRows(store2, s.next_row),
         LeafLevel(t.page, b, store2), Chained(t.page, b),
         AreToldOf(t.page, h, at, b, c)
  PROVE  \E g, seen : IsRelevelled(t, g, seen, store2, h, at, 0, b, c)
<1>1. /\ s \in Database /\ Listed(s.page, s.first_free_page) /\ s.next_row <= MAX_ROWS
      /\ Grown(s.page, s.root_page_id, store, h, at, at, 0)
  BY DEF Sound
<1>2. Len(s.page) \in Nat
  BY <1>1, PagesAre
<1>3. /\ h \in Nat /\ at \in [Nat -> Division]
      /\ \A j \in 0 .. h : Contiguous(at[j])
      /\ Apart(h, at, at)
      /\ \A j \in 1 .. h : NodeLevel(s.page, at[j], at[j - 1], 0)
      /\ \A j \in 1 .. h : Adopts(s.page, at[j - 1], at[j - 1], at[j])
      /\ s.page[s.root_page_id].parent = 0 /\ \A k \in Ids : at[h][k] = s.root_page_id
  BY <1>1 DEF Grown
<1>4. /\ t \in Database /\ Len(t.page) = Len(s.page)
      /\ \A j \in 0 .. h, k \in Ids :
           /\ t.page[at[j][k]].parent = s.page[at[j][k]].parent
           /\ j # 0 /\ j # 1 => SameBody(t.page[at[j][k]], s.page[at[j][k]])
      /\ t.root_page_id = s.root_page_id /\ t.next_row = s.next_row
      /\ Listed(t.page, t.first_free_page)
  BY DEF IsAbove
<1>5. \A j \in 0 .. h, k \in Ids : at[j][k] \in 1 .. Len(s.page)
  BY <1>1, <1>2, PageOfLevel
<1>6. 0 \in Nat /\ 0 \in 0 .. h /\ h \in 0 .. h /\ h \in Nat
  BY <1>3
<1>7. c \in Division /\ Contiguous(c) /\ \A k \in Ids : \E x \in Ids : c[k] = at[0][x]
  BY <1>3, <1>6 DEF Drawn
<1>8. PICK g : g = [at EXCEPT ![0] = b]
  OBVIOUS
<1>9. PICK seen : seen = [at EXCEPT ![0] = c]
  OBVIOUS
<1>10. /\ g \in [Nat -> Division] /\ \A j \in Nat : g[j] = IF j = 0 THEN b ELSE at[j]
       /\ seen \in [Nat -> Division] /\ \A j \in Nat : seen[j] = IF j = 0 THEN c ELSE at[j]
  BY <1>3, <1>6, <1>7, <1>8, <1>9
<1>11. ASSUME NEW j \in 0 .. h PROVE Contiguous(g[j]) /\ Contiguous(seen[j])
  BY <1>3, <1>7, <1>10
<1>12. Apart(h, g, seen)
  <2>1. ASSUME NEW j \in 0 .. h, NEW k \in Ids
        PROVE  /\ \E x \in Ids : g[j][k] = at[j][x]
               /\ \E x \in Ids : seen[j][k] = at[j][x] \/ seen[j][k] = at[j][x]
    BY <1>3, <1>7, <1>10 DEF Drawn
  <2>2. NoNew(h, g, seen, at, at)
    BY <2>1 DEF NoNew
  <2>3. h <= h
    BY <1>3
  <2> QED
    BY <1>3, <2>2, <2>3, ApartSame
<1>13. ASSUME NEW j \in 0 .. h, NEW k \in Ids
       PROVE  at[j][k] \in 1 .. Len(t.page) /\ t.page[at[j][k]] \in Page
  <2>1. at[j][k] \in 1 .. Len(t.page)
    BY <1>4, <1>5
  <2> QED
    BY <1>4, <2>1, PagesAre
<1>14. ASSUME NEW j \in 1 .. h PROVE NodeLevel(t.page, g[j], seen[j - 1], 0)
  <2>1. j \in Nat /\ j \in 0 .. h /\ j - 1 \in Nat /\ j # 0 /\ h # 0 /\ (j = 1 \/ (j # 1 /\ j - 1 # 0))
    BY <1>3
  <2>2. CASE j = 1
    <3>1. seen[j - 1] = c /\ g[j] = at[1]
      BY <1>10, <2>1, <2>2
    <3> QED
      BY <2>1, <3>1 DEF AreToldOf
  <2>3. CASE j # 1 /\ j - 1 # 0
    <3>1. g[j] = at[j] /\ seen[j - 1] = at[j - 1] /\ NodeLevel(s.page, at[j], at[j - 1], 0)
      BY <1>3, <1>10, <2>1, <2>3
    <3>2. ASSUME NEW k \in Ids
          PROVE  /\ at[j][k] \in 1 .. Len(t.page) /\ t.page[at[j][k]] \in Page
                 /\ SameBody(t.page[at[j][k]], s.page[at[j][k]])
      BY <1>4, <1>13, <2>1, <2>3
    <3>3. NodeLevel(t.page, at[j], at[j - 1], 0)
      BY <3>1, <3>2, NodeLevelKept
    <3> QED
      BY <3>1, <3>3
  <2> QED
    BY <2>1, <2>2, <2>3
<1>15. ASSUME NEW j \in 1 .. h PROVE Adopts(t.page, g[j - 1], seen[j - 1], g[j])
  <2>1. /\ j \in Nat /\ j \in 0 .. h /\ j - 1 \in Nat /\ j - 1 \in 0 .. h /\ j # 0 /\ h # 0
        /\ (j = 1 \/ (j # 1 /\ j - 1 # 0))
    BY <1>3
  <2>2. CASE j = 1
    <3>1. g[j - 1] = b /\ seen[j - 1] = c /\ g[j] = at[1]
      BY <1>10, <2>1, <2>2
    <3> QED
      BY <2>1, <3>1 DEF AreToldOf
  <2>3. CASE j # 1 /\ j - 1 # 0
    <3>1. /\ g[j] = at[j] /\ g[j - 1] = at[j - 1] /\ seen[j - 1] = at[j - 1]
          /\ Adopts(s.page, at[j - 1], at[j - 1], at[j])
      BY <1>3, <1>10, <2>1, <2>3
    <3>2. ASSUME NEW k \in Ids PROVE t.page[at[j - 1][k]].parent = at[j][k]
      <4>1. s.page[at[j - 1][k]].parent = at[j][k]
        BY <3>1 DEF Adopts
      <4> QED
        BY <1>4, <2>1, <4>1
    <3> QED
      BY <3>1, <3>2 DEF Adopts
  <2> QED
    BY <2>1, <2>2, <2>3
<1>16. t.page[t.root_page_id].parent = 0 /\ \A k \in Ids : seen[h][k] = t.root_page_id
  <2>1. seen[h] = at[h]
    BY <1>3, <1>6, <1>10
  <2>2. 0 \in Ids
    BY IdsAre
  <2>3. t.page[at[h][0]].parent = s.page[at[h][0]].parent
    BY <1>4, <1>6, <2>2
  <2> QED
    BY <1>3, <1>4, <2>1, <2>2, <2>3
<1>17. g[0] = b
  BY <1>6, <1>10
<1>18. Grown(t.page, t.root_page_id, store2, h, g, seen, 0)
  BY <1>3, <1>10, <1>11, <1>12, <1>14, <1>15, <1>16, <1>17 DEF Grown
<1>19. Sound(t, store2, h, g, seen, 0)
  BY <1>1, <1>4, <1>18 DEF Sound, AreRows
<1> QED
  BY <1>10, <1>19 DEF IsRelevelled

\* The levels are as they were, and what changes is the rows of the table.
LEMMA StoreChanged ==
  ASSUME NEW s, NEW store, NEW h, NEW at, Sound(s, store, h, at, at, 0),
         NEW t, IsAbove(t, s, h, at),
         \A j \in 0 .. h, k \in Ids : j # 0 => SameBody(t.page[at[j][k]], s.page[at[j][k]]),
         NEW store2, AreRows(store2, s.next_row),
         LeafLevel(t.page, at[0], store2), Chained(t.page, at[0])
  PROVE  Sound(t, store2, h, at, at, 0)
<1>1. /\ Len(s.page) \in Nat /\ s \in Database /\ h \in Nat /\ at \in [Nat -> Division]
      /\ Grown(s.page, s.root_page_id, store, h, at, at, 0)
      /\ \A j \in 0 .. h : Contiguous(at[j])
      /\ \A j \in 1 .. h : NodeLevel(s.page, at[j], at[j - 1], 0)
      /\ \A j \in 1 .. h : Adopts(s.page, at[j - 1], at[j - 1], at[j])
  BY PagesAre DEF Sound, Grown
<1>2. PICK b \in Division : b = at[0] /\ Contiguous(b)
  BY <1>1
<1>3. h # 0 => NodeLevel(t.page, at[1], b, 0) /\ Adopts(t.page, b, b, at[1])
  <2>1. SUFFICES ASSUME h # 0 PROVE NodeLevel(t.page, at[1], b, 0) /\ Adopts(t.page, b, b, at[1])
    OBVIOUS
  <2>2. 1 \in 1 .. h /\ 1 \in 0 .. h /\ 0 \in 0 .. h /\ 1 - 1 = 0 /\ 1 # 0
    BY <1>1, <2>1
  <2>3. NodeLevel(s.page, at[1], b, 0) /\ Adopts(s.page, b, b, at[1])
    BY <1>1, <1>2, <2>2
  <2>4. ASSUME NEW k \in Ids
        PROVE  /\ at[1][k] \in 1 .. Len(t.page) /\ t.page[at[1][k]] \in Page
               /\ SameBody(t.page[at[1][k]], s.page[at[1][k]])
               /\ t.page[b[k]].parent = s.page[b[k]].parent
    <3>1. at[1][k] \in 1 .. Len(s.page)
      BY <1>1, <2>2, PageOfLevel
    <3>2. t \in Database /\ Len(t.page) = Len(s.page)
          /\ t.page[b[k]].parent = s.page[b[k]].parent
      BY <1>2, <2>2 DEF IsAbove
    <3>3. at[1][k] \in 1 .. Len(t.page) /\ t.page[at[1][k]] \in Page
      BY <3>1, <3>2, PagesAre
    <3> QED
      BY <2>2, <3>2, <3>3
  <2>5. NodeLevel(t.page, at[1], b, 0)
    BY <2>3, <2>4, NodeLevelKept
  <2> QED
    BY <2>3, <2>4, <2>5 DEF Adopts
<1>4. b \in {b, at[0]} /\ (h = 0 => b = at[0]) /\ Drawn(b, at[0]) /\ AreToldOf(t.page, h, at, b, b)
  BY <1>2, <1>3 DEF Drawn, AreToldOf
<1>5. LeafLevel(t.page, b, store2) /\ Chained(t.page, b)
  BY <1>2
<1>6. PICK g, seen : IsRelevelled(t, g, seen, store2, h, at, 0, b, b)
  BY <1>2, <1>4, <1>5, LeavesChanged
<1>7. /\ \A j \in Nat : g[j] = IF j = 0 THEN b ELSE at[j]
      /\ \A j \in Nat : seen[j] = IF j = 0 THEN b ELSE at[j]
      /\ Sound(t, store2, h, g, seen, 0)
  BY <1>6 DEF IsRelevelled
<1>8. \A j \in Nat : g[j] = seen[j] /\ g[j] = at[j]
  BY <1>2, <1>7
<1>9. g \in [Nat -> Division] /\ Sound(t, store2, h, g, g, 0)
  BY <1>7, <1>8, SoundAsSeen DEF Sound, Grown
<1>10. g = at
  BY <1>1, <1>8, <1>9
<1> QED
  BY <1>9, <1>10

LEMMA StoredIs ==
  ASSUME NEW store, NEW n \in Nat, n <= MAX_ROWS, AreRows(store, n)
  PROVE  Stored(store)
<1>1. ASSUME NEW row \in store PROVE row \in Rows /\ row.key \in Ids
  <2>1. row \in Rows /\ row.key < n
    BY DEF AreRows
  <2>2. row.key \in Nat
    BY <2>1 DEF Rows
  <2> QED
    BY <2>1, <2>2, IdsAre
<1> QED
  BY <1>1 DEF Stored

\* Leaf p is the only one whose rows change, and with them those of the table.
AgreeElsewhere(store2, store, a, p) ==
  \A row \in Rows : row.key \in Ids /\ a[row.key] # p => (row \in store2 <=> row \in store)

\* Page p has other rows.
WithRows(s, p, rows) == [s EXCEPT !.page[p].rows = rows]

\* t is s with the rows of page p, and of the table, changed.
IsRowed(t, s, p, rows, store2, h, at) ==
  /\ Sound(t, store2, h, at, at, 0) /\ Keeps(t, h, at, s, h, at, {}) /\ t.next_row = s.next_row
  /\ Len(t.page) = Len(s.page) /\ t.page[p].rows = rows /\ t.page[p].parent = s.page[p].parent

\* Leaf p can have these rows.
MayHave(s, p, rows, store2, store, h, at) ==
  /\ Sound(s, store, h, at, at, 0) /\ AreRows(store2, s.next_row)
  /\ AgreeElsewhere(store2, store, at[0], p)
  /\ RowsIn(rows, p, at[0], store2) /\ Taken(rows) <= NODE_SPACE

LEMMA RowsChanged ==
  ASSUME NEW s, NEW store, NEW h, NEW at, NEW p, NEW k0 \in Ids, p = at[0][k0],
         NEW rows, NEW store2, MayHave(s, p, rows, store2, store, h, at)
  PROVE  IsRowed(WithRows(s, p, rows), s, p, rows, store2, h, at)
<1> SUFFICES ASSUME Sound(s, store, h, at, at, 0), AreRows(store2, s.next_row),
                    AgreeElsewhere(store2, store, at[0], p),
                    RowsIn(rows, p, at[0], store2), Taken(rows) <= NODE_SPACE,
                    NEW t, t = WithRows(s, p, rows)
             PROVE  IsRowed(t, s, p, rows, store2, h, at)
  BY DEF MayHave
<1>1. /\ s \in Database /\ Listed(s.page, s.first_free_page) /\ Stored(store)
      /\ Grown(s.page, s.root_page_id, store, h, at, at, 0)
      /\ s.next_row \in Nat /\ s.next_row <= MAX_ROWS
      /\ Len(s.page) \in Nat
  BY SoundStored, PagesAre DEF Sound
<1>2. /\ h \in Nat /\ 0 \in 0 .. h /\ LeafLevel(s.page, at[0], store) /\ Chained(s.page, at[0])
      /\ Apart(h, at, at) /\ at \in [Nat -> Division]
  BY <1>1 DEF Grown
<1>3. \A j \in 0 .. h, k \in Ids : at[j][k] \in 1 .. Len(s.page)
  BY <1>1, PageOfLevel
<1>4. PICK a \in Division : a = at[0] /\ a[k0] = p /\ p \in 1 .. Len(s.page)
  BY <1>2, <1>3
<1>5. Stored(store2)
  BY <1>1, StoredIs
<1>6. rows \in Seq(Rows)
  BY DEF RowsIn
<1>7. PICK x : IsSet(t, s, p, x) /\ IsWithRows(x, s.page[p], rows)
  BY <1>1, <1>4, <1>6, SetRows DEF WithRows
<1>8. /\ t \in Database /\ Len(t.page) = Len(s.page) /\ t.page[p] = x
      /\ \A y \in 1 .. Len(s.page) : y # p => t.page[y] = s.page[y]
      /\ t.root_page_id = s.root_page_id /\ t.next_row = s.next_row
      /\ t.first_free_page = s.first_free_page
  BY <1>7 DEF IsSet
<1>9. /\ x.type = s.page[p].type /\ x.parent = s.page[p].parent /\ SameLinks(x, s.page[p])
      /\ x.rows = rows /\ x.cells = s.page[p].cells
  BY <1>7 DEF IsWithRows
<1>10. s.page[p].type = "leaf" /\ s.page[p].cells = <<>>
  BY <1>2, <1>4 DEF LeafLevel
<1>11. Listed(t.page, t.first_free_page)
  <2>1. \A y \in 1 .. Len(s.page) :
          s.page[y].type = "free" => t.page[y].type = "free" /\ t.page[y].next = s.page[y].next
    BY <1>8, <1>9, <1>10
  <2>2. Listed(s.page, s.first_free_page) /\ Len(s.page) \in Nat /\ Len(t.page) \in Nat
        /\ Len(s.page) <= Len(t.page)
    BY <1>1, <1>8
  <2>4. \A y \in 1 .. Len(t.page) : t.page[y].type = "free" =>
          y \in 1 .. Len(s.page) /\ s.page[y].type = "free" /\ t.page[y].rows = s.page[y].rows
    BY <1>8, <1>9, <1>10
  <2>3. Listed(t.page, s.first_free_page)
    BY <2>1, <2>2, <2>4, ListedKept
  <2> QED
    BY <1>8, <2>3
<1>12. ASSUME NEW j \in 0 .. h, NEW k \in Ids
       PROVE  /\ t.page[at[j][k]].parent = s.page[at[j][k]].parent
              /\ SameLinks(t.page[at[j][k]], s.page[at[j][k]])
              /\ j # 0 => SameBody(t.page[at[j][k]], s.page[at[j][k]])
  <2>1. CASE at[j][k] = p
    <3>1. at[j][k] = at[0][k0] => j = 0
      BY <1>2, ApartAt, SMTT(30)
    <3> QED
      BY <1>4, <1>8, <1>9, <2>1, <3>1
  <2>2. CASE at[j][k] # p
    BY <1>3, <1>8, <2>2 DEF SameLinks, SameBody
  <2> QED
    BY <2>1, <2>2
<1>13. IsAbove(t, s, h, at)
  BY <1>8, <1>11, <1>12 DEF IsAbove
<1>14. Chained(t.page, at[0])
  BY <1>2, <1>12, ChainedKept
<1>15. LeafLevel(t.page, a, store2)
  <2>1. ASSUME NEW k \in Ids
        PROVE  /\ a[k] \in 1 .. Len(t.page) /\ t.page[a[k]].type = "leaf" /\ t.page[a[k]].cells = <<>>
               /\ RowsIn(t.page[a[k]].rows, a[k], a, store2) /\ Taken(t.page[a[k]].rows) <= NODE_SPACE
    <3>1. PICK y \in 1 .. Len(s.page) : y = a[k]
      BY <1>2, <1>3, <1>4
    <3>2. CASE y = p
      BY <1>4, <1>8, <1>9, <1>10, <3>1, <3>2
    <3>3. CASE y # p
      <4>1. /\ s.page[y].type = "leaf" /\ s.page[y].cells = <<>>
            /\ RowsIn(s.page[y].rows, y, a, store) /\ Taken(s.page[y].rows) <= NODE_SPACE
        BY <1>2, <1>4, <3>1 DEF LeafLevel
      <4>2. ASSUME NEW row \in Rows
            PROVE  row \in store /\ a[row.key] = y <=> row \in store2 /\ a[row.key] = y
        <5>1. row \in store \/ row \in store2 => row.key \in Ids
          BY <1>1, <1>5 DEF Stored
        <5>2. row.key \in Ids /\ a[row.key] # p => (row \in store2 <=> row \in store)
          BY <1>4 DEF AgreeElsewhere
        <5> QED
          BY <3>3, <5>1, <5>2
      <4>3. RowsIn(s.page[y].rows, y, a, store2)
        BY <4>1, <4>2 DEF RowsIn
      <4> QED
        BY <1>8, <3>1, <3>3, <4>1, <4>3
    <3> QED
      BY <3>2, <3>3
  <2> QED
    BY <2>1 DEF LeafLevel
<1>16. Sound(t, store2, h, at, at, 0)
  BY <1>4, <1>12, <1>13, <1>14, <1>15, StoreChanged
<1>17. Keeps(t, h, at, s, h, at, {})
  <2>1. \A y \in 1 .. Len(s.page) : s.page[y].type = "free" => t.page[y].type = "free"
    BY <1>8, <1>9, <1>10
  <2> QED
    BY <1>8, <2>1, KeepsTo
<1> QED
  BY <1>8, <1>9, <1>16, <1>17 DEF IsRowed

\* The next id is given.
LEMMA IdGiven ==
  ASSUME NEW s, NEW store, NEW h, NEW at, Sound(s, store, h, at, at, 0), s.next_row < MAX_ROWS,
         NEW t, t = [s EXCEPT !.next_row = @ + 1]
  PROVE  Sound(t, store, h, at, at, 0) /\ t.next_row = s.next_row + 1 /\ t.page = s.page
<1>1. /\ s \in Database /\ s.next_row \in Nat
      /\ \A row \in store : row \in Rows /\ row.key < s.next_row
  BY PagesAre DEF Sound
<1>2. /\ t \in Database /\ t.page = s.page /\ t.root_page_id = s.root_page_id
      /\ t.first_free_page = s.first_free_page /\ t.next_row = s.next_row + 1
  <2>1. PICK n \in Nat : n = s.next_row + 1
    BY <1>1
  <2>2. t = [s EXCEPT !.next_row = n]
    BY <2>1
  <2> QED
    BY <1>1, <2>1, <2>2 DEF Database
<1>3. t.next_row <= MAX_ROWS
  BY <1>1, <1>2, IdsAre
<1>4. \A row \in store : row \in Rows /\ row.key < t.next_row
  <2>1. ASSUME NEW row \in store PROVE row \in Rows /\ row.key < t.next_row
    <3>1. row \in Rows /\ row.key \in Nat /\ row.key < s.next_row
      BY <1>1 DEF Rows
    <3> QED
      BY <1>1, <1>2, <3>1
  <2> QED
    BY <2>1
<1> QED
  BY <1>2, <1>3, <1>4 DEF Sound

-----------------------------------------------------------------------------
(* merge_leaf *)

\* l and r are neighbouring leaves, with one node above them.
AreLeaves(at, l, r, e) ==
  /\ e \in Ids /\ e - 1 \in Ids /\ l = at[0][e - 1] /\ r = at[0][e] /\ l # r
  /\ at[1][e - 1] = at[1][e]

\* What merge_leaf does to the pages before it frees r and goes to the parent.
IsLeafJoined(t, s, l, rows, next) ==
  /\ t \in Database /\ Len(t.page) = Len(s.page)
  /\ t.page[l].type = s.page[l].type /\ t.page[l].cells = s.page[l].cells
  /\ t.page[l].rows = rows /\ t.page[l].next = next
  /\ \A x \in 1 .. Len(s.page) :
       /\ x # l => SameBody(t.page[x], s.page[x]) /\ t.page[x].next = s.page[x].next
       /\ t.page[x].parent = s.page[x].parent
       /\ t.page[x].prev = IF next # 0 /\ x = next THEN l ELSE s.page[x].prev
  /\ t.root_page_id = s.root_page_id /\ t.next_row = s.next_row
  /\ t.first_free_page = s.first_free_page

LEMMA MergeLeafPages ==
  ASSUME NEW s \in Database, NEW l \in 1 .. Len(s.page), NEW r, NEW rows \in Seq(Rows),
         rows = Appended(s.page[l].rows, s.page[r].rows),
         NEW next \in Nat, next = s.page[r].next, next = 0 \/ next \in 1 .. Len(s.page)
  PROVE  \E t : /\ MergeLeaf(s, l, r) = RemoveInternalCell(Freed(t, r), s.page[l].parent, r)
                /\ IsLeafJoined(t, s, l, rows, next)
<1>1. PICK t0 : t0 = [s EXCEPT !.page[l].rows = rows]
  OBVIOUS
<1>2. PICK x : IsSet(t0, s, l, x) /\ IsWithRows(x, s.page[l], rows)
  BY <1>1, SetRows
<1>3. /\ t0 \in Database /\ Len(t0.page) = Len(s.page) /\ t0.page[l] = x
      /\ \A y \in 1 .. Len(s.page) : y # l => t0.page[y] = s.page[y]
      /\ t0.root_page_id = s.root_page_id /\ t0.next_row = s.next_row
      /\ t0.first_free_page = s.first_free_page
  BY <1>2 DEF IsSet
<1>4. /\ x.type = s.page[l].type /\ x.parent = s.page[l].parent /\ SameLinks(x, s.page[l])
      /\ x.rows = rows /\ x.cells = s.page[l].cells
  BY <1>2 DEF IsWithRows
<1>5. PICK t1 : t1 = [t0 EXCEPT !.page[l].next = next]
  OBVIOUS
<1>6. PICK y : IsSet(t1, t0, l, y) /\ IsWithNext(y, t0.page[l], next)
  BY <1>3, <1>5, SetNext
<1>7. /\ t1 \in Database /\ Len(t1.page) = Len(t0.page) /\ t1.page[l] = y
      /\ \A z \in 1 .. Len(t0.page) : z # l => t1.page[z] = t0.page[z]
      /\ t1.root_page_id = t0.root_page_id /\ t1.next_row = t0.next_row
      /\ t1.first_free_page = t0.first_free_page
  BY <1>6 DEF IsSet
<1>8. SameBody(y, x) /\ y.parent = x.parent /\ y.prev = x.prev /\ y.next = next
  BY <1>3, <1>6 DEF IsWithNext
<1>9. PICK t : t = Linked(t1, next, l)
  OBVIOUS
<1>10. IsLinked(t, t1, next, l)
  <2>1. l \in Nat /\ (next = 0 \/ next \in 1 .. Len(t1.page))
    BY <1>3, <1>7
  <2> QED
    BY <1>7, <1>9, <2>1, LinkedEffect
<1>11. /\ t \in Database /\ Len(t.page) = Len(t1.page)
       /\ \A z \in 1 .. Len(t1.page) :
            /\ SameBody(t.page[z], t1.page[z]) /\ t.page[z].next = t1.page[z].next
            /\ t.page[z].prev = IF next # 0 /\ z = next THEN l ELSE t1.page[z].prev
            /\ t.page[z].parent = t1.page[z].parent
       /\ t.root_page_id = t1.root_page_id /\ t.next_row = t1.next_row
       /\ t.first_free_page = t1.first_free_page
  BY <1>10 DEF IsLinked
<1>12. ASSUME NEW z \in 1 .. Len(s.page)
       PROVE  /\ z # l => SameBody(t.page[z], s.page[z]) /\ t.page[z].next = s.page[z].next
              /\ t.page[z].parent = s.page[z].parent
              /\ t.page[z].prev = IF next # 0 /\ z = next THEN l ELSE s.page[z].prev
  <2>1. CASE z = l
    BY <1>3, <1>4, <1>7, <1>8, <1>11, <2>1 DEF SameLinks
  <2>2. CASE z # l
    BY <1>3, <1>7, <1>11, <2>2
  <2> QED
    BY <2>1, <2>2
<1>13. /\ t.page[l].type = s.page[l].type /\ t.page[l].cells = s.page[l].cells
       /\ t.page[l].rows = rows /\ t.page[l].next = next
  BY <1>3, <1>4, <1>7, <1>8, <1>11 DEF SameBody
<1>14. IsLeafJoined(t, s, l, rows, next)
  BY <1>3, <1>7, <1>11, <1>12, <1>13 DEF IsLeafJoined
<1>15. MergeLeaf(s, l, r) = RemoveInternalCell(Freed(t, r), s.page[l].parent, r)
  BY <1>1, <1>5, <1>9 DEF MergeLeaf
<1> QED
  BY <1>14, <1>15

\* The next leaf, if there is one, is a leaf.
LEMMA NextLeaf ==
  ASSUME NEW s, NEW store, NEW h, NEW at, Sound(s, store, h, at, at, 0), NEW k0 \in Ids,
         NEW p, p = at[0][k0], NEW next, next = s.page[p].next
  PROVE  next \in Nat /\ (next = 0 \/ next \in 1 .. Len(s.page))
<1>1. /\ s \in Database /\ Len(s.page) \in Nat /\ h \in Nat /\ at \in [Nat -> Division]
      /\ Grown(s.page, s.root_page_id, store, h, at, at, 0) /\ Chained(s.page, at[0])
  BY PagesAre DEF Sound, Grown
<1>2. PICK a \in Division : a = at[0] /\ a[k0] = p
  BY <1>1
<1>3. PICK f, m \in Ids : IsBetween(s.page, p, a, f, m)
  BY <1>1, <1>2, Neighbours DEF Used
<1>4. next = 0 \/ (m + 1 \in Ids /\ next = a[m + 1])
  BY <1>3 DEF IsBetween, IsEnds
<1>5. \A k \in Ids : a[k] \in Nat /\ a[k] \in 1 .. Len(s.page)
  <2>1. 0 \in 0 .. h
    BY <1>1
  <2> QED
    BY <1>1, <1>2, <2>1, PageOfLevel
<1> QED
  BY <1>4, <1>5

\* The ids of r are l's.
TakesOver(b, a, l, r) == \A k \in Ids : b[k] = IF a[k] = r THEN l ELSE a[k]

\* The level of the leaves after the rows of r have gone to l.
LEMMA JoinedLevel ==
  ASSUME NEW s, NEW store, Stored(store), NEW a \in Division, Contiguous(a),
         LeafLevel(s.page, a, store),
         NEW e \in Ids, e - 1 \in Ids, NEW l \in Nat, NEW r \in Nat, l # r, l = a[e - 1], r = a[e],
         NEW rows \in Seq(Rows), IsConcat(rows, s.page[l].rows, s.page[r].rows),
         Taken(rows) <= NODE_SPACE,
         NEW t, NEW next, IsLeafJoined(t, s, l, rows, next),
         NEW b, TakesOver(b, a, l, r)
  PROVE  LeafLevel(t.page, b, store)
<1>5. \A k \in Ids : b[k] = IF a[k] = r THEN l ELSE a[k]
  BY DEF TakesOver
<1>1. /\ Len(t.page) = Len(s.page)
      /\ t.page[l].type = s.page[l].type /\ t.page[l].cells = s.page[l].cells
      /\ t.page[l].rows = rows
      /\ \A x \in 1 .. Len(s.page) : x # l => SameBody(t.page[x], s.page[x])
  BY DEF IsLeafJoined
<1>2. /\ l \in 1 .. Len(s.page) /\ s.page[l].type = "leaf" /\ s.page[l].cells = <<>>
      /\ RowsIn(s.page[l].rows, l, a, store) /\ RowsIn(s.page[r].rows, r, a, store)
  BY DEF LeafLevel
<1>3. RowsIn(rows, l, b, store)
  BY <1>2, <1>5, JoinRows, SMTT(30)
<1>4. ASSUME NEW k \in Ids
      PROVE  /\ b[k] \in 1 .. Len(t.page) /\ t.page[b[k]].type = "leaf" /\ t.page[b[k]].cells = <<>>
             /\ RowsIn(t.page[b[k]].rows, b[k], b, store) /\ Taken(t.page[b[k]].rows) <= NODE_SPACE
  <2>1. CASE b[k] = l
    BY <1>1, <1>2, <1>3, <2>1
  <2>2. CASE b[k] # l
    <3>1. PICK x : x = a[k] /\ x = b[k] /\ x # l /\ x # r
      BY <1>5, <2>2
    <3>2. /\ x \in 1 .. Len(s.page) /\ s.page[x].type = "leaf" /\ s.page[x].cells = <<>>
          /\ RowsIn(s.page[x].rows, x, a, store) /\ Taken(s.page[x].rows) <= NODE_SPACE
      BY <3>1 DEF LeafLevel
    <3>3. \A y \in Ids : b[y] = x <=> a[y] = x
      BY <1>5, <3>1
    <3>4. RowsIn(s.page[x].rows, x, b, store)
      BY <3>2, <3>3, RowsInSame
    <3>5. SameBody(t.page[x], s.page[x])
      BY <1>1, <3>1, <3>2
    <3>6. t.page[x].type = "leaf" /\ t.page[x].cells = <<>> /\ t.page[x].rows = s.page[x].rows
      BY <3>2, <3>5 DEF SameBody
    <3> QED
      BY <1>1, <3>1, <3>2, <3>4, <3>6
  <2> QED
    BY <2>1, <2>2
<1> QED
  BY <1>4 DEF LeafLevel

LEMMA MergeLeafSound ==
  ASSUME NEW s, NEW store, NEW h, NEW at, Sound(s, store, h, at, at, 0), h # 0,
         NEW l, NEW r, NEW e, AreLeaves(at, l, r, e),
         Taken(s.page[l].rows) + Taken(s.page[r].rows) <= NODE_SPACE, Len(s.page) < CHILD_IDS
  PROVE  IsRemoved(MergeLeaf(s, l, r), s, store, h, at)
<1>1. /\ s \in Database /\ Listed(s.page, s.first_free_page) /\ Stored(store) /\ Len(s.page) \in Nat
      /\ Grown(s.page, s.root_page_id, store, h, at, at, 0)
      /\ AreRows(store, s.next_row)
  BY SoundStored, PagesAre DEF Sound, AreRows
<1>2. /\ h \in Nat /\ at \in [Nat -> Division] /\ Apart(h, at, at)
      /\ \A j \in 0 .. h : Contiguous(at[j])
      /\ LeafLevel(s.page, at[0], store) /\ Chained(s.page, at[0])
      /\ \A j \in 1 .. h : NodeLevel(s.page, at[j], at[j - 1], 0)
      /\ \A j \in 1 .. h : Adopts(s.page, at[j - 1], at[j - 1], at[j])
      /\ \A k \in Ids : at[h][k] = s.root_page_id
  BY <1>1 DEF Grown
<1>3. /\ e \in Ids /\ e - 1 \in Ids /\ l = at[0][e - 1] /\ r = at[0][e] /\ l # r
      /\ at[1][e - 1] = at[1][e]
  BY DEF AreLeaves
<1>4. 0 \in 0 .. h /\ 1 \in 0 .. h /\ 1 \in 1 .. h /\ 1 - 1 = 0 /\ h \in 0 .. h
  BY <1>2
<1>5. PICK a \in Division : a = at[0] /\ Contiguous(a) /\ l = a[e - 1] /\ r = a[e]
  BY <1>2, <1>3, <1>4
<1>6. \A j \in 0 .. h, k \in Ids : at[j][k] \in Nat /\ at[j][k] \in 1 .. Len(s.page) /\ at[j][k] # 0
  BY <1>1, PageOfLevel
<1>7. l \in Nat /\ r \in Nat /\ l \in 1 .. Len(s.page) /\ r \in 1 .. Len(s.page)
  BY <1>3, <1>4, <1>6
<1>8. PICK next : next = s.page[r].next
  OBVIOUS
<1>9. next \in Nat /\ (next = 0 \/ next \in 1 .. Len(s.page))
  BY <1>3, <1>8, NextLeaf
<1>10. /\ RowsIn(s.page[l].rows, l, a, store) /\ RowsIn(s.page[r].rows, r, a, store)
       /\ s.page[l].type = "leaf"
  BY <1>2, <1>3, <1>5 DEF LeafLevel
<1>11. PICK rows \in Seq(Rows) :
         /\ rows = Appended(s.page[l].rows, s.page[r].rows)
         /\ IsConcat(rows, s.page[l].rows, s.page[r].rows) /\ Taken(rows) <= NODE_SPACE
  <2>1. s.page[l].rows \in Seq(Rows) /\ s.page[r].rows \in Seq(Rows)
    BY <1>10 DEF RowsIn
  <2> QED
    BY <2>1, AppendedRows
<1>12. PICK t : /\ MergeLeaf(s, l, r) = RemoveInternalCell(Freed(t, r), s.page[l].parent, r)
                /\ IsLeafJoined(t, s, l, rows, next)
  BY <1>1, <1>7, <1>8, <1>9, <1>11, MergeLeafPages
<1>13. /\ t \in Database /\ Len(t.page) = Len(s.page)
       /\ t.page[l].type = s.page[l].type /\ t.page[l].cells = s.page[l].cells
       /\ t.page[l].rows = rows /\ t.page[l].next = next
       /\ \A x \in 1 .. Len(s.page) :
            /\ x # l => SameBody(t.page[x], s.page[x]) /\ t.page[x].next = s.page[x].next
            /\ t.page[x].parent = s.page[x].parent
            /\ t.page[x].prev = IF next # 0 /\ x = next THEN l ELSE s.page[x].prev
       /\ t.root_page_id = s.root_page_id /\ t.next_row = s.next_row
       /\ t.first_free_page = s.first_free_page
  BY <1>12 DEF IsLeafJoined
<1>14. PICK b \in Division : /\ Contiguous(b)
                             /\ \A k \in Ids : b[k] = IF a[k] = r THEN l ELSE a[k]
  <2>1. a[e - 1] # a[e]
    BY <1>3, <1>5
  <2>2. /\ Contiguous(Shift(a, l, r, MAX_ROWS))
        /\ \A k \in Ids : Shift(a, l, r, MAX_ROWS)[k] = IF a[k] = r THEN l ELSE a[k]
    BY <1>3, <1>5, <1>7, <2>1, JoinDivision
  <2>3. Shift(a, l, r, MAX_ROWS) \in Division
    BY <1>7, ShiftAt
  <2> QED
    BY <2>2, <2>3
<1>15. LeafLevel(t.page, b, store)
  <2>1. LeafLevel(s.page, a, store)
    BY <1>2, <1>5
  <2>2. /\ Stored(store) /\ Contiguous(a) /\ e \in Ids /\ e - 1 \in Ids /\ l \in Nat /\ r \in Nat
        /\ l # r /\ l = a[e - 1] /\ r = a[e]
    BY <1>1, <1>3, <1>5, <1>7
  <2>3. /\ IsConcat(rows, s.page[l].rows, s.page[r].rows) /\ Taken(rows) <= NODE_SPACE
        /\ IsLeafJoined(t, s, l, rows, next)
    BY <1>11, <1>12
  <2>4. TakesOver(b, a, l, r)
    BY <1>14 DEF TakesOver
  <2> QED
    BY <2>1, <2>2, <2>3, <2>4, JoinedLevel
<1>16. Chained(t.page, b)
  <2>1. ASSUME NEW k \in Ids
        PROVE  /\ a[k] # l /\ a[k] # r => t.page[a[k]].next = s.page[a[k]].next
               /\ a[k] # r /\ a[k] # next => t.page[a[k]].prev = s.page[a[k]].prev
    <3>1. a[k] \in 1 .. Len(s.page)
      BY <1>4, <1>5, <1>6
    <3> QED
      BY <1>13, <3>1
  <2>2. next # 0 => t.page[next].prev = l
    BY <1>9, <1>13
  <2>3. IsUnchained(t.page, s.page, a, l, r, next)
    BY <1>13, <2>1, <2>2 DEF IsUnchained
  <2>4. Chained(s.page, a) /\ \A k \in Ids : a[k] # 0
    BY <1>2, <1>4, <1>5, <1>6
  <2> QED
    BY <1>3, <1>5, <1>8, <1>14, <2>3, <2>4, ChainJoin
<1>17. Listed(t.page, t.first_free_page)
  <2>1. \A x \in 1 .. Len(s.page) :
          s.page[x].type = "free" => t.page[x].type = "free" /\ t.page[x].next = s.page[x].next
    BY <1>10, <1>13 DEF SameBody
  <2>2. Len(s.page) \in Nat /\ Len(t.page) \in Nat /\ Len(s.page) <= Len(t.page)
    BY <1>1, <1>13
  <2>4. \A x \in 1 .. Len(t.page) : t.page[x].type = "free" =>
          x \in 1 .. Len(s.page) /\ s.page[x].type = "free" /\ t.page[x].rows = s.page[x].rows
    BY <1>10, <1>13 DEF SameBody
  <2>3. Listed(t.page, s.first_free_page)
    BY <1>1, <2>1, <2>2, <2>4, ListedKept
  <2> QED
    BY <1>13, <2>3
<1>18. ASSUME NEW j \in 0 .. h, NEW k \in Ids
       PROVE  /\ t.page[at[j][k]].parent = s.page[at[j][k]].parent
              /\ j # 0 => SameBody(t.page[at[j][k]], s.page[at[j][k]])
  <2>1. PICK d \in Ids, z \in 0 .. h : d = e - 1 /\ z = 0
    BY <1>3, <1>4
  <2>3. at[j][k] = at[z][d] => j = z
    BY <1>2 DEF Apart
  <2>2. at[j][k] \in 1 .. Len(s.page)
    BY <1>6
  <2> QED
    BY <1>3, <1>13, <2>1, <2>2, <2>3
<1>19. IsAbove(t, s, h, at)
  BY <1>13, <1>17, <1>18 DEF IsAbove
<1>20. NodeLevel(t.page, at[1], a, 0) /\ Adopts(t.page, b, a, at[1])
  <2>1. NodeLevel(s.page, at[1], a, 0) /\ Adopts(s.page, a, a, at[1])
    BY <1>2, <1>4, <1>5
  <2>2. ASSUME NEW k \in Ids
        PROVE  /\ at[1][k] \in 1 .. Len(t.page) /\ t.page[at[1][k]] \in Page
               /\ SameBody(t.page[at[1][k]], s.page[at[1][k]])
    <3>1. at[1][k] \in 1 .. Len(t.page)
      BY <1>4, <1>6, <1>13
    <3>2. t.page[at[1][k]] \in Page
      BY <1>13, <3>1, PagesAre
    <3>3. SameBody(t.page[at[1][k]], s.page[at[1][k]])
      <4>1. PICK j \in 0 .. h : j = 1 /\ j # 0
        BY <1>4
      <4> QED
        BY <1>18, <4>1
    <3> QED
      BY <3>1, <3>2, <3>3
  <2>3. NodeLevel(t.page, at[1], a, 0)
    BY <2>1, <2>2, NodeLevelKept
  <2>4. ASSUME NEW k \in Ids, b[k] = a[k] PROVE t.page[b[k]].parent = at[1][k]
    <3>1. t.page[a[k]].parent = s.page[a[k]].parent
      BY <1>4, <1>5, <1>18
    <3>2. s.page[a[k]].parent = at[1][k]
      BY <2>1 DEF Adopts
    <3> QED
      BY <2>4, <3>1, <3>2
  <2> QED
    BY <2>3, <2>4 DEF Adopts
<1>21. PICK g, seen : IsRelevelled(t, g, seen, store, h, at, 0, b, a)
  <2>1. Drawn(b, at[0])
    BY <1>3, <1>5, <1>14 DEF Drawn
  <2>2. a \in {b, at[0]}
    BY <1>5
  <2>3. AreToldOf(t.page, h, at, b, a)
    BY <1>20 DEF AreToldOf
  <2>4. h = 0 => b = at[0]
    OBVIOUS
  <2>5. AreRows(store, s.next_row) /\ Contiguous(b) /\ LeafLevel(t.page, b, store) /\ Chained(t.page, b)
    BY <1>1, <1>14, <1>15, <1>16
  <2> QED
    BY <1>19, <2>1, <2>2, <2>3, <2>4, <2>5, LeavesChanged
<1>22. /\ \A j \in Nat : g[j] = IF j = 0 THEN b ELSE at[j]
       /\ \A j \in Nat : seen[j] = IF j = 0 THEN a ELSE at[j]
       /\ Sound(t, store, h, g, seen, 0)
  BY <1>21 DEF IsRelevelled
<1>23. ASSUME NEW j \in 0 .. h, NEW k \in Ids PROVE at[j][k] = r => j = 0
  <2>1. PICK d \in Ids, z \in 0 .. h : d = e /\ z = 0
    BY <1>3, <1>4
  <2>2. at[j][k] = at[z][d] => j = z
    BY <1>2 DEF Apart
  <2> QED
    BY <1>3, <2>1, <2>2
<1>24. ASSUME NEW j \in 0 .. h, NEW k \in Ids PROVE g[j][k] # r
  <2>1. CASE j = 0
    BY <1>3, <1>14, <1>22, <2>1
  <2>2. CASE j # 0
    <3>1. g[j] = at[j]
      BY <1>2, <1>22, <2>2
    <3> QED
      BY <1>23, <2>2, <3>1
  <2> QED
    BY <2>1, <2>2
<1>25. r # t.root_page_id
  <2>1. at[h][e] = t.root_page_id
    BY <1>2, <1>3, <1>13
  <2> QED
    BY <1>3, <1>4, <1>23, <2>1
<1>26. r \in 1 .. Len(t.page)
  BY <1>7, <1>13
<1>27. PICK u \in Database :
           /\ u = Freed(t, r) /\ Sound(u, store, h, g, seen, 0)
           /\ Len(u.page) = Len(t.page) /\ u.next_row = t.next_row
           /\ Keeps(u, h, g, t, h, g, {}) /\ Home(r, u, h, g)
  BY <1>22, <1>24, <1>25, <1>26, FreeSound
<1>28. IsMerged(g, seen, 0, l, r, e)
  <2>1. 0 \in Nat /\ 0 + 1 \in Nat /\ 0 + 1 # 0 /\ 0 + 1 = 1
    OBVIOUS
  <2>2. seen[0] = a /\ g[0] = b /\ g[0 + 1] = at[1]
    BY <1>22, <2>1
  <2>3. \A j \in Nat : j # 0 => seen[j] = g[j]
    BY <1>22
  <2> QED
    BY <1>3, <1>5, <1>7, <1>14, <2>2, <2>3 DEF IsMerged
<1>29. PICK p : p = s.page[l].parent /\ p = g[1][e]
  <2>1. Adopts(s.page, at[0], at[0], at[1])
    BY <1>2, <1>4
  <2>2. s.page[at[0][e - 1]].parent = at[1][e - 1]
    BY <1>3, <2>1 DEF Adopts
  <2>3. g[1] = at[1]
    BY <1>22
  <2> QED
    BY <1>3, <2>2, <2>3
<1>30. Len(u.page) < CHILD_IDS
  BY <1>13, <1>27
<1>31. IsRemoved(RemoveInternalCell(u, p, r), u, store, h, g)
  BY <1>27, <1>28, <1>29, <1>30, RemoveSound
<1>32. MergeLeaf(s, l, r) = RemoveInternalCell(u, p, r)
  BY <1>12, <1>27, <1>29, SMTT(30)
<1>33. Keeps(u, h, g, s, h, at, {})
  <2>1. \A x \in 1 .. Len(s.page) : s.page[x].type = "free" => t.page[x].type = "free"
    BY <1>10, <1>13 DEF SameBody
  <2>2. ASSUME NEW x, InTree(x, h, at) PROVE InTree(x, h, g) \/ x \in {r}
    <3>1. PICK j \in 0 .. h, k \in Ids : at[j][k] = x
      BY <2>2 DEF InTree
    <3>2. j = 0 => g[j] = b /\ at[j] = a
      BY <1>2, <1>5, <1>22
    <3>3. j # 0 => g[j] = at[j]
      BY <1>2, <1>22
    <3>4. g[j][k] = x \/ x = r
      BY <1>14, <3>1, <3>2, <3>3
    <3> QED
      BY <3>4 DEF InTree
  <2>3. Keeps(t, h, g, s, h, at, {r})
    BY <1>13, <2>1, <2>2, KeepsTo
  <2> QED
    BY <1>27, <2>3 DEF Keeps
<1>34. PICK v : v = RemoveInternalCell(u, p, r) /\ IsRemoved(v, u, store, h, g)
  BY <1>31
<1>35. PICK h3, g3 : Sound(v, store, h3, g3, g3, 0) /\ Keeps(v, h3, g3, u, h, g, {})
  BY <1>34 DEF IsRemoved
<1>36. Keeps(v, h3, g3, s, h, at, {})
  BY <1>33, <1>35 DEF Keeps
<1>37. Len(v.page) = Len(s.page) /\ v.next_row = s.next_row
  BY <1>13, <1>27, <1>34, SMTT(30) DEF IsRemoved
<1> QED
  BY <1>32, <1>34, <1>35, <1>36, <1>37 DEF IsRemoved

-----------------------------------------------------------------------------
(* borrow_leaf *)

\* Of the pages of s, l has the rows A, r has the rows B, and q has another key in its
\* cell x.
AreShared(t, m, s, l, r, A, B, q, x) ==
  /\ t \in Database /\ Len(t.page) = Len(s.page)
  /\ t.page[l].rows = A /\ t.page[r].rows = B
  /\ m \in Node /\ t.page[q] = m /\ IsRekeyed(m, s.page[q], x, B[1].key)
  /\ \A y \in 1 .. Len(s.page) :
       /\ SameLinks(t.page[y], s.page[y]) /\ t.page[y].parent = s.page[y].parent
       /\ t.page[y].type = s.page[y].type
       /\ y # q => t.page[y].cells = s.page[y].cells /\ t.page[y].rightmost = s.page[y].rightmost
       /\ y # l /\ y # r => t.page[y].rows = s.page[y].rows
  /\ t.root_page_id = s.root_page_id /\ t.next_row = s.next_row
  /\ t.first_free_page = s.first_free_page

\* Two pages have other rows.
AreRefilled(t, s, src, dst, S, D) ==
  /\ t \in Database /\ Len(t.page) = Len(s.page)
  /\ t.page[src].rows = S /\ t.page[dst].rows = D
  /\ \A y \in 1 .. Len(s.page) :
       /\ SameLinks(t.page[y], s.page[y]) /\ t.page[y].parent = s.page[y].parent
       /\ t.page[y].type = s.page[y].type
       /\ t.page[y].cells = s.page[y].cells /\ t.page[y].rightmost = s.page[y].rightmost
       /\ y # src /\ y # dst => t.page[y] = s.page[y]
  /\ t.root_page_id = s.root_page_id /\ t.next_row = s.next_row
  /\ t.first_free_page = s.first_free_page

LEMMA TwoRefilled ==
  ASSUME NEW s \in Database, NEW src \in 1 .. Len(s.page), NEW dst \in 1 .. Len(s.page), src # dst,
         NEW S \in Seq(Rows), NEW D \in Seq(Rows),
         NEW t, t = [s EXCEPT !.page[src].rows = S, !.page[dst].rows = D]
  PROVE  AreRefilled(t, s, src, dst, S, D)
<1>1. PICK t1 : t1 = [s EXCEPT !.page[src].rows = S]
  OBVIOUS
<1>2. PICK u : IsSet(t1, s, src, u) /\ IsWithRows(u, s.page[src], S)
  BY <1>1, SetRows
<1>3. /\ t1 \in Database /\ Len(t1.page) = Len(s.page) /\ t1.page[src] = u
      /\ \A y \in 1 .. Len(s.page) : y # src => t1.page[y] = s.page[y]
      /\ t1.root_page_id = s.root_page_id /\ t1.next_row = s.next_row
      /\ t1.first_free_page = s.first_free_page
  BY <1>2 DEF IsSet
<1>4. /\ u.type = s.page[src].type /\ u.parent = s.page[src].parent /\ SameLinks(u, s.page[src])
      /\ u.rows = S /\ u.cells = s.page[src].cells /\ u.rightmost = s.page[src].rightmost
  BY <1>2 DEF IsWithRows
<1>5. t = [t1 EXCEPT !.page[dst].rows = D]
  BY <1>1
<1>6. PICK v : IsSet(t, t1, dst, v) /\ IsWithRows(v, t1.page[dst], D)
  BY <1>3, <1>5, SetRows
<1>7. /\ t \in Database /\ Len(t.page) = Len(t1.page) /\ t.page[dst] = v
      /\ \A y \in 1 .. Len(t1.page) : y # dst => t.page[y] = t1.page[y]
      /\ t.root_page_id = t1.root_page_id /\ t.next_row = t1.next_row
      /\ t.first_free_page = t1.first_free_page
  BY <1>6 DEF IsSet
<1>8. t1.page[dst] = s.page[dst]
  BY <1>3
<1>9. /\ v.type = s.page[dst].type /\ v.parent = s.page[dst].parent /\ SameLinks(v, s.page[dst])
      /\ v.rows = D /\ v.cells = s.page[dst].cells /\ v.rightmost = s.page[dst].rightmost
  BY <1>6, <1>8 DEF IsWithRows
<1>10. t.page[src] = u
  BY <1>3, <1>7
<1>11. ASSUME NEW y \in 1 .. Len(s.page)
       PROVE  /\ SameLinks(t.page[y], s.page[y]) /\ t.page[y].parent = s.page[y].parent
              /\ t.page[y].type = s.page[y].type
              /\ t.page[y].cells = s.page[y].cells /\ t.page[y].rightmost = s.page[y].rightmost
              /\ y # src /\ y # dst => t.page[y] = s.page[y]
  <2>1. CASE y = src
    BY <1>4, <1>10, <2>1
  <2>2. CASE y = dst
    BY <1>7, <1>9, <2>2
  <2>3. CASE y # src /\ y # dst
    <3>1. t.page[y] = s.page[y]
      BY <1>3, <1>7, <2>3
    <3> QED
      BY <3>1 DEF SameLinks
  <2> QED
    BY <2>1, <2>2, <2>3
<1> QED
  BY <1>3, <1>4, <1>7, <1>9, <1>10, <1>11 DEF AreRefilled

\* Cell x is the one whose child is l.
OneCell(n, l, x) == \A y \in 1 .. Len(n.cells) : n.cells[y].child = l <=> y = x

\* The cells whose child is l have key g.
WithKeyOf(cells, l, g) ==
  [i \in DOMAIN cells |-> IF cells[i].child = l THEN [cells[i] EXCEPT !.key = g] ELSE cells[i]]

\* Giving key g to the child l of n makes g the key of cell x.
IsKeyed(n, l, g, x) ==
  \E cells \in Seq(Cell) :
    /\ cells = WithKeyOf(n.cells, l, g)
    /\ \A m \in Node : m.cells = cells /\ m.rightmost = n.rightmost => IsRekeyed(m, n, x, g)

LEMMA KeyOfChild ==
  ASSUME NEW n \in Node, NEW x \in 1 .. Len(n.cells), NEW g \in Nat, NEW l,
         OneCell(n, l, x)
  PROVE  IsKeyed(n, l, g, x)
<1>1. n.cells \in Seq(Cell) /\ DOMAIN n.cells = 1 .. Len(n.cells)
  BY CellsType
<1>2. PICK cells : cells = n.cells /\ cells = [i \in DOMAIN cells |-> cells[i]]
  BY <1>1
<1>3. \A y \in DOMAIN cells : cells[y].child = l <=> y = x
  BY <1>1, <1>2 DEF OneCell
<1>4. [i \in DOMAIN cells |-> IF cells[i].child = l THEN [cells[i] EXCEPT !.key = g] ELSE cells[i]]
      = [cells EXCEPT ![x].key = g]
  BY <1>2, <1>3
<1>5. WithKeyOf(n.cells, l, g) = [n.cells EXCEPT ![x].key = g]
  BY <1>2, <1>4 DEF WithKeyOf
<1>6. PICK new \in Seq(Cell) :
         /\ new = [n.cells EXCEPT ![x].key = g]
         /\ \A m \in Node : m.cells = new /\ m.rightmost = n.rightmost => IsRekeyed(m, n, x, g)
  BY RekeyedNode
<1> QED
  BY <1>5, <1>6 DEF IsKeyed

\* Lending rows between the leaves src and dst leaves l and r with A and B.
AreLent(s, src, dst, from_beg, l, r, S, D, A, B, q, x) ==
  \E t, m : t = BorrowLeaf(s, src, dst, from_beg) /\ AreShared(t, m, s, l, r, A, B, q, x)

\* The leaves l and r as the lending and the lent-to leaf, with their new rows.
IsDirected(from_beg, src, dst, l, r, S, D, A, B) ==
  /\ from_beg \in BOOLEAN
  /\ src = (IF from_beg THEN r ELSE l) /\ dst = (IF from_beg THEN l ELSE r)
  /\ A = (IF from_beg THEN D ELSE S) /\ B = (IF from_beg THEN S ELSE D)

\* S and D are the rows of src and dst after the loop of borrow_leaf, which has done its work.
AreTurned(S, D, s, src, dst, from_beg) ==
  /\ S = Evened(s.page[src].rows, s.page[dst].rows, from_beg).src
  /\ D = Evened(s.page[src].rows, s.page[dst].rows, from_beg).dst
  /\ ~LeafUnderflows(D) /\ S # <<>> /\ D # <<>>

LEMMA BorrowLeafPages ==
  ASSUME NEW s \in Database, NEW l \in 1 .. Len(s.page), NEW r \in 1 .. Len(s.page),
         NEW q \in 1 .. Len(s.page), l # r, l # q, r # q, s.page[q] \in Node, s.page[r].parent = q,
         NEW from_beg, NEW src, NEW dst, NEW A, NEW B,
         NEW S \in Seq(Rows), NEW D \in Seq(Rows),
         IsDirected(from_beg, src, dst, l, r, S, D, A, B),
         AreTurned(S, D, s, src, dst, from_beg),
         NEW x \in 1 .. Len(s.page[q].cells),
         OneCell(s.page[q], l, x)
  PROVE  AreLent(s, src, dst, from_beg, l, r, S, D, A, B, q, x)
<1>0. /\ from_beg \in BOOLEAN
      /\ src = (IF from_beg THEN r ELSE l) /\ dst = (IF from_beg THEN l ELSE r)
      /\ A = (IF from_beg THEN D ELSE S) /\ B = (IF from_beg THEN S ELSE D)
  BY DEF IsDirected
<1>1. PICK even : even = Evened(s.page[src].rows, s.page[dst].rows, from_beg)
  OBVIOUS
<1>2. even.src = S /\ even.dst = D /\ ~LeafUnderflows(D) /\ S # <<>> /\ D # <<>>
  BY <1>1 DEF AreTurned
<1>3. PICK t1 : t1 = [s EXCEPT !.page[src].rows = S, !.page[dst].rows = D]
  BY SMTT(30)
<1>4. src \in 1 .. Len(s.page) /\ dst \in 1 .. Len(s.page) /\ src # dst
  BY <1>0, SMTT(30)
<1>5. AreRefilled(t1, s, src, dst, S, D)
  <2>1. \A u : u = [s EXCEPT !.page[src].rows = S, !.page[dst].rows = D]
                => AreRefilled(u, s, src, dst, S, D)
    BY <1>4, TwoRefilled, ZenonT(40)
  <2> QED
    BY <1>3, <2>1, ZenonT(40)
<1>6. /\ t1 \in Database /\ Len(t1.page) = Len(s.page)
      /\ t1.page[src].rows = S /\ t1.page[dst].rows = D
      /\ \A y \in 1 .. Len(s.page) :
           /\ SameLinks(t1.page[y], s.page[y]) /\ t1.page[y].parent = s.page[y].parent
           /\ t1.page[y].type = s.page[y].type
           /\ t1.page[y].cells = s.page[y].cells /\ t1.page[y].rightmost = s.page[y].rightmost
           /\ y # src /\ y # dst => t1.page[y] = s.page[y]
      /\ t1.root_page_id = s.root_page_id /\ t1.next_row = s.next_row
      /\ t1.first_free_page = s.first_free_page
  BY <1>5, SMTT(30) DEF AreRefilled
<1>7. t1.page[l].rows = A /\ t1.page[r].rows = B
  BY <1>0, <1>6, ZenonT(40)
<1>8. B \in Seq(Rows) /\ B # <<>>
  BY <1>0, <1>2, ZenonT(40)
<1>9. PICK g \in Nat : g = B[1].key
  <2>1. B[1] \in Rows
    BY <1>8
  <2> QED
    BY <2>1, CostType
<1>10. PICK n \in Node : n = s.page[q] /\ t1.page[q] = n
  BY <1>0, <1>4, <1>6, ZenonT(40)
<1>11. PICK cells \in Seq(Cell) :
         /\ cells = WithKeyOf(n.cells, l, g)
         /\ \A m \in Node : m.cells = cells /\ m.rightmost = n.rightmost => IsRekeyed(m, n, x, g)
  <2>1. n \in Node /\ x \in 1 .. Len(n.cells) /\ OneCell(n, l, x) /\ g \in Nat
    BY <1>10
  <2>2. IsKeyed(n, l, g, x)
    BY <2>1, KeyOfChild
  <2> QED
    BY <2>2 DEF IsKeyed
<1>12. [i \in DOMAIN n.cells |-> IF n.cells[i].child = l THEN [n.cells[i] EXCEPT !.key = g]
                                 ELSE n.cells[i]] = cells
  BY <1>11 DEF WithKeyOf
<1>13. PICK t : t = [t1 EXCEPT !.page[q].cells = cells]
  BY ZenonT(40)
<1>14. t = BorrowLeaf(s, src, dst, from_beg)
  <2>1. t = [t1 EXCEPT !.page[q].cells =
               [i \in DOMAIN @ |-> IF @[i].child = l THEN [@[i] EXCEPT !.key = g] ELSE @[i]]]
    BY <1>10, <1>12, <1>13, ZenonT(40)
  <2>2. (IF from_beg THEN dst ELSE src) = l /\ (IF from_beg THEN src ELSE dst) = r
    BY <1>0, ZenonT(40)
  <2>3. ~(LeafUnderflows(even.dst) \/ t1.page[r].rows = <<>>)
    BY <1>2, <1>7, <1>8, SMTT(30)
  <2>4. t1 = [s EXCEPT !.page[src].rows = even.src, !.page[dst].rows = even.dst]
    BY <1>2, <1>3, SMTT(30)
  <2>5. t = [t1 EXCEPT !.page[s.page[r].parent].cells =
               [i \in DOMAIN @ |-> IF @[i].child = l
                                   THEN [@[i] EXCEPT !.key = t1.page[r].rows[1].key] ELSE @[i]]]
    BY <1>7, <1>9, <2>1
  <2> DEFINE left == IF from_beg THEN dst ELSE src
             right == IF from_beg THEN src ELSE dst
             ev == Evened(s.page[src].rows, s.page[dst].rows, from_beg)
             u == [s EXCEPT !.page[src].rows = ev.src, !.page[dst].rows = ev.dst]
  <2>6. BorrowLeaf(s, src, dst, from_beg) =
          IF LeafUnderflows(ev.dst) \/ u.page[right].rows = <<>> THEN Fault(u)
          ELSE [u EXCEPT !.page[s.page[right].parent].cells =
                  [i \in DOMAIN @ |-> IF @[i].child = left
                                      THEN [@[i] EXCEPT !.key = u.page[right].rows[1].key]
                                      ELSE @[i]]]
    BY SMTT(30) DEF BorrowLeaf
  <2>7. left = l /\ right = r /\ ev = even
    BY <1>0, <1>1, ZenonT(40)
  <2>8. u = t1
    BY <2>4, <2>7
  <2> HIDE DEF left, right, ev, u
  <2>9. ~(LeafUnderflows(ev.dst) \/ u.page[right].rows = <<>>)
    BY <2>3, <2>7, <2>8, SMTT(30)
  <2>10. t = [u EXCEPT !.page[s.page[right].parent].cells =
                [i \in DOMAIN @ |-> IF @[i].child = left
                                    THEN [@[i] EXCEPT !.key = u.page[right].rows[1].key]
                                    ELSE @[i]]]
    BY <2>5, <2>7, <2>8, ZenonT(40)
  <2> QED
    BY <2>6, <2>9, <2>10, ZenonT(40)
<1>15. PICK m, w : /\ IsSet(t, t1, q, m) /\ IsWithCells(m, n, cells, w) /\ w = n.rightmost
  BY <1>6, <1>10, <1>13, SetCells
<1>16. /\ t \in Database /\ Len(t.page) = Len(t1.page) /\ t.page[q] = m
       /\ \A y \in 1 .. Len(t1.page) : y # q => t.page[y] = t1.page[y]
       /\ t.root_page_id = t1.root_page_id /\ t.next_row = t1.next_row
       /\ t.first_free_page = t1.first_free_page
  BY <1>15 DEF IsSet
<1>17. /\ m \in Node /\ m.cells = cells /\ m.rightmost = n.rightmost /\ m.parent = n.parent
       /\ SameLinks(m, n)
  BY <1>15, NodeWith
<1>18. IsRekeyed(m, s.page[q], x, B[1].key)
  BY <1>9, <1>10, <1>11, <1>17
<1>19. m.type = n.type /\ m.rows = n.rows
  BY <1>10, <1>15, SMTT(30) DEF IsWithCells
<1>20. ASSUME NEW y \in 1 .. Len(s.page)
       PROVE  /\ SameLinks(t.page[y], s.page[y]) /\ t.page[y].parent = s.page[y].parent
              /\ t.page[y].type = s.page[y].type
              /\ y # q => /\ t.page[y].cells = s.page[y].cells
                          /\ t.page[y].rightmost = s.page[y].rightmost
              /\ y # l /\ y # r => t.page[y].rows = s.page[y].rows
  <2>1. CASE y = q
    <3>1. t.page[y] = m /\ s.page[y] = n
      BY <1>10, <1>16, <2>1, SMTT(30)
    <3> QED
      BY <1>17, <1>19, <2>1, <3>1
  <2>2. CASE y # q
    <3>1. t.page[y] = t1.page[y]
      BY <1>6, <1>16, <2>2, SMTT(30)
    <3>2. y # l /\ y # r => y # src /\ y # dst
      BY <1>0, SMTT(30)
    <3> QED
      BY <1>6, <2>2, <3>1, <3>2, SMTT(30)
  <2> QED
    BY <2>1, <2>2
<1>21. t.page[l].rows = A /\ t.page[r].rows = B
  BY <1>6, <1>7, <1>16, SMTT(30)
<1>22. AreShared(t, m, s, l, r, A, B, q, x)
  BY <1>6, <1>16, <1>17, <1>18, <1>20, <1>21 DEF AreShared
<1> QED
  BY <1>14, <1>22 DEF AreLent

\* The rows A and B of l and r after the border between the two has moved to g.
AreDealt(b, g, A, B, a, l, r, store) ==
  /\ RowsIn(A, l, b, store) /\ RowsIn(B, r, b, store)
  /\ Taken(A) <= NODE_SPACE /\ Taken(B) <= NODE_SPACE
  /\ g = B[1].key /\ IsMoved(b, a, l, r, g) /\ Contiguous(b)

\* What the loop of borrow_leaf makes of the rows.
IsDealing(src, dst, from_beg, a, l, r, store) ==
  \E S, D \in Seq(Rows), b \in Division : \E g :
    /\ S = Evened(src, dst, from_beg).src /\ D = Evened(src, dst, from_beg).dst
    /\ ~LeafUnderflows(D) /\ S # <<>> /\ D # <<>>
    /\ AreDealt(b, g, IF from_beg THEN D ELSE S, IF from_beg THEN S ELSE D, a, l, r, store)

LEMMA DealtRows ==
  ASSUME HalfPages, NEW store, Stored(store), NEW a \in Division, Contiguous(a),
         NEW e \in Ids, e - 1 \in Ids, NEW l \in Nat, NEW r \in Nat, l # r, a[e - 1] = l, a[e] = r,
         NEW L, NEW R, RowsIn(L, l, a, store), RowsIn(R, r, a, store),
         Taken(L) <= NODE_SPACE, Taken(R) <= NODE_SPACE, Taken(L) + Taken(R) >= NODE_SPACE,
         NEW from_beg \in BOOLEAN, NEW src, src = IF from_beg THEN R ELSE L,
         NEW dst, dst = IF from_beg THEN L ELSE R, LeafUnderflows(dst)
  PROVE  IsDealing(src, dst, from_beg, a, l, r, store)
<1>1. L \in Seq(Rows) /\ R \in Seq(Rows)
  BY DEF RowsIn
<1>2. PICK all \in Seq(Rows) : IsConcat(all, L, R)
  <2>1. L \o R \in Seq(Rows) /\ IsConcat(L \o R, L, R)
    BY <1>1 DEF IsConcat
  <2> QED
    BY <2>1
<1>3. Taken(all) >= NODE_SPACE
  <2>1. Taken(all) = Taken(L) + Taken(R)
    BY <1>1, <1>2, TakenConcat
  <2> QED
    BY <2>1
<1>4. src \in Seq(Rows) /\ dst \in Seq(Rows) /\ Whole(all, src, dst, from_beg)
  BY <1>1, <1>2 DEF Whole
<1>5. PICK S, D \in Seq(Rows) : AreEvened(S, D, all, src, dst, from_beg)
  BY <1>3, <1>4, EvenedRows
<1>6. /\ S = Evened(src, dst, from_beg).src /\ D = Evened(src, dst, from_beg).dst
      /\ Whole(all, S, D, from_beg) /\ ~LeafUnderflows(D) /\ S # <<>> /\ D # <<>>
      /\ Taken(S) <= Taken(src) /\ Taken(D) <= NODE_SPACE
  BY <1>5 DEF AreEvened
<1>7. Taken(S) <= NODE_SPACE
  <2>1. Taken(src) <= NODE_SPACE
    OBVIOUS
  <2>2. Taken(S) \in Nat /\ Taken(src) \in Nat /\ NODE_SPACE \in Nat
    BY <1>4, TakenIs, NodeAssumption
  <2> QED
    BY <1>6, <2>1, <2>2
<1>8. PICK A, B \in Seq(Rows) : A = (IF from_beg THEN D ELSE S) /\ B = (IF from_beg THEN S ELSE D)
  OBVIOUS
<1>9. IsConcat(all, A, B) /\ A # <<>> /\ B # <<>> /\ Taken(A) <= NODE_SPACE /\ Taken(B) <= NODE_SPACE
  BY <1>6, <1>7, <1>8 DEF Whole
<1>10. PICK d \in Division : /\ Contiguous(d)
                             /\ \A k \in Ids : d[k] = IF a[k] = r THEN l ELSE a[k]
  <2>1. a[e - 1] # a[e] /\ l = a[e - 1] /\ r = a[e] /\ MAX_ROWS \in Nat
    BY IdsAre
  <2>2. /\ Contiguous(Shift(a, l, r, MAX_ROWS))
        /\ \A k \in Ids : Shift(a, l, r, MAX_ROWS)[k] = IF a[k] = r THEN l ELSE a[k]
    BY <2>1, JoinDivision
  <2>3. Shift(a, l, r, MAX_ROWS) \in Division
    BY ShiftAt
  <2> QED
    BY <2>2, <2>3
<1>11. RowsIn(all, l, d, store)
  BY <1>2, <1>10, JoinRows
<1>12. \A k \in Ids : d[k] # r
  BY <1>10
<1>13. PICK b \in Division, g \in Ids : AreRowsCut(b, g, d, l, r, A, B, store)
  BY <1>9, <1>10, <1>11, <1>12, CutRows
<1>14. /\ g = B[1].key /\ g - 1 \in Ids /\ d[g - 1] = l /\ d[g] = l /\ Contiguous(b)
       /\ \A k \in Ids : b[k] = IF d[k] # l THEN d[k] ELSE IF k < g THEN l ELSE r
       /\ RowsIn(A, l, b, store) /\ RowsIn(B, r, b, store)
  BY <1>13 DEF AreRowsCut
<1>15. IsMoved(b, a, l, r, g)
  <2>1. a[g - 1] \in {l, r} /\ a[g] \in {l, r}
    <3>1. PICK c \in Ids : c = g - 1
      BY <1>14
    <3> QED
      BY <1>10, <1>14, <3>1
  <2>2. \A k \in Ids : b[k] = IF a[k] # l /\ a[k] # r THEN a[k] ELSE IF k < g THEN l ELSE r
    BY <1>10, <1>14
  <2> QED
    BY <1>14, <2>1, <2>2 DEF IsMoved
<1>16. AreDealt(b, g, A, B, a, l, r, store)
  BY <1>9, <1>14, <1>15 DEF AreDealt
<1> QED
  BY <1>6, <1>8, <1>16 DEF IsDealing

\* The level of the leaves after it.
LEMMA DealtLevel ==
  ASSUME NEW s, NEW store, Stored(store), NEW a \in Division, LeafLevel(s.page, a, store),
         NEW l, NEW r, NEW e \in Ids, e - 1 \in Ids, l = a[e - 1], r = a[e], l # r,
         NEW A, NEW B, NEW b, NEW g, AreDealt(b, g, A, B, a, l, r, store),
         NEW t, NEW m, NEW q, NEW x, AreShared(t, m, s, l, r, A, B, q, x),
         \A k \in Ids : a[k] # q
  PROVE  LeafLevel(t.page, b, store)
<1>1. /\ Len(t.page) = Len(s.page)
      /\ t.page[l].rows = A /\ t.page[r].rows = B
      /\ \A y \in 1 .. Len(s.page) :
           /\ t.page[y].type = s.page[y].type
           /\ y # q => t.page[y].cells = s.page[y].cells
           /\ y # l /\ y # r => t.page[y].rows = s.page[y].rows
  BY DEF AreShared
<1>2. /\ RowsIn(A, l, b, store) /\ RowsIn(B, r, b, store)
      /\ Taken(A) <= NODE_SPACE /\ Taken(B) <= NODE_SPACE
      /\ \A k \in Ids : b[k] = IF a[k] # l /\ a[k] # r THEN a[k] ELSE IF k < g THEN l ELSE r
  BY DEF AreDealt, IsMoved
<1>3. ASSUME NEW k \in Ids
      PROVE  /\ a[k] \in 1 .. Len(t.page) /\ t.page[a[k]].type = "leaf" /\ t.page[a[k]].cells = <<>>
             /\ RowsIn(s.page[a[k]].rows, a[k], a, store) /\ Taken(s.page[a[k]].rows) <= NODE_SPACE
             /\ a[k] # l /\ a[k] # r => t.page[a[k]].rows = s.page[a[k]].rows
  <2>1. /\ a[k] \in 1 .. Len(s.page) /\ s.page[a[k]].type = "leaf" /\ s.page[a[k]].cells = <<>>
        /\ RowsIn(s.page[a[k]].rows, a[k], a, store) /\ Taken(s.page[a[k]].rows) <= NODE_SPACE
    BY DEF LeafLevel
  <2> QED
    BY <1>1, <2>1
<1>4. ASSUME NEW k \in Ids
      PROVE  /\ b[k] \in 1 .. Len(t.page) /\ t.page[b[k]].type = "leaf" /\ t.page[b[k]].cells = <<>>
             /\ RowsIn(t.page[b[k]].rows, b[k], b, store) /\ Taken(t.page[b[k]].rows) <= NODE_SPACE
  <2>1. CASE b[k] = l
    <3>1. PICK d \in Ids : d = e - 1 /\ a[d] = l
      OBVIOUS
    <3> QED
      BY <1>1, <1>2, <1>3, <2>1, <3>1
  <2>2. CASE b[k] = r
    BY <1>1, <1>2, <1>3, <2>2
  <2>3. CASE b[k] # l /\ b[k] # r
    <3>1. PICK y : y = a[k] /\ y = b[k] /\ y # l /\ y # r
      BY <1>2, <2>3
    <3>2. \A z \in Ids : b[z] = y <=> a[z] = y
      BY <1>2, <3>1
    <3>3. RowsIn(s.page[y].rows, y, a, store)
      BY <1>3, <3>1
    <3>4. RowsIn(s.page[y].rows, y, b, store)
      BY <3>2, <3>3, RowsInSame
    <3> QED
      BY <1>3, <3>1, <3>4
  <2> QED
    BY <2>1, <2>2, <2>3
<1> QED
  BY <1>4 DEF LeafLevel

\* The kids of node x of level a are the same pages of the levels below and down.
AsBelow(below, down, a, x) == \A y \in Ids : a[y] = x => below[y] = down[y]

\* A node of a level whose part of the level below is the same stays well formed.
LEMMA NodeOkBelow ==
  ASSUME NEW pg, NEW pg2, NEW x, NEW a, NEW down, NodeOk(pg, x, a, down, 0),
         x \in 1 .. Len(pg2), pg2[x] \in Page, SameBody(pg2[x], pg[x]),
         NEW below, AsBelow(below, down, a, x)
  PROVE  NodeOk(pg2, x, a, below, 0)
<1>1. \A y \in Ids : a[y] = x <=> a[y] = x
  OBVIOUS
<1>2. \A y \in Ids : a[y] = x => below[y] = down[y]
  BY DEF AsBelow
<1>3. x # 0 \/ 0 = 0
  OBVIOUS
<1> QED
  BY <1>1, <1>2, <1>3, NodeOkKept

\* The nodes above the leaves after it.
LEMMA DealtNodes ==
  ASSUME NEW s, NEW up \in Division, NEW a \in Division, NEW b \in Division, Contiguous(a),
         NodeLevel(s.page, up, a, 0), Adopts(s.page, a, a, up),
         NEW l, NEW r, NEW e \in Ids, e - 1 \in Ids, l = a[e - 1], r = a[e], l # r,
         NEW q, up[e - 1] = q, up[e] = q, \A k \in Ids : up[k] # l /\ up[k] # r,
         \A k \in Ids : a[k] # q /\ a[k] \in 1 .. Len(s.page) /\ a[k] \in Nat /\ up[k] \in Nat,
         NEW A, NEW B, NEW g \in Ids, g = B[1].key, IsMoved(b, a, l, r, g),
         NEW t, NEW m, NEW x \in 1 .. Len(s.page[q].cells), s.page[q].cells[x].key = e,
         AreShared(t, m, s, l, r, A, B, q, x)
  PROVE  NodeLevel(t.page, up, b, 0) /\ Adopts(t.page, b, b, up)
<1>1. /\ t \in Database /\ Len(t.page) = Len(s.page)
      /\ m \in Node /\ t.page[q] = m /\ IsRekeyed(m, s.page[q], x, g)
      /\ \A y \in 1 .. Len(s.page) :
           /\ t.page[y].parent = s.page[y].parent /\ t.page[y].type = s.page[y].type
           /\ y # q => t.page[y].cells = s.page[y].cells /\ t.page[y].rightmost = s.page[y].rightmost
           /\ y # l /\ y # r => t.page[y].rows = s.page[y].rows
  BY DEF AreShared
<1>2. /\ g - 1 \in Ids /\ a[g - 1] \in {l, r} /\ a[g] \in {l, r}
      /\ \A k \in Ids : b[k] = IF a[k] # l /\ a[k] # r THEN a[k] ELSE IF k < g THEN l ELSE r
  BY DEF IsMoved
<1>3. Nested(up, a) /\ \A k \in Ids : NodeOk(s.page, up[k], up, a, 0)
  BY NodeLevelIs
<1>4. l \in Nat /\ r \in Nat /\ q \in Nat
  OBVIOUS
<1>5. ASSUME NEW k \in Ids, a[k] = l \/ a[k] = r PROVE up[k] = q
  <2>1. PICK d \in Ids : d = e - 1 /\ a[d] = l /\ up[d] = q
    OBVIOUS
  <2> QED
    BY <1>3, <1>5, <2>1 DEF Nested
<1>6. PICK n : n = s.page[q] /\ NodeIn(n, q, up, a) /\ Len(n.cells) <= MAX_CELLS
               /\ n.cells # <<>> /\ q \in 1 .. Len(s.page)
  <2>1. NodeOk(s.page, q, up, a, 0)
    BY <1>3
  <2>2. q # 0
    BY <2>1 DEF NodeOk
  <2> QED
    BY <2>1, <2>2 DEF NodeOk
<1>7. PICK below \in Division : IsBorderMoved(below, m, q, l, r, g, up, a)
  <2>1. IsRekeyed(m, n, x, g) /\ x \in 1 .. Len(n.cells) /\ n.cells[x].key = e
    BY <1>1, <1>6
  <2>2. a[e - 1] = l /\ a[e] = r /\ up[e - 1] = q /\ up[e] = q
    OBVIOUS
  <2> QED
    BY <1>1, <1>2, <1>3, <1>4, <1>6, <2>1, <2>2, Rekey, ZenonT(40)
<1>8. below = b
  <2>1. \A k \in Ids : below[k] = IF a[k] # l /\ a[k] # r THEN a[k] ELSE IF k < g THEN l ELSE r
    BY <1>7 DEF IsBorderMoved
  <2>2. \A k \in Ids : below[k] = b[k]
    BY <1>2, <2>1
  <2> QED
    BY <2>2 DEF Division
<1>9. NodeIn(m, q, up, b) /\ Nested(up, b)
  BY <1>7, <1>8 DEF IsBorderMoved
<1>10. NodeOk(t.page, q, up, b, 0)
  <2>1. Len(m.cells) = Len(n.cells)
    BY <1>1, <1>6 DEF IsRekeyed
  <2>2. m.cells # <<>>
    <3>1. n.cells \in Seq(Cell) /\ m.cells \in Seq(Cell)
      BY <1>1, <1>6, CellsType DEF NodeIn
    <3>2. Len(n.cells) # 0
      BY <1>6, <3>1
    <3> QED
      BY <2>1, <3>1, <3>2
  <2> QED
    BY <1>1, <1>6, <1>9, <2>1, <2>2 DEF NodeOk
<1>11. ASSUME NEW k \in Ids PROVE NodeOk(t.page, up[k], up, b, 0)
  <2>1. CASE up[k] = q
    BY <1>10, <2>1
  <2>2. CASE up[k] # q
    <3>1. PICK y : y = up[k] /\ y # q /\ y # l /\ y # r
      BY <2>2
    <3>2. NodeOk(s.page, y, up, a, 0)
      BY <1>3, <3>1
    <3>3. y \in 1 .. Len(s.page)
      BY <3>2 DEF NodeOk
    <3>4. y \in 1 .. Len(t.page) /\ t.page[y] \in Page /\ SameBody(t.page[y], s.page[y])
      <4>1. y \in 1 .. Len(t.page)
        BY <1>1, <3>3
      <4>2. SameBody(t.page[y], s.page[y])
        BY <1>1, <3>1, <3>3 DEF SameBody
      <4> QED
        BY <1>1, <4>1, <4>2, PagesAre
    <3>5. ASSUME NEW z \in Ids, up[z] = y PROVE b[z] = a[z]
      <4>1. a[z] # l /\ a[z] # r
        BY <1>5, <3>1, <3>5
      <4> QED
        BY <1>2, <4>1
    <3>6. NodeOk(t.page, y, up, b, 0)
      <4>1. AsBelow(b, a, up, y)
        BY <3>5 DEF AsBelow
      <4> QED
        BY <3>2, <3>4, <4>1, NodeOkBelow
    <3> QED
      BY <3>1, <3>6
  <2> QED
    BY <2>1, <2>2
<1>12. NodeLevel(t.page, up, b, 0)
  BY <1>9, <1>11, NodeLevelIs
<1>13. ASSUME NEW k \in Ids PROVE t.page[b[k]].parent = up[k]
  <2>1. \A z \in Ids : s.page[a[z]].parent = up[z]
    BY DEF Adopts
  <2>2. s.page[l].parent = q /\ s.page[r].parent = q /\ l \in 1 .. Len(s.page) /\ r \in 1 .. Len(s.page)
    <3>1. PICK d \in Ids : d = e - 1 /\ a[d] = l /\ up[d] = q
      OBVIOUS
    <3> QED
      BY <2>1, <3>1
  <2>3. CASE a[k] = l \/ a[k] = r
    <3>1. up[k] = q /\ (b[k] = l \/ b[k] = r)
      BY <1>2, <1>5, <2>3
    <3> QED
      BY <1>1, <2>2, <3>1, SMTT(30)
  <2>4. CASE a[k] # l /\ a[k] # r
    <3>1. b[k] = a[k] /\ a[k] \in 1 .. Len(s.page)
      BY <1>2, <2>4
    <3> QED
      BY <1>1, <2>1, <3>1, SMTT(30)
  <2> QED
    BY <2>3, <2>4
<1> QED
  BY <1>12, <1>13 DEF Adopts

\* The state t of lending rows between the leaves l and r of level a, whose common parent is
\* node q of level up: the border between them, the key of cell x of q, moves from e to g.
AreDealtOut(s, store, a, up, b, l, r, e, g, A, B, t, m, q, x) ==
  /\ up \in Division /\ a \in Division /\ b \in Division /\ Contiguous(a)
  /\ Stored(store) /\ LeafLevel(s.page, a, store)
  /\ NodeLevel(s.page, up, a, 0) /\ Adopts(s.page, a, a, up)
  /\ e \in Ids /\ e - 1 \in Ids /\ l = a[e - 1] /\ r = a[e] /\ l # r
  /\ up[e - 1] = q /\ up[e] = q
  /\ \A k \in Ids : up[k] # l /\ up[k] # r
  /\ \A k \in Ids : a[k] # q /\ a[k] \in 1 .. Len(s.page) /\ a[k] \in Nat /\ up[k] \in Nat
  /\ g \in Ids /\ g = B[1].key /\ IsMoved(b, a, l, r, g) /\ AreDealt(b, g, A, B, a, l, r, store)
  /\ x \in 1 .. Len(s.page[q].cells) /\ s.page[q].cells[x].key = e
  /\ AreShared(t, m, s, l, r, A, B, q, x)

LEMMA DealtOut ==
  ASSUME NEW s, NEW store, NEW a, NEW up, NEW b, NEW l, NEW r, NEW e, NEW g, NEW A, NEW B, NEW t, NEW m,
         NEW q, NEW x, AreDealtOut(s, store, a, up, b, l, r, e, g, A, B, t, m, q, x)
  PROVE  LeafLevel(t.page, b, store) /\ NodeLevel(t.page, up, b, 0) /\ Adopts(t.page, b, b, up)
<1>1. LeafLevel(t.page, b, store)
  <2>1. /\ \A k \in Ids : a[k] # q
        /\ Stored(store) /\ a \in Division /\ LeafLevel(s.page, a, store)
        /\ e \in Ids /\ e - 1 \in Ids /\ l = a[e - 1] /\ r = a[e] /\ l # r
        /\ AreDealt(b, g, A, B, a, l, r, store)
        /\ AreShared(t, m, s, l, r, A, B, q, x)
    BY DEF AreDealtOut
  <2> QED
    BY <2>1, DealtLevel
<1>2. NodeLevel(t.page, up, b, 0) /\ Adopts(t.page, b, b, up)
  <2>1. /\ up \in Division /\ a \in Division /\ b \in Division /\ Contiguous(a)
        /\ NodeLevel(s.page, up, a, 0) /\ Adopts(s.page, a, a, up)
        /\ e \in Ids /\ e - 1 \in Ids /\ l = a[e - 1] /\ r = a[e] /\ l # r
        /\ up[e - 1] = q /\ up[e] = q
        /\ \A k \in Ids : up[k] # l /\ up[k] # r
        /\ \A k \in Ids : a[k] # q /\ a[k] \in 1 .. Len(s.page) /\ a[k] \in Nat /\ up[k] \in Nat
        /\ g \in Ids /\ g = B[1].key /\ IsMoved(b, a, l, r, g)
        /\ x \in 1 .. Len(s.page[q].cells) /\ s.page[q].cells[x].key = e
        /\ AreShared(t, m, s, l, r, A, B, q, x)
    BY DEF AreDealtOut
  <2> QED
    BY <2>1, DealtNodes
<1> QED
  BY <1>1, <1>2

\* borrow_leaf keeps the tree sound when the rows of both take a page or more.
LEMMA BorrowLeafSound ==
  ASSUME HalfPages, NEW s, NEW store, NEW h, NEW at, Sound(s, store, h, at, at, 0), h # 0,
         NEW l, NEW r, NEW e, AreLeaves(at, l, r, e),
         NEW from_beg \in BOOLEAN, NEW src, src = IF from_beg THEN r ELSE l,
         NEW dst, dst = IF from_beg THEN l ELSE r, LeafUnderflows(s.page[dst].rows),
         Taken(s.page[l].rows) + Taken(s.page[r].rows) >= NODE_SPACE
  PROVE  IsRemoved(BorrowLeaf(s, src, dst, from_beg), s, store, h, at)
<1>1. /\ s \in Database /\ Listed(s.page, s.first_free_page) /\ Stored(store) /\ Len(s.page) \in Nat
      /\ Grown(s.page, s.root_page_id, store, h, at, at, 0)
      /\ AreRows(store, s.next_row)
  BY SoundStored, PagesAre DEF Sound, AreRows
<1>2. /\ h \in Nat /\ at \in [Nat -> Division] /\ Apart(h, at, at)
      /\ \A j \in 0 .. h : Contiguous(at[j])
      /\ LeafLevel(s.page, at[0], store) /\ Chained(s.page, at[0])
      /\ \A j \in 1 .. h : NodeLevel(s.page, at[j], at[j - 1], 0)
      /\ \A j \in 1 .. h : Adopts(s.page, at[j - 1], at[j - 1], at[j])
  BY <1>1 DEF Grown
<1>3. /\ e \in Ids /\ e - 1 \in Ids /\ l = at[0][e - 1] /\ r = at[0][e] /\ l # r
      /\ at[1][e - 1] = at[1][e]
  BY DEF AreLeaves
<1>4. 0 \in 0 .. h /\ 1 \in 0 .. h /\ 1 \in 1 .. h /\ 1 - 1 = 0
  BY <1>2
<1>5. PICK a \in Division, up \in Division :
        /\ a = at[0] /\ Contiguous(a) /\ l = a[e - 1] /\ r = a[e]
        /\ up = at[1] /\ up[e - 1] = up[e]
  BY <1>2, <1>3, <1>4
<1>6. PICK q : q = up[e] /\ q = up[e - 1]
  BY <1>5
<1>7. \A j \in 0 .. h, k \in Ids : at[j][k] \in Nat /\ at[j][k] \in 1 .. Len(s.page) /\ at[j][k] # 0
  BY <1>1, PageOfLevel
<1>8. /\ l \in Nat /\ r \in Nat /\ l \in 1 .. Len(s.page) /\ r \in 1 .. Len(s.page)
      /\ q \in Nat /\ q \in 1 .. Len(s.page)
  BY <1>3, <1>4, <1>5, <1>6, <1>7
<1>9. \A k, y \in Ids : a[k] # up[y]
  BY <1>2, <1>4, <1>5 DEF Apart
<1>10. l # q /\ r # q
  BY <1>3, <1>5, <1>6, <1>9
<1>11. LeafLevel(s.page, a, store) /\ Chained(s.page, a) /\ NodeLevel(s.page, up, a, 0)
       /\ Adopts(s.page, a, a, up)
  BY <1>2, <1>4, <1>5, SMTT(30)
<1>12. /\ RowsIn(s.page[l].rows, l, a, store) /\ RowsIn(s.page[r].rows, r, a, store)
       /\ Taken(s.page[l].rows) <= NODE_SPACE /\ Taken(s.page[r].rows) <= NODE_SPACE
       /\ s.page[l].type = "leaf" /\ s.page[r].type = "leaf"
  BY <1>3, <1>5, <1>11 DEF LeafLevel
<1>13. PICK SR, DR : /\ SR = s.page[src].rows /\ DR = s.page[dst].rows
                     /\ SR = (IF from_beg THEN s.page[r].rows ELSE s.page[l].rows)
                     /\ DR = (IF from_beg THEN s.page[l].rows ELSE s.page[r].rows)
  BY SMTT(30)
<1>14. IsDealing(SR, DR, from_beg, a, l, r, store)
  <2>1. LeafUnderflows(DR)
    BY <1>13
  <2>2. a[e - 1] = l /\ a[e] = r
    BY <1>5
  <2> QED
    BY <1>1, <1>3, <1>5, <1>8, <1>12, <1>13, <2>1, <2>2, DealtRows, ZenonT(40)
<1>15. PICK S, D \in Seq(Rows), b \in Division : \E g :
         /\ S = Evened(SR, DR, from_beg).src /\ D = Evened(SR, DR, from_beg).dst
         /\ ~LeafUnderflows(D) /\ S # <<>> /\ D # <<>>
         /\ AreDealt(b, g, IF from_beg THEN D ELSE S, IF from_beg THEN S ELSE D, a, l, r, store)
  BY <1>14 DEF IsDealing
<1>16. PICK A, B : A = (IF from_beg THEN D ELSE S) /\ B = (IF from_beg THEN S ELSE D)
  OBVIOUS
<1>17. PICK g : AreDealt(b, g, A, B, a, l, r, store)
  BY <1>15, <1>16
<1>18. g \in Ids /\ g = B[1].key /\ IsMoved(b, a, l, r, g) /\ Contiguous(b)
  BY <1>17 DEF AreDealt, IsMoved
<1>19. PICK n \in Node : n = s.page[q] /\ NodeIn(n, q, up, a)
  <2>1. NodeIn(s.page[q], q, up, a)
    BY <1>3, <1>6, <1>11 DEF NodeLevel
  <2> QED
    BY <2>1 DEF NodeIn
<1>20. PICK x \in 1 .. Len(n.cells) : n.cells[x].key = e /\ Kids(n)[x] = l
  <2>1. HasKey(n, e, l, r)
    BY <1>3, <1>5, <1>6, <1>19, BorderIsKey
  <2> QED
    BY <2>1 DEF HasKey
<1>21. OneCell(n, l, x)
  <2>1. Used(q, up)
    BY <1>3, <1>6 DEF Used
  <2>2. \A y, z \in 1 .. Len(n.cells) + 1 : Kids(n)[y] = Kids(n)[z] => y = z
    BY <1>5, <1>19, <2>1, KidsDiffer
  <2>3. Len(n.cells) \in Nat
    BY CellsType
  <2>4. ASSUME NEW y \in 1 .. Len(n.cells)
        PROVE  y \in 1 .. Len(n.cells) + 1 /\ Kids(n)[y] = n.cells[y].child
    <3>1. y \in 1 .. Len(n.cells) + 1 /\ y <= Len(n.cells)
      BY <2>3
    <3> QED
      BY <3>1, KidAt
  <2>5. ASSUME NEW y \in 1 .. Len(n.cells) PROVE n.cells[y].child = l <=> y = x
    BY <1>20, <2>2, <2>4
  <2> QED
    BY <2>5 DEF OneCell
<1>22. s.page[r].parent = q
  BY <1>3, <1>5, <1>6, <1>11 DEF Adopts
<1>23. AreLent(s, src, dst, from_beg, l, r, S, D, A, B, q, x)
  <2>1. S = Evened(s.page[src].rows, s.page[dst].rows, from_beg).src
    BY <1>13, <1>15, SMTT(30)
  <2>2. D = Evened(s.page[src].rows, s.page[dst].rows, from_beg).dst
    BY <1>13, <1>15
  <2>3. x \in 1 .. Len(s.page[q].cells) /\ OneCell(s.page[q], l, x) /\ s.page[q] \in Node
    BY <1>19, <1>21
  <2>4. ~LeafUnderflows(D) /\ S # <<>> /\ D # <<>>
    BY <1>15
  <2>5. s \in Database /\ l # r
    BY <1>1, <1>3
  <2>6. l \in 1 .. Len(s.page) /\ r \in 1 .. Len(s.page) /\ q \in 1 .. Len(s.page)
    BY <1>8
  <2>7. IsDirected(from_beg, src, dst, l, r, S, D, A, B)
    BY <1>16 DEF IsDirected
  <2>8. AreTurned(S, D, s, src, dst, from_beg)
    BY <2>1, <2>2, <2>4 DEF AreTurned
  <2> QED
    BY <1>10, <1>22, <2>3, <2>5, <2>6, <2>7, <2>8, BorrowLeafPages
<1>25. PICK t, m : t = BorrowLeaf(s, src, dst, from_beg) /\ AreShared(t, m, s, l, r, A, B, q, x)
  BY <1>23 DEF AreLent
<1>24. /\ t \in Database /\ Len(t.page) = Len(s.page)
       /\ \A y \in 1 .. Len(s.page) :
            /\ SameLinks(t.page[y], s.page[y]) /\ t.page[y].parent = s.page[y].parent
            /\ t.page[y].type = s.page[y].type
            /\ y # q => t.page[y].cells = s.page[y].cells /\ t.page[y].rightmost = s.page[y].rightmost
            /\ y # l /\ y # r => t.page[y].rows = s.page[y].rows
       /\ t.root_page_id = s.root_page_id /\ t.next_row = s.next_row
       /\ t.first_free_page = s.first_free_page
  BY <1>25 DEF AreShared
<1>26. LeafLevel(t.page, b, store) /\ NodeLevel(t.page, up, b, 0) /\ Adopts(t.page, b, b, up)
  <2>1. \A k \in Ids : a[k] # q /\ a[k] \in 1 .. Len(s.page) /\ a[k] \in Nat /\ up[k] \in Nat
    BY <1>3, <1>4, <1>5, <1>6, <1>7, <1>9
  <2>2. \A k \in Ids : up[k] # l /\ up[k] # r
    BY <1>3, <1>5, <1>9
  <2>3. x \in 1 .. Len(s.page[q].cells) /\ s.page[q].cells[x].key = e
    BY <1>19, <1>20
  <2>4. e \in Ids /\ e - 1 \in Ids /\ l = a[e - 1] /\ r = a[e] /\ up[e - 1] = q /\ up[e] = q /\ l # r
    BY <1>3, <1>5, <1>6
  <2>5. Stored(store) /\ Contiguous(a)
    BY <1>1, <1>5
  <2>6. AreDealtOut(s, store, a, up, b, l, r, e, g, A, B, t, m, q, x)
    BY <1>11, <1>17, <1>18, <1>25, <2>1, <2>2, <2>3, <2>4, <2>5 DEF AreDealtOut
  <2> QED
    BY <2>6, DealtOut
<1>27. Chained(t.page, b)
  <2>1. \A k \in Ids : SameLinks(t.page[a[k]], s.page[a[k]])
    BY <1>4, <1>5, <1>7, <1>24
  <2>2. a[e - 1] = l /\ a[e] = r
    BY <1>5
  <2> QED
    BY <1>3, <1>5, <1>11, <1>18, <2>1, <2>2, ChainMoved, SMTT(30)
<1>28. Listed(t.page, t.first_free_page)
  <2>1. \A y \in 1 .. Len(s.page) :
          s.page[y].type = "free" => t.page[y].type = "free" /\ t.page[y].next = s.page[y].next
    BY <1>24 DEF SameLinks
  <2>2. Len(s.page) \in Nat /\ Len(t.page) \in Nat /\ Len(s.page) <= Len(t.page)
    BY <1>1, <1>24
  <2>4. \A y \in 1 .. Len(t.page) : t.page[y].type = "free" =>
          y \in 1 .. Len(s.page) /\ s.page[y].type = "free" /\ t.page[y].rows = s.page[y].rows
    <3>1. s.page[l].type = "leaf" /\ s.page[r].type = "leaf"
      BY <1>2, <1>3, <1>5 DEF LeafLevel
    <3> QED
      BY <1>24, <3>1, SMTT(30)
  <2>3. Listed(t.page, s.first_free_page)
    BY <1>1, <2>1, <2>2, <2>4, ListedKept
  <2> QED
    BY <1>24, <2>3
<1>29. ASSUME NEW j \in 0 .. h, NEW k \in Ids
       PROVE  /\ t.page[at[j][k]].parent = s.page[at[j][k]].parent
              /\ j # 0 /\ j # 1 => SameBody(t.page[at[j][k]], s.page[at[j][k]])
  <2>1. at[j][k] \in 1 .. Len(s.page)
    BY <1>7
  <2>2. /\ at[j][k] = q => j = 1
        /\ at[j][k] = l => j = 0
        /\ at[j][k] = r => j = 0
    <3>1. PICK d \in Ids, z \in 0 .. h, y \in 0 .. h :
            d = e - 1 /\ z = 0 /\ y = 1 /\ at[z][d] = l /\ at[z][e] = r /\ at[y][e] = q
      BY <1>3, <1>4, <1>5, <1>6
    <3> QED
      BY <1>2, <1>3, <3>1 DEF Apart
  <2> QED
    BY <1>24, <2>1, <2>2 DEF SameBody
<1>30. IsAbove(t, s, h, at)
  BY <1>24, <1>28, <1>29 DEF IsAbove
<1>31. PICK f, seen : IsRelevelled(t, f, seen, store, h, at, 0, b, b)
  <2>1. Drawn(b, at[0])
    <3>1. \A k \in Ids : b[k] = IF a[k] # l /\ a[k] # r THEN a[k] ELSE IF k < g THEN l ELSE r
      BY <1>18 DEF IsMoved
    <3> QED
      BY <1>3, <1>5, <3>1 DEF Drawn
  <2>2. AreToldOf(t.page, h, at, b, b)
    BY <1>5, <1>26 DEF AreToldOf
  <2>3. AreRows(store, s.next_row) /\ b \in {b, at[0]} /\ (h = 0 => b = at[0])
    BY <1>1
  <2> QED
    BY <1>18, <1>26, <1>27, <1>30, <2>1, <2>2, <2>3, LeavesChanged
<1>32. Sound(t, store, h, f, f, 0)
  <2>1. /\ \A j \in Nat : f[j] = IF j = 0 THEN b ELSE at[j]
        /\ \A j \in Nat : seen[j] = IF j = 0 THEN b ELSE at[j]
        /\ Sound(t, store, h, f, seen, 0)
    BY <1>31 DEF IsRelevelled
  <2>2. \A j \in Nat : f[j] = seen[j]
    BY <2>1, SMTT(30)
  <2> QED
    BY <2>1, <2>2, SoundAsSeen
<1>33. Keeps(t, h, f, s, h, at, {})
  <2>1. \A j \in Nat : f[j] = IF j = 0 THEN b ELSE at[j]
    BY <1>31 DEF IsRelevelled
  <2>2. /\ g \in Ids /\ g - 1 \in Ids
        /\ \A k \in Ids : b[k] = IF a[k] # l /\ a[k] # r THEN a[k] ELSE IF k < g THEN l ELSE r
    BY <1>18 DEF IsMoved
  <2>3. PICK d \in Ids : d = g - 1 /\ d < g /\ ~(g < g)
    BY <2>2, IdsAre
  <2>4. b[d] = l /\ b[g] = r
    BY <1>18, <2>2, <2>3 DEF IsMoved
  <2>5. ASSUME NEW y, InTree(y, h, at) PROVE InTree(y, h, f)
    <3>1. PICK j \in 0 .. h, k \in Ids : at[j][k] = y
      BY <2>5 DEF InTree
    <3>2. CASE j = 0
      <4>1. f[0] = b /\ a[k] = y
        BY <1>5, <2>1, <3>1, <3>2
      <4>2. y = l \/ y = r \/ b[k] = y
        BY <2>2, <4>1
      <4>3. \E i \in Ids : f[0][i] = y
        BY <2>2, <2>3, <2>4, <4>1, <4>2
      <4> QED
        BY <1>4, <4>3 DEF InTree
    <3>3. CASE j # 0
      <4>1. f[j] = at[j]
        BY <1>2, <2>1, <3>3
      <4> QED
        BY <3>1, <4>1 DEF InTree
    <3> QED
      BY <3>2, <3>3
  <2>6. Len(t.page) = Len(s.page)
        /\ \A x1 \in 1 .. Len(s.page) : s.page[x1].type = "free" => t.page[x1].type = "free"
    BY <1>24
  <2> QED
    BY <2>5, <2>6, KeepsTo
<1> QED
  BY <1>25, <1>24, <1>32, <1>33 DEF IsRemoved
-----------------------------------------------------------------------------
(* balance_leaf *)

\* A leaf whose left neighbour has the same parent.
LEMMA LeftLeaf ==
  ASSUME NEW s, NEW store, NEW h, NEW at, Sound(s, store, h, at, at, 0), h # 0,
         NEW k0 \in Ids, NEW p, p = at[0][k0], NEW l, l = s.page[p].prev, l # 0,
         s.page[l].parent = s.page[p].parent
  PROVE  \E e : AreLeaves(at, l, p, e)
<1>1. /\ h \in Nat /\ at \in [Nat -> Division] /\ Chained(s.page, at[0])
      /\ Adopts(s.page, at[1 - 1], at[1 - 1], at[1])
  BY DEF Sound, Grown
<1>2. PICK a \in Division, up \in Division : a = at[0] /\ up = at[1]
  BY <1>1
<1>3. Chained(s.page, a) /\ Used(p, a)
  BY <1>1, <1>2 DEF Used
<1>4. PICK f \in Ids, m \in Ids : IsBetween(s.page, p, a, f, m)
  BY <1>3, Neighbours
<1>5. f # 0 /\ f - 1 \in Ids /\ a[f - 1] = l /\ a[f] = p /\ a[f - 1] # p
  BY <1>4 DEF IsBetween, IsEnds
<1>6. \A k \in Ids : s.page[a[k]].parent = up[k]
  <2>1. 1 - 1 = 0
    OBVIOUS
  <2> QED
    BY <1>1, <1>2, <2>1 DEF Adopts
<1>7. up[f - 1] = up[f]
  <2>1. s.page[a[f - 1]].parent = up[f - 1] /\ s.page[a[f]].parent = up[f]
    BY <1>5, <1>6
  <2> QED
    BY <1>5, <2>1
<1> QED
  BY <1>2, <1>5, <1>7 DEF AreLeaves

\* A leaf whose right neighbour has the same parent.
LEMMA RightLeaf ==
  ASSUME NEW s, NEW store, NEW h, NEW at, Sound(s, store, h, at, at, 0), h # 0,
         NEW k0 \in Ids, NEW p, p = at[0][k0], NEW r, r = s.page[p].next, r # 0,
         s.page[r].parent = s.page[p].parent
  PROVE  \E e : AreLeaves(at, p, r, e)
<1>1. /\ h \in Nat /\ at \in [Nat -> Division] /\ Chained(s.page, at[0])
      /\ Adopts(s.page, at[1 - 1], at[1 - 1], at[1])
  BY DEF Sound, Grown
<1>2. PICK a \in Division, up \in Division : a = at[0] /\ up = at[1]
  BY <1>1
<1>3. Chained(s.page, a) /\ Used(p, a)
  BY <1>1, <1>2 DEF Used
<1>4. PICK f \in Ids, m \in Ids : IsBetween(s.page, p, a, f, m)
  BY <1>3, Neighbours
<1>5. m + 1 \in Ids /\ m + 1 - 1 = m /\ a[m + 1] = r /\ a[m] = p /\ a[m + 1] # p
  <2>1. m + 1 - 1 = m
    BY IdsAre
  <2> QED
    BY <1>4, <2>1 DEF IsBetween, IsEnds
<1>6. \A k \in Ids : s.page[a[k]].parent = up[k]
  <2>1. 1 - 1 = 0
    OBVIOUS
  <2> QED
    BY <1>1, <1>2, <2>1 DEF Adopts
<1>7. up[m] = up[m + 1]
  <2>1. s.page[a[m]].parent = up[m] /\ s.page[a[m + 1]].parent = up[m + 1]
    BY <1>5, <1>6, SMTT(30)
  <2> QED
    BY <1>5, <2>1
<1>8. PICK e \in Ids : /\ e - 1 \in Ids /\ e - 1 = m /\ a[e] = r /\ a[e - 1] = p /\ r # p
                       /\ up[e - 1] = up[e]
  <2>5. PICK e : e = m + 1
    OBVIOUS
  <2>6. PICK d : d = m
    OBVIOUS
  <2>1. e = m + 1 /\ d = m /\ e - 1 = d
    BY <2>5, <2>6, IdsAre
  <2>2. e \in Ids /\ d \in Ids /\ a[e] = r /\ a[d] = p /\ r # p /\ up[d] = up[e]
    BY <1>5, <1>7, <2>1
  <2>3. e - 1 \in Ids /\ e - 1 = m
    BY <2>1, <2>2
  <2>4. a[e - 1] = p /\ up[e - 1] = up[e]
    BY <2>1, <2>2
  <2> QED
    BY <2>2, <2>3, <2>4
<1>9. p = at[0][e - 1] /\ r = at[0][e] /\ at[1][e - 1] = at[1][e]
  BY <1>2, <1>8
<1> QED
  BY <1>8, <1>9 DEF AreLeaves

\* balance_leaf's last merge does not ask whether the two have one parent: they have, as
\* the parent of a leaf has another child, which is on its left or on its right.
LEMMA OneHasSibling ==
  ASSUME NEW s, NEW store, NEW h, NEW at, Sound(s, store, h, at, at, 0), h # 0,
         NEW k0 \in Ids, NEW p, p = at[0][k0], NEW l, l = s.page[p].prev,
         ~(l # 0 /\ s.page[l].parent = s.page[p].parent), NEW r, r = s.page[p].next, r # 0
  PROVE  s.page[r].parent = s.page[p].parent
<1>1. /\ h \in Nat /\ at \in [Nat -> Division] /\ Chained(s.page, at[0])
      /\ Contiguous(at[0]) /\ Contiguous(at[1])
      /\ Adopts(s.page, at[1 - 1], at[1 - 1], at[1]) /\ NodeLevel(s.page, at[1], at[1 - 1], 0)
      /\ Grown(s.page, s.root_page_id, store, h, at, at, 0) /\ s \in Database
  BY DEF Sound, Grown
<1>2. PICK a \in Division, up \in Division :
        a = at[0] /\ up = at[1] /\ Contiguous(a) /\ Contiguous(up) /\ NodeLevel(s.page, up, a, 0)
  <2>1. 1 - 1 = 0
    OBVIOUS
  <2> QED
    BY <1>1, <2>1
<1>3. Chained(s.page, a) /\ Used(p, a)
  BY <1>1, <1>2 DEF Used
<1>4. PICK f \in Ids, m \in Ids : IsBetween(s.page, p, a, f, m)
  BY <1>3, Neighbours
<1>5. \A k \in Ids : s.page[a[k]].parent = up[k]
  <2>1. 1 - 1 = 0
    OBVIOUS
  <2> QED
    BY <1>1, <1>2, <2>1 DEF Adopts
<1>6. m + 1 \in Ids /\ a[m + 1] = r /\ a[m] = p /\ a[f] = p
  BY <1>4 DEF IsBetween, IsEnds
<1>7. PICK q : q = up[m] /\ q = s.page[p].parent
  BY <1>5, <1>6
<1>8. \A k \in Ids : a[k] # 0 /\ up[k] # 0
  <2>1. \A j \in 0 .. h, k \in Ids : at[j][k] # 0
    <3>1. Len(s.page) \in Nat
      BY <1>1, PagesAre
    <3> QED
      BY <1>1, <3>1, PageOfLevel
  <2>2. 0 \in 0 .. h /\ 1 \in 0 .. h
    BY <1>1
  <2> QED
    BY <1>2, <2>1, <2>2
<1>9. f = 0 \/ (f - 1 \in Ids /\ up[f - 1] # q)
  <2>1. CASE f = 0
    BY <2>1
  <2>2. CASE f # 0
    <3>1. f - 1 \in Ids /\ a[f - 1] = l
      BY <1>4, <2>2 DEF IsBetween, IsEnds
    <3>2. l # 0
      BY <1>8, <3>1
    <3>3. s.page[l].parent = up[f - 1]
      BY <1>5, <3>1
    <3> QED
      BY <1>7, <3>1, <3>2, <3>3
  <2> QED
    BY <2>1, <2>2
<1>10. SUFFICES ASSUME up[m + 1] # q PROVE FALSE
  <2>1. s.page[r].parent = up[m + 1]
    BY <1>5, <1>6
  <2> QED
    BY <1>7, <2>1
<1>11. up[f] = q
  BY <1>5, <1>6, <1>7
<1>12. ASSUME NEW k \in Ids, up[k] = q PROVE a[k] = p
  <2>1. /\ f \in Nat /\ m \in Nat /\ k \in Nat /\ m + 1 \in Nat
        /\ \A x, y \in Nat : x <= y \/ y <= x
    BY IdsAre
  <2>2. f <= k
    <3>1. SUFFICES ASSUME k < f PROVE FALSE
      BY <2>1
    <3>2. f # 0 /\ f - 1 \in Ids /\ up[f - 1] # q
      BY <1>9, <2>1, <3>1
    <3>3. k <= f - 1 /\ f - 1 <= f
      BY <2>1, <3>1
    <3> QED
      BY <1>2, <1>11, <1>12, <3>2, <3>3 DEF Contiguous
  <2>3. k <= m
    <3>1. SUFFICES ASSUME m < k PROVE FALSE
      BY <2>1
    <3>2. m <= m + 1 /\ m + 1 <= k
      BY <2>1, <3>1
    <3>3. PICK e \in Ids : e = m + 1
      BY <1>6
    <3>4. up[m] = up[k] /\ m <= e /\ e <= k
      BY <1>7, <1>12, <3>2, <3>3
    <3>5. up[e] = up[m]
      BY <1>2, <3>4 DEF Contiguous
    <3> QED
      BY <1>7, <1>10, <3>3, <3>5
  <2>4. a[f] = a[m]
    BY <1>6
  <2>5. a[k] = a[f]
    BY <1>2, <2>2, <2>3, <2>4, SMTT(30) DEF Contiguous
  <2> QED
    BY <1>6, <2>5
<1>13. PICK n : n = s.page[q] /\ NodeIn(n, q, up, a) /\ n.cells # <<>>
  <2>1. NodeIn(s.page[up[m]], up[m], up, a) /\ (up[m] = 0 \/ s.page[up[m]].cells # <<>>)
    BY <1>2 DEF NodeLevel
  <2>2. up[m] # 0
    BY <1>8
  <2> QED
    BY <1>7, <2>1, <2>2, ZenonT(40)
<1>14. 1 \in 1 .. Len(n.cells)
  <2>1. n.cells \in Seq(Cell) /\ Len(n.cells) \in Nat
    BY <1>13, NodeKeys
  <2>2. Len(n.cells) # 0
    BY <1>13, <2>1, SMTT(30)
  <2> QED
    BY <2>1, <2>2, SMTT(30)
<1>15. PICK e : /\ e \in Ids /\ e - 1 \in Ids /\ up[e - 1] = q /\ up[e] = q /\ a[e - 1] # a[e]
  BY <1>13, <1>14, NodeKeys
<1> QED
  BY <1>12, <1>15

\* The left neighbour of a leaf is a leaf.
LEMMA LeafBefore ==
  ASSUME NEW s, NEW store, NEW h, NEW at, Sound(s, store, h, at, at, 0), NEW k0 \in Ids,
         NEW p, p = at[0][k0], NEW l, l = s.page[p].prev
  PROVE  l = 0 \/ l \in 1 .. Len(s.page)
<1>1. /\ s \in Database /\ Len(s.page) \in Nat /\ h \in Nat /\ at \in [Nat -> Division]
      /\ Grown(s.page, s.root_page_id, store, h, at, at, 0) /\ Chained(s.page, at[0])
  BY PagesAre DEF Sound, Grown
<1>2. PICK a \in Division : a = at[0] /\ a[k0] = p
  BY <1>1
<1>3. PICK f, m \in Ids : IsBetween(s.page, p, a, f, m)
  BY <1>1, <1>2, Neighbours DEF Used
<1>4. l = 0 \/ (f - 1 \in Ids /\ l = a[f - 1])
  BY <1>3 DEF IsBetween, IsEnds
<1>5. \A k \in Ids : a[k] \in 1 .. Len(s.page)
  <2>1. 0 \in 0 .. h
    BY <1>1
  <2> QED
    BY <1>1, <1>2, <2>1, PageOfLevel
<1> QED
  BY <1>4, <1>5

\* balance_leaf keeps the tree sound.
LEMMA BalanceLeafSound ==
  ASSUME HalfPages, NEW s, NEW store, NEW h, NEW at, Sound(s, store, h, at, at, 0),
         NEW k0 \in Ids, NEW p, p = at[0][k0], s.page[p].parent # 0,
         LeafUnderflows(s.page[p].rows), Len(s.page) < CHILD_IDS
  PROVE  IsRemoved(BalanceLeaf(s, p), s, store, h, at)
<1>1. h # 0
  <2>1. SUFFICES ASSUME h = 0 PROVE FALSE
    OBVIOUS
  <2>2. s.page[s.root_page_id].parent = 0 /\ \A k \in Ids : at[h][k] = s.root_page_id
    BY DEF Sound, Grown
  <2> QED
    BY <2>1, <2>2
<1>2. PICK l, r : l = s.page[p].prev /\ r = s.page[p].next
  OBVIOUS
<1>3. PICK x, y, z : /\ x = Taken(s.page[p].rows) /\ y = Taken(s.page[l].rows)
                     /\ z = Taken(s.page[r].rows)
  OBVIOUS
<1>4. /\ l # 0 => x \in Nat /\ y \in Nat
      /\ r # 0 => x \in Nat /\ z \in Nat
      /\ NODE_SPACE \in Nat
  <2>1. \A q \in 1 .. Len(s.page) : Taken(s.page[q].rows) \in Nat
    <3>1. s \in Database
      BY DEF Sound
    <3>2. \A q \in 1 .. Len(s.page) : s.page[q] \in Page
      BY <3>1, PagesAre
    <3>3. \A q \in 1 .. Len(s.page) : s.page[q].rows \in Seq(Rows)
      BY <3>2, PageIs
    <3> QED
      BY <3>3, TakenIs
  <2>2. l = 0 \/ l \in 1 .. Len(s.page)
    BY <1>2, LeafBefore
  <2>3. r = 0 \/ r \in 1 .. Len(s.page)
    BY <1>2, NextLeaf
  <2>4. p \in 1 .. Len(s.page)
    <3>1. Len(s.page) \in Nat /\ Grown(s.page, s.root_page_id, store, h, at, at, 0) /\ h \in Nat
      BY PagesAre DEF Sound, Grown
    <3>2. 0 \in 0 .. h
      BY <3>1
    <3> QED
      BY <3>1, <3>2, PageOfLevel
  <2> QED
    BY <1>3, <2>1, <2>2, <2>3, <2>4, HalfOf
<1>5. PICK left, right \in BOOLEAN :
        /\ left <=> l # 0 /\ s.page[l].parent = s.page[p].parent
        /\ right <=> r # 0 /\ s.page[r].parent = s.page[p].parent
  BY ZenonT(40)
<1>6. PICK t : t = BalanceLeaf(s, p)
  OBVIOUS
<1>7. t = IF left /\ x + y >= NODE_SPACE THEN BorrowLeaf(s, l, p, FALSE)
          ELSE IF right /\ x + z >= NODE_SPACE THEN BorrowLeaf(s, r, p, TRUE)
          ELSE IF left THEN MergeLeaf(s, l, p)
          ELSE IF r # 0 THEN MergeLeaf(s, p, r) ELSE s
  BY <1>2, <1>3, <1>5, <1>6, ZenonT(40) DEF BalanceLeaf
<1>8. ASSUME left PROVE \E e : AreLeaves(at, l, p, e)
  BY <1>1, <1>2, <1>5, <1>8, LeftLeaf, SMTT(30)
<1>9. ASSUME right PROVE \E e : AreLeaves(at, p, r, e)
  BY <1>1, <1>2, <1>5, <1>9, RightLeaf
<1>10. CASE left /\ x + y >= NODE_SPACE
  <2>1. t = BorrowLeaf(s, l, p, FALSE)
    BY <1>7, <1>10
  <2>2. PICK e : AreLeaves(at, l, p, e)
    BY <1>8, <1>10, SMTT(30)
  <2>3. Taken(s.page[l].rows) + Taken(s.page[p].rows) >= NODE_SPACE
    BY <1>3, <1>4, <1>5, <1>10
  <2>4. PICK from_beg \in BOOLEAN : from_beg = FALSE
    OBVIOUS
  <2>5. l = (IF from_beg THEN p ELSE l) /\ p = (IF from_beg THEN l ELSE p)
    BY <2>4
  <2>6. IsRemoved(BorrowLeaf(s, l, p, from_beg), s, store, h, at)
    BY <1>1, <2>2, <2>3, <2>5, BorrowLeafSound
  <2> QED
    BY <1>6, <2>1, <2>4, <2>6
<1>11. CASE ~(left /\ x + y >= NODE_SPACE) /\ right /\ x + z >= NODE_SPACE
  <2>1. t = BorrowLeaf(s, r, p, TRUE)
    BY <1>7, <1>11
  <2>2. PICK e : AreLeaves(at, p, r, e)
    BY <1>9, <1>11
  <2>3. Taken(s.page[p].rows) + Taken(s.page[r].rows) >= NODE_SPACE
    BY <1>3, <1>11
  <2>4. PICK from_beg \in BOOLEAN : from_beg = TRUE
    OBVIOUS
  <2>5. r = (IF from_beg THEN r ELSE p) /\ p = (IF from_beg THEN p ELSE r)
    BY <2>4
  <2>6. IsRemoved(BorrowLeaf(s, r, p, from_beg), s, store, h, at)
    BY <1>1, <2>2, <2>3, <2>5, BorrowLeafSound
  <2> QED
    BY <1>6, <2>1, <2>4, <2>6
<1>12. CASE left /\ ~(x + y >= NODE_SPACE) /\ ~(right /\ x + z >= NODE_SPACE)
  <2>1. t = MergeLeaf(s, l, p)
    BY <1>7, <1>12
  <2>2. PICK e : AreLeaves(at, l, p, e)
    BY <1>8, <1>12
  <2>3. Taken(s.page[l].rows) + Taken(s.page[p].rows) <= NODE_SPACE
    <3>1. y + x <= NODE_SPACE
      BY <1>4, <1>5, <1>12
    <3> QED
      BY <1>3, <3>1
  <2>4. IsRemoved(MergeLeaf(s, l, p), s, store, h, at)
    BY <1>1, <2>2, <2>3, MergeLeafSound
  <2> QED
    BY <1>6, <2>1, <2>4
<1>13. CASE ~left /\ ~(right /\ x + z >= NODE_SPACE) /\ r # 0
  <2>1. t = MergeLeaf(s, p, r)
    BY <1>7, <1>13
  <2>2. right
    <3>1. ~(l # 0 /\ s.page[l].parent = s.page[p].parent)
      BY <1>5, <1>13, SMTT(30)
    <3>2. s.page[r].parent = s.page[p].parent
      BY <1>1, <1>2, <1>13, <3>1, OneHasSibling
    <3> QED
      BY <1>5, <1>13, <3>2
  <2>3. PICK e : AreLeaves(at, p, r, e)
    BY <1>9, <2>2
  <2>4. Taken(s.page[p].rows) + Taken(s.page[r].rows) <= NODE_SPACE
    <3>1. x + z <= NODE_SPACE
      BY <1>4, <1>13, <2>2
    <3> QED
      BY <1>3, <3>1
  <2>5. IsRemoved(MergeLeaf(s, p, r), s, store, h, at)
    BY <1>1, <2>3, <2>4, MergeLeafSound
  <2> QED
    BY <1>6, <2>1, <2>5
<1>14. CASE ~left /\ ~(right /\ x + z >= NODE_SPACE) /\ r = 0
  <2>1. t = s
    BY <1>7, <1>14
  <2>2. Keeps(s, h, at, s, h, at, {})
    BY DEF Keeps
  <2>3. \E h2, g : Sound(s, store, h2, g, g, 0) /\ Keeps(s, h2, g, s, h, at, {})
    BY <2>2
  <2> QED
    BY <1>6, <2>1, <2>3 DEF IsRemoved
<1> QED
  BY <1>10, <1>11, <1>12, <1>13, <1>14

-----------------------------------------------------------------------------
(* One row is added, removed or changed *)

\* The rows of a leaf and one more.
LEMMA RowAdded ==
  ASSUME NEW rows, NEW p, NEW a, NEW store, RowsIn(rows, p, a, store),
         NEW row \in Rows, a[row.key] = p, ~Holds(rows, row.key),
         NEW d, d = InsertAt(rows, SlotOf(rows, row.key), row)
  PROVE  RowsIn(d, p, a, store \cup {row}) /\ Taken(d) = Taken(rows) + Cost(row)
<1>1. /\ rows \in Seq(Rows) /\ InOrder(rows) /\ Len(rows) \in Nat /\ row.key \in Nat
      /\ \A y \in Rows : (\E x \in 1 .. Len(rows) : rows[x] = y) <=> y \in store /\ a[y.key] = p
  BY CostType DEF RowsIn
<1>2. PICK i : i = SlotOf(rows, row.key)
  OBVIOUS
<1>3. i \in 1 .. Len(rows) + 1
  BY <1>1, <1>2, SlotOfParts DEF Parts
<1>4. d \in Seq(Rows) /\ IsInsertion(d, rows, i, row)
  BY <1>1, <1>2, <1>3, InsertAtEffect
<1>5. InOrder(d)
  BY <1>1, <1>2, <1>4, InsertedInOrder
<1>6. Taken(d) = Taken(rows) + Cost(row)
  BY <1>1, <1>3, <1>4, TakenInserted
<1>7. ASSUME NEW y \in Rows
      PROVE  (\E x \in 1 .. Len(d) : d[x] = y) <=> (\E x \in 1 .. Len(rows) : rows[x] = y) \/ y = row
  <2>1. /\ Len(d) = Len(rows) + 1 /\ Len(rows) \in Nat /\ i \in Nat
        /\ \A x \in 1 .. Len(rows) + 1 :
             d[x] = IF x < i THEN rows[x] ELSE IF x = i THEN row ELSE rows[x - 1]
    <3>1. i \in Nat
      BY <1>1, <1>3
    <3> QED
      BY <1>1, <1>4, <3>1 DEF IsInsertion
  <2>2. ASSUME NEW x \in 1 .. Len(d), d[x] = y
        PROVE  (\E z \in 1 .. Len(rows) : rows[z] = y) \/ y = row
    <3>1. CASE x < i
      <4>1. x \in 1 .. Len(rows) /\ rows[x] = y
        BY <1>3, <2>1, <2>2, <3>1
      <4> QED
        BY <4>1
    <3>2. CASE x = i
      BY <2>1, <2>2, <3>2
    <3>3. CASE x > i
      <4>1. x - 1 \in 1 .. Len(rows) /\ rows[x - 1] = y
        BY <1>3, <2>1, <2>2, <3>3
      <4> QED
        BY <4>1
    <3>4. x < i \/ x = i \/ x > i
      BY <1>3, <2>1
    <3> QED
      BY <3>1, <3>2, <3>3, <3>4
  <2>3. ASSUME NEW x \in 1 .. Len(rows), rows[x] = y PROVE \E z \in 1 .. Len(d) : d[z] = y
    <3>1. CASE x < i
      <4>1. x \in 1 .. Len(d) /\ d[x] = y
        BY <1>3, <2>1, <2>3, <3>1
      <4> QED
        BY <4>1
    <3>2. CASE x >= i
      <4>1. PICK z \in 1 .. Len(d) : z = x + 1
        BY <2>1
      <4>2. z - 1 = x /\ z > i
        BY <1>3, <3>2, <4>1
      <4>3. d[z] = y
        BY <1>3, <2>1, <2>3, <4>1, <4>2
      <4> QED
        BY <4>3
    <3>3. x < i \/ x >= i
      BY <2>1
    <3> QED
      BY <3>1, <3>2, <3>3
  <2>4. i \in 1 .. Len(d) /\ d[i] = row
    BY <1>3, <2>1
  <2> QED
    BY <2>2, <2>3, <2>4, SMTT(30)
<1>8. ASSUME NEW y \in Rows
      PROVE  (\E x \in 1 .. Len(d) : d[x] = y) <=> y \in store \cup {row} /\ a[y.key] = p
  BY <1>1, <1>7
<1> QED
  BY <1>4, <1>5, <1>6, <1>8 DEF RowsIn

\* The rows of a leaf but the one with id k.
LEMMA RowDropped ==
  ASSUME NEW rows, NEW p, NEW a, NEW store, RowsIn(rows, p, a, store),
         NEW k \in Nat, Holds(rows, k), NEW i, i = SlotOf(rows, k), NEW d, d = RemoveAt(rows, i)
  PROVE  /\ RowsIn(d, p, a, store \ {rows[i]}) /\ Taken(d) <= Taken(rows)
         /\ i \in 1 .. Len(rows) /\ rows[i].key = k /\ rows[i] \in Rows
<1>1. /\ rows \in Seq(Rows) /\ InOrder(rows) /\ Len(rows) \in Nat
      /\ \A y \in Rows : (\E x \in 1 .. Len(rows) : rows[x] = y) <=> y \in store /\ a[y.key] = p
      /\ \A x \in 1 .. Len(rows) : rows[x] \in Rows /\ rows[x].key \in Nat
  BY CostType, CostsType DEF RowsIn
<1>2. i \in 1 .. Len(rows) /\ rows[i].key = k
  BY <1>1, SlotHolds
<1>3. d \in Seq(Rows) /\ IsRemoval(d, rows, i)
  BY <1>1, <1>2, RemovalEffect
<1>4. InOrder(d)
  BY <1>1, <1>2, <1>3, RemovedInOrder
<1>5. Taken(d) <= Taken(rows)
  <2>1. Taken(d) + Cost(rows[i]) = Taken(rows)
    BY <1>1, <1>2, <1>3, TakenRemoved
  <2>2. Taken(d) \in Nat /\ Taken(rows) \in Nat /\ Cost(rows[i]) \in Nat
    BY <1>1, <1>2, <1>3, TakenIs, CostType
  <2> QED
    BY <2>1, <2>2
<1>6. ASSUME NEW x \in 1 .. Len(rows), x # i PROVE rows[x] # rows[i]
  BY <1>1, <1>2, <1>6 DEF InOrder
<1>7. ASSUME NEW y \in Rows
      PROVE  (\E x \in 1 .. Len(d) : d[x] = y) <=>
               (\E x \in 1 .. Len(rows) : rows[x] = y) /\ y # rows[i]
  <2>1. /\ Len(d) = Len(rows) - 1 /\ Len(rows) \in Nat /\ i \in Nat
        /\ \A x \in 1 .. Len(rows) - 1 : d[x] = IF x < i THEN rows[x] ELSE rows[x + 1]
    BY <1>1, <1>2, <1>3 DEF IsRemoval
  <2>2. ASSUME NEW x \in 1 .. Len(d), d[x] = y
        PROVE  \E z \in 1 .. Len(rows) : z # i /\ rows[z] = y
    <3>1. CASE x < i
      <4>1. x \in 1 .. Len(rows) /\ x # i /\ rows[x] = y
        BY <1>2, <2>1, <2>2, <3>1
      <4> QED
        BY <4>1
    <3>2. CASE x >= i
      <4>1. x + 1 \in 1 .. Len(rows) /\ x + 1 # i /\ rows[x + 1] = y
        BY <1>2, <2>1, <2>2, <3>2
      <4> QED
        BY <4>1
    <3>3. x < i \/ x >= i
      BY <2>1
    <3> QED
      BY <3>1, <3>2, <3>3
  <2>3. ASSUME NEW x \in 1 .. Len(rows), rows[x] = y, x # i PROVE \E z \in 1 .. Len(d) : d[z] = y
    <3>1. CASE x < i
      <4>1. x \in 1 .. Len(d) /\ d[x] = y
        BY <1>2, <2>1, <2>3, <3>1
      <4> QED
        BY <4>1
    <3>2. CASE x > i
      <4>1. PICK z \in 1 .. Len(d) : z = x - 1
        BY <1>2, <2>1, <3>2
      <4>2. z + 1 = x /\ ~(z < i)
        BY <1>2, <2>1, <3>2, <4>1
      <4>3. d[z] = y
        BY <1>2, <2>1, <2>3, <4>1, <4>2
      <4> QED
        BY <4>3
    <3>3. x < i \/ x > i
      BY <2>1, <2>3
    <3> QED
      BY <3>1, <3>2, <3>3
  <2> QED
    BY <1>2, <1>6, <2>2, <2>3
<1>8. ASSUME NEW y \in Rows
      PROVE  (\E x \in 1 .. Len(d) : d[x] = y) <=> y \in store \ {rows[i]} /\ a[y.key] = p
  BY <1>1, <1>7
<1> QED
  BY <1>1, <1>2, <1>3, <1>4, <1>5, <1>8 DEF RowsIn

\* Rows of which one has another value.
IsUpdated(d, rows, i, v) ==
  d \in Seq(Rows) /\ Taken(d) + Size[rows[i].val] = Taken(rows) + Size[v]

LEMMA UpdatedRows ==
  ASSUME NEW rows \in Seq(Rows), NEW i \in 1 .. Len(rows), NEW v \in Values,
         NEW d, d = [rows EXCEPT ![i].val = v]
  PROVE  IsUpdated(d, rows, i, v)
BY TakenUpdated DEF IsUpdated

\* The rows of a leaf of which the one with id k has value v.
LEMMA RowChanged ==
  ASSUME NEW rows, NEW p, NEW a, NEW store, RowsIn(rows, p, a, store),
         NEW k \in Nat, Holds(rows, k), NEW i, i = SlotOf(rows, k), NEW v \in Values,
         NEW d, d = [rows EXCEPT ![i].val = v], NEW new, new = [rows[i] EXCEPT !.val = v]
  PROVE  /\ RowsIn(d, p, a, (store \ {rows[i]}) \cup {new})
         /\ Taken(d) + Size[rows[i].val] = Taken(rows) + Size[v]
         /\ i \in 1 .. Len(rows) /\ rows[i].key = k /\ rows[i] \in Rows
         /\ new \in Rows /\ new.key = k
<1>1. /\ rows \in Seq(Rows) /\ InOrder(rows) /\ Len(rows) \in Nat
      /\ \A y \in Rows : (\E x \in 1 .. Len(rows) : rows[x] = y) <=> y \in store /\ a[y.key] = p
      /\ \A x \in 1 .. Len(rows) : rows[x] \in Rows /\ rows[x].key \in Nat
      /\ DOMAIN rows = 1 .. Len(rows)
  BY CostType, CostsType DEF RowsIn
<1>2. i \in 1 .. Len(rows) /\ rows[i].key = k
  BY <1>1, SlotHolds
<1>3. new \in Rows /\ new.key = k
  BY <1>1, <1>2, RowUpdated
<1>4. d \in Seq(Rows) /\ Taken(d) + Size[rows[i].val] = Taken(rows) + Size[v]
  <2>1. IsUpdated(d, rows, i, v)
    BY <1>1, <1>2, UpdatedRows
  <2> QED
    BY <2>1 DEF IsUpdated
<1>5. /\ Len(d) = Len(rows)
      /\ \A x \in 1 .. Len(rows) : d[x] = IF x = i THEN new ELSE rows[x]
  BY <1>1, <1>2
<1>6. InOrder(d)
  <2>1. Len(d) <= Len(rows) /\ \A x \in 1 .. Len(d) : d[x].key = rows[x].key
    BY <1>1, <1>2, <1>3, <1>5
  <2> QED
    BY <1>1, <1>4, <2>1, SameKeysInOrder
<1>7. ASSUME NEW x \in 1 .. Len(rows), x # i PROVE rows[x] # rows[i]
  BY <1>1, <1>2, <1>7 DEF InOrder
<1>8. ASSUME NEW y \in Rows
      PROVE  (\E x \in 1 .. Len(d) : d[x] = y) <=>
               ((\E x \in 1 .. Len(rows) : rows[x] = y) /\ y # rows[i]) \/ y = new
  BY <1>2, <1>5, <1>7
<1>9. a[k] = p
  BY <1>1, <1>2
<1>10. ASSUME NEW y \in Rows
       PROVE  (\E x \in 1 .. Len(d) : d[x] = y) <=>
                y \in (store \ {rows[i]}) \cup {new} /\ a[y.key] = p
  BY <1>1, <1>3, <1>8, <1>9
<1> QED
  BY <1>1, <1>2, <1>3, <1>4, <1>6, <1>10 DEF RowsIn

-----------------------------------------------------------------------------
(* The row with an id *)

\* rows, the leaf for id k, has the row of the store with that id, if there is one.
IsFoundAt(rows, k, store) ==
  /\ Holds(rows, k) => SlotOf(rows, k) \in 1 .. Len(rows) /\ rows[SlotOf(rows, k)] \in store
                       /\ rows[SlotOf(rows, k)].key = k
  /\ \A row \in store : row.key = k =>
       Holds(rows, k) /\ SlotOf(rows, k) \in 1 .. Len(rows) /\ rows[SlotOf(rows, k)] = row

LEMMA FoundAt ==
  ASSUME NEW rows, NEW p, NEW a, NEW store, RowsIn(rows, p, a, store), Stored(store),
         NEW k \in Nat, a[k] = p
  PROVE  IsFoundAt(rows, k, store)
<1>1. /\ rows \in Seq(Rows) /\ InOrder(rows) /\ Len(rows) \in Nat
      /\ \A y \in Rows : (\E x \in 1 .. Len(rows) : rows[x] = y) <=> y \in store /\ a[y.key] = p
      /\ \A x \in 1 .. Len(rows) : rows[x] \in Rows /\ rows[x].key \in Nat
      /\ DOMAIN rows = 1 .. Len(rows)
  BY CostType, CostsType DEF RowsIn
<1>2. PICK i : i = SlotOf(rows, k)
  OBVIOUS
<1>3. ASSUME Holds(rows, k) PROVE i \in 1 .. Len(rows) /\ rows[i] \in store /\ rows[i].key = k
  <2>1. i \in 1 .. Len(rows) /\ rows[i].key = k
    BY <1>1, <1>2, <1>3, SlotHolds
  <2> QED
    BY <1>1, <2>1
<1>4. ASSUME NEW row \in store, row.key = k
      PROVE  Holds(rows, k) /\ i \in 1 .. Len(rows) /\ rows[i] = row
  <2>1. row \in Rows
    BY DEF Stored
  <2>2. PICK x \in 1 .. Len(rows) : rows[x] = row
    BY <1>1, <1>4, <2>1
  <2>3. Holds(rows, k)
    BY <1>1, <1>4, <2>2 DEF Holds
  <2>4. i \in 1 .. Len(rows) /\ rows[i].key = k
    BY <1>3, <2>3
  <2>5. x = i
    <3>1. ~(x < i) /\ ~(i < x)
      BY <1>1, <1>4, <2>2, <2>4 DEF InOrder
    <3> QED
      BY <1>1, <2>2, <2>4, <3>1
  <2> QED
    BY <2>2, <2>3, <2>4, <2>5
<1> QED
  BY <1>2, <1>3, <1>4 DEF IsFoundAt

\* The leaf that the search for an id ends in.
IsLeafOf(s, p, a, store) ==
  /\ p \in 1 .. Len(s.page) /\ RowsIn(s.page[p].rows, p, a, store)
  /\ Taken(s.page[p].rows) <= NODE_SPACE

LEMMA LeafOf ==
  ASSUME NEW s, NEW store, NEW h, NEW at, Sound(s, store, h, at, at, 0), NEW k \in Ids
  PROVE  /\ LeafFor(s, k) = at[0][k] /\ IsLeafOf(s, LeafFor(s, k), at[0], store)
         /\ IsFoundAt(s.page[LeafFor(s, k)].rows, k, store) /\ Stored(store)
<1>1. PICK p : p = LeafFor(s, k)
  OBVIOUS
<1>2. h \in Nat /\ at \in [Nat -> Division] /\ LeafLevel(s.page, at[0], store)
  BY DEF Sound, Grown
<1>3. Known(0, h, at, at)
  BY DEF Known
<1>4. p = at[0][k]
  BY <1>1, <1>3, LeafForIs
<1>5. IsLeafOf(s, p, at[0], store)
  BY <1>2, <1>4 DEF IsLeafOf, LeafLevel
<1>6. Stored(store)
  BY SoundStored
<1>7. k \in Nat
  BY IdsAre
<1>8. IsFoundAt(s.page[p].rows, k, store)
  BY <1>4, <1>5, <1>6, <1>7, FoundAt DEF IsLeafOf
<1> QED
  BY <1>1, <1>4, <1>5, <1>6, <1>8

\* Leaf LeafFor(s, k) has other rows.
LEMMA RowsOf ==
  ASSUME NEW s, NEW store, NEW h, NEW at, NEW k \in Ids, NEW p, p = LeafFor(s, k),
         NEW rows, NEW store2, MayHave(s, p, rows, store2, store, h, at)
  PROVE  IsRowed(WithRows(s, p, rows), s, p, rows, store2, h, at)
<1>1. Sound(s, store, h, at, at, 0)
  BY DEF MayHave
<1>2. p = at[0][k]
  BY <1>1, LeafOf
<1> QED
  BY <1>2, RowsChanged

\* Every page is free or in the tree.
NoneLost(s, h, at) == \A p \in Nat : Home(p, s, h, at)

LEMMA NoneLostAfter ==
  ASSUME NEW s, NEW h, NEW at, NEW t, NEW h2, NEW at2, NoneLost(s, h, at),
         Keeps(t, h2, at2, s, h, at, {})
  PROVE  NoneLost(t, h2, at2)
BY DEF NoneLost, Keeps

\* The tree holds store, without losing a page, and n is the next id.
Holding(t, store, n) ==
  /\ \E h, g : Sound(t, store, h, g, g, 0) /\ NoneLost(t, h, g)
  /\ t.next_row = n

LEMMA HoldingRowed ==
  ASSUME NEW s, NEW store, NEW h, NEW at, NEW p, NEW rows, NEW t, NEW store2,
         IsRowed(t, s, p, rows, store2, h, at), NoneLost(s, h, at)
  PROVE  Holding(t, store2, s.next_row)
<1>1. Sound(t, store2, h, at, at, 0) /\ Keeps(t, h, at, s, h, at, {}) /\ t.next_row = s.next_row
  BY DEF IsRowed
<1>2. NoneLost(t, h, at)
  BY <1>1, NoneLostAfter
<1> QED
  BY <1>1, <1>2 DEF Holding

\* What changes in the table is one row, of leaf p.
LEMMA OneRowElse ==
  ASSUME NEW store, NEW store2, NEW a, NEW p, NEW k, a[k] = p,
         \A row : row.key # k => (row \in store2 <=> row \in store)
  PROVE  AgreeElsewhere(store2, store, a, p)
BY DEF AgreeElsewhere


-----------------------------------------------------------------------------
(* The operations *)

\* A page that has no room for a row has at least two.
LEMMA Crowded ==
  ASSUME HalfPages, NEW rows \in Seq(Rows), NEW n \in Nat, 2 * n <= NODE_SPACE,
         Taken(rows) + n > NODE_SPACE
  PROVE  Len(rows) >= 2
<1>1. Len(rows) \in Nat /\ Taken(rows) \in Nat /\ NODE_SPACE \in Nat
  BY TakenIs, NodeAssumption
<1>2. ASSUME Len(rows) = 0 PROVE FALSE
  <2>1. rows = <<>>
    BY <1>2
  <2>2. Taken(rows) = 0
    BY <2>1, EmptyTakes
  <2> QED
    BY <1>1, <2>2
<1>3. ASSUME Len(rows) = 1 PROVE FALSE
  <2>1. rows[1] \in Rows /\ <<>> \in Seq(Rows) /\ 1 \in 1 .. Len(rows)
    BY <1>3
  <2>2. IsRemoval(<<>>, rows, 1)
    BY <1>3 DEF IsRemoval
  <2>3. Taken(<<>>) + Cost(rows[1]) = Taken(rows)
    BY <2>1, <2>2, TakenRemoved
  <2>4. 2 * Cost(rows[1]) <= NODE_SPACE /\ Cost(rows[1]) \in Nat
    BY <2>1, CostType DEF HalfPages, Cost
  <2> QED
    BY <1>1, <2>3, <2>4, EmptyTakes
<1>4. PICK A \in Nat : A = Len(rows)
  BY <1>1
<1>5. A # 0 /\ A # 1
  BY <1>2, <1>3, <1>4
<1> QED
  BY <1>4, <1>5

\* What the second attempts do, as a change of the rows of one page.
LEMMA WithRowIs ==
  ASSUME NEW s, NEW row, NEW p, p = LeafFor(s, row.key), NEW rows, rows = s.page[p].rows
  PROVE  WithRow(s, row) = WithRows(s, p, Inserted(rows, SlotOf(rows, row.key), row))
BY DEF WithRow, WithRows

LEMMA WithValueIs ==
  ASSUME NEW s, NEW k, NEW v, NEW p, p = LeafFor(s, k), NEW rows, rows = s.page[p].rows
  PROVE  WithValue(s, k, v) =
           WithRows(s, p, IF UpdateFits(rows, SlotOf(rows, k), v)
                          THEN [rows EXCEPT ![SlotOf(rows, k)].val = v] ELSE rows)
BY DEF WithValue, WithRows

\* The first attempt of insert, and the second one.
LEMMA WithRowSound ==
  ASSUME NEW s, NEW store, NEW h, NEW at, Sound(s, store, h, at, at, 0), NoneLost(s, h, at),
         NEW row \in Rows, row.key \in Ids, row.key < s.next_row,
         \A y \in store : y.key # row.key
  PROVE  Holding(WithRow(s, row),
                 IF Fits(s.page[LeafFor(s, row.key)].rows, row) THEN store \cup {row} ELSE store,
                 s.next_row)
<1>1. PICK k \in Ids : k = row.key
  OBVIOUS
<1>2. PICK p : p = LeafFor(s, k)
  OBVIOUS
<1>3. PICK rows : rows = s.page[p].rows
  OBVIOUS
<1>4. /\ p = at[0][k] /\ IsLeafOf(s, p, at[0], store) /\ IsFoundAt(rows, k, store)
      /\ Stored(store)
  BY <1>2, <1>3, LeafOf, SMTT(30)
<1>5. RowsIn(rows, p, at[0], store) /\ Taken(rows) <= NODE_SPACE /\ rows \in Seq(Rows)
  BY <1>3, <1>4 DEF IsLeafOf, RowsIn
<1>6. PICK a : a = at[0]
  OBVIOUS
<1>7. ~Holds(rows, k)
  BY <1>1, <1>4 DEF IsFoundAt
<1>8. AreRows(store, s.next_row)
  BY DEF Sound, AreRows
<1>9. WithRow(s, row) = WithRows(s, p, Inserted(rows, SlotOf(rows, k), row))
  BY <1>1, <1>2, <1>3, WithRowIs
<1>10. CASE Fits(rows, row)
  <2>1. PICK d : d = InsertAt(rows, SlotOf(rows, k), row)
    OBVIOUS
  <2>2. Inserted(rows, SlotOf(rows, k), row) = d
    BY <1>10, <2>1 DEF Inserted
  <2>3. RowsIn(d, p, a, store \cup {row}) /\ Taken(d) = Taken(rows) + Cost(row)
    <3>1. /\ RowsIn(rows, p, a, store) /\ a[row.key] = p /\ ~Holds(rows, row.key)
          /\ d = InsertAt(rows, SlotOf(rows, row.key), row)
      BY <1>1, <1>4, <1>5, <1>6, <1>7, <2>1
    <3> QED
      BY <3>1, RowAdded
  <2>4. Taken(d) <= NODE_SPACE
    BY <1>10, <2>3 DEF Fits
  <2>5. PICK store2 : store2 = store \cup {row}
    OBVIOUS
  <2>6. AreRows(store2, s.next_row)
    BY <1>8, <2>5 DEF AreRows
  <2>7. \A y : y.key # k => (y \in store2 <=> y \in store)
    BY <1>1, <2>5
  <2>8. AgreeElsewhere(store2, store, a, p)
    BY <1>4, <1>6, <2>7, OneRowElse
  <2>9. MayHave(s, p, d, store2, store, h, at)
    BY <1>6, <2>3, <2>4, <2>5, <2>6, <2>8 DEF MayHave
  <2>10. IsRowed(WithRows(s, p, d), s, p, d, store2, h, at)
    BY <1>2, <2>9, RowsOf, SMTT(30)
  <2> QED
    BY <1>1, <1>2, <1>3, <1>9, <1>10, <2>2, <2>5, <2>10, HoldingRowed
<1>11. CASE ~Fits(rows, row)
  <2>1. Inserted(rows, SlotOf(rows, k), row) = rows
    BY <1>11 DEF Inserted
  <2>2. AgreeElsewhere(store, store, at[0], p)
    BY DEF AgreeElsewhere
  <2>3. MayHave(s, p, rows, store, store, h, at)
    BY <1>5, <1>8, <2>2 DEF MayHave
  <2>4. IsRowed(WithRows(s, p, rows), s, p, rows, store, h, at)
    BY <1>2, <2>3, RowsOf
  <2> QED
    BY <1>1, <1>2, <1>3, <1>9, <1>11, <2>1, <2>4, HoldingRowed
<1> QED
  BY <1>10, <1>11

\* Every row takes as much of a page as any other.
SameSizes == \A v, w \in Values : Size[v] = Size[w]

\* Rows of one size: a leaf with fewer rows than a page has room for one more.
LEMMA SameTaken ==
  ASSUME SameSizes, NEW rows \in Seq(Rows), NEW more \in Seq(Rows), Len(more) < Len(rows),
         NEW row \in Rows
  PROVE  Taken(more) + Cost(row) <= Taken(rows)
<1>1. PICK n \in Nat : n = Len(more)
  OBVIOUS
<1>2. PICK m \in Nat : m = n + 1
  OBVIOUS
<1>3. m \in 0 .. Len(rows) /\ m \in 1 .. Len(more) + 1
  BY <1>1, <1>2
<1>4. PICK d : d = InsertAt(more, m, row)
  OBVIOUS
<1>5. d \in Seq(Rows) /\ IsInsertion(d, more, m, row)
  BY <1>3, <1>4, InsertAtEffect
<1>6. Taken(d) = Taken(more) + Cost(row)
  BY <1>3, <1>5, TakenInserted
<1>7. PICK e : e = SubSeq(rows, 1, m)
  OBVIOUS
<1>8. e \in Seq(Rows) /\ Taken(e) <= Taken(rows)
  BY <1>3, <1>7, TakenPrefix
<1>9. Len(e) = m /\ Len(d) = m
  BY <1>1, <1>2, <1>3, <1>5, <1>7 DEF IsInsertion
<1>10. \A x \in 1 .. m : d[x] \in Rows /\ e[x] \in Rows
  BY <1>5, <1>8, <1>9
<1>11. \A x \in 1 .. m : Cost(d[x]) = Cost(e[x])
  BY <1>10, CostType DEF SameSizes, Cost
<1>12. Costs(d) = Costs(e)
  <2>1. /\ Costs(d) \in Seq(Nat) /\ Len(Costs(d)) = m /\ \A x \in 1 .. m : Costs(d)[x] = Cost(d[x])
        /\ Costs(e) \in Seq(Nat) /\ Len(Costs(e)) = m /\ \A x \in 1 .. m : Costs(e)[x] = Cost(e[x])
    BY <1>5, <1>8, <1>9, CostsType
  <2> QED
    BY <1>11, <2>1
<1>13. Taken(d) = Taken(e)
  BY <1>5, <1>8, <1>12, TakenIs
<1> QED
  BY <1>6, <1>8, <1>13

\* The leaf of k was split, and the one that k belongs to now has fewer rows.
IsSplitFor(u, s, store, k) ==
  /\ \E h, g : Sound(u, store, h, g, g, 0) /\ NoneLost(u, h, g)
  /\ u.next_row = s.next_row
  /\ u.page[LeafFor(u, k)].rows \in Seq(Rows)
  /\ Len(u.page[LeafFor(u, k)].rows) < Len(s.page[LeafFor(s, k)].rows)

LEMMA SplitFor ==
  ASSUME HalfPages, NEW s, NEW store, NEW h, NEW at, Sound(s, store, h, at, at, 0), NoneLost(s, h, at),
         NEW k \in Ids,
         NEW p, p = LeafFor(s, k), NEW n \in Nat, 2 * n <= NODE_SPACE,
         Taken(s.page[p].rows) + n > NODE_SPACE
  PROVE  IsSplitFor(SplitLeaf(s, p), s, store, k)
<1>1. p = at[0][k] /\ IsLeafOf(s, p, at[0], store)
  BY LeafOf
<1>2. s.page[p].rows \in Seq(Rows)
  BY <1>1 DEF IsLeafOf, RowsIn
<1>3. Len(s.page[p].rows) >= 2
  BY <1>2, Crowded
<1>4. PICK t \in Database : \E h2, g2 :
        /\ t = SplitLeaf(s, p) /\ Sound(t, store, h2, g2, g2, 0) /\ t.next_row = s.next_row
        /\ \A x \in Ids : at[0][x] = p => Len(t.page[g2[0][x]].rows) < Len(s.page[p].rows)
        /\ Keeps(t, h2, g2, s, h, at, {})
  BY <1>1, <1>3, SplitLeafSound
<1>5. PICK h2, g2 :
        /\ t = SplitLeaf(s, p) /\ Sound(t, store, h2, g2, g2, 0) /\ t.next_row = s.next_row
        /\ \A x \in Ids : at[0][x] = p => Len(t.page[g2[0][x]].rows) < Len(s.page[p].rows)
        /\ Keeps(t, h2, g2, s, h, at, {})
  BY <1>4
<1>6. LeafFor(t, k) = g2[0][k] /\ IsLeafOf(t, LeafFor(t, k), g2[0], store)
  BY <1>5, LeafOf
<1>7. Len(t.page[LeafFor(t, k)].rows) < Len(s.page[p].rows)
  BY <1>1, <1>5, <1>6
<1>8. t.page[LeafFor(t, k)].rows \in Seq(Rows)
  BY <1>6 DEF IsLeafOf, RowsIn
<1>9. NoneLost(t, h2, g2)
  BY <1>5, NoneLostAfter
<1> QED
  BY <1>5, <1>7, <1>8, <1>9 DEF IsSplitFor

\* The table holds store and the row, or else, when the rows differ in size, it may be
\* without the row.
IsStored(t, store, row, n) ==
  \E store2 : /\ Holding(t, store2, n) /\ store2 \in {store, store \cup {row}}
              /\ SameSizes => store2 = store \cup {row}

LEMMA InsertSound ==
  ASSUME HalfPages, NEW s, NEW store, NEW h, NEW at, Sound(s, store, h, at, at, 0), NoneLost(s, h, at),
         NEW row \in Rows, row.key \in Ids, row.key < s.next_row,
         \A y \in store : y.key # row.key, NEW p, p = LeafFor(s, row.key)
  PROVE  IsStored(WithRow(IF Fits(s.page[p].rows, row) THEN s ELSE SplitLeaf(s, p), row),
                  store, row, s.next_row)
<1>1. PICK k \in Ids : k = row.key
  OBVIOUS
<1>2. p = at[0][k] /\ IsLeafOf(s, p, at[0], store)
  BY <1>1, LeafOf, SMTT(30)
<1>3. s.page[p].rows \in Seq(Rows) /\ Taken(s.page[p].rows) <= NODE_SPACE
  BY <1>2 DEF IsLeafOf, RowsIn
<1>4. CASE Fits(s.page[p].rows, row)
  <2>1. Holding(WithRow(s, row), store \cup {row}, s.next_row)
    BY <1>4, WithRowSound
  <2> QED
    BY <1>4, <2>1 DEF IsStored
<1>5. CASE ~Fits(s.page[p].rows, row)
  <2>1. PICK n \in Nat : n = Cost(row)
    BY CostType
  <2>2. 2 * n <= NODE_SPACE
    BY <2>1, CostType DEF HalfPages, Cost
  <2>3. Taken(s.page[p].rows) + n > NODE_SPACE
    <3>1. Taken(s.page[p].rows) \in Nat /\ NODE_SPACE \in Nat
      BY <1>3, TakenIs, NodeAssumption
    <3> QED
      BY <1>5, <2>1, <3>1 DEF Fits
  <2>4. PICK u : u = SplitLeaf(s, p)
    OBVIOUS
  <2>5. IsSplitFor(u, s, store, k)
    BY <1>1, <2>2, <2>3, <2>4, SplitFor
  <2>6. PICK h2, g2 : Sound(u, store, h2, g2, g2, 0) /\ NoneLost(u, h2, g2)
    BY <2>5 DEF IsSplitFor
  <2>7. PICK q : q = LeafFor(u, k)
    OBVIOUS
  <2>8. /\ u.next_row = s.next_row /\ u.page[q].rows \in Seq(Rows)
        /\ Len(u.page[q].rows) < Len(s.page[p].rows)
    BY <1>1, <2>5, <2>7 DEF IsSplitFor
  <2>9. row.key \in Ids /\ row.key < u.next_row
    BY <2>8
  <2>10. Holding(WithRow(u, row),
                 IF Fits(u.page[LeafFor(u, row.key)].rows, row) THEN store \cup {row} ELSE store,
                 u.next_row)
    BY <2>6, <2>9, WithRowSound
  <2>11. SameSizes => Fits(u.page[q].rows, row)
    <3>1. ASSUME SameSizes PROVE Taken(u.page[q].rows) + Cost(row) <= Taken(s.page[p].rows)
      BY <1>3, <2>8, <3>1, SameTaken
    <3>2. /\ Taken(u.page[q].rows) \in Nat /\ Taken(s.page[p].rows) \in Nat
          /\ NODE_SPACE \in Nat /\ Cost(row) \in Nat
      BY <1>3, <2>1, <2>8, TakenIs, NodeAssumption
    <3> QED
      BY <1>3, <3>1, <3>2 DEF Fits
  <2> QED
    BY <1>1, <1>5, <2>4, <2>7, <2>8, <2>10, <2>11 DEF IsStored
<1> QED
  BY <1>4, <1>5

\* The table with one row changed.
Changed(store, y, v) == (store \ {y}) \cup {[y EXCEPT !.val = v]}

\* Both attempts of update.
LEMMA WithValueSound ==
  ASSUME NEW s, NEW store, NEW h, NEW at, Sound(s, store, h, at, at, 0), NoneLost(s, h, at),
         NEW k \in Ids,
         NEW v \in Values, NEW y \in store, y.key = k,
         NEW rows, rows = s.page[LeafFor(s, k)].rows
  PROVE  Holding(WithValue(s, k, v),
                 IF UpdateFits(rows, SlotOf(rows, k), v) THEN Changed(store, y, v) ELSE store,
                 s.next_row)
<1>1. PICK p : p = LeafFor(s, k)
  OBVIOUS
<1>2. /\ p = at[0][k] /\ IsLeafOf(s, p, at[0], store) /\ IsFoundAt(rows, k, store)
      /\ Stored(store)
  BY <1>1, LeafOf, SMTT(30)
<1>3. RowsIn(rows, p, at[0], store) /\ Taken(rows) <= NODE_SPACE /\ rows \in Seq(Rows)
  BY <1>1, <1>2 DEF IsLeafOf, RowsIn
<1>4. PICK a : a = at[0]
  OBVIOUS
<1>5. PICK i : i = SlotOf(rows, k)
  OBVIOUS
<1>6. Holds(rows, k) /\ i \in 1 .. Len(rows) /\ rows[i] = y
  BY <1>2, <1>5 DEF IsFoundAt
<1>7. AreRows(store, s.next_row) /\ k \in Nat /\ y \in Rows
  BY <1>2, IdsAre DEF Sound, AreRows, Stored
<1>8. WithValue(s, k, v) =
        WithRows(s, p, IF UpdateFits(rows, i, v) THEN [rows EXCEPT ![i].val = v] ELSE rows)
  BY <1>1, <1>5, WithValueIs
<1>9. CASE UpdateFits(rows, i, v)
  <2>1. PICK d : d = [rows EXCEPT ![i].val = v]
    OBVIOUS
  <2>2. PICK new : new = [rows[i] EXCEPT !.val = v]
    OBVIOUS
  <2>3. RowsIn(rows, p, a, store)
    BY <1>3, <1>4
  <2>4. RowsIn(d, p, a, (store \ {rows[i]}) \cup {new})
    BY <1>5, <1>6, <1>7, <2>1, <2>2, <2>3, RowChanged, SMTT(30)
  <2>5. rows[i] \in Rows /\ new \in Rows /\ new.key = k
    <3>1. rows[i] \in Rows
      BY <1>3, <1>6
    <3> QED
      BY <1>6, <2>2, <3>1 DEF Rows
  <2>6. Taken(d) <= NODE_SPACE
    <3>1. IsUpdated(d, rows, i, v)
      BY <1>3, <1>6, <2>1, UpdatedRows
    <3>2. Taken(d) \in Nat /\ Taken(rows) \in Nat /\ NODE_SPACE \in Nat
      BY <1>3, <3>1, TakenIs, NodeAssumption DEF IsUpdated
    <3>3. Size[rows[i].val] \in Nat /\ Size[v] \in Nat
      BY <2>5, CostType, SizeAssumption
    <3>4. PICK A \in Nat, B \in Nat : A = Taken(rows) /\ B = Taken(d)
      BY <3>2
    <3>5. PICK C \in Nat, D \in Nat : C = Size[rows[i].val] /\ D = Size[v]
      BY <3>3
    <3>6. B + C = A + D
      BY <3>1, <3>4, <3>5 DEF IsUpdated
    <3>7. C >= D \/ A + D <= NODE_SPACE
      BY <1>9, <3>4, <3>5 DEF UpdateFits
    <3>8. A <= NODE_SPACE
      BY <1>3, <3>4
    <3>9. B <= NODE_SPACE
      BY <3>2, <3>6, <3>7, <3>8
    <3> QED
      BY <3>4, <3>9
  <2>7. PICK store2 : store2 = Changed(store, y, v)
    OBVIOUS
  <2>8. store2 = (store \ {rows[i]}) \cup {new}
    BY <1>6, <2>2, <2>7 DEF Changed
  <2>9. AreRows(store2, s.next_row)
    <3>1. new.key < s.next_row
      BY <1>7, <2>5 DEF AreRows
    <3> QED
      BY <1>7, <2>5, <2>8, <3>1 DEF AreRows
  <2>10. \A z : z.key # k => (z \in store2 <=> z \in store)
    BY <1>6, <2>5, <2>8
  <2>11. AgreeElsewhere(store2, store, a, p)
    BY <1>2, <1>4, <2>10, OneRowElse
  <2>12. MayHave(s, p, d, store2, store, h, at)
    BY <1>4, <2>4, <2>6, <2>8, <2>9, <2>11 DEF MayHave
  <2>13. IsRowed(WithRows(s, p, d), s, p, d, store2, h, at)
    BY <1>1, <2>12, RowsOf
  <2>14. Holding(WithRows(s, p, d), store2, s.next_row)
    BY <2>13, HoldingRowed
  <2>15. WithValue(s, k, v) = WithRows(s, p, d)
    BY <1>8, <1>9, <2>1
  <2> QED
    BY <1>5, <1>9, <2>7, <2>14, <2>15
<1>10. CASE ~UpdateFits(rows, i, v)
  <2>1. AgreeElsewhere(store, store, at[0], p)
    BY DEF AgreeElsewhere
  <2>2. MayHave(s, p, rows, store, store, h, at)
    BY <1>3, <1>7, <2>1 DEF MayHave
  <2>3. IsRowed(WithRows(s, p, rows), s, p, rows, store, h, at)
    BY <1>1, <2>2, RowsOf
  <2> QED
    BY <1>5, <1>8, <1>10, <2>3, HoldingRowed
<1> QED
  BY <1>9, <1>10

\* The table holds the row with its new value, or else, when the rows differ in size, it
\* may be as it was.
IsUpdate(t, store, y, v, n) ==
  \E store2 : /\ Holding(t, store2, n) /\ store2 \in {store, Changed(store, y, v)}
              /\ SameSizes => store2 = Changed(store, y, v)

LEMMA UpdateSound ==
  ASSUME HalfPages, NEW s, NEW store, NEW h, NEW at, Sound(s, store, h, at, at, 0), NoneLost(s, h, at),
         NEW k \in Ids, NEW v \in Values, NEW y \in store, y.key = k, NEW p, p = LeafFor(s, k),
         NEW rows, rows = s.page[p].rows
  PROVE  IsUpdate(WithValue(IF UpdateFits(rows, SlotOf(rows, k), v) THEN s ELSE SplitLeaf(s, p), k, v),
                  store, y, v, s.next_row)
<1>1. p = at[0][k] /\ IsLeafOf(s, p, at[0], store) /\ IsFoundAt(rows, k, store) /\ Stored(store)
  BY LeafOf, SMTT(30)
<1>2. rows \in Seq(Rows) /\ Taken(rows) \in Nat /\ NODE_SPACE \in Nat
  BY <1>1, TakenIs, NodeAssumption DEF IsLeafOf, RowsIn
<1>3. PICK i : i = SlotOf(rows, k)
  BY SMTT(30)
<1>4. Holds(rows, k) /\ i \in 1 .. Len(rows) /\ rows[i] = y /\ y \in Rows
  BY <1>1, <1>3 DEF IsFoundAt, Stored
<1>5. CASE UpdateFits(rows, i, v)
  <2>1. Holding(WithValue(s, k, v), Changed(store, y, v), s.next_row)
    BY <1>3, <1>5, WithValueSound
  <2> QED
    BY <1>3, <1>5, <2>1 DEF IsUpdate
<1>6. CASE ~UpdateFits(rows, i, v)
  <2>1. PICK n \in Nat : n = Size[v]
    BY SizeAssumption
  <2>2. 2 * n <= NODE_SPACE
    BY <1>2, <2>1, NodeAssumption DEF HalfPages
  <2>3. Taken(rows) + n > NODE_SPACE
    BY <1>2, <1>6, <2>1 DEF UpdateFits
  <2>4. ~SameSizes
    <3>1. rows[i].val \in Values /\ Size[rows[i].val] \in Nat
      BY <1>4, CostType
    <3> QED
      BY <1>6, <2>1, <3>1 DEF UpdateFits, SameSizes
  <2>5. PICK u : u = SplitLeaf(s, p)
    OBVIOUS
  <2>6. IsSplitFor(u, s, store, k)
    BY <2>1, <2>2, <2>3, <2>5, SplitFor
  <2>7. PICK h2, g2 : Sound(u, store, h2, g2, g2, 0) /\ NoneLost(u, h2, g2)
    BY <2>6 DEF IsSplitFor
  <2>8. u.next_row = s.next_row
    BY <2>6 DEF IsSplitFor
  <2>9. PICK rows2 : rows2 = u.page[LeafFor(u, k)].rows
    OBVIOUS
  <2>10. Holding(WithValue(u, k, v),
                 IF UpdateFits(rows2, SlotOf(rows2, k), v) THEN Changed(store, y, v) ELSE store,
                 u.next_row)
    BY <2>7, <2>9, WithValueSound, SMTT(30)
  <2> QED
    BY <1>3, <1>6, <2>4, <2>5, <2>8, <2>10 DEF IsUpdate
<1> QED
  BY <1>5, <1>6

\* The end of BTree::remove.
Balanced(t, p) ==
  IF t.page[p].parent # 0 /\ LeafUnderflows(t.page[p].rows) THEN BalanceLeaf(t, p) ELSE t

\* BTree::remove, of a row that is there.
LEMMA DeleteSound ==
  ASSUME HalfPages, NEW s, NEW store, NEW h, NEW at, Sound(s, store, h, at, at, 0), NoneLost(s, h, at),
         Len(s.page) < CHILD_IDS,
         NEW k \in Ids, NEW y \in store, y.key = k, NEW p, p = LeafFor(s, k),
         NEW t, t = WithRows(s, p, RemoveAt(s.page[p].rows, SlotOf(s.page[p].rows, k)))
  PROVE  Holding(Balanced(t, p), store \ {y}, s.next_row)
<1>1. PICK rows : rows = s.page[p].rows
  OBVIOUS
<1>2. /\ p = at[0][k] /\ IsLeafOf(s, p, at[0], store) /\ IsFoundAt(rows, k, store)
      /\ Stored(store)
  BY <1>1, LeafOf, SMTT(30)
<1>3. RowsIn(rows, p, at[0], store) /\ Taken(rows) <= NODE_SPACE /\ rows \in Seq(Rows)
  BY <1>1, <1>2, ZenonT(40) DEF IsLeafOf, RowsIn
<1>4. PICK a : a = at[0]
  OBVIOUS
<1>5. PICK i : i = SlotOf(rows, k)
  OBVIOUS
<1>6. Holds(rows, k) /\ i \in 1 .. Len(rows) /\ rows[i] = y
  BY <1>2, <1>5 DEF IsFoundAt
<1>7. AreRows(store, s.next_row) /\ k \in Nat
  BY IdsAre DEF Sound, AreRows
<1>8. PICK d : d = RemoveAt(rows, i)
  OBVIOUS
<1>9. RowsIn(rows, p, a, store)
  BY <1>3, <1>4
<1>10. RowsIn(d, p, a, store \ {rows[i]}) /\ Taken(d) <= Taken(rows)
  BY <1>5, <1>6, <1>7, <1>8, <1>9, RowDropped
<1>11. PICK store2 : store2 = store \ {y}
  OBVIOUS
<1>12. AreRows(store2, s.next_row)
  BY <1>7, <1>11 DEF AreRows
<1>13. \A z : z.key # k => (z \in store2 <=> z \in store)
  BY <1>11
<1>14. AgreeElsewhere(store2, store, a, p)
  BY <1>2, <1>4, <1>13, OneRowElse
<1>15. Taken(d) <= NODE_SPACE
  <2>1. d \in Seq(Rows)
    BY <1>10 DEF RowsIn
  <2>2. Taken(d) \in Nat /\ Taken(rows) \in Nat /\ NODE_SPACE \in Nat
    BY <1>3, <2>1, TakenIs, NodeAssumption
  <2> QED
    BY <1>3, <1>10, <2>2
<1>16. MayHave(s, p, d, store2, store, h, at)
  BY <1>4, <1>6, <1>10, <1>11, <1>12, <1>14, <1>15 DEF MayHave
<1>17. IsRowed(WithRows(s, p, d), s, p, d, store2, h, at)
  BY <1>16, RowsOf
<1>18. t = WithRows(s, p, d)
  BY <1>1, <1>5, <1>8
<1>19. /\ Sound(t, store2, h, at, at, 0) /\ t.next_row = s.next_row
       /\ Len(t.page) < CHILD_IDS
  BY <1>17, <1>18, SMTT(30) DEF IsRowed
<1>22. NoneLost(t, h, at)
  BY <1>17, <1>18, NoneLostAfter DEF IsRowed
<1>20. CASE t.page[p].parent # 0 /\ LeafUnderflows(t.page[p].rows)
  <2>1. PICK u : u = BalanceLeaf(t, p) /\ IsRemoved(u, t, store2, h, at)
    BY <1>2, <1>19, <1>20, BalanceLeafSound, ZenonT(40)
  <2>2. PICK h2, g : Sound(u, store2, h2, g, g, 0) /\ Keeps(u, h2, g, t, h, at, {})
    BY <2>1 DEF IsRemoved
  <2>3. NoneLost(u, h2, g) /\ u.next_row = s.next_row
    BY <1>19, <1>22, <2>1, <2>2, NoneLostAfter DEF IsRemoved
  <2>4. Holding(u, store2, s.next_row)
    BY <2>2, <2>3 DEF Holding
  <2> QED
    BY <1>11, <1>20, <2>1, <2>4, ZenonT(40) DEF Balanced
<1>21. CASE ~(t.page[p].parent # 0 /\ LeafUnderflows(t.page[p].rows))
  BY <1>11, <1>19, <1>21, <1>22, ZenonT(40) DEF Holding, Balanced
<1> QED
  BY <1>20, <1>21

-----------------------------------------------------------------------------
(* What a sound tree has *)

\* The pages of the tree.
TreePages(h, at) == {p \in Nat : \E j \in 0 .. h, k \in Ids : p = at[j][k]}

\* c is a child of p, on the level below.
IsKidOf(c, p, at, j) == \E x \in Ids : at[j][x] = p /\ at[j - 1][x] = c

\* An internal node is on a level above the leaves, and its children on the one below.
LEMMA KidsBelow ==
  ASSUME NEW s, NEW store, NEW h, NEW at, Sound(s, store, h, at, at, 0),
         NEW j \in 0 .. h, NEW k \in Ids, NEW p, p = at[j][k], s.page[p].type = "internal"
  PROVE  j \in 1 .. h /\ \A c \in ToSet(Kids(s.page[p])) : IsKidOf(c, p, at, j)
<1>1. /\ s \in Database /\ Grown(s.page, s.root_page_id, store, h, at, at, 0) /\ h \in Nat
      /\ LeafLevel(s.page, at[0], store) /\ at \in [Nat -> Division]
  BY DEF Sound, Grown
<1>2. j \in 1 .. h
  <2>1. j # 0
    BY <1>1 DEF LeafLevel
  <2> QED
    BY <1>1, <2>1
<1>3. PICK i \in 0 .. h : i = j - 1
  BY <1>1, <1>2
<1>4. Contiguous(at[i]) /\ at[i] \in Division /\ at[j] \in Division
  BY <1>1, <1>2, <1>3 DEF Grown
<1>5. NodeIn(s.page[p], p, at[j], at[i])
  BY <1>1, <1>2, <1>3 DEF Grown, NodeLevel
<1>6. AreKids(ToSet(Kids(s.page[p])), p, at[j], at[i])
  <2>1. Nested(at[j], at[i])
    BY <1>1, <1>2, <1>3 DEF Grown, NodeLevel
  <2> QED
    BY <1>4, <1>5, <2>1, KidsAre DEF Used
<1>7. ASSUME NEW c \in ToSet(Kids(s.page[p])) PROVE IsKidOf(c, p, at, j)
  BY <1>3, <1>6 DEF AreKids, IsKidOf
<1> QED
  BY <1>2, <1>7

\* What a step of the walk through the tree adds to R.
Below(s, R) ==
  UNION {IF s.page[p].type = "internal" THEN {p} \cup ToSet(Kids(s.page[p])) ELSE {p} : p \in R}

LEMMA BelowIn ==
  ASSUME NEW s, NEW store, NEW h, NEW at, Sound(s, store, h, at, at, 0),
         NEW R \in SUBSET TreePages(h, at)
  PROVE  Below(s, R) \subseteq TreePages(h, at)
<1>1. /\ s \in Database /\ Grown(s.page, s.root_page_id, store, h, at, at, 0) /\ h \in Nat
      /\ Len(s.page) \in Nat
  BY PagesAre DEF Sound, Grown
<1>2. \A j \in 0 .. h, k \in Ids : at[j][k] \in Nat
  BY <1>1, PageOfLevel
<1>3. ASSUME NEW p \in R, s.page[p].type = "internal", NEW c \in ToSet(Kids(s.page[p]))
      PROVE  c \in TreePages(h, at)
  <2>1. PICK j \in 0 .. h, k \in Ids : p = at[j][k]
    BY DEF TreePages
  <2>2. j \in 1 .. h /\ IsKidOf(c, p, at, j)
    BY <1>3, <2>1, KidsBelow
  <2>3. PICK i \in 0 .. h : i = j - 1
    BY <1>1, <2>2
  <2>4. PICK x \in Ids : at[i][x] = c
    BY <2>2, <2>3 DEF IsKidOf
  <2> QED
    BY <1>2, <2>4 DEF TreePages
<1>4. ASSUME NEW c \in Below(s, R) PROVE c \in TreePages(h, at)
  <2>1. PICK p \in R : c \in IF s.page[p].type = "internal" THEN {p} \cup ToSet(Kids(s.page[p])) ELSE {p}
    BY <1>4 DEF Below
  <2> QED
    BY <1>3, <2>1
<1> QED
  BY <1>4

\* All that is reached from the root is a page of the tree.
LEMMA NodesAre ==
  ASSUME NEW store, NEW h, NEW at, Sound(db, store, h, at, at, 0)
  PROVE  Nodes \subseteq TreePages(h, at)
<1>1. /\ db \in Database /\ Grown(db.page, db.root_page_id, store, h, at, at, 0) /\ h \in Nat
  BY DEF Sound, Grown
<1>2. PICK L \in Nat : L = Len(db.page)
  BY <1>1, PagesAre
<1>3. PICK P : P = TreePages(h, at)
  OBVIOUS
<1>4. {db.root_page_id} \in SUBSET P
  <2>1. h \in 0 .. h /\ 0 \in Ids
    BY <1>1, IdsAre
  <2>2. at[h][0] = db.root_page_id
    BY <1>1, <2>1 DEF Grown
  <2>3. at[h][0] \in Nat
    BY <1>1, <1>2, <2>1, PageOfLevel
  <2> QED
    BY <1>3, <2>1, <2>2, <2>3 DEF TreePages
<1>5. \A R \in SUBSET P : Below(db, R) \in SUBSET P
  BY <1>3, BelowIn
<1> DEFINE Walk(f) == f = [d \in 0 .. L |-> IF d = 0 THEN {db.root_page_id} ELSE Below(db, f[d - 1])]
           reached == CHOOSE f : Walk(f)
<1>6. Nodes = reached[L]
  BY <1>2 DEF Nodes, Below
<1>7. \E f : Walk(f)
  <2>1. PICK X : X = [i \in 0 .. L |-> SUBSET P]
    OBVIOUS
  <2>2. PICK G : G = [i \in 1 .. L |-> [R \in SUBSET P |-> Below(db, R)]]
    OBVIOUS
  <2>3. PICK z : z = {db.root_page_id}
    OBVIOUS
  <2>4. z \in X[0]
    BY <1>2, <1>4, <2>1, <2>3
  <2>5. Closed(L, X, G)
    <3>1. ASSUME NEW i \in 1 .. L, NEW R \in X[i - 1] PROVE G[i][R] \in X[i]
      <4>1. i - 1 \in 0 .. L /\ i \in 0 .. L
        BY <1>2
      <4>2. R \in SUBSET P /\ X[i] = SUBSET P
        BY <2>1, <4>1
      <4> QED
        BY <1>5, <2>2, <4>2
    <3> QED
      BY <3>1 DEF Closed
  <2>6. PICK f : IsRun(f, L, X, G, z)
    BY <2>4, <2>5, Recursion
  <2>7. f = [i \in 0 .. L |-> IF i = 0 THEN z ELSE G[i][f[i - 1]]]
    BY <2>6 DEF IsRun
  <2>8. ASSUME NEW i \in 0 .. L, i # 0 PROVE G[i][f[i - 1]] = Below(db, f[i - 1])
    <3>1. i - 1 \in 0 .. L /\ i \in 1 .. L
      BY <1>2, <2>8
    <3>2. f[i - 1] \in SUBSET P
      BY <2>1, <2>6, <3>1 DEF IsRun
    <3> QED
      BY <2>2, <3>1, <3>2
  <2>9. Walk(f)
    BY <2>3, <2>7, <2>8
  <2> QED
    BY <2>9
<1>8. Walk(reached)
  BY <1>7
<1> HIDE DEF reached
<1>9. /\ reached[0] = {db.root_page_id}
      /\ \A d \in 1 .. L : reached[d] = Below(db, reached[d - 1])
  <2>1. 0 \in 0 .. L /\ \A d \in 1 .. L : d \in 0 .. L /\ d # 0
    BY <1>2
  <2> QED
    BY <1>8, <2>1
<1>10. PICK Q : Q = {d \in 0 .. L : reached[d] \in SUBSET P}
  OBVIOUS
<1>11. 0 \in Q
  BY <1>2, <1>4, <1>9, <1>10
<1>12. ASSUME NEW d \in 1 .. L, d - 1 \in Q PROVE d \in Q
  <2>1. reached[d - 1] \in SUBSET P /\ d \in 0 .. L
    BY <1>10, <1>12
  <2>2. reached[d] = Below(db, reached[d - 1])
    BY <1>9
  <2> QED
    BY <1>5, <1>10, <2>1, <2>2
<1>13. \A d \in 0 .. L : d \in Q
  BY <1>11, <1>12, UpTo
<1> QED
  BY <1>2, <1>3, <1>6, <1>10, <1>13

\* The rows of the leaves are in order, and the search for each ends in its leaf.
LEMMA SoundReachable ==
  ASSUME NEW store, NEW h, NEW at, Sound(db, store, h, at, at, 0)
  PROVE  RowsReachable
<1>1. /\ db \in Database /\ Grown(db.page, db.root_page_id, store, h, at, at, 0) /\ h \in Nat
      /\ LeafLevel(db.page, at[0], store) /\ at \in [Nat -> Division] /\ Stored(store)
  BY SoundStored DEF Sound, Grown
<1>2. PICK L \in Nat : L = Len(db.page)
  BY <1>1, PagesAre
<1>3. ASSUME NEW p \in Nodes \ InternalNodes
      PROVE  \E k \in Ids : p = at[0][k]
  <2>1. p \in TreePages(h, at) /\ db.page[p].type # "internal"
    BY NodesAre DEF InternalNodes
  <2>2. PICK j \in 0 .. h, k \in Ids : p = at[j][k]
    BY <2>1 DEF TreePages
  <2>3. ASSUME j # 0 PROVE FALSE
    <3>1. j \in 1 .. h
      BY <1>1, <2>3
    <3>2. IsLevel(db.page, at[j], "internal")
      BY <1>1, <1>2, <3>1, LevelIs
    <3> QED
      BY <2>1, <2>2, <3>2 DEF IsLevel
  <2> QED
    BY <2>2, <2>3
<1>4. ASSUME NEW p \in Nodes \ InternalNodes, NEW rows, rows = db.page[p].rows
      PROVE  /\ \A i, j \in DOMAIN rows : i < j => rows[i].key < rows[j].key
             /\ \A i \in DOMAIN rows : LeafFor(db, rows[i].key) = p
  <2>1. RowsIn(rows, p, at[0], store)
    BY <1>1, <1>3, <1>4 DEF LeafLevel
  <2>2. rows \in Seq(Rows) /\ InOrder(rows) /\ DOMAIN rows = 1 .. Len(rows)
    BY <2>1 DEF RowsIn
  <2>3. \A i \in 1 .. Len(rows) : rows[i].key \in Ids /\ at[0][rows[i].key] = p
    BY <1>1, <2>1, RowOf
  <2> QED
    BY <2>2, <2>3, LeafOf DEF InOrder
<1> QED
  BY <1>4 DEF RowsReachable

\* Each page records its parent.
LEMMA SoundParents ==
  ASSUME NEW store, NEW h, NEW at, Sound(db, store, h, at, at, 0)
  PROVE  ParentsExact
<1>1. /\ db \in Database /\ Grown(db.page, db.root_page_id, store, h, at, at, 0) /\ h \in Nat
      /\ db.page[db.root_page_id].parent = 0
  BY DEF Sound, Grown
<1>2. ASSUME NEW p \in InternalNodes, NEW c \in ToSet(Kids(db.page[p]))
      PROVE  db.page[c].parent = p
  <2>1. p \in TreePages(h, at) /\ db.page[p].type = "internal"
    BY NodesAre DEF InternalNodes
  <2>2. PICK j \in 0 .. h, k \in Ids : p = at[j][k]
    BY <2>1 DEF TreePages
  <2>3. j \in 1 .. h /\ IsKidOf(c, p, at, j)
    BY <2>1, <2>2, KidsBelow
  <2>4. PICK x \in Ids : at[j][x] = p /\ at[j - 1][x] = c
    BY <2>3 DEF IsKidOf
  <2>5. Adopts(db.page, at[j - 1], at[j - 1], at[j])
    BY <1>1, <2>3 DEF Grown
  <2> QED
    BY <2>4, <2>5 DEF Adopts
<1> QED
  BY <1>1, <1>2 DEF ParentsExact

\* No page has more than it has room for.
LEMMA SoundFits ==
  ASSUME NEW store, NEW h, NEW at, Sound(db, store, h, at, at, 0)
  PROVE  NodesFit
<1>1. /\ db \in Database /\ Grown(db.page, db.root_page_id, store, h, at, at, 0) /\ h \in Nat
      /\ LeafLevel(db.page, at[0], store)
  BY DEF Sound, Grown
<1>2. ASSUME NEW p \in Nodes
      PROVE  Taken(db.page[p].rows) <= NODE_SPACE /\ Len(db.page[p].cells) <= MAX_CELLS
  <2>1. PICK j \in 0 .. h, k \in Ids : p = at[j][k]
    BY NodesAre DEF TreePages
  <2>2. CASE j = 0
    <3>1. Taken(db.page[p].rows) <= NODE_SPACE /\ db.page[p].cells = <<>>
      BY <1>1, <2>1, <2>2 DEF LeafLevel
    <3> QED
      BY <3>1, CellCounts
  <2>3. CASE j # 0
    <3>1. j \in 1 .. h
      BY <1>1, <2>3
    <3>2. NodeIn(db.page[p], p, at[j], at[j - 1]) /\ Len(db.page[p].cells) <= MAX_CELLS
      BY <1>1, <2>1, <3>1 DEF Grown, NodeLevel
    <3>3. db.page[p].rows = <<>>
      BY <3>2 DEF NodeIn, Node
    <3> QED
      BY <3>2, <3>3, EmptyTakes, NodeAssumption
  <2> QED
    BY <2>2, <2>3
<1> QED
  BY <1>2 DEF NodesFit

\* What find finds of an id is what the table has of it.
LEMMA FoundInIs ==
  ASSUME NEW s, NEW store, NEW h, NEW at, Sound(s, store, h, at, at, 0), NEW k \in Ids
  PROVE  FoundIn(s, k) = {row \in store : row.key = k}
<1>1. PICK p : p = LeafFor(s, k)
  OBVIOUS
<1>2. PICK rows : rows = s.page[p].rows
  OBVIOUS
<1>3. p = at[0][k] /\ IsLeafOf(s, p, at[0], store) /\ IsFoundAt(rows, k, store) /\ Stored(store)
  BY <1>1, <1>2, LeafOf
<1>4. RowsIn(rows, p, at[0], store)
  BY <1>2, <1>3 DEF IsLeafOf
<1>5. rows \in Seq(Rows) /\ DOMAIN rows = 1 .. Len(rows) /\ \A i \in 1 .. Len(rows) : rows[i] \in store
  BY <1>3, <1>4, RowOf
<1>6. \A row \in store : row.key = k => \E i \in 1 .. Len(rows) : rows[i] = row
  BY <1>3 DEF IsFoundAt
<1>7. FoundIn(s, k) = {row \in ToSet(rows) : row.key = k}
  BY <1>1, <1>2 DEF FoundIn
<1>8. \A row : row \in ToSet(rows) <=> \E i \in 1 .. Len(rows) : rows[i] = row
  BY <1>5 DEF ToSet
<1> QED
  BY <1>5, <1>6, <1>7, <1>8

\* What is found of all ids is the table.
LEMMA AllFound ==
  ASSUME NEW s, NEW store, NEW h, NEW at, Sound(s, store, h, at, at, 0)
  PROVE  FoundRows(s) = store
<1>1. Stored(store)
  BY SoundStored
<1>2. \A k \in Ids : FoundIn(s, k) = {row \in store : row.key = k}
  BY FoundInIs
<1>3. \A row \in store : row.key \in Ids
  BY <1>1 DEF Stored
<1> QED
  BY <1>2, <1>3 DEF FoundRows

\* An id has one row.
LEMMA OneRow ==
  ASSUME NEW s, NEW store, NEW h, NEW at, Sound(s, store, h, at, at, 0),
         NEW x \in store, NEW y \in store, x.key = y.key
  PROVE  x = y
<1>1. Stored(store)
  BY SoundStored
<1>2. PICK k \in Ids : k = x.key
  BY <1>1 DEF Stored
<1>3. IsFoundAt(s.page[LeafFor(s, k)].rows, k, store)
  BY LeafOf
<1> QED
  BY <1>2, <1>3 DEF IsFoundAt

-----------------------------------------------------------------------------
(* The leaves from left to right *)

\* f is the pages of division a from the one of id lo to the one of id hi.
Spans(f, a, lo, hi) ==
  /\ f \in Seq(Nat) /\ f # <<>> /\ f[1] = a[lo] /\ f[Len(f)] = a[hi]
  /\ \A i \in 1 .. Len(f) - 1 :
       \E e \in Ids : e - 1 \in Ids /\ a[e - 1] = f[i] /\ a[e] = f[i + 1] /\ a[e - 1] # a[e]

LEMMA OneSpans ==
  ASSUME NEW a \in Division, NEW p \in Nat, NEW lo, NEW hi, a[lo] = p, a[hi] = p
  PROVE  Spans(<<p>>, a, lo, hi)
<1>1. PICK f : f = <<p>>
  OBVIOUS
<1>2. f \in Seq(Nat) /\ f # <<>> /\ Len(f) = 1 /\ f[1] = p
  BY <1>1
<1>3. 1 .. Len(f) - 1 = {}
  BY <1>2
<1>4. Spans(f, a, lo, hi)
  BY <1>2, <1>3 DEF Spans
<1> QED
  BY <1>1, <1>4

LEMMA JoinSpans ==
  ASSUME NEW a \in Division, NEW lo, NEW hi, NEW e \in Ids, e - 1 \in Ids, a[e - 1] # a[e],
         NEW f, NEW g, Spans(f, a, lo, e - 1), Spans(g, a, e, hi)
  PROVE  Spans(f \o g, a, lo, hi)
<1>1. PICK A \in Nat : A = Len(f)
  BY DEF Spans
<1>2. PICK B \in Nat : B = Len(g)
  BY DEF Spans
<1>3. f \in Seq(Nat) /\ g \in Seq(Nat) /\ A >= 1 /\ B >= 1
  BY <1>1, <1>2 DEF Spans
<1>4. PICK c : c = f \o g
  OBVIOUS
<1>5. c \in Seq(Nat) /\ Len(c) = A + B /\ \A x \in 1 .. A + B : c[x] = IF x <= A THEN f[x] ELSE g[x - A]
  BY <1>1, <1>2, <1>3, <1>4, ConcatEffect
<1>6. /\ f[1] = a[lo] /\ f[A] = a[e - 1] /\ g[1] = a[e] /\ g[B] = a[hi]
      /\ \A i \in 1 .. A - 1 : \E x \in Ids : x - 1 \in Ids /\ a[x - 1] = f[i] /\ a[x] = f[i + 1] /\ a[x - 1] # a[x]
      /\ \A i \in 1 .. B - 1 : \E x \in Ids : x - 1 \in Ids /\ a[x - 1] = g[i] /\ a[x] = g[i + 1] /\ a[x - 1] # a[x]
  BY <1>1, <1>2, Zenon DEF Spans
<1>7. c[1] = f[1] /\ c[A] = f[A] /\ c[A + 1] = g[1] /\ c[A + B] = g[B]
  <2>1. /\ 1 \in 1 .. A + B /\ 1 <= A /\ A \in 1 .. A + B /\ A <= A
        /\ A + 1 \in 1 .. A + B /\ ~(A + 1 <= A) /\ A + 1 - A = 1
        /\ A + B \in 1 .. A + B /\ ~(A + B <= A) /\ A + B - A = B
    BY <1>3
  <2> QED
    BY <1>5, <2>1
<1>8. c # <<>>
  BY <1>3, <1>5
<1>9. ASSUME NEW i \in 1 .. A + B - 1
      PROVE  \E x \in Ids : x - 1 \in Ids /\ a[x - 1] = c[i] /\ a[x] = c[i + 1] /\ a[x - 1] # a[x]
  <2>1. CASE i < A
    <3>1. i \in 1 .. A - 1 /\ i \in 1 .. A + B /\ i + 1 \in 1 .. A + B /\ i <= A /\ i + 1 <= A
      BY <1>3, <2>1
    <3>2. c[i] = f[i] /\ c[i + 1] = f[i + 1]
      BY <1>5, <3>1
    <3>3. PICK x \in Ids : x - 1 \in Ids /\ a[x - 1] = f[i] /\ a[x] = f[i + 1] /\ a[x - 1] # a[x]
      BY <1>6, <3>1
    <3> QED
      BY <3>2, <3>3
  <2>2. CASE i = A
    BY <1>6, <1>7, <2>2, Zenon
  <2>3. CASE A < i
    <3>1. PICK j \in Nat : j = i - A
      BY <2>3
    <3>2. /\ j \in 1 .. B - 1 /\ i \in 1 .. A + B /\ i + 1 \in 1 .. A + B /\ ~(i <= A) /\ ~(i + 1 <= A)
          /\ i + 1 - A = j + 1
      BY <1>3, <2>3, <3>1
    <3>3. c[i] = g[j] /\ c[i + 1] = g[j + 1]
      BY <1>5, <3>1, <3>2
    <3> QED
      BY <1>6, <3>1, <3>2, <3>3
  <2>4. i < A \/ i = A \/ A < i
    BY <1>3
  <2> QED
    BY <2>1, <2>2, <2>3, <2>4
<1>10. Spans(c, a, lo, hi)
  <2>1. PICK C \in Nat : C = A + B
    BY <1>3
  <2>2. Len(c) = C /\ c[C] = a[hi] /\ c[1] = a[lo]
    BY <1>5, <1>6, <1>7, <2>1
  <2>3. \A i \in 1 .. C - 1 :
          \E x \in Ids : x - 1 \in Ids /\ a[x - 1] = c[i] /\ a[x] = c[i + 1] /\ a[x - 1] # a[x]
    BY <1>9, <2>1
  <2> QED
    BY <1>5, <1>8, <2>2, <2>3 DEF Spans
<1> QED
  BY <1>4, <1>10, Zenon

\* How sequences are flattened, one after another.
AreSteps(flat, c, n) ==
  /\ FlattenSeq(c) = flat[n] /\ flat[1] = c[1]
  /\ \A i \in 2 .. n : flat[i] = flat[i - 1] \o c[i]
LEMMA FlatSteps ==
  ASSUME NEW n \in Nat, n >= 1, NEW c, Len(c) = n
  PROVE  \E flat : AreSteps(flat, c, n)
<1> DEFINE Walk(f, m) == f = [i \in 1 .. m |-> IF i = 1 THEN c[i] ELSE f[i - 1] \o c[i]]
           flatten == CHOOSE f : Walk(f, n)
<1>1. FlattenSeq(c) = flatten[n]
  BY DEF FlattenSeq
<1>2. \E f : Walk(f, n)
  <2> DEFINE P == {m \in 0 .. n : m = 0 \/ \E f : Walk(f, m)}
  <2>1. 0 \in P
    OBVIOUS
  <2>2. ASSUME NEW m \in 1 .. n, m - 1 \in P PROVE m \in P
    <3>1. PICK f : m = 1 \/ Walk(f, m - 1)
      <4> HIDE DEF Walk
      <4>1. m - 1 = 0 \/ \E f : Walk(f, m - 1)
        BY <2>2, Zenon
      <4>2. m - 1 = 0 => m = 1
        OBVIOUS
      <4> QED
        BY <4>1, <4>2, Zenon
    <3>2. PICK last : last = IF m = 1 THEN c[1] ELSE f[m - 1] \o c[m]
      OBVIOUS
    <3>3. PICK g : g = [i \in 1 .. m |-> IF i = m THEN last ELSE f[i]]
      OBVIOUS
    <3>4. ASSUME NEW i \in 1 .. m PROVE g[i] = IF i = 1 THEN c[i] ELSE g[i - 1] \o c[i]
      <4>1. CASE i = m
        <5>1. m # 1 => m - 1 \in 1 .. m /\ m - 1 # m
          OBVIOUS
        <5>2. m # 1 => g[m - 1] = f[m - 1]
          BY <3>3, <5>1
        <5>3. g[m] = last
          BY <3>3
        <5>4. g[m] = IF m = 1 THEN c[m] ELSE g[m - 1] \o c[m]
          BY <3>2, <5>2, <5>3, Zenon
        <5> QED
          BY <4>1, <5>4, Zenon
      <4>2. CASE i # m
        <5>1. i \in 1 .. m - 1 /\ (i # 1 => i - 1 \in 1 .. m /\ i - 1 # m)
          BY <4>2
        <5>2. m # 1
          BY <5>1
        <5>3. Walk(f, m - 1)
          BY <3>1, <5>2, Zenon
        <5>4. f[i] = IF i = 1 THEN c[i] ELSE f[i - 1] \o c[i]
          BY <5>1, <5>3
        <5>5. g[i] = f[i] /\ (i # 1 => g[i - 1] = f[i - 1])
          BY <3>3, <4>2, <5>1
        <5> QED
          BY <5>4, <5>5, Zenon
      <4> QED
        BY <4>1, <4>2
    <3>5. Walk(g, m)
      BY <3>3, <3>4
    <3>6. m \in 0 .. n
      OBVIOUS
    <3> HIDE DEF Walk
    <3> QED
      BY <3>5, <3>6
  <2> HIDE DEF P
  <2>3. \A m \in 0 .. n : m \in P
    BY <2>1, <2>2, UpTo
  <2>4. n \in 0 .. n
    OBVIOUS
  <2>5. n \in P
    BY <2>3, <2>4, Zenon
  <2>6. n # 0
    OBVIOUS
  <2> QED
    BY <2>5, <2>6, Zenon DEF P
<1>3. Walk(flatten, n)
  BY <1>2, Zenon
<1> HIDE DEF flatten
<1>4. /\ flatten[1] = c[1]
      /\ \A i \in 2 .. n : flatten[i] = flatten[i - 1] \o c[i]
  <2>1. 1 \in 1 .. n /\ \A i \in 2 .. n : i \in 1 .. n /\ i # 1
    OBVIOUS
  <2> QED
    BY <1>3, <2>1
<1>5. AreSteps(flatten, c, n)
  BY <1>1, <1>4 DEF AreSteps
<1> QED
  BY <1>5

\* Sequences that follow one another, flattened.
LEMMA FlatSpans ==
  ASSUME NEW a \in Division, NEW n \in Nat, n >= 1, NEW c, Len(c) = n, NEW lo, NEW hi,
         \A i \in 1 .. n : Spans(c[i], a, lo[i], hi[i]),
         \A i \in 2 .. n : /\ lo[i] \in Ids /\ lo[i] - 1 \in Ids /\ hi[i - 1] = lo[i] - 1
                           /\ a[lo[i] - 1] # a[lo[i]]
  PROVE  Spans(FlattenSeq(c), a, lo[1], hi[n])
<1>1. PICK flatten : AreSteps(flatten, c, n)
  BY FlatSteps
<1>0. /\ FlattenSeq(c) = flatten[n] /\ flatten[1] = c[1]
      /\ \A i \in 2 .. n : flatten[i] = flatten[i - 1] \o c[i]
  BY <1>1 DEF AreSteps
<1> DEFINE Q == {m \in 0 .. n : m = 0 \/ Spans(flatten[m], a, lo[1], hi[m])}
<1>5. 0 \in Q
  OBVIOUS
<1>6. ASSUME NEW m \in 1 .. n, m - 1 \in Q PROVE m \in Q
  <2>1. CASE m = 1
    <3>1. Spans(c[1], a, lo[1], hi[1])
      OBVIOUS
    <3>2. Spans(flatten[m], a, lo[1], hi[m])
      BY <1>0, <2>1, <3>1, Zenon
    <3> QED
      BY <3>2
  <2>2. CASE m # 1
    <3>1. m \in 2 .. n /\ m - 1 # 0
      BY <2>2
    <3>2. PICK e \in Ids : e = lo[m] /\ e - 1 \in Ids /\ hi[m - 1] = e - 1 /\ a[e - 1] # a[e]
      BY <3>1, Zenon
    <3>3. Spans(flatten[m - 1], a, lo[1], e - 1)
      BY <1>6, <3>1, <3>2
    <3>4. Spans(c[m], a, e, hi[m])
      BY <3>2, Zenon
    <3>5. Spans(flatten[m - 1] \o c[m], a, lo[1], hi[m])
      BY <3>2, <3>3, <3>4, JoinSpans, Zenon
    <3>6. Spans(flatten[m], a, lo[1], hi[m])
      BY <1>0, <3>1, <3>5, Zenon
    <3> QED
      BY <3>6
  <2> QED
    BY <2>1, <2>2
<1> HIDE DEF Q
<1>7. \A m \in 0 .. n : m \in Q
  BY <1>5, <1>6, UpTo
<1>8. Spans(flatten[n], a, lo[1], hi[n])
  <2>1. n \in Q /\ n # 0
    BY <1>7
  <2> QED
    BY <2>1 DEF Q
<1> QED
  BY <1>0, <1>8, Zenon

\* The ids of page p are those from lo to hi.
Extent(a, p, lo, hi) ==
  /\ lo \in Ids /\ hi \in Ids /\ lo <= hi
  /\ \A k \in Ids : a[k] = p <=> lo <= k /\ k <= hi

\* The children of node n have its ids in parts: the i-th from lo[i] to hi[i].
InParts(n, down, lo, hi) ==
  LET last == Len(n.cells) + 1
  IN /\ \A i \in 1 .. last : Extent(down, Kids(n)[i], lo[i], hi[i])
     /\ \A i \in 2 .. last : /\ lo[i] - 1 \in Ids /\ hi[i - 1] = lo[i] - 1
                             /\ down[lo[i] - 1] # down[lo[i]]
LEMMA KidExtents ==
  ASSUME NEW n, NEW p, NEW a \in Division, NEW down \in Division, NodeIn(n, p, a, down),
         Contiguous(down), Nested(a, down), NEW first, NEW last, Extent(a, p, first, last)
  PROVE  \E lo, hi : /\ InParts(n, down, lo, hi) /\ lo[1] = first
                     /\ hi[Len(n.cells) + 1] = last
<1>1. PICK L \in Nat : L = Len(n.cells)
  BY NodeKeys
<1>2. PICK key : key = [i \in 1 .. L |-> n.cells[i].key]
  OBVIOUS
<1>3. PICK N \in Nat : N = L + 1
  OBVIOUS
<1>4. PICK lo : lo = [i \in 1 .. N |-> IF i = 1 THEN first ELSE key[i - 1]]
  OBVIOUS
<1>5. PICK hi : hi = [i \in 1 .. N |-> IF i = N THEN last ELSE key[i] - 1]
  OBVIOUS
<1>6. /\ first \in Ids /\ last \in Ids /\ first <= last
      /\ \A k \in Ids : a[k] = p <=> first <= k /\ k <= last
      /\ \A k \in Ids : k \in Nat
  BY IdsAre DEF Extent
<1>7. \A i \in 1 .. L : /\ key[i] \in Ids /\ key[i] - 1 \in Ids /\ a[key[i] - 1] = p
                        /\ a[key[i]] = p /\ down[key[i] - 1] # down[key[i]]
  BY <1>1, <1>2, NodeKeys
<1>8. 1 \in 1 .. N /\ N \in 1 .. N /\ lo[1] = first /\ hi[N] = last
  BY <1>3, <1>4, <1>5
<1>9. ASSUME NEW i \in 2 .. N
      PROVE  /\ lo[i] - 1 \in Ids /\ hi[i - 1] = lo[i] - 1 /\ down[lo[i] - 1] # down[lo[i]]
             /\ lo[i] \in Ids /\ a[lo[i]] = p /\ a[lo[i] - 1] = p
  <2>1. PICK x \in 1 .. L : x = i - 1
    BY <1>3
  <2>2. i \in 1 .. N /\ i # 1 /\ x \in 1 .. N /\ x # N
    BY <1>3, <2>1
  <2>3. lo[i] = key[x] /\ hi[i - 1] = key[x] - 1
    BY <1>4, <1>5, <2>1, <2>2
  <2> QED
    BY <1>7, <2>3
\* Where the search for an id ends tells what part it is in.
<1>10. ASSUME NEW k \in Ids, a[k] = p, NEW i \in 1 .. N
       PROVE  CellFor(n, k) = i <=> lo[i] <= k /\ k <= hi[i]
  <2>1. PICK c \in 1 .. N : c = CellFor(n, k)
    BY <1>1, <1>3, PlaceOf
  <2>2. \A x \in 1 .. L : /\ key[x] \in Nat
                          /\ x < c => key[x] <= k
                          /\ c <= x => k < key[x]
    <3>1. \A x \in 1 .. L : x < c \/ ~(x < c)
      OBVIOUS
    <3>2. \A x \in 1 .. L : c <= x => ~(x < c)
      BY <1>3
    <3>3. \A x \in 1 .. L : IF x < c THEN n.cells[x].key <= k ELSE k < n.cells[x].key
      BY <1>1, <2>1, PlaceOf
    <3>4. \A x \in 1 .. L : key[x] = n.cells[x].key /\ key[x] \in Nat
      BY <1>2, <1>6, <1>7
    <3> QED
      BY <3>2, <3>3, <3>4
  <2>3. first <= k /\ k <= last /\ k \in Nat
    BY <1>6, <1>10
  <2>4. CASE c = i
    <3>1. lo[i] <= k
      <4>1. CASE i = 1
        BY <1>8, <2>3, <4>1
      <4>2. CASE i # 1
        <5>1. i - 1 \in 1 .. L /\ i - 1 < c
          BY <1>3, <2>4, <4>2
        <5>2. lo[i] = key[i - 1]
          BY <1>4, <4>2
        <5> QED
          BY <2>2, <5>1, <5>2
      <4> QED
        BY <4>1, <4>2
    <3>2. k <= hi[i]
      <4>1. CASE i = N
        BY <1>8, <2>3, <4>1
      <4>2. CASE i # N
        <5>1. i \in 1 .. L /\ c <= i
          BY <1>3, <2>4, <4>2
        <5>2. hi[i] = key[i] - 1 /\ key[i] \in Nat /\ k < key[i]
          BY <1>5, <2>2, <4>2, <5>1
        <5> QED
          BY <2>3, <5>2
      <4> QED
        BY <4>1, <4>2
    <3> QED
      BY <2>1, <2>4, <3>1, <3>2
  <2>5. CASE c < i
    <3>1. i - 1 \in 1 .. L /\ c <= i - 1 /\ i # 1
      BY <1>3, <2>5
    <3>2. lo[i] = key[i - 1] /\ k < key[i - 1] /\ key[i - 1] \in Nat
      BY <1>4, <2>2, <3>1
    <3> QED
      BY <2>1, <2>3, <2>5, <3>2
  <2>6. CASE i < c
    <3>1. i \in 1 .. L /\ i < c /\ i # N
      BY <1>3, <2>6
    <3>2. hi[i] = key[i] - 1 /\ key[i] <= k /\ key[i] \in Nat
      BY <1>5, <2>2, <3>1
    <3> QED
      BY <2>1, <2>3, <2>6, <3>2
  <2>7. c = i \/ c < i \/ i < c
    BY <1>3
  <2> QED
    BY <2>4, <2>5, <2>6, <2>7
<1>11. ASSUME NEW i \in 1 .. N PROVE Extent(down, Kids(n)[i], lo[i], hi[i])
  <2>1. lo[i] \in Ids /\ first <= lo[i]
    <3>1. CASE i = 1
      BY <1>6, <1>8, <3>1
    <3>2. CASE i # 1
      <4>1. i \in 2 .. N
        BY <3>2
      <4> QED
        BY <1>6, <1>9, <4>1
    <3> QED
      BY <3>1, <3>2
  <2>2. hi[i] \in Ids /\ hi[i] <= last
    <3>1. CASE i = N
      BY <1>6, <1>8, <3>1
    <3>2. CASE i # N
      <4>1. i \in 1 .. L /\ hi[i] = key[i] - 1
        BY <1>3, <1>5, <3>2
      <4> QED
        BY <1>6, <1>7, <4>1
    <3> QED
      BY <3>1, <3>2
  <2>3. PICK x \in Ids : a[x] = p /\ CellFor(n, x) = i /\ down[x] = Kids(n)[i]
    <3>1. Used(p, a)
      BY <1>6 DEF Used
    <3>2. EachAsked(n, p, a, down)
      BY <3>1, KidHasId
    <3> QED
      BY <1>1, <1>3, <3>2 DEF EachAsked
  <2>4. lo[i] <= hi[i]
    <3>1. lo[i] <= x /\ x <= hi[i]
      BY <1>10, <2>3
    <3> QED
      BY <1>6, <2>1, <2>2, <3>1
  <2>5. ASSUME NEW k \in Ids, down[k] = Kids(n)[i] PROVE lo[i] <= k /\ k <= hi[i]
    <3>1. down[k] = down[x]
      BY <2>3, <2>5
    <3>2. a[k] = p
      BY <2>3, <3>1 DEF Nested
    <3>3. CellFor(n, k) = CellFor(n, x)
      BY <2>3, <3>1, <3>2, OnePlace
    <3> QED
      BY <1>10, <2>3, <3>2, <3>3
  <2>6. ASSUME NEW k \in Ids, lo[i] <= k, k <= hi[i] PROVE down[k] = Kids(n)[i]
    <3>1. first <= k /\ k <= last
      BY <1>6, <2>1, <2>2, <2>6
    <3>2. a[k] = p
      BY <1>6, <3>1
    <3>3. CellFor(n, k) = i
      BY <1>10, <2>6, <3>2
    <3>4. KidFor(n, k) = down[k]
      BY <3>2 DEF NodeIn
    <3> QED
      BY <3>3, <3>4 DEF KidFor
  <2> QED
    BY <2>1, <2>2, <2>4, <2>5, <2>6 DEF Extent
<1>12. InParts(n, down, lo, hi)
  BY <1>1, <1>3, <1>9, <1>11 DEF InParts
<1> QED
  BY <1>1, <1>3, <1>8, <1>12

\* Whatever is apart in the leaves' level is apart on the levels above.
LEMMA AllNested ==
  ASSUME NEW pg, NEW root, NEW store, NEW h, NEW at, NEW seen, NEW thin,
         Grown(pg, root, store, h, at, at, thin), NEW j \in 0 .. h
  PROVE  Nested(at[j], at[0])
<1>1. h \in Nat /\ \A i \in 1 .. h : Nested(at[i], at[i - 1])
  BY DEF Grown, NodeLevel
<1>2. PICK P : P = {i \in 0 .. h : Nested(at[i], at[0])}
  OBVIOUS
<1>3. 0 \in P
  BY <1>1, <1>2 DEF Nested
<1>4. ASSUME NEW i \in 1 .. h, i - 1 \in P PROVE i \in P
  <2>1. Nested(at[i - 1], at[0]) /\ Nested(at[i], at[i - 1]) /\ i \in 0 .. h
    BY <1>1, <1>2, <1>4
  <2>2. Nested(at[i], at[0])
    BY <2>1 DEF Nested
  <2> QED
    BY <1>2, <2>1, <2>2
<1>5. \A i \in 0 .. h : i \in P
  BY <1>1, <1>3, <1>4, UpTo
<1> QED
  BY <1>2, <1>5

\* The levels are not more than the pages.
LEMMA FewLevels ==
  ASSUME NEW pg, Len(pg) \in Nat, NEW root, NEW store, NEW h, NEW at, NEW seen, NEW thin,
         Grown(pg, root, store, h, at, seen, thin)
  PROVE  h <= Len(pg)
<1>1. PICK L \in Nat : L = Len(pg)
  OBVIOUS
<1>2. h \in Nat /\ 0 \in Ids
  BY IdsAre DEF Grown
<1>3. PICK f : f = [j \in 0 .. h |-> at[j][0]]
  OBVIOUS
<1>4. f \in [0 .. h -> 1 .. L]
  BY <1>1, <1>2, <1>3, PageOfLevel
<1>5. ASSUME NEW i \in 0 .. h, NEW j \in 0 .. h, f[i] = f[j] PROVE i = j
  <2>1. at[i][0] = at[j][0]
    BY <1>3, <1>5
  <2> QED
    BY <1>2, <2>1 DEF Grown, Apart
<1>6. f \in Injection(0 .. h, 1 .. L)
  BY <1>4, <1>5 DEF Injection, IsInjective
<1>7. /\ IsFiniteSet(1 .. L) /\ Cardinality(1 .. L) = L
      /\ Cardinality(0 .. h) = h + 1
  <2>1. Cardinality(1 .. L) = L /\ IsFiniteSet(1 .. L)
    <3>1. 1 \in Int /\ L \in Int
      OBVIOUS
    <3>2. IsFiniteSet(1 .. L) /\ Cardinality(1 .. L) = IF 1 > L THEN 0 ELSE L - 1 + 1
      BY <3>1, FS_Interval
    <3>3. (IF 1 > L THEN 0 ELSE L - 1 + 1) = L
      OBVIOUS
    <3> QED
      BY <3>2, <3>3
  <2>2. Cardinality(0 .. h) = h + 1
    BY <1>2, FS_Interval
  <2> QED
    BY <2>1, <2>2
<1>8. Cardinality(0 .. h) <= Cardinality(1 .. L)
  BY <1>6, <1>7, FS_Injection
<1> QED
  BY <1>1, <1>2, <1>7, <1>8

\* What Leaves takes the leaves below page p for, when it has them for the pages below f's.
LeavesOf(s, p, f) ==
  LET kids == Kids(s.page[p]) IN FlattenSeq([i \in DOMAIN kids |-> f[kids[i]]])

\* f has the leaves below every page of the levels up to d.
HasLeaves(f, h, d, at) ==
  \A j \in 0 .. h, p, lo, hi \in Nat :
    j <= d /\ Extent(at[j], p, lo, hi) => Spans(f[p], at[0], lo, hi)

\* One level more.
LEMMA LeavesBelow ==
  ASSUME NEW s, NEW store, NEW h, NEW at, Sound(s, store, h, at, at, 0),
         NEW j \in 1 .. h, NEW f, HasLeaves(f, h, j - 1, at),
         NEW p, NEW first, NEW last, Extent(at[j], p, first, last)
  PROVE  Spans(LeavesOf(s, p, f), at[0], first, last)
<1>1. /\ s \in Database /\ Grown(s.page, s.root_page_id, store, h, at, at, 0) /\ h \in Nat
      /\ at \in [Nat -> Division]
  BY DEF Sound, Grown
<1>2. PICK i \in 0 .. h : i = j - 1
  BY <1>1
<1>3. /\ Contiguous(at[i]) /\ at[i] \in Division /\ at[j] \in Division /\ at[0] \in Division
      /\ Nested(at[j], at[i])
  BY <1>1, <1>2 DEF Grown, NodeLevel
<1>4. at[j][first] = p /\ first \in Ids
  BY DEF Extent, Ids
<1>5. PICK n : n = s.page[p]
  OBVIOUS
<1>6. NodeIn(n, p, at[j], at[i])
  BY <1>1, <1>2, <1>4, <1>5 DEF Grown, NodeLevel
<1>7. PICK lo, hi : InParts(n, at[i], lo, hi) /\ lo[1] = first /\ hi[Len(n.cells) + 1] = last
  BY <1>3, <1>6, KidExtents
<1>8. PICK N \in Nat : N = Len(n.cells) + 1 /\ N >= 1
  BY <1>6, NodeKeys
<1>9. /\ \A x \in 1 .. N : Extent(at[i], Kids(n)[x], lo[x], hi[x])
      /\ \A x \in 2 .. N : /\ lo[x] - 1 \in Ids /\ hi[x - 1] = lo[x] - 1
                           /\ at[i][lo[x] - 1] # at[i][lo[x]]
      /\ lo[1] = first /\ hi[N] = last
  BY <1>7, <1>8 DEF InParts
<1>10. Nested(at[i], at[0])
  BY <1>1, AllNested
<1>11. \A x \in 1 .. N : lo[x] \in Ids /\ hi[x] \in Ids /\ Kids(n)[x] = at[i][lo[x]]
  BY <1>9 DEF Extent, Ids
<1>12. PICK c : c = [x \in 1 .. N |-> f[Kids(n)[x]]]
  OBVIOUS
<1>13. \A x \in 1 .. N : Spans(c[x], at[0], lo[x], hi[x])
  <2>1. ASSUME NEW x \in 1 .. N PROVE Spans(f[Kids(n)[x]], at[0], lo[x], hi[x])
    <3>1. i \in 0 .. h /\ i <= j - 1 /\ lo[x] \in Nat /\ hi[x] \in Nat /\ Kids(n)[x] \in Nat
      BY <1>2, <1>3, <1>11, IdsAre DEF Division
    <3> QED
      BY <1>2, <1>9, <3>1 DEF HasLeaves
  <2> QED
    BY <1>12, <2>1
<1>14. \A x \in 2 .. N : /\ lo[x] \in Ids /\ lo[x] - 1 \in Ids /\ hi[x - 1] = lo[x] - 1
                         /\ at[0][lo[x] - 1] # at[0][lo[x]]
  <2>1. ASSUME NEW x \in 2 .. N PROVE at[0][lo[x] - 1] # at[0][lo[x]]
    BY <1>9, <1>10, <1>11 DEF Nested
  <2> QED
    BY <1>9, <1>11, <2>1
<1>15. Len(c) = N
  BY <1>12
<1>16. Spans(FlattenSeq(c), at[0], lo[1], hi[N])
  BY <1>3, <1>8, <1>13, <1>14, <1>15, FlatSpans
<1>17. LeavesOf(s, p, f) = FlattenSeq(c)
  <2>1. DOMAIN Kids(n) = 1 .. N
    BY <1>6, <1>8, NodeKeys DEF Kids
  <2> QED
    BY <1>5, <1>12, <2>1 DEF LeavesOf
<1> QED
  BY <1>9, <1>16, <1>17

\* The leaves that are reached from the root are those of all ids.
LEMMA LeavesSpan ==
  ASSUME NEW store, NEW h, NEW at, Sound(db, store, h, at, at, 0)
  PROVE  Spans(Leaves, at[0], 0, MAX_ROWS - 1)
<1>1. /\ db \in Database /\ Grown(db.page, db.root_page_id, store, h, at, at, 0) /\ h \in Nat
      /\ at \in [Nat -> Division]
  BY DEF Sound, Grown
<1>2. PICK L \in Nat : L = Len(db.page) /\ DOMAIN db.page = 1 .. L
  BY <1>1, PagesAre
<1>3. h <= L
  BY <1>1, <1>2, FewLevels
<1> DEFINE Step(f) == [p \in 1 .. L |-> IF db.page[p].type # "internal" THEN <<p>>
                                        ELSE LeavesOf(db, p, f)]
           Start == [p \in 1 .. L |-> <<p>>]
           Walk(f) == f = [d \in 0 .. L |-> IF d = 0 THEN Start ELSE Step(f[d - 1])]
           AreLeavesOf(f) == f = [d \in 0 .. L |->
                        [p \in 1 .. L |->
                           LET kids == Kids(db.page[p])
                           IN IF db.page[p].type # "internal" \/ d = 0 THEN <<p>>
                              ELSE FlattenSeq([i \in DOMAIN kids |-> f[d - 1][kids[i]]])]]
           below == CHOOSE f : AreLeavesOf(f)
<1>4. Leaves = below[L][db.root_page_id]
  BY <1>2 DEF Leaves
<1>5. \E f : Walk(f)
  <2> DEFINE G(f, m) == f[0] = Start /\ \A d \in 1 .. m : f[d] = Step(f[d - 1])
             P == {m \in 0 .. L : \E f : G(f, m)}
  <2>1. 0 \in P
    <3>1. PICK f : f = [d \in 0 .. L |-> Start]
      OBVIOUS
    <3>2. f[0] = Start
      BY <3>1
    <3>3. \A d \in 1 .. 0 : FALSE
      OBVIOUS
    <3> HIDE DEF Start, Step
    <3>4. G(f, 0)
      BY <3>2, <3>3
    <3> QED
      BY <3>4
  <2>2. ASSUME NEW m \in 1 .. L, m - 1 \in P PROVE m \in P
    <3> HIDE DEF Start, Step
    <3>1. PICK f : G(f, m - 1)
      BY <2>2
    <3>2. PICK last : last = Step(f[m - 1])
      OBVIOUS
    <3>3. PICK g : g = [d \in 0 .. L |-> IF d = m THEN last ELSE f[d]]
      OBVIOUS
    <3>4. g[0] = Start
      BY <3>1, <3>3
    <3>5. ASSUME NEW d \in 1 .. m PROVE g[d] = Step(g[d - 1])
      <4>1. d \in 0 .. L /\ d - 1 \in 0 .. L /\ d - 1 # m
        OBVIOUS
      <4>2. g[d - 1] = f[d - 1]
        BY <3>3, <4>1
      <4>3. CASE d = m
        <5>1. g[m] = last
          BY <3>3, <4>1, <4>3
        <5> QED
          BY <3>2, <4>2, <4>3, <5>1
      <4>4. CASE d # m
        <5>1. d \in 1 .. m - 1
          BY <4>4
        <5>2. f[d] = Step(f[d - 1])
          BY <3>1, <5>1
        <5>3. g[d] = f[d]
          BY <3>3, <4>1, <4>4
        <5> QED
          BY <4>2, <5>2, <5>3
      <4> QED
        BY <4>3, <4>4
    <3>6. G(g, m)
      BY <3>4, <3>5
    <3> QED
      BY <3>6
  <2> HIDE DEF P, Start, Step
  <2>3. \A m \in 0 .. L : m \in P
    BY <2>1, <2>2, UpTo
  <2>4. PICK f : G(f, L)
    BY <2>3 DEF P
  <2>5. PICK g : g = [d \in 0 .. L |-> f[d]]
    OBVIOUS
  <2>6. ASSUME NEW d \in 0 .. L PROVE g[d] = IF d = 0 THEN Start ELSE Step(g[d - 1])
    <3>1. CASE d = 0
      BY <2>4, <2>5, <3>1
    <3>2. CASE d # 0
      <4>1. d \in 1 .. L /\ d - 1 \in 0 .. L
        BY <3>2
      <4>2. g[d] = f[d] /\ g[d - 1] = f[d - 1] /\ f[d] = Step(f[d - 1])
        BY <2>4, <2>5, <4>1
      <4> QED
        BY <3>2, <4>2
    <3> QED
      BY <3>1, <3>2
  <2>7. g = [d \in 0 .. L |-> IF d = 0 THEN Start ELSE Step(g[d - 1])]
    BY <2>5, <2>6, SMTT(30)
  <2> QED
    BY <2>7
<1>6. ASSUME NEW f, Walk(f) PROVE AreLeavesOf(f)
  <2>1. ASSUME NEW d \in 0 .. L
        PROVE  (IF d = 0 THEN Start ELSE Step(f[d - 1]))
                 = [p \in 1 .. L |->
                     LET kids == Kids(db.page[p])
                     IN IF db.page[p].type # "internal" \/ d = 0 THEN <<p>>
                        ELSE FlattenSeq([i \in DOMAIN kids |-> f[d - 1][kids[i]]])]
    <3>1. CASE d = 0
      BY <3>1
    <3>2. CASE d # 0
      BY <3>2 DEF LeavesOf
    <3> QED
      BY <3>1, <3>2
  <2> QED
    BY <1>6, <2>1
<1> HIDE DEF Walk
<1>7. AreLeavesOf(below)
  <2> HIDE DEF AreLeavesOf
  <2>1. \E f : AreLeavesOf(f)
    BY <1>5, <1>6
  <2> QED
    BY <2>1
<1> HIDE DEF below
<1>8. /\ below[0] = Start
      /\ \A d \in 1 .. L : below[d] = Step(below[d - 1])
  <2>1. 0 \in 0 .. L /\ \A d \in 1 .. L : d \in 0 .. L /\ d # 0
    BY <1>2
  <2>2. below[0] = Start
    BY <1>7, <2>1, SMTT(30)
  <2>3. ASSUME NEW d \in 1 .. L PROVE below[d] = Step(below[d - 1])
    BY <1>7, <2>1, ZenonT(40) DEF LeavesOf
  <2> QED
    BY <2>2, <2>3
<1> HIDE DEF AreLeavesOf
<1>9. ASSUME NEW p, NEW lo, NEW hi, Extent(at[0], p, lo, hi)
      PROVE  Spans(<<p>>, at[0], lo, hi) /\ p \in 1 .. L /\ db.page[p].type # "internal"
  <2>1. at[0][lo] = p /\ at[0][hi] = p /\ lo \in Ids
    BY <1>9 DEF Extent, Ids
  <2>2. p \in 1 .. L /\ db.page[p].type = "leaf"
    BY <1>1, <1>2, <2>1 DEF Grown, LeafLevel
  <2>3. at[0] \in Division
    BY <1>1
  <2> QED
    BY <2>1, <2>2, <2>3, OneSpans
<1>10. PICK P : P = {d \in 0 .. L : HasLeaves(below[d], h, d, at)}
  OBVIOUS
<1>11. 0 \in P
  <2>1. ASSUME NEW j \in 0 .. h, NEW p \in Nat, NEW lo \in Nat, NEW hi \in Nat,
               j <= 0, Extent(at[j], p, lo, hi)
        PROVE  Spans(below[0][p], at[0], lo, hi)
    <3>1. j = 0
      BY <2>1
    <3>2. Spans(<<p>>, at[0], lo, hi) /\ p \in 1 .. L
      BY <1>9, <2>1, <3>1
    <3>3. below[0][p] = <<p>>
      BY <1>8, <3>2
    <3> QED
      BY <3>2, <3>3
  <2>2. HasLeaves(below[0], h, 0, at)
    BY <2>1 DEF HasLeaves
  <2>3. 0 \in 0 .. L
    BY <1>2
  <2> QED
    BY <1>10, <2>2, <2>3
<1>12. ASSUME NEW d \in 1 .. L, d - 1 \in P PROVE d \in P
  <2>1. HasLeaves(below[d - 1], h, d - 1, at) /\ d \in 0 .. L
    BY <1>10, <1>12
  <2>2. below[d] = Step(below[d - 1])
    BY <1>8
  <2>3. ASSUME NEW p \in 1 .. L
        PROVE  below[d][p] = IF db.page[p].type # "internal" THEN <<p>>
                             ELSE LeavesOf(db, p, below[d - 1])
    BY <2>2, <2>3
  <2> HIDE DEF Start, Step
  <2>4. ASSUME NEW j \in 0 .. h, NEW p \in Nat, NEW lo \in Nat, NEW hi \in Nat,
               j <= d, Extent(at[j], p, lo, hi)
        PROVE  Spans(below[d][p], at[0], lo, hi)
    <3>1. CASE j = 0
      <4>1. Spans(<<p>>, at[0], lo, hi) /\ p \in 1 .. L /\ db.page[p].type # "internal"
        BY <1>9, <2>4, <3>1
      <4>2. below[d][p] = <<p>>
        BY <2>3, <4>1
      <4> QED
        BY <4>1, <4>2
    <3>2. CASE j # 0
      <4>1. PICK e \in Nat : e = j - 1
        BY <3>2
      <4>2. j \in 1 .. h /\ e <= d - 1 /\ d - 1 \in Nat
        BY <2>4, <3>2, <4>1
      <4>3. HasLeaves(below[d - 1], h, e, at)
        <5>1. \A i \in 0 .. h : i <= e => i <= d - 1
          BY <4>2
        <5> QED
          BY <2>1, <5>1 DEF HasLeaves
      <4>4. Spans(LeavesOf(db, p, below[d - 1]), at[0], lo, hi)
        BY <2>4, <4>1, <4>2, <4>3, LeavesBelow
      <4>5. at[j][lo] = p /\ lo \in Ids
        BY <2>4 DEF Extent, Ids
      <4>6. p \in 1 .. L /\ db.page[p].type = "internal"
        <5>1. p \in 1 .. L /\ NodeIn(db.page[p], p, at[j], at[j - 1])
          BY <1>1, <1>2, <4>2, <4>5 DEF Grown, NodeLevel
        <5> QED
          BY <5>1 DEF NodeIn, Node
      <4>7. below[d][p] = LeavesOf(db, p, below[d - 1])
        BY <2>3, <4>6
      <4> QED
        BY <4>4, <4>7
    <3> QED
      BY <3>1, <3>2
  <2>5. HasLeaves(below[d], h, d, at)
    BY <2>4 DEF HasLeaves
  <2> QED
    BY <1>10, <2>1, <2>5
<1>13. \A d \in 0 .. L : d \in P
  BY <1>2, <1>11, <1>12, UpTo
<1>14. Extent(at[h], db.root_page_id, 0, MAX_ROWS - 1)
  <2>1. \A k \in Ids : at[h][k] = db.root_page_id
    BY <1>1 DEF Grown
  <2>2. \A k \in Ids : 0 <= k /\ k <= MAX_ROWS - 1
    BY IdsAre
  <2> QED
    BY <2>1, <2>2, IdsAre DEF Extent
<1>15. HasLeaves(below[L], h, L, at)
  BY <1>2, <1>10, <1>13
<1>16. h \in 0 .. h /\ 0 \in Nat /\ MAX_ROWS - 1 \in Nat /\ db.root_page_id \in Nat
  <2>1. MAX_ROWS - 1 \in Nat /\ h \in 0 .. h
    BY <1>1, IdsAre
  <2>2. db.root_page_id \in Nat
    BY <1>1, PagesAre
  <2> QED
    BY <2>1, <2>2
<1> HIDE DEF Start, Step
<1>17. PICK p, last, g : p = db.root_page_id /\ last = MAX_ROWS - 1 /\ g = below[L]
  OBVIOUS
<1>18. HasLeaves(g, h, L, at) /\ Extent(at[h], p, 0, last)
  BY <1>14, <1>15, <1>17
<1>19. Spans(g[p], at[0], 0, last)
  BY <1>3, <1>16, <1>17, <1>18 DEF HasLeaves
<1> QED
  BY <1>4, <1>17, <1>19

\* The chain is the leaves from left to right.
LEMMA SoundChain ==
  ASSUME NEW store, NEW h, NEW at, Sound(db, store, h, at, at, 0)
  PROVE  LeafChainExact
<1>1. /\ Grown(db.page, db.root_page_id, store, h, at, at, 0) /\ Chained(db.page, at[0])
      /\ at[0] \in Division
  BY DEF Sound, Grown
<1>2. PICK f : f = Leaves
  OBVIOUS
<1>3. /\ f \in Seq(Nat) /\ f # <<>> /\ f[1] = at[0][0] /\ f[Len(f)] = at[0][MAX_ROWS - 1]
      /\ \A i \in 1 .. Len(f) - 1 :
           \E e \in Ids : /\ e - 1 \in Ids /\ at[0][e - 1] = f[i] /\ at[0][e] = f[i + 1]
                          /\ at[0][e - 1] # at[0][e]
  BY <1>2, LeavesSpan, SMTT(30) DEF Spans
<1>4. PICK N \in Nat : N = Len(f) /\ N >= 1
  BY <1>3
<1>5. ASSUME NEW i \in 1 .. N - 1
      PROVE  db.page[f[i]].next = f[i + 1] /\ db.page[f[i + 1]].prev = f[i]
  <2>1. PICK e \in Ids : /\ e - 1 \in Ids /\ at[0][e - 1] = f[i] /\ at[0][e] = f[i + 1]
                         /\ at[0][e - 1] # at[0][e]
    BY <1>3, <1>4
  <2>2. PICK d \in Ids : d = e - 1 /\ d + 1 = e
    BY <2>1, IdsAre
  <2> QED
    BY <1>1, <2>1, <2>2 DEF Chained
<1>6. ASSUME NEW i \in 1 .. N
      PROVE  /\ db.page[f[i]].next = IF i < N THEN f[i + 1] ELSE 0
             /\ db.page[f[i]].prev = IF i > 1 THEN f[i - 1] ELSE 0
  <2>2. ~(i < N) => i = N /\ db.page[f[i]].next = 0
    BY <1>1, <1>3, <1>4 DEF Chained
  <2>3. i > 1 => db.page[f[i]].prev = f[i - 1]
    <3>1. SUFFICES ASSUME i > 1 PROVE db.page[f[i]].prev = f[i - 1]
      OBVIOUS
    <3>2. PICK j \in 1 .. N - 1 : j = i - 1 /\ j + 1 = i
      BY <1>4, <3>1
    <3> QED
      BY <1>5, <3>2
  <2>4. ~(i > 1) => i = 1 /\ db.page[f[i]].prev = 0
    BY <1>1, <1>3, <1>4 DEF Chained
  <2>5. db.page[f[i]].next = IF i < N THEN f[i + 1] ELSE 0
    <3>1. i < N => i \in 1 .. N - 1
      BY <1>4
    <3> QED
      BY <1>5, <2>2, <3>1
  <2> QED
    BY <2>3, <2>4, <2>5
<1>7. DOMAIN f = 1 .. N
  BY <1>3, <1>4
<1> QED
  BY <1>2, <1>4, <1>6, <1>7 DEF LeafChainExact

-----------------------------------------------------------------------------
(* The pages of the tree *)

\* f has the pages of U, each once.
Once(f, U) ==
  /\ f \in Seq(Nat)
  /\ \A x, y \in 1 .. Len(f) : f[x] = f[y] => x = y
  /\ \A q : q \in U <=> \E x \in 1 .. Len(f) : f[x] = q

LEMMA OneOnce ==
  ASSUME NEW p \in Nat
  PROVE  Once(<<p>>, {p})
<1>1. PICK f : f = <<p>>
  OBVIOUS
<1>2. f \in Seq(Nat) /\ Len(f) = 1 /\ f[1] = p
  BY <1>1
<1>3. \A x : x \in 1 .. Len(f) <=> x = 1
  BY <1>2
<1>4. Once(f, {p})
  BY <1>2, <1>3 DEF Once
<1> QED
  BY <1>1, <1>4

LEMMA JoinOnce ==
  ASSUME NEW f, NEW U, Once(f, U), NEW g, NEW V, Once(g, V), \A q : q \in U => q \notin V
  PROVE  Once(f \o g, U \cup V)
<1>1. PICK A \in Nat : A = Len(f)
  BY DEF Once
<1>2. PICK B \in Nat : B = Len(g)
  BY DEF Once
<1>3. f \in Seq(Nat) /\ g \in Seq(Nat)
  BY DEF Once
<1>4. PICK c : c = f \o g
  OBVIOUS
<1>5. /\ c \in Seq(Nat) /\ Len(c) = A + B
      /\ \A x \in 1 .. A + B : c[x] = IF x <= A THEN f[x] ELSE g[x - A]
  BY <1>1, <1>2, <1>3, <1>4, ConcatEffect
<1>6. \A x \in 1 .. A + B : (x <= A /\ x \in 1 .. A) \/ (~(x <= A) /\ x - A \in 1 .. B)
  OBVIOUS
<1>7. \A x \in 1 .. A : f[x] \in U
  BY <1>1 DEF Once
<1>8. \A x \in 1 .. B : g[x] \in V
  BY <1>2 DEF Once
<1>9. ASSUME NEW x \in 1 .. A + B, NEW y \in 1 .. A + B, c[x] = c[y] PROVE x = y
  <2>1. CASE x <= A /\ y <= A
    BY <1>1, <1>5, <1>6, <1>9, <2>1 DEF Once
  <2>2. CASE x <= A /\ ~(y <= A)
    BY <1>5, <1>6, <1>7, <1>8, <1>9, <2>2
  <2>3. CASE ~(x <= A) /\ y <= A
    BY <1>5, <1>6, <1>7, <1>8, <1>9, <2>3
  <2>4. CASE ~(x <= A) /\ ~(y <= A)
    <3>1. x - A \in 1 .. B /\ y - A \in 1 .. B /\ g[x - A] = g[y - A]
      BY <1>5, <1>6, <1>9, <2>4
    <3>2. x - A = y - A
      BY <1>2, <3>1 DEF Once
    <3> QED
      BY <3>2
  <2> QED
    BY <2>1, <2>2, <2>3, <2>4
<1>10. ASSUME NEW q PROVE q \in U \cup V <=> \E x \in 1 .. A + B : c[x] = q
  <2>1. ASSUME q \in U PROVE \E x \in 1 .. A + B : c[x] = q
    <3>1. PICK x \in 1 .. A : f[x] = q
      BY <1>1, <2>1 DEF Once
    <3>2. x \in 1 .. A + B /\ x <= A
      OBVIOUS
    <3> QED
      BY <1>5, <3>1, <3>2
  <2>2. ASSUME q \in V PROVE \E x \in 1 .. A + B : c[x] = q
    <3>1. PICK x \in 1 .. B : g[x] = q
      BY <1>2, <2>2 DEF Once
    <3>2. A + x \in 1 .. A + B /\ ~(A + x <= A) /\ A + x - A = x
      OBVIOUS
    <3> QED
      BY <1>5, <3>1, <3>2
  <2>3. ASSUME NEW x \in 1 .. A + B, c[x] = q PROVE q \in U \cup V
    BY <1>5, <1>6, <1>7, <1>8, <2>3
  <2> QED
    BY <2>1, <2>2, <2>3
<1>11. Once(c, U \cup V)
  BY <1>5, <1>9, <1>10 DEF Once
<1> QED
  BY <1>4, <1>11

\* Sequences without a common page, flattened.
LEMMA FlatOnce ==
  ASSUME NEW n \in Nat, n >= 1, NEW c, Len(c) = n, NEW U, \A i \in 1 .. n : Once(c[i], U[i]),
         \A i, j \in 1 .. n : \A q : q \in U[i] /\ q \in U[j] => i = j
  PROVE  Once(FlattenSeq(c), UNION {U[i] : i \in 1 .. n})
<1>10. PICK flat : AreSteps(flat, c, n)
  BY FlatSteps
<1>1. /\ FlattenSeq(c) = flat[n] /\ flat[1] = c[1]
      /\ \A i \in 2 .. n : flat[i] = flat[i - 1] \o c[i]
  BY <1>10 DEF AreSteps
<1>2. PICK V : V = [m \in 1 .. n |-> UNION {U[i] : i \in 1 .. m}]
  OBVIOUS
<1>3. \A m \in 1 .. n : \A q : q \in V[m] <=> \E i \in 1 .. m : q \in U[i]
  BY <1>2
<1>4. PICK P : P = {m \in 0 .. n : m = 0 \/ Once(flat[m], V[m])}
  OBVIOUS
<1>5. 0 \in P
  BY <1>4
<1>6. ASSUME NEW m \in 1 .. n, m - 1 \in P PROVE m \in P
  <2>1. CASE m = 1
    <3>1. 1 \in 1 .. n /\ \A i : i \in 1 .. 1 <=> i = 1
      OBVIOUS
    <3>2. \A q : q \in V[1] <=> q \in U[1]
      BY <1>3, <3>1
    <3>3. Once(c[1], U[1])
      BY <3>1
    <3>4. Once(c[1], V[1])
      BY <3>2, <3>3, Zenon DEF Once
    <3>5. Once(flat[m], V[m])
      BY <1>1, <2>1, <3>4, Zenon
    <3> QED
      BY <1>4, <3>5
  <2>2. CASE m # 1
    <3>1. PICK l \in 1 .. n : l = m - 1 /\ m \in 2 .. n /\ l # 0
      BY <2>2
    <3>2. Once(flat[l], V[l]) /\ Once(c[m], U[m])
      BY <1>4, <1>6, <3>1
    <3>3. ASSUME NEW q, q \in V[l] PROVE q \notin U[m]
      <4>1. PICK i \in 1 .. l : q \in U[i]
        BY <1>3, <3>3
      <4>2. i \in 1 .. n /\ i # m
        BY <3>1
      <4> QED
        BY <4>1, <4>2
    <3>4. Once(flat[l] \o c[m], V[l] \cup U[m])
      BY <3>2, <3>3, JoinOnce
    <3>5. \A i : i \in 1 .. m <=> i \in 1 .. l \/ i = m
      BY <3>1
    <3>6. \A q : q \in V[m] <=> q \in V[l] \cup U[m]
      BY <1>3, <3>5
    <3>7. V[m] = V[l] \cup U[m]
      BY <3>6
    <3>8. flat[m] = flat[l] \o c[m]
      BY <1>1, <3>1, Zenon
    <3>9. Once(flat[m], V[m])
      BY <3>4, <3>7, <3>8, Zenon
    <3> QED
      BY <1>4, <3>9
  <2> QED
    BY <2>1, <2>2
<1>7. \A m \in 0 .. n : m \in P
  BY <1>5, <1>6, UpTo
<1>8. n \in 0 .. n /\ n \in 1 .. n /\ n # 0
  OBVIOUS
<1>9. Once(flat[n], V[n]) /\ V[n] = UNION {U[i] : i \in 1 .. n}
  BY <1>2, <1>4, <1>7, <1>8
<1> QED
  BY <1>1, <1>9, Zenon

\* Page q is of a level up to j, and has an id from lo to hi.
IsPageOf(q, j, lo, hi, at) == \E i \in 0 .. j, k \in Ids : lo <= k /\ k <= hi /\ at[i][k] = q
PagesOf(j, lo, hi, at) == {q \in Nat : IsPageOf(q, j, lo, hi, at)}

\* Whatever is apart in a level is apart in the levels above it.
LEMMA NestedIn ==
  ASSUME NEW pg, NEW root, NEW store, NEW h, NEW at, NEW seen, NEW thin,
         Grown(pg, root, store, h, at, at, thin), NEW i \in 0 .. h, NEW j \in 0 .. h, i <= j
  PROVE  Nested(at[j], at[i])
<1>1. h \in Nat /\ \A m \in 1 .. h : Nested(at[m], at[m - 1])
  BY DEF Grown, NodeLevel
<1>2. PICK P : P = {m \in 0 .. h : i <= m => Nested(at[m], at[i])}
  OBVIOUS
<1>3. 0 \in P
  <2>1. i <= 0 => i = 0
    BY <1>1
  <2>2. i <= 0 => Nested(at[0], at[i])
    BY <2>1 DEF Nested
  <2> QED
    BY <1>1, <1>2, <2>2
<1>4. ASSUME NEW m \in 1 .. h, m - 1 \in P PROVE m \in P
  <2>1. CASE i = m
    BY <1>2, <2>1 DEF Nested
  <2>2. CASE i # m
    <3>1. i <= m => Nested(at[m - 1], at[i])
      BY <1>1, <1>2, <1>4, <2>2
    <3>2. i <= m => Nested(at[m], at[i])
      BY <1>1, <3>1 DEF Nested
    <3> QED
      BY <1>1, <1>2, <3>2
  <2> QED
    BY <2>1, <2>2
<1>5. \A m \in 0 .. h : m \in P
  BY <1>1, <1>3, <1>4, UpTo
<1> QED
  BY <1>2, <1>5

\* f has the pages at and below every page of the levels up to d.
HasPages(f, h, d, at) ==
  \A j \in 0 .. h, p, lo, hi \in Nat :
    j <= d /\ Extent(at[j], p, lo, hi) => Once(f[p], PagesOf(j, lo, hi, at))

\* One level more.
LEMMA PagesBelow ==
  ASSUME NEW s, NEW store, NEW h, NEW at, Sound(s, store, h, at, at, 0),
         NEW j \in 1 .. h, NEW f, HasPages(f, h, j - 1, at),
         NEW p, NEW first, NEW last, Extent(at[j], p, first, last)
  PROVE  Once(<<p>> \o LeavesOf(s, p, f), PagesOf(j, first, last, at))
<1>1. /\ s \in Database /\ Grown(s.page, s.root_page_id, store, h, at, at, 0) /\ h \in Nat
      /\ at \in [Nat -> Division] /\ Apart(h, at, at)
  BY DEF Sound, Grown
<1>2. PICK i \in 0 .. h : i = j - 1 /\ i \in Nat /\ j \in 0 .. h /\ i # j
  BY <1>1
<1>3. /\ Contiguous(at[i]) /\ at[i] \in Division /\ at[j] \in Division /\ Nested(at[j], at[i])
  BY <1>1, <1>2 DEF Grown, NodeLevel
<1>4. /\ at[j][first] = p /\ first \in Ids /\ p \in Nat /\ first <= first /\ first <= last
      /\ \A k \in Ids : at[j][k] = p <=> first <= k /\ k <= last
  BY <1>3, IdsAre DEF Extent, Division
<1>5. PICK n : n = s.page[p]
  OBVIOUS
<1>6. NodeIn(n, p, at[j], at[i])
  BY <1>1, <1>2, <1>4, <1>5 DEF Grown, NodeLevel
<1>7. PICK lo, hi : InParts(n, at[i], lo, hi) /\ lo[1] = first /\ hi[Len(n.cells) + 1] = last
  BY <1>3, <1>6, KidExtents
<1>8. PICK N \in Nat : N = Len(n.cells) + 1 /\ N >= 1
  BY <1>6, NodeKeys
<1>9. \A x \in 1 .. N : Extent(at[i], Kids(n)[x], lo[x], hi[x])
  BY <1>7, <1>8 DEF InParts
<1>10. Used(p, at[j])
  BY <1>4 DEF Used
<1>11. \A x, y \in 1 .. N : Kids(n)[x] = Kids(n)[y] => x = y
  BY <1>3, <1>6, <1>8, <1>10, KidsDiffer
<1>12. \A x \in 1 .. N : \E k \in Ids : at[j][k] = p /\ at[i][k] = Kids(n)[x]
  <2>1. EachAsked(n, p, at[j], at[i])
    BY <1>3, <1>6, <1>10, KidHasId
  <2> QED
    BY <1>8, <2>1 DEF EachAsked
<1>13. \A x \in 1 .. N : /\ lo[x] \in Nat /\ hi[x] \in Nat /\ Kids(n)[x] \in Nat
                         /\ \A k \in Ids : at[i][k] = Kids(n)[x] <=> lo[x] <= k /\ k <= hi[x]
  <2>1. ASSUME NEW x \in 1 .. N PROVE Kids(n)[x] \in Nat
    <3>1. PICK k \in Ids : at[i][k] = Kids(n)[x]
      BY <1>12
    <3> QED
      BY <1>3, <3>1 DEF Division
  <2> QED
    BY <1>9, <2>1, IdsAre DEF Extent
<1>14. PICK c : c = [x \in 1 .. N |-> f[Kids(n)[x]]]
  OBVIOUS
<1>15. PICK U : U = [x \in 1 .. N |-> PagesOf(i, lo[x], hi[x], at)]
  OBVIOUS
<1>16. \A x \in 1 .. N : \A q : q \in U[x] <=> q \in Nat /\ IsPageOf(q, i, lo[x], hi[x], at)
  BY <1>15 DEF PagesOf
<1>17. \A x \in 1 .. N : Once(c[x], U[x])
  <2>1. ASSUME NEW x \in 1 .. N PROVE Once(f[Kids(n)[x]], PagesOf(i, lo[x], hi[x], at))
    <3>1. i \in 0 .. h /\ i <= j - 1
      BY <1>2
    <3> QED
      BY <1>2, <1>9, <1>13, <3>1 DEF HasPages
  <2> QED
    BY <1>14, <1>15, <2>1
\* A page is at or below one child alone.
<1>18. ASSUME NEW x \in 1 .. N, NEW y \in 1 .. N, NEW q, q \in U[x], q \in U[y] PROVE x = y
  <2>1. PICK d \in 0 .. i, k \in Ids : lo[x] <= k /\ k <= hi[x] /\ at[d][k] = q
    BY <1>16, <1>18 DEF IsPageOf
  <2>2. PICK e \in 0 .. i, l \in Ids : lo[y] <= l /\ l <= hi[y] /\ at[e][l] = q
    BY <1>16, <1>18 DEF IsPageOf
  <2>3. d \in 0 .. h /\ e \in 0 .. h /\ d <= i
    BY <1>1, <1>2
  <2>4. d = e
    BY <1>1, <2>1, <2>2, <2>3, ApartAt
  <2>5. Nested(at[i], at[d])
    BY <1>1, <1>2, <2>3, NestedIn
  <2>6. at[i][k] = at[i][l]
    BY <2>1, <2>2, <2>4, <2>5 DEF Nested
  <2>7. at[i][k] = Kids(n)[x] /\ at[i][l] = Kids(n)[y]
    BY <1>13, <2>1, <2>2
  <2> QED
    BY <1>11, <2>6, <2>7
<1>19. PICK V : V = UNION {U[x] : x \in 1 .. N}
  OBVIOUS
<1>20. \A q : q \in V <=> \E x \in 1 .. N : q \in U[x]
  BY <1>19
<1>21. Once(FlattenSeq(c), V)
  <2>1. Len(c) = N
    BY <1>14
  <2>2. Once(FlattenSeq(c), UNION {U[x] : x \in 1 .. N})
    <3>1. \A x, y \in 1 .. N : \A q : q \in U[x] /\ q \in U[y] => x = y
      BY <1>18, Zenon
    <3>2. N \in Nat /\ N >= 1
      BY <1>8
    <3> QED
      BY <1>17, <2>1, <3>1, <3>2, FlatOnce
  <2> QED
    BY <1>19, <2>2
<1>22. LeavesOf(s, p, f) = FlattenSeq(c)
  <2>1. DOMAIN Kids(n) = 1 .. N
    BY <1>6, <1>8, NodeKeys DEF Kids
  <2> QED
    BY <1>5, <1>14, <2>1 DEF LeavesOf
<1>23. p \notin V
  <2>1. SUFFICES ASSUME NEW x \in 1 .. N, p \in U[x] PROVE FALSE
    BY <1>20
  <2>2. PICK d \in 0 .. i, k \in Ids : at[d][k] = p
    BY <1>16, <2>1 DEF IsPageOf
  <2>3. d \in 0 .. h /\ d # j
    BY <1>1, <1>2
  <2>4. at[d][k] = at[j][first]
    BY <1>4, <2>2
  <2>5. d = j
    BY <1>1, <1>2, <1>4, <2>3, <2>4, ApartAt
  <2> QED
    BY <2>3, <2>5
<1>24. ASSUME NEW q \in Nat, IsPageOf(q, j, first, last, at) PROVE q \in {p} \cup V
  <2>1. PICK d \in 0 .. j, k \in Ids : first <= k /\ k <= last /\ at[d][k] = q
    BY <1>24 DEF IsPageOf
  <2>2. at[j][k] = p
    BY <1>4, <2>1
  <2>3. CASE d = j
    BY <2>1, <2>2, <2>3
  <2>4. CASE d # j
    <3>1. d \in 0 .. i
      BY <1>2, <2>4
    <3>2. PICK x \in 1 .. N : x = CellFor(n, k)
      BY <1>6, <1>8, PlaceOf
    <3>3. KidFor(n, k) = at[i][k]
      BY <1>6, <2>2 DEF NodeIn
    <3>4. at[i][k] = Kids(n)[x]
      BY <3>2, <3>3 DEF KidFor
    <3>5. lo[x] <= k /\ k <= hi[x]
      BY <1>13, <3>4
    <3>6. IsPageOf(q, i, lo[x], hi[x], at)
      BY <2>1, <3>1, <3>5 DEF IsPageOf
    <3> QED
      BY <1>16, <1>20, <3>6
  <2> QED
    BY <2>3, <2>4
<1>25. ASSUME NEW q, q \in {p} \cup V PROVE q \in Nat /\ IsPageOf(q, j, first, last, at)
  <2>1. CASE q = p
    <3>1. j \in 0 .. j
      BY <1>2
    <3> QED
      BY <1>4, <2>1, <3>1 DEF IsPageOf
  <2>2. CASE q \in V
    <3>1. PICK x \in 1 .. N : q \in U[x]
      BY <1>20, <2>2
    <3>2. PICK d \in 0 .. i, k \in Ids : lo[x] <= k /\ k <= hi[x] /\ at[d][k] = q
      BY <1>16, <3>1 DEF IsPageOf
    <3>3. at[i][k] = Kids(n)[x]
      BY <1>13, <3>2
    <3>4. PICK l \in Ids : at[j][l] = p /\ at[i][l] = Kids(n)[x]
      BY <1>12
    <3>5. at[j][k] = p
      BY <1>3, <3>3, <3>4 DEF Nested
    <3>6. first <= k /\ k <= last /\ d \in 0 .. j
      BY <1>2, <1>4, <3>5
    <3> QED
      BY <1>16, <3>1, <3>2, <3>6 DEF IsPageOf
  <2> QED
    BY <1>25, <2>1, <2>2
<1>26. PagesOf(j, first, last, at) = {p} \cup V
  BY <1>24, <1>25 DEF PagesOf
<1>27. Once(<<p>>, {p})
  BY <1>4, OneOnce
<1>28. Once(<<p>> \o FlattenSeq(c), {p} \cup V)
  BY <1>21, <1>23, <1>27, JoinOnce
<1> QED
  BY <1>22, <1>26, <1>28

\* The tree from the root has the pages of all levels, each once.
LEMMA TreeOnce ==
  ASSUME NEW store, NEW h, NEW at, Sound(db, store, h, at, at, 0)
  PROVE  Once(Tree, PagesOf(h, 0, MAX_ROWS - 1, at))
<1>1. /\ db \in Database /\ Grown(db.page, db.root_page_id, store, h, at, at, 0) /\ h \in Nat
      /\ at \in [Nat -> Division]
  BY DEF Sound, Grown
<1>2. PICK L \in Nat : L = Len(db.page) /\ DOMAIN db.page = 1 .. L
  BY <1>1, PagesAre
<1>3. h <= L
  BY <1>1, <1>2, FewLevels
<1> DEFINE Step(f) == [p \in 1 .. L |-> IF db.page[p].type # "internal" THEN <<p>>
                                        ELSE <<p>> \o LeavesOf(db, p, f)]
           Start == [p \in 1 .. L |-> <<p>>]
           Walk(f) == f = [d \in 0 .. L |-> IF d = 0 THEN Start ELSE Step(f[d - 1])]
           IsTreeOf(f) == f = [d \in 0 .. L |->
                        [p \in 1 .. L |->
                           LET kids == Kids(db.page[p])
                           IN IF db.page[p].type # "internal" \/ d = 0 THEN <<p>>
                              ELSE <<p>> \o FlattenSeq([i \in DOMAIN kids |-> f[d - 1][kids[i]]])]]
           below == CHOOSE f : IsTreeOf(f)
<1>4. Tree = below[L][db.root_page_id]
  BY <1>2 DEF Tree
<1>5. \E f : Walk(f)
  <2> DEFINE G(f, m) == f[0] = Start /\ \A d \in 1 .. m : f[d] = Step(f[d - 1])
             P == {m \in 0 .. L : \E f : G(f, m)}
  <2>1. 0 \in P
    <3>1. PICK f : f = [d \in 0 .. L |-> Start]
      OBVIOUS
    <3>2. f[0] = Start
      BY <3>1
    <3>3. \A d \in 1 .. 0 : FALSE
      OBVIOUS
    <3> HIDE DEF Start, Step
    <3>4. G(f, 0)
      BY <3>2, <3>3
    <3> QED
      BY <3>4
  <2>2. ASSUME NEW m \in 1 .. L, m - 1 \in P PROVE m \in P
    <3> HIDE DEF Start, Step
    <3>1. PICK f : G(f, m - 1)
      BY <2>2
    <3>2. PICK last : last = Step(f[m - 1])
      OBVIOUS
    <3>3. PICK g : g = [d \in 0 .. L |-> IF d = m THEN last ELSE f[d]]
      OBVIOUS
    <3>4. g[0] = Start
      BY <3>1, <3>3
    <3>5. ASSUME NEW d \in 1 .. m PROVE g[d] = Step(g[d - 1])
      <4>1. d \in 0 .. L /\ d - 1 \in 0 .. L /\ d - 1 # m
        OBVIOUS
      <4>2. g[d - 1] = f[d - 1]
        BY <3>3, <4>1
      <4>3. CASE d = m
        <5>1. g[m] = last
          BY <3>3, <4>1, <4>3
        <5> QED
          BY <3>2, <4>2, <4>3, <5>1
      <4>4. CASE d # m
        <5>1. d \in 1 .. m - 1
          BY <4>4
        <5>2. f[d] = Step(f[d - 1])
          BY <3>1, <5>1
        <5>3. g[d] = f[d]
          BY <3>3, <4>1, <4>4
        <5> QED
          BY <4>2, <5>2, <5>3
      <4> QED
        BY <4>3, <4>4
    <3>6. G(g, m)
      BY <3>4, <3>5
    <3> QED
      BY <3>6
  <2> HIDE DEF P, Start, Step
  <2>3. \A m \in 0 .. L : m \in P
    BY <2>1, <2>2, UpTo
  <2>4. PICK f : G(f, L)
    BY <2>3 DEF P
  <2>5. PICK g : g = [d \in 0 .. L |-> f[d]]
    OBVIOUS
  <2>6. ASSUME NEW d \in 0 .. L PROVE g[d] = IF d = 0 THEN Start ELSE Step(g[d - 1])
    <3>1. CASE d = 0
      BY <2>4, <2>5, <3>1
    <3>2. CASE d # 0
      <4>1. d \in 1 .. L /\ d - 1 \in 0 .. L
        BY <3>2
      <4>2. g[d] = f[d] /\ g[d - 1] = f[d - 1] /\ f[d] = Step(f[d - 1])
        BY <2>4, <2>5, <4>1
      <4> QED
        BY <3>2, <4>2
    <3> QED
      BY <3>1, <3>2
  <2>7. g = [d \in 0 .. L |-> IF d = 0 THEN Start ELSE Step(g[d - 1])]
    BY <2>5, <2>6, SMTT(30)
  <2> QED
    BY <2>7
<1>6. ASSUME NEW f, Walk(f) PROVE IsTreeOf(f)
  <2>1. ASSUME NEW d \in 0 .. L
        PROVE  (IF d = 0 THEN Start ELSE Step(f[d - 1]))
                 = [p \in 1 .. L |->
                     LET kids == Kids(db.page[p])
                     IN IF db.page[p].type # "internal" \/ d = 0 THEN <<p>>
                        ELSE <<p>> \o FlattenSeq([i \in DOMAIN kids |-> f[d - 1][kids[i]]])]
    <3>1. CASE d = 0
      BY <3>1
    <3>2. CASE d # 0
      BY <3>2 DEF LeavesOf
    <3> QED
      BY <3>1, <3>2
  <2> QED
    BY <1>6, <2>1, ZenonT(40)
<1> HIDE DEF Walk
<1>7. IsTreeOf(below)
  <2> HIDE DEF IsTreeOf
  <2>1. \E f : IsTreeOf(f)
    BY <1>5, <1>6
  <2> QED
    BY <2>1
<1> HIDE DEF below
<1>8. /\ below[0] = Start
      /\ \A d \in 1 .. L : below[d] = Step(below[d - 1])
  <2>1. 0 \in 0 .. L /\ \A d \in 1 .. L : d \in 0 .. L /\ d # 0
    BY <1>2
  <2>2. below[0] = Start
    BY <1>7, <2>1, SMTT(30)
  <2>3. ASSUME NEW d \in 1 .. L PROVE below[d] = Step(below[d - 1])
    BY <1>7, <2>1, ZenonT(40) DEF LeavesOf
  <2> QED
    BY <2>2, <2>3
<1> HIDE DEF IsTreeOf
<1>9. ASSUME NEW p, NEW lo \in Nat, NEW hi \in Nat, Extent(at[0], p, lo, hi)
      PROVE  Once(<<p>>, PagesOf(0, lo, hi, at)) /\ p \in 1 .. L /\ db.page[p].type # "internal"
  <2>1. at[0][lo] = p /\ lo \in Ids /\ lo <= hi /\ lo <= lo
        /\ \A k \in Ids : at[0][k] = p <=> lo <= k /\ k <= hi
    BY <1>9 DEF Extent, Ids
  <2>2. p \in 1 .. L /\ db.page[p].type = "leaf"
    BY <1>1, <1>2, <2>1 DEF Grown, LeafLevel
  <2>3. \A i : i \in 0 .. 0 <=> i = 0
    OBVIOUS
  <2>4. PagesOf(0, lo, hi, at) = {p}
    BY <2>1, <2>2, <2>3 DEF PagesOf, IsPageOf
  <2>5. p \in Nat
    BY <2>2
  <2> QED
    BY <2>2, <2>4, <2>5, OneOnce
<1>10. PICK P : P = {d \in 0 .. L : HasPages(below[d], h, d, at)}
  OBVIOUS
<1>11. 0 \in P
  <2>1. ASSUME NEW j \in 0 .. h, NEW p \in Nat, NEW lo \in Nat, NEW hi \in Nat,
               j <= 0, Extent(at[j], p, lo, hi)
        PROVE  Once(below[0][p], PagesOf(j, lo, hi, at))
    <3>1. j = 0
      BY <2>1
    <3>2. Once(<<p>>, PagesOf(0, lo, hi, at)) /\ p \in 1 .. L
      BY <1>9, <2>1, <3>1
    <3>3. below[0][p] = <<p>>
      BY <1>8, <3>2
    <3> QED
      BY <3>1, <3>2, <3>3
  <2>2. HasPages(below[0], h, 0, at)
    BY <2>1 DEF HasPages
  <2>3. 0 \in 0 .. L
    BY <1>2
  <2> QED
    BY <1>10, <2>2, <2>3
<1>12. ASSUME NEW d \in 1 .. L, d - 1 \in P PROVE d \in P
  <2>1. HasPages(below[d - 1], h, d - 1, at) /\ d \in 0 .. L
    BY <1>10, <1>12
  <2>2. below[d] = Step(below[d - 1])
    BY <1>8
  <2>3. ASSUME NEW p \in 1 .. L
        PROVE  below[d][p] = IF db.page[p].type # "internal" THEN <<p>>
                             ELSE <<p>> \o LeavesOf(db, p, below[d - 1])
    BY <2>2, <2>3
  <2> HIDE DEF Start, Step
  <2>4. ASSUME NEW j \in 0 .. h, NEW p \in Nat, NEW lo \in Nat, NEW hi \in Nat,
               j <= d, Extent(at[j], p, lo, hi)
        PROVE  Once(below[d][p], PagesOf(j, lo, hi, at))
    <3>1. CASE j = 0
      <4>1. Once(<<p>>, PagesOf(0, lo, hi, at)) /\ p \in 1 .. L /\ db.page[p].type # "internal"
        BY <1>9, <2>4, <3>1
      <4>2. below[d][p] = <<p>>
        BY <2>3, <4>1
      <4> QED
        BY <3>1, <4>1, <4>2
    <3>2. CASE j # 0
      <4>1. PICK e \in Nat : e = j - 1
        BY <3>2
      <4>2. j \in 1 .. h /\ e <= d - 1 /\ d - 1 \in Nat
        BY <2>4, <3>2, <4>1
      <4>3. HasPages(below[d - 1], h, e, at)
        <5>1. \A i \in 0 .. h : i <= e => i <= d - 1
          BY <4>2
        <5> QED
          BY <2>1, <5>1 DEF HasPages
      <4>4. Once(<<p>> \o LeavesOf(db, p, below[d - 1]), PagesOf(j, lo, hi, at))
        BY <2>4, <4>1, <4>2, <4>3, PagesBelow
      <4>5. at[j][lo] = p /\ lo \in Ids
        BY <2>4 DEF Extent, Ids
      <4>6. p \in 1 .. L /\ db.page[p].type = "internal"
        <5>1. p \in 1 .. L /\ NodeIn(db.page[p], p, at[j], at[j - 1])
          BY <1>1, <1>2, <4>2, <4>5 DEF Grown, NodeLevel
        <5> QED
          BY <5>1 DEF NodeIn, Node
      <4>7. below[d][p] = <<p>> \o LeavesOf(db, p, below[d - 1])
        BY <2>3, <4>6
      <4> QED
        BY <4>4, <4>7
    <3> QED
      BY <3>1, <3>2
  <2>5. HasPages(below[d], h, d, at)
    BY <2>4 DEF HasPages
  <2> QED
    BY <1>10, <2>1, <2>5
<1>13. \A d \in 0 .. L : d \in P
  BY <1>2, <1>11, <1>12, UpTo
<1>14. Extent(at[h], db.root_page_id, 0, MAX_ROWS - 1)
  <2>1. \A k \in Ids : at[h][k] = db.root_page_id
    BY <1>1 DEF Grown
  <2>2. \A k \in Ids : 0 <= k /\ k <= MAX_ROWS - 1
    BY IdsAre
  <2> QED
    BY <2>1, <2>2, IdsAre DEF Extent
<1>15. HasPages(below[L], h, L, at)
  BY <1>2, <1>10, <1>13
<1>16. h \in 0 .. h /\ 0 \in Nat /\ MAX_ROWS - 1 \in Nat /\ db.root_page_id \in Nat
  <2>1. MAX_ROWS - 1 \in Nat /\ h \in 0 .. h
    BY <1>1, IdsAre
  <2>2. db.root_page_id \in Nat
    BY <1>1, PagesAre
  <2> QED
    BY <2>1, <2>2
<1> HIDE DEF Start, Step
<1>17. PICK p, last, g : p = db.root_page_id /\ last = MAX_ROWS - 1 /\ g = below[L]
  OBVIOUS
<1>18. HasPages(g, h, L, at) /\ Extent(at[h], p, 0, last)
  BY <1>14, <1>15, <1>17
<1>19. Once(g[p], PagesOf(h, 0, last, at))
  BY <1>3, <1>16, <1>17, <1>18 DEF HasPages
<1> QED
  BY <1>4, <1>17, <1>19

-----------------------------------------------------------------------------
(* The free list *)

\* What follows the pages b of the free list, and b with it.
NextFree(s, b) == IF b = <<>> THEN s.first_free_page ELSE s.page[b[Len(b)]].next
Longer(s, b) == IF NextFree(s, b) = 0 THEN b ELSE Append(b, NextFree(s, b))

\* b is the first i pages of the free list, or all of it.
IsBeginning(b, i, list, n) ==
  /\ b \in Seq(Nat) /\ Len(b) = IF i <= n THEN i ELSE n
  /\ \A x \in 1 .. Len(b) : b[x] = list[n + 1 - x]

LEMMA AppendIs ==
  ASSUME NEW S, NEW b \in Seq(S), NEW q \in S, NEW m \in Nat, m = Len(b)
  PROVE  /\ Append(b, q) \in Seq(S) /\ Len(Append(b, q)) = m + 1 /\ Append(b, q)[m + 1] = q
         /\ \A x \in 1 .. m : Append(b, q)[x] = b[x]
<1>1. PICK c : c = Append(b, q)
  OBVIOUS
<1>2. c \in Seq(S) /\ Len(c) = m + 1 /\ c[m + 1] = q
  BY <1>1
<1>3. \A x \in 1 .. m : c[x] = b[x]
  BY <1>1
<1> QED
  BY <1>1, <1>2, <1>3

LEMMA LongerBeginning ==
  ASSUME NEW s, NEW list \in [Nat -> Nat], NEW n \in Nat, Stacked(s.page, s.first_free_page, list, n),
         NEW i \in Nat, i # 0, NEW b, IsBeginning(b, i - 1, list, n)
  PROVE  IsBeginning(Longer(s, b), i, list, n)
<1>1. /\ \A x \in 1 .. n : /\ list[x] \in Nat /\ list[x] # 0
                            /\ s.page[list[x]].next = IF x = 1 THEN 0 ELSE list[x - 1]
      /\ s.first_free_page = IF n = 0 THEN 0 ELSE list[n]
  <2>1. s.first_free_page = IF n = 0 THEN 0 ELSE list[n]
    BY DEF Stacked
  <2>2. ASSUME NEW x \in 1 .. n
        PROVE  /\ list[x] \in Nat /\ list[x] # 0
               /\ s.page[list[x]].next = IF x = 1 THEN 0 ELSE list[x - 1]
    <3>1. list[x] \in 1 .. Len(s.page) /\ s.page[list[x]].next = IF x = 1 THEN 0 ELSE list[x - 1]
      BY Zenon DEF Stacked
    <3>2. list[x] \in Nat /\ list[x] # 0
      BY <3>1
    <3> QED
      BY <3>1, <3>2
  <2> QED
    BY <2>1, <2>2
<1>2. PICK m \in Nat : m = Len(b) /\ m <= n /\ ((m = n /\ m <= i - 1) \/ m = i - 1)
  <2>1. Len(b) \in Nat
    BY DEF IsBeginning
  <2>2. Len(b) = IF i - 1 <= n THEN i - 1 ELSE n
    BY DEF IsBeginning
  <2>3. PICK m \in Nat : m = Len(b)
    BY <2>1
  <2>4. m <= n /\ ((m = n /\ m <= i - 1) \/ m = i - 1)
    BY <2>2, <2>3
  <2> QED
    BY <2>3, <2>4
<1>3. b \in Seq(Nat) /\ \A x \in 1 .. m : b[x] = list[n + 1 - x]
  BY <1>2 DEF IsBeginning
<1>4. NextFree(s, b) = IF m = n THEN 0 ELSE list[n - m]
  <2>1. CASE m = 0
    <3>1. b = <<>>
      <4>1. b \in Seq(Nat) /\ Len(b) = 0
        BY <1>2, <1>3, <2>1
      <4> QED
        BY <4>1
    <3>2. NextFree(s, b) = s.first_free_page
      BY <3>1 DEF NextFree
    <3>3. (m = n <=> n = 0) /\ n - m = n
      BY <2>1
    <3> QED
      BY <1>1, <3>2, <3>3
  <2>2. CASE m # 0
    <3>1. PICK y \in 1 .. n : y = n + 1 - m
      <4>1. n + 1 - m \in 1 .. n
        BY <1>2, <2>2
      <4> QED
        BY <4>1
    <3>2. b # <<>> /\ b[m] = list[y]
      <4>1. b # <<>>
        BY <1>2, <2>2
      <4>2. m \in 1 .. m
        BY <2>2
      <4> QED
        BY <1>3, <3>1, <4>1, <4>2
    <3>3. NextFree(s, b) = IF y = 1 THEN 0 ELSE list[y - 1]
      BY <1>1, <1>2, <3>2 DEF NextFree
    <3>4. (y = 1 <=> m = n) /\ y - 1 = n - m
      BY <3>1
    <3> QED
      BY <3>3, <3>4
  <2> QED
    BY <2>1, <2>2
<1>5. CASE m = n
  <2>1. Longer(s, b) = b
    BY <1>4, <1>5 DEF Longer
  <2>2. m = IF i <= n THEN i ELSE n
    BY <1>2, <1>5
  <2> QED
    BY <1>2, <1>3, <2>1, <2>2 DEF IsBeginning
<1>6. CASE m # n
  <2>1. PICK y \in 1 .. n : y = n - m /\ m = i - 1 /\ i <= n
    <3>1. m = i - 1 /\ m < n
      BY <1>2, <1>6
    <3>2. n - m \in 1 .. n
      BY <3>1
    <3>3. i <= n
      BY <3>1
    <3> QED
      BY <3>1, <3>2, <3>3
  <2>2. PICK q \in Nat : q = list[y] /\ q # 0
    BY <1>1
  <2>3. Longer(s, b) = Append(b, q)
    BY <1>4, <1>6, <2>1, <2>2 DEF Longer
  <2>4. PICK c : c = Append(b, q)
    OBVIOUS
  <2>5. /\ c \in Seq(Nat) /\ Len(c) = m + 1 /\ c[m + 1] = q
        /\ \A x \in 1 .. m : c[x] = b[x]
    <3>1. PICK S : S = Nat
      OBVIOUS
    <3>2. b \in Seq(S) /\ m = Len(b) /\ q \in S
      BY <1>2, <1>3, <2>2, <3>1
    <3>3. c \in Seq(S) /\ Len(c) = m + 1 /\ c[m + 1] = q
      BY <2>4, <3>2, AppendIs
    <3>4. \A x \in 1 .. m : c[x] = b[x]
      BY <2>4, <3>2, AppendIs
    <3> QED
      BY <3>1, <3>3, <3>4
  <2>6. ASSUME NEW x \in 1 .. m + 1 PROVE c[x] = list[n + 1 - x]
    <3>1. CASE x = m + 1
      <4>1. n + 1 - x = y
        BY <2>1, <3>1
      <4> QED
        BY <2>2, <2>5, <3>1, <4>1
    <3>2. CASE x # m + 1
      <4>1. x \in 1 .. m
        BY <3>2
      <4> QED
        BY <1>3, <2>5, <4>1
    <3> QED
      BY <3>1, <3>2
  <2>7. m + 1 = IF i <= n THEN i ELSE n
    BY <2>1
  <2> QED
    BY <2>3, <2>4, <2>5, <2>6, <2>7 DEF IsBeginning
<1> QED
  BY <1>5, <1>6

\* An injection from the numbers up to n to those up to m.
LEMMA NotMore ==
  ASSUME NEW n \in Nat, NEW m \in Nat, NEW f \in Injection(1 .. n, 1 .. m)
  PROVE  /\ n <= m
         /\ f \in Surjection(1 .. n, 1 .. m) => n = m
<1>1. ASSUME NEW k \in Nat PROVE IsFiniteSet(1 .. k) /\ Cardinality(1 .. k) = k
  <2>1. 1 \in Int /\ k \in Int
    OBVIOUS
  <2>2. IsFiniteSet(1 .. k) /\ Cardinality(1 .. k) = IF 1 > k THEN 0 ELSE k - 1 + 1
    BY <2>1, FS_Interval
  <2>3. (IF 1 > k THEN 0 ELSE k - 1 + 1) = k
    OBVIOUS
  <2> QED
    BY <2>2, <2>3
<1>2. /\ Cardinality(1 .. n) <= Cardinality(1 .. m)
      /\ Cardinality(1 .. n) = Cardinality(1 .. m) <=> f \in Surjection(1 .. n, 1 .. m)
  BY <1>1, FS_Injection
<1> QED
  BY <1>1, <1>2

\* The free list has the free pages, each once.
LEMMA FreeOnce ==
  ASSUME db \in Database, Listed(db.page, db.first_free_page)
  PROVE  Once(FreePages, {p \in 1 .. Len(db.page) : db.page[p].type = "free"})
<1>1. PICK L \in Nat : L = Len(db.page)
  BY PagesAre
<1>2. PICK M \in Nat : M = L + 1
  OBVIOUS
<1>3. PICK list \in [Nat -> Nat], n \in Nat : Stacked(db.page, db.first_free_page, list, n)
  BY DEF Listed
<1> DEFINE Step(b) == Longer(db, b)
           Start == <<>>
           Walk(f) == f = [d \in 0 .. M |-> IF d = 0 THEN Start ELSE Step(f[d - 1])]
           IsListOf(f) == f = [d \in 0 .. M |->
                            IF d = 0 THEN <<>>
                            ELSE LET before == f[d - 1]
                                     next == IF before = <<>> THEN db.first_free_page
                                             ELSE db.page[Last(before)].next
                                 IN IF next = 0 THEN before ELSE Append(before, next)]
           below == CHOOSE f : IsListOf(f)
<1>4. FreePages = below[M]
  BY <1>1, <1>2 DEF FreePages
<1>5. \E f : Walk(f)
  <2> DEFINE G(f, m) == f[0] = Start /\ \A d \in 1 .. m : f[d] = Step(f[d - 1])
             P == {m \in 0 .. M : \E f : G(f, m)}
  <2>1. 0 \in P
    <3>1. PICK f : f = [d \in 0 .. M |-> Start]
      OBVIOUS
    <3>2. f[0] = Start
      BY <3>1
    <3>3. \A d \in 1 .. 0 : FALSE
      OBVIOUS
    <3> HIDE DEF Start, Step
    <3>4. G(f, 0)
      BY <3>2, <3>3
    <3> QED
      BY <3>4
  <2>2. ASSUME NEW m \in 1 .. M, m - 1 \in P PROVE m \in P
    <3> HIDE DEF Start, Step
    <3>1. PICK f : G(f, m - 1)
      BY <2>2
    <3>2. PICK last : last = Step(f[m - 1])
      OBVIOUS
    <3>3. PICK g : g = [d \in 0 .. M |-> IF d = m THEN last ELSE f[d]]
      OBVIOUS
    <3>4. g[0] = Start
      BY <3>1, <3>3
    <3>5. ASSUME NEW d \in 1 .. m PROVE g[d] = Step(g[d - 1])
      <4>1. d \in 0 .. M /\ d - 1 \in 0 .. M /\ d - 1 # m
        OBVIOUS
      <4>2. g[d - 1] = f[d - 1]
        BY <3>3, <4>1
      <4>3. CASE d = m
        <5>1. g[m] = last
          BY <3>3, <4>1, <4>3
        <5> QED
          BY <3>2, <4>2, <4>3, <5>1
      <4>4. CASE d # m
        <5>1. d \in 1 .. m - 1
          BY <4>4
        <5>2. f[d] = Step(f[d - 1])
          BY <3>1, <5>1
        <5>3. g[d] = f[d]
          BY <3>3, <4>1, <4>4
        <5> QED
          BY <4>2, <5>2, <5>3
      <4> QED
        BY <4>3, <4>4
    <3>6. G(g, m)
      BY <3>4, <3>5
    <3> QED
      BY <3>6
  <2> HIDE DEF P, Start, Step
  <2>3. \A m \in 0 .. M : m \in P
    BY <2>1, <2>2, UpTo
  <2>4. PICK f : G(f, M)
    BY <2>3 DEF P
  <2>5. PICK g : g = [d \in 0 .. M |-> f[d]]
    OBVIOUS
  <2>6. ASSUME NEW d \in 0 .. M PROVE g[d] = IF d = 0 THEN Start ELSE Step(g[d - 1])
    <3>1. CASE d = 0
      BY <2>4, <2>5, <3>1
    <3>2. CASE d # 0
      <4>1. d \in 1 .. M /\ d - 1 \in 0 .. M
        BY <3>2
      <4>2. g[d] = f[d] /\ g[d - 1] = f[d - 1] /\ f[d] = Step(f[d - 1])
        BY <2>4, <2>5, <4>1
      <4> QED
        BY <3>2, <4>2
    <3> QED
      BY <3>1, <3>2
  <2>7. g = [d \in 0 .. M |-> IF d = 0 THEN Start ELSE Step(g[d - 1])]
    BY <2>5, <2>6, SMTT(30)
  <2> QED
    BY <2>7
<1>6. ASSUME NEW f, Walk(f) PROVE IsListOf(f)
  BY <1>6, ZenonT(40) DEF Longer, NextFree, Last
<1>7. IsListOf(below)
  <2> HIDE DEF IsListOf, Walk
  <2>1. \E f : IsListOf(f)
    BY <1>5, <1>6
  <2> QED
    BY <2>1
<1> HIDE DEF Walk, below
<1>8. /\ below[0] = <<>>
      /\ \A d \in 1 .. M : below[d] = Longer(db, below[d - 1])
  <2>1. 0 \in 0 .. M /\ \A d \in 1 .. M : d \in 0 .. M /\ d # 0
    OBVIOUS
  <2>2. below[0] = <<>>
    BY <1>7, <2>1, SMTT(30)
  <2>3. ASSUME NEW d \in 1 .. M PROVE below[d] = Longer(db, below[d - 1])
    BY <1>7, <2>1, ZenonT(40) DEF Longer, NextFree, Last
  <2> QED
    BY <2>2, <2>3
<1> HIDE DEF IsListOf
<1>9. PICK P : P = {d \in 0 .. M : IsBeginning(below[d], d, list, n)}
  OBVIOUS
<1>10. 0 \in P
  <2>1. \A x \in 1 .. 0 : FALSE
    OBVIOUS
  <2>2. <<>> \in Seq(Nat) /\ Len(<<>>) = 0 /\ 0 = IF 0 <= n THEN 0 ELSE n
    OBVIOUS
  <2>3. IsBeginning(<<>>, 0, list, n)
    BY <2>1, <2>2 DEF IsBeginning
  <2> QED
    BY <1>8, <1>9, <2>3
<1>11. ASSUME NEW d \in 1 .. M, d - 1 \in P PROVE d \in P
  <2>1. IsBeginning(below[d - 1], d - 1, list, n) /\ d \in Nat /\ d # 0 /\ d \in 0 .. M
    BY <1>9, <1>11
  <2>2. IsBeginning(Longer(db, below[d - 1]), d, list, n)
    BY <1>3, <2>1, LongerBeginning
  <2> QED
    BY <1>8, <1>9, <2>1, <2>2
<1>12. \A d \in 0 .. M : d \in P
  BY <1>10, <1>11, UpTo
<1>13. IsBeginning(below[M], M, list, n)
  BY <1>9, <1>12
\* The list has no more pages than there are.
<1>14. n <= L
  <2>1. PICK f : f = [x \in 1 .. n |-> list[x]]
    OBVIOUS
  <2>2. f \in [1 .. n -> 1 .. L] /\ \A x, y \in 1 .. n : f[x] = f[y] => x = y
    BY <1>1, <1>3, <2>1 DEF Stacked
  <2>3. f \in Injection(1 .. n, 1 .. L)
    BY <2>2 DEF Injection, IsInjective
  <2> QED
    BY <2>3, NotMore
<1>15. PICK c : c = below[M]
  OBVIOUS
<1>16. c \in Seq(Nat) /\ Len(c) = n /\ \A x \in 1 .. n : c[x] = list[n + 1 - x]
  <2>1. /\ c \in Seq(Nat) /\ Len(c) = IF M <= n THEN M ELSE n
        /\ \A x \in 1 .. Len(c) : c[x] = list[n + 1 - x]
    BY <1>13, <1>15 DEF IsBeginning
  <2>2. ~(M <= n)
    BY <1>2, <1>14
  <2>3. Len(c) = n
    BY <2>1, <2>2
  <2> QED
    BY <2>1, <2>3, Zenon
<1>17. \A x \in 1 .. n : n + 1 - x \in 1 .. n /\ n + 1 - (n + 1 - x) = x
  OBVIOUS
<1>18. ASSUME NEW x \in 1 .. n, NEW y \in 1 .. n, c[x] = c[y] PROVE x = y
  <2>1. n + 1 - x = n + 1 - y
    BY <1>3, <1>16, <1>17, <1>18 DEF Stacked
  <2> QED
    BY <2>1
<1>19. ASSUME NEW q
       PROVE  q \in 1 .. L /\ db.page[q].type = "free" <=> \E x \in 1 .. n : c[x] = q
  <2>1. ASSUME q \in 1 .. L, db.page[q].type = "free" PROVE \E x \in 1 .. n : c[x] = q
    <3>1. PICK y \in 1 .. n : list[y] = q
      BY <1>1, <1>3, <2>1 DEF Stacked
    <3>2. c[n + 1 - y] = q /\ n + 1 - y \in 1 .. n
      BY <1>16, <1>17, <3>1
    <3> QED
      BY <3>2
  <2>2. ASSUME NEW x \in 1 .. n, c[x] = q PROVE q \in 1 .. L /\ db.page[q].type = "free"
    <3>1. PICK y \in 1 .. n : list[y] = q
      BY <1>16, <1>17, <2>2
    <3> QED
      BY <1>1, <1>3, <3>1 DEF Stacked
  <2> QED
    BY <2>1, <2>2
<1>20. Once(c, {p \in 1 .. L : db.page[p].type = "free"})
  BY <1>16, <1>18, <1>19 DEF Once
<1> QED
  BY <1>1, <1>4, <1>15, <1>20

\* Every page is in the tree or in the free list, and in one of them once.
LEMMA SoundAccounted ==
  ASSUME NEW store, NEW h, NEW at, Sound(db, store, h, at, at, 0), NoneLost(db, h, at)
  PROVE  PagesAccounted
<1>1. /\ db \in Database /\ Grown(db.page, db.root_page_id, store, h, at, at, 0) /\ h \in Nat
      /\ Listed(db.page, db.first_free_page)
  BY DEF Sound, Grown
<1>2. PICK L \in Nat : L = Len(db.page) /\ DOMAIN db.page = 1 .. L
  BY <1>1, PagesAre
<1>3. PICK U, V : U = PagesOf(h, 0, MAX_ROWS - 1, at) /\ V = {p \in 1 .. L : db.page[p].type = "free"}
  OBVIOUS
<1>4. Once(Tree, U) /\ Once(FreePages, V)
  BY <1>1, <1>2, <1>3, TreeOnce, FreeOnce
<1>5. ASSUME NEW q PROVE q \in U <=> q \in Nat /\ InTree(q, h, at)
  <2>1. \A k \in Ids : 0 <= k /\ k <= MAX_ROWS - 1
    BY IdsAre
  <2> QED
    BY <1>3, <2>1 DEF PagesOf, IsPageOf, InTree
<1>6. ASSUME NEW q, q \in U PROVE q \in 1 .. L /\ db.page[q].type # "free"
  BY <1>1, <1>2, <1>5, <1>6, PageOfLevel DEF InTree
<1>7. ASSUME NEW q \in 1 .. L PROVE q \in U \/ q \in V
  BY <1>2, <1>3, <1>5 DEF NoneLost, Home
<1>8. U \cup V = 1 .. L /\ \A q : q \in U => q \notin V
  BY <1>3, <1>6, <1>7
<1>9. PICK used : used = Tree \o FreePages
  OBVIOUS
<1>10. Once(used, 1 .. L)
  BY <1>4, <1>8, <1>9, JoinOnce
<1>11. PICK N \in Nat : N = Len(used) /\ DOMAIN used = 1 .. N /\ used \in Seq(Nat)
  BY <1>10 DEF Once
<1>12. PICK f : f = [x \in 1 .. N |-> used[x]]
  OBVIOUS
<1>13. /\ f \in [1 .. N -> 1 .. L] /\ \A x, y \in 1 .. N : f[x] = f[y] => x = y
       /\ \A q \in 1 .. L : \E x \in 1 .. N : f[x] = q
  BY <1>10, <1>11, <1>12 DEF Once
<1>14. f \in Injection(1 .. N, 1 .. L)
  BY <1>13 DEF Injection, IsInjective
<1>15. f \in Surjection(1 .. N, 1 .. L)
  BY <1>13 DEF Surjection
<1>16. N = L
  BY <1>14, <1>15, NotMore
<1>17. ToSet(used) = 1 .. L
  BY <1>10, <1>11 DEF Once, ToSet
<1> QED
  BY <1>2, <1>9, <1>11, <1>16, <1>17 DEF PagesAccounted, PageIds

-----------------------------------------------------------------------------
(* The actions *)

\* The inductive invariant: the tree is sound, for some division of the ids, holds some
\* table, and every page is free or in the tree.
IInv == \E store, h, at : Sound(db, store, h, at, at, 0) /\ NoneLost(db, h, at)

\* A new file has one leaf, to which all ids belong.
LEMMA InitSound ==
  ASSUME Init
  PROVE  \E at : Sound(db, {}, 0, at, at, 0) /\ NoneLost(db, 0, at)
<1>1. PICK a \in Division : a = [k \in Ids |-> 1]
  BY DEF Division
<1>2. PICK at : at = [j \in Nat |-> a]
  OBVIOUS
<1>3. at \in [Nat -> Division] /\ at[0] = a /\ \A k \in Ids : a[k] = 1
  BY <1>1, <1>2
<1>4. PICK x : x = NewPage("leaf")
  OBVIOUS
<1>5. /\ x \in Page /\ x.type = "leaf" /\ x.rows = <<>> /\ x.cells = <<>>
      /\ x.next = 0 /\ x.parent = 0 /\ x.prev = 0
  <2>1. x.prev = 0
    BY <1>4 DEF NewPage
  <2> QED
    BY <1>4, <2>1, NewPageIs
<1>6. PICK pg \in Seq(Page) : pg = <<x>> /\ Len(pg) = 1 /\ pg[1] = x
  <2>1. x \in Page
    BY <1>5
  <2>2. <<x>> \in Seq(Page) /\ Len(<<x>>) = 1 /\ <<x>>[1] = x
    BY <2>1
  <2> QED
    BY <2>2
<1>7. /\ db.page = pg /\ db.root_page_id = 1 /\ db.first_free_page = 0 /\ db.next_row = 0
      /\ db \in Database
  BY <1>4, <1>6 DEF Init, Database
<1>8. RowsIn(<<>>, 1, a, {})
  BY DEF RowsIn, InOrder
<1>9. LeafLevel(pg, a, {})
  <2>1. Taken(<<>>) <= NODE_SPACE
    BY EmptyTakes, NodeAssumption
  <2> QED
    BY <1>3, <1>5, <1>6, <1>8, <2>1 DEF LeafLevel
<1>10. Chained(pg, a)
  <2>1. 0 \in Ids /\ MAX_ROWS - 1 \in Ids
    BY IdsAre
  <2> QED
    BY <1>3, <1>5, <1>6, <2>1 DEF Chained
<1>11. Contiguous(a)
  BY <1>3 DEF Contiguous
<1>12. \A j \in 0 .. 0 : j = 0
  OBVIOUS
<1>13. Apart(0, at, at)
  BY <1>12 DEF Apart
<1>14. Grown(pg, 1, {}, 0, at, at, 0)
  <2>1. \A j \in 0 .. 0 : Contiguous(at[j])
    BY <1>3, <1>11, <1>12
  <2>2. \A j \in 1 .. 0 : FALSE
    OBVIOUS
  <2>3. pg[1].parent = 0 /\ \A k \in Ids : at[0][k] = 1
    BY <1>3, <1>5, <1>6
  <2> QED
    BY <1>3, <1>9, <1>10, <1>13, <2>1, <2>2, <2>3 DEF Grown
<1>15. Listed(pg, 0)
  <2>1. [i \in Nat |-> 0] \in [Nat -> Nat] /\ 0 \in Nat /\ \A i \in 1 .. 0 : FALSE
    OBVIOUS
  <2>3. \A p \in 1 .. Len(pg) : pg[p].type # "free"
    BY <1>5, <1>6
  <2>2. Stacked(pg, 0, [i \in Nat |-> 0], 0)
    BY <2>1, <2>3 DEF Stacked
  <2> QED
    BY <2>1, <2>2 DEF Listed
<1>16. 0 <= MAX_ROWS /\ 0 \in Ids /\ 0 \in 0 .. 0
  BY IdsAre
<1>17. NoneLost(db, 0, at)
  <2>1. InTree(1, 0, at)
    BY <1>3, <1>16 DEF InTree
  <2>2. \A p \in 1 .. Len(db.page) : p = 1
    BY <1>6, <1>7
  <2> QED
    BY <2>1, <2>2 DEF NoneLost, Home
<1> QED
  BY <1>7, <1>14, <1>15, <1>16, <1>17 DEF Sound

\* insert
LEMMA AfterInsertHolds ==
  ASSUME HalfPages, NEW store, NEW h, NEW at, Sound(db, store, h, at, at, 0), NoneLost(db, h, at),
         NEW v \in Values, db.next_row < MAX_ROWS
  PROVE  IsStored(AfterInsert(db, v), store, [key |-> db.next_row, val |-> v], db.next_row + 1)
<1>1. PICK row : row = [key |-> db.next_row, val |-> v]
  OBVIOUS
<1>2. PICK s : s = [db EXCEPT !.next_row = @ + 1]
  OBVIOUS
<1>3. PICK p : p = LeafFor(s, row.key)
  OBVIOUS
<1>4. db.next_row < MAX_ROWS
  OBVIOUS
<1>5. AfterInsert(db, v) = WithRow(IF Fits(s.page[p].rows, row) THEN s ELSE SplitLeaf(s, p), row)
  BY <1>1, <1>2, <1>3 DEF AfterInsert
<1>6. Sound(s, store, h, at, at, 0) /\ s.next_row = db.next_row + 1
  BY <1>2, <1>4, IdGiven
<1>11. NoneLost(s, h, at)
  BY <1>2, <1>4, IdGiven DEF NoneLost, Home
<1>7. db.next_row \in Nat /\ \A y \in store : y \in Rows /\ y.key < db.next_row
  BY PagesAre DEF Sound
<1>8. row \in Rows /\ row.key = db.next_row /\ row.key \in Ids /\ row.key < s.next_row
  BY <1>1, <1>4, <1>6, <1>7, IdsAre DEF Rows
<1>9. \A y \in store : y.key # row.key
  BY <1>7, <1>8
<1>10. IsStored(AfterInsert(db, v), store, row, s.next_row)
  BY <1>3, <1>5, <1>6, <1>8, <1>9, <1>11, InsertSound
<1> QED
  BY <1>1, <1>6, <1>10

LEMMA InsertStep ==
  ASSUME HalfPages, NEW store, NEW h, NEW at, Sound(db, store, h, at, at, 0), NoneLost(db, h, at),
         NEW v \in Values, Insert(v)
  PROVE  IsStored(db', store, [key |-> db.next_row, val |-> v], db.next_row + 1)
<1>1. db.next_row < MAX_ROWS /\ db' = AfterInsert(db, v)
  BY DEF Insert
<1> QED
  BY <1>1, AfterInsertHolds

\* A call for an id is for its row, or for none.
LEMMA RowOrNone ==
  ASSUME NEW s, NEW store, NEW h, NEW at, Sound(s, store, h, at, at, 0), NEW k \in Ids
  PROVE  Holds(s.page[LeafFor(s, k)].rows, k) <=> \E y \in store : y.key = k
<1>1. IsFoundAt(s.page[LeafFor(s, k)].rows, k, store)
  BY LeafOf
<1> QED
  BY <1>1 DEF IsFoundAt

\* update
LEMMA AfterUpdateHolds ==
  ASSUME HalfPages, NEW store, NEW h, NEW at, Sound(db, store, h, at, at, 0), NoneLost(db, h, at),
         NEW k \in Ids, NEW v \in Values
  PROVE  \/ AfterUpdate(db, k, v) = db /\ \A y \in store : y.key # k
         \/ \E y \in store : y.key = k /\ IsUpdate(AfterUpdate(db, k, v), store, y, v, db.next_row)
<1>1. PICK p : p = LeafFor(db, k)
  OBVIOUS
<1>2. PICK rows : rows = db.page[p].rows
  OBVIOUS
<1>3. AfterUpdate(db, k, v) =
        IF ~Holds(rows, k) THEN db
        ELSE WithValue(IF UpdateFits(rows, SlotOf(rows, k), v) THEN db ELSE SplitLeaf(db, p), k, v)
  BY <1>1, <1>2 DEF AfterUpdate
<1>4. Holds(rows, k) <=> \E y \in store : y.key = k
  BY <1>1, <1>2, RowOrNone
<1>5. CASE ~Holds(rows, k)
  BY <1>3, <1>4, <1>5
<1>6. CASE Holds(rows, k)
  <2>1. PICK y \in store : y.key = k
    BY <1>4, <1>6
  <2>2. PICK u : u = WithValue(IF UpdateFits(rows, SlotOf(rows, k), v) THEN db ELSE SplitLeaf(db, p), k, v)
    OBVIOUS
  <2>3. IsUpdate(u, store, y, v, db.next_row)
    BY <1>1, <1>2, <2>1, <2>2, UpdateSound
  <2>4. AfterUpdate(db, k, v) = u
    BY <1>3, <1>6, <2>2
  <2> QED
    BY <2>1, <2>3, <2>4
<1> QED
  BY <1>5, <1>6

LEMMA UpdateStep ==
  ASSUME HalfPages, NEW store, NEW h, NEW at, Sound(db, store, h, at, at, 0), NoneLost(db, h, at),
         NEW k \in Ids, NEW v \in Values, Update(k, v)
  PROVE  \/ db' = db /\ \A y \in store : y.key # k
         \/ \E y \in store : y.key = k /\ IsUpdate(db', store, y, v, db.next_row)
<1>1. db' = AfterUpdate(db, k, v)
  BY DEF Update
<1> QED
  BY <1>1, AfterUpdateHolds

\* remove
LEMMA AfterDeleteHolds ==
  ASSUME HalfPages, NEW store, NEW h, NEW at, Sound(db, store, h, at, at, 0), NoneLost(db, h, at),
         Len(db.page) < CHILD_IDS, NEW k \in Ids
  PROVE  \/ AfterDelete(db, k) = db /\ \A y \in store : y.key # k
         \/ \E y \in store : y.key = k /\ Holding(AfterDelete(db, k), store \ {y}, db.next_row)
<1>1. PICK p : p = LeafFor(db, k)
  OBVIOUS
<1>2. PICK rows : rows = db.page[p].rows
  OBVIOUS
<1>3. PICK t : t = WithRows(db, p, RemoveAt(db.page[p].rows, SlotOf(db.page[p].rows, k)))
  OBVIOUS
<1>4. PICK u : u = Balanced(t, p)
  OBVIOUS
<1>5. AfterDelete(db, k) = IF ~Holds(rows, k) THEN db ELSE u
  BY <1>1, <1>2, <1>3, <1>4 DEF AfterDelete, WithRows, Balanced
<1>6. Holds(rows, k) <=> \E y \in store : y.key = k
  BY <1>1, <1>2, RowOrNone
<1>7. CASE ~Holds(rows, k)
  BY <1>5, <1>6, <1>7
<1>8. CASE Holds(rows, k)
  <2>1. PICK y \in store : y.key = k
    BY <1>6, <1>8
  <2>2. Holding(u, store \ {y}, db.next_row)
    BY <1>1, <1>3, <1>4, <2>1, DeleteSound
  <2>3. AfterDelete(db, k) = u
    BY <1>5, <1>8
  <2> QED
    BY <2>1, <2>2, <2>3
<1> QED
  BY <1>7, <1>8

LEMMA DeleteStep ==
  ASSUME HalfPages, NEW store, NEW h, NEW at, Sound(db, store, h, at, at, 0), NoneLost(db, h, at),
         Len(db.page) < CHILD_IDS, NEW k \in Ids, Delete(k)
  PROVE  \/ db' = db /\ \A y \in store : y.key # k
         \/ \E y \in store : y.key = k /\ Holding(db', store \ {y}, db.next_row)
<1>1. db' = AfterDelete(db, k)
  BY DEF Delete
<1> QED
  BY <1>1, AfterDeleteHolds

\* A tree that holds a table finds all rows of it.
LEMMA HoldingFinds ==
  ASSUME NEW t, NEW store, NEW n, Holding(t, store, n)
  PROVE  FoundRows(t) = store /\ t.next_row = n
<1>1. PICK h, g : Sound(t, store, h, g, g, 0)
  BY DEF Holding
<1>2. FoundRows(t) = store
  BY <1>1, AllFound
<1> QED
  BY <1>2 DEF Holding

LEMMA RowFound ==
  ASSUME NEW t, NEW store, NEW n, Holding(t, store, n), NEW row \in store
  PROVE  FoundIn(t, row.key) = {row}
<1>1. PICK h, g : Sound(t, store, h, g, g, 0)
  BY DEF Holding
<1>2. PICK k \in Ids : k = row.key
  BY <1>1, SoundStored DEF Stored
<1>3. FoundIn(t, k) = {z \in store : z.key = k}
  BY <1>1, FoundInIs
<1>4. \A z \in store : z.key = k => z = row
  BY <1>1, <1>2, OneRow
<1> QED
  BY <1>2, <1>3, <1>4

FewPages == Len(db.page) < CHILD_IDS

\* What a call makes of the table: a row more, a row changed, a row less or nothing.
TableStep(t, store, store2, n) ==
  \/ \E v \in Values :
       /\ Insert(v) /\ db.next_row < MAX_ROWS /\ n = db.next_row + 1
       /\ store2 \in {store, store \cup {[key |-> db.next_row, val |-> v]}}
       /\ SameSizes => store2 = store \cup {[key |-> db.next_row, val |-> v]}
  \/ \E y \in store, v \in Values :
       /\ Update(y.key, v) /\ n = db.next_row /\ store2 \in {store, Changed(store, y, v)}
       /\ SameSizes => store2 = Changed(store, y, v)
  \/ \E y \in store : Delete(y.key) /\ n = db.next_row /\ store2 = store \ {y}
  \/ t = db /\ n = db.next_row /\ store2 = store

LEMMA NextStep ==
  ASSUME HalfPages, NEW store, NEW h, NEW at, Sound(db, store, h, at, at, 0), NoneLost(db, h, at),
         FewPages, Next
  PROVE  \E store2, n : Holding(db', store2, n) /\ TableStep(db', store, store2, n)
<1>1. ASSUME db' = db PROVE \E store2, n : Holding(db', store2, n) /\ TableStep(db', store, store2, n)
  <2>1. Holding(db', store, db.next_row)
    BY <1>1 DEF Holding
  <2>2. TableStep(db', store, store, db.next_row)
    BY <1>1 DEF TableStep
  <2> QED
    BY <2>1, <2>2
<1>2. ASSUME NEW v \in Values, Insert(v)
      PROVE  \E store2, n : Holding(db', store2, n) /\ TableStep(db', store, store2, n)
  <2>1. PICK row : row = [key |-> db.next_row, val |-> v]
    OBVIOUS
  <2>2. PICK n : n = db.next_row + 1
    OBVIOUS
  <2>3. IsStored(db', store, row, n)
    BY <1>2, <2>1, <2>2, InsertStep
  <2>4. PICK store2 : /\ Holding(db', store2, n) /\ store2 \in {store, store \cup {row}}
                      /\ SameSizes => store2 = store \cup {row}
    BY <2>3 DEF IsStored
  <2>5. db.next_row < MAX_ROWS
    BY <1>2 DEF Insert
  <2>6. TableStep(db', store, store2, n)
    BY <1>2, <2>1, <2>2, <2>4, <2>5 DEF TableStep
  <2> QED
    BY <2>4, <2>6
<1>3. ASSUME NEW k \in Ids, NEW v \in Values, Update(k, v)
      PROVE  \E store2, n : Holding(db', store2, n) /\ TableStep(db', store, store2, n)
  <2>1. \/ db' = db
        \/ \E y \in store : y.key = k /\ IsUpdate(db', store, y, v, db.next_row)
    BY <1>3, UpdateStep
  <2>2. ASSUME NEW y \in store, y.key = k, IsUpdate(db', store, y, v, db.next_row)
        PROVE  \E store2, n : Holding(db', store2, n) /\ TableStep(db', store, store2, n)
    <3>1. PICK n : n = db.next_row
      OBVIOUS
    <3>2. PICK store2 : /\ Holding(db', store2, n) /\ store2 \in {store, Changed(store, y, v)}
                        /\ SameSizes => store2 = Changed(store, y, v)
      BY <2>2, <3>1 DEF IsUpdate
    <3>3. Update(y.key, v)
      BY <1>3, <2>2
    <3>4. TableStep(db', store, store2, n)
      BY <3>1, <3>2, <3>3 DEF TableStep
    <3> QED
      BY <3>2, <3>4
  <2> QED
    BY <1>1, <2>1, <2>2
<1>4. ASSUME NEW k \in Ids, Delete(k)
      PROVE  \E store2, n : Holding(db', store2, n) /\ TableStep(db', store, store2, n)
  <2>1. \/ db' = db
        \/ \E y \in store : y.key = k /\ Holding(db', store \ {y}, db.next_row)
    BY <1>4, DeleteStep DEF FewPages
  <2>2. ASSUME NEW y \in store, y.key = k, Holding(db', store \ {y}, db.next_row)
        PROVE  \E store2, n : Holding(db', store2, n) /\ TableStep(db', store, store2, n)
    <3>1. Delete(y.key)
      BY <1>4, <2>2
    <3>2. TableStep(db', store, store \ {y}, db.next_row)
      BY <3>1 DEF TableStep
    <3> QED
      BY <2>2, <3>2
  <2> QED
    BY <1>1, <2>1, <2>2
<1> QED
  BY <1>2, <1>3, <1>4 DEF Next

\* A call for one row leaves all others.
LEMMA OthersStep ==
  ASSUME HalfPages, NEW store, NEW h, NEW at, Sound(db, store, h, at, at, 0), NoneLost(db, h, at),
         FewPages, Next
  PROVE  \A row \in Found : \/ FoundIn(db', row.key) = {row}
                            \/ Delete(row.key)
                            \/ \E v \in Values : Update(row.key, v)
<1>1. Found = store
  BY AllFound DEF Found
<1>2. PICK store2, n : Holding(db', store2, n) /\ TableStep(db', store, store2, n)
  BY NextStep
<1>3. ASSUME NEW row \in store
      PROVE  row \in store2 \/ Delete(row.key) \/ \E v \in Values : Update(row.key, v)
  BY <1>2 DEF TableStep, Changed
<1>4. \A row \in store2 : FoundIn(db', row.key) = {row}
  BY <1>2, RowFound
<1> QED
  BY <1>1, <1>3, <1>4

\* The rows of a table by their ids, as RowTable has them.
LEMMA TableRows ==
  ASSUME NEW store, Found = store, NEW y \in store, \A z \in store : z.key = y.key => z = y,
         NEW v
  PROVE  Table!Changed(y.key, v) = Changed(store, y, v) /\ Table!Without(y.key) = store \ {y}
<1>1. Table!Changed(y.key, v) = Changed(store, y, v)
  BY DEF Table!Changed, Changed
<1>2. Table!Without(y.key) = store \ {y}
  BY DEF Table!Without
<1> QED
  BY <1>1, <1>2

LEMMA NoTableRow ==
  ASSUME NEW store, Found = store, NEW k, \A z \in store : z.key # k, NEW v
  PROVE  Table!Changed(k, v) = store /\ Table!Without(k) = store
<1>1. Table!Changed(k, v) = store
  BY DEF Table!Changed
<1>2. Table!Without(k) = store
  BY DEF Table!Without
<1> QED
  BY <1>1, <1>2

\* Rows of one size: what any call would do to the rows that are found is what it promises.
LEMMA CallsExact ==
  ASSUME HalfPages, SameSizes, NEW store, NEW h, NEW at, Sound(db, store, h, at, at, 0), NoneLost(db, h, at),
         FewPages
  PROVE  CallsAreExact
<1>1. Found = store
  BY AllFound DEF Found
<1>2. ASSUME NEW v \in Values, db.next_row < MAX_ROWS
      PROVE  FoundRows(AfterInsert(db, v)) = Table!With(v)
  <2>1. PICK row : row = [key |-> db.next_row, val |-> v]
    OBVIOUS
  <2>2. IsStored(AfterInsert(db, v), store, row, db.next_row + 1)
    BY <1>2, <2>1, AfterInsertHolds
  <2>3. Holding(AfterInsert(db, v), store \cup {row}, db.next_row + 1)
    BY <2>2 DEF IsStored
  <2>4. FoundRows(AfterInsert(db, v)) = store \cup {row}
    BY <2>3, HoldingFinds
  <2> QED
    BY <1>1, <2>1, <2>4 DEF Table!With
<1>3. ASSUME NEW k \in Ids, NEW v \in Values
      PROVE  FoundRows(AfterUpdate(db, k, v)) = Table!Changed(k, v)
  <2>1. CASE AfterUpdate(db, k, v) = db /\ \A y \in store : y.key # k
    <3>1. Table!Changed(k, v) = store
      BY <1>1, <2>1, NoTableRow
    <3> QED
      BY <1>1, <2>1, <3>1 DEF Found
  <2>2. ASSUME NEW y \in store, y.key = k, IsUpdate(AfterUpdate(db, k, v), store, y, v, db.next_row)
        PROVE  FoundRows(AfterUpdate(db, k, v)) = Table!Changed(k, v)
    <3>1. Holding(AfterUpdate(db, k, v), Changed(store, y, v), db.next_row)
      BY <2>2 DEF IsUpdate
    <3>2. FoundRows(AfterUpdate(db, k, v)) = Changed(store, y, v)
      BY <3>1, HoldingFinds
    <3>3. \A z \in store : z.key = y.key => z = y
      BY OneRow
    <3>4. Table!Changed(y.key, v) = Changed(store, y, v)
      BY <1>1, <3>3, TableRows
    <3> QED
      BY <2>2, <3>2, <3>4
  <2> QED
    BY <2>1, <2>2, AfterUpdateHolds
<1>4. ASSUME NEW k \in Ids PROVE FoundRows(AfterDelete(db, k)) = Table!Without(k)
  <2>1. CASE AfterDelete(db, k) = db /\ \A y \in store : y.key # k
    <3>1. Table!Without(k) = store
      BY <1>1, <2>1, NoTableRow
    <3> QED
      BY <1>1, <2>1, <3>1 DEF Found
  <2>2. ASSUME NEW y \in store, y.key = k, Holding(AfterDelete(db, k), store \ {y}, db.next_row)
        PROVE  FoundRows(AfterDelete(db, k)) = Table!Without(k)
    <3>1. FoundRows(AfterDelete(db, k)) = store \ {y}
      BY <2>2, HoldingFinds
    <3>2. \A z \in store : z.key = y.key => z = y
      BY OneRow
    <3>3. Table!Without(y.key) = store \ {y}
      BY <1>1, <3>2, TableRows
    <3> QED
      BY <2>2, <3>1, <3>3
  <2> QED
    BY <2>1, <2>2, AfterDeleteHolds DEF FewPages
<1> QED
  BY <1>2, <1>3, <1>4 DEF CallsAreExact

\* Each step is the call of RowTable with the same arguments.
LEMMA TableNext ==
  ASSUME HalfPages, SameSizes, NEW store, NEW h, NEW at, Sound(db, store, h, at, at, 0), NoneLost(db, h, at),
         FewPages, Next
  PROVE  Table!Next
<1>1. CallsAreExact
  BY CallsExact
<1>2. ASSUME NEW v \in Values, Insert(v) PROVE Table!Insert(v)
  <2>1. ~db.fault /\ db.next_row < MAX_ROWS /\ db' = AfterInsert(db, v)
    BY <1>2 DEF Insert
  <2>2. Found' = Table!With(v)
    BY <1>1, <2>1 DEF CallsAreExact, Found
  <2>3. db'.next_row = db.next_row + 1
    BY <1>2, InsertStep DEF IsStored, Holding
  <2> QED
    BY <2>1, <2>2, <2>3 DEF Table!Insert
<1>3. ASSUME NEW k \in Ids, NEW v \in Values, Update(k, v) PROVE Table!Update(k, v)
  <2>1. ~db.fault /\ db' = AfterUpdate(db, k, v)
    BY <1>3 DEF Update
  <2>2. Found' = Table!Changed(k, v)
    BY <1>1, <2>1 DEF CallsAreExact, Found
  <2>3. db'.next_row = db.next_row
    BY <1>3, UpdateStep DEF IsUpdate, Holding
  <2> QED
    BY <2>2, <2>3 DEF Table!Update
<1>4. ASSUME NEW k \in Ids, Delete(k) PROVE Table!Delete(k)
  <2>1. ~db.fault /\ db' = AfterDelete(db, k)
    BY <1>4 DEF Delete
  <2>2. Found' = Table!Without(k)
    BY <1>1, <2>1 DEF CallsAreExact, Found
  <2>3. db'.next_row = db.next_row
    BY <1>4, DeleteStep DEF Holding, FewPages
  <2> QED
    BY <2>2, <2>3 DEF Table!Delete
<1> QED
  BY <1>2, <1>3, <1>4 DEF Next, Ids, Table!Next

-----------------------------------------------------------------------------
(* The specification *)

LEMMA InitInv == Init => IInv
<1> SUFFICES ASSUME Init PROVE IInv
  OBVIOUS
<1>1. PICK at : Sound(db, {}, 0, at, at, 0) /\ NoneLost(db, 0, at)
  BY InitSound
<1> QED
  BY <1>1 DEF IInv

LEMMA NextInv ==
  ASSUME HalfPages
  PROVE  IInv /\ FewPages /\ [Next]_db => IInv'
<1> SUFFICES ASSUME IInv, FewPages, [Next]_db PROVE IInv'
  OBVIOUS
<1>1. PICK store, h, at : Sound(db, store, h, at, at, 0) /\ NoneLost(db, h, at)
  BY DEF IInv
<1>2. CASE Next
  <2>1. PICK store2, n : Holding(db', store2, n)
    BY <1>1, <1>2, NextStep
  <2> QED
    BY <2>1 DEF Holding, IInv
<1>3. CASE UNCHANGED db
  <2>1. Sound(db', store, h, at, at, 0) /\ NoneLost(db', h, at)
    BY <1>1, <1>3 DEF NoneLost, Home
  <2> QED
    BY <2>1 DEF IInv
<1> QED
  BY <1>2, <1>3

\* As long as no row takes more than half a page, and there are fewer pages than the 2^16
\* that get_child_index can tell apart, every call keeps the tree sound.
THEOREM TreeSound ==
  ASSUME HalfPages
  PROVE  Spec /\ []FewPages => []IInv
<1>1. IInv /\ FewPages /\ [Next]_db => IInv'
  BY NextInv
<1> QED
  BY InitInv, <1>1, PTL DEF Spec

\* No insertion, split, merge or loan of rows puts a row out of the reach of find_leaf_page.
THEOREM ReachableCorrect ==
  ASSUME HalfPages
  PROVE  Spec /\ []FewPages => []RowsReachable
<1>1. IInv => RowsReachable
  BY SoundReachable DEF IInv
<1>2. Spec /\ []FewPages => []IInv
  BY TreeSound
<1> QED
  BY <1>1, <1>2, PTL

\* The parents that the pages record are right after every call, on every level.
THEOREM ParentsCorrect ==
  ASSUME HalfPages
  PROVE  Spec /\ []FewPages => []ParentsExact
<1>1. IInv => ParentsExact
  BY SoundParents DEF IInv
<1>2. Spec /\ []FewPages => []IInv
  BY TreeSound
<1> QED
  BY <1>1, <1>2, PTL

\* The leaves are chained from left to right, in both directions, through every split, merge
\* and loan of rows and whatever pages the free list gave them.
THEOREM LeafChainCorrect ==
  ASSUME HalfPages
  PROVE  Spec /\ []FewPages => []LeafChainExact
<1>1. IInv => LeafChainExact
  BY SoundChain DEF IInv
<1>2. Spec /\ []FewPages => []IInv
  BY TreeSound
<1> QED
  BY <1>1, <1>2, PTL

\* Every page is the superblock, one page of the tree or one page of the free list: no split,
\* merge or change of root loses a page, frees one that is in use or takes one twice.
THEOREM PagesAccountedCorrect ==
  ASSUME HalfPages
  PROVE  Spec /\ []FewPages => []PagesAccounted
<1>1. IInv => PagesAccounted
  BY SoundAccounted DEF IInv
<1>2. Spec /\ []FewPages => []IInv
  BY TreeSound
<1> QED
  BY <1>1, <1>2, PTL

\* No split or merge writes more into a page than it has room for.
THEOREM FitCorrect ==
  ASSUME HalfPages
  PROVE  Spec /\ []FewPages => []NodesFit
<1>1. IInv => NodesFit
  BY SoundFits DEF IInv
<1>2. Spec /\ []FewPages => []IInv
  BY TreeSound
<1> QED
  BY <1>1, <1>2, PTL

\* No call reads a row, a neighbour or a cell that is not there.
THEOREM NoFaultCorrect ==
  ASSUME HalfPages
  PROVE  Spec /\ []FewPages => []NoFault
<1>1. IInv => NoFault
  BY PagesAre DEF IInv, Sound, NoFault
<1>2. Spec /\ []FewPages => []IInv
  BY TreeSound
<1> QED
  BY <1>1, <1>2, PTL

\* No call changes or loses a row it is not called for.
THEOREM OthersCorrect ==
  ASSUME HalfPages
  PROVE  Spec /\ []FewPages => OthersUntouched
<1>1. IInv /\ FewPages /\ [Next]_db =>
        [\/ db'.fault
         \/ \A row \in Found :
              \/ FoundIn(db', row.key) = {row}
              \/ Delete(row.key)
              \/ \E v \in Values : Update(row.key, v)]_db
  <2> SUFFICES ASSUME IInv, FewPages, Next
               PROVE  \A row \in Found :
                        \/ FoundIn(db', row.key) = {row}
                        \/ Delete(row.key)
                        \/ \E v \in Values : Update(row.key, v)
    OBVIOUS
  <2> QED
    BY OthersStep DEF IInv
<1>2. Spec /\ []FewPages => []IInv
  BY TreeSound
<1> QED
  BY <1>1, <1>2, PTL DEF Spec, OthersUntouched

\* When the rows have one size, the tree is a table: every call, with whatever arguments and in
\* whatever state, does what it is called for, to the row it is called for, and to no other; and so does
\* every step.
THEOREM TableImplemented ==
  ASSUME HalfPages, SameSizes
  PROVE  Spec /\ []FewPages => ImplementsRowTable
<1>1. Init => Table!Init
  <2> SUFFICES ASSUME Init PROVE Found = {} /\ db.next_row = 0
    BY DEF Table!Init
  <2>1. PICK at : Sound(db, {}, 0, at, at, 0) /\ NoneLost(db, 0, at)
    BY InitSound
  <2> QED
    BY <2>1, AllFound DEF Found, Init
<1>2. IInv /\ FewPages /\ [Next]_db => [Table!Next]_Table!vars
  <2> SUFFICES ASSUME IInv, FewPages, [Next]_db PROVE Table!Next \/ UNCHANGED Table!vars
    OBVIOUS
  <2>1. CASE Next
    BY <2>1, TableNext DEF IInv
  <2>2. CASE UNCHANGED db
    BY <2>2 DEF Table!vars, Found
  <2> QED
    BY <2>1, <2>2
<1>3. IInv /\ FewPages => CallsAreExact
  BY CallsExact DEF IInv
<1>4. Spec /\ []FewPages => []IInv
  BY TreeSound
<1> QED
  BY <1>1, <1>2, <1>3, <1>4, PTL DEF Spec, ImplementsRowTable, Table!Spec

\* When the rows have one size, what insert and update are given is found afterwards.
THEOREM WritesCorrect ==
  ASSUME HalfPages, SameSizes
  PROVE  Spec /\ []FewPages => WritesAreStored
<1>1. ASSUME IInv, FewPages, NEW v \in Values, Insert(v)
      PROVE  FoundIn(db', db.next_row) = {[key |-> db.next_row, val |-> v]}
  <2>1. PICK store, h, at : Sound(db, store, h, at, at, 0) /\ NoneLost(db, h, at)
    BY <1>1 DEF IInv
  <2>2. PICK row : row = [key |-> db.next_row, val |-> v]
    OBVIOUS
  <2>3. IsStored(db', store, row, db.next_row + 1)
    BY <1>1, <2>1, <2>2, InsertStep
  <2>4. Holding(db', store \cup {row}, db.next_row + 1)
    BY <2>3 DEF IsStored
  <2>5. FoundIn(db', row.key) = {row}
    BY <2>4, RowFound
  <2> QED
    BY <2>2, <2>5
<1>2. ASSUME IInv, FewPages, NEW row \in Found, NEW v \in Values, Update(row.key, v)
      PROVE  FoundIn(db', row.key) = {[row EXCEPT !.val = v]}
  <2>1. PICK store, h, at : Sound(db, store, h, at, at, 0) /\ NoneLost(db, h, at)
    BY <1>2 DEF IInv
  <2>2. row \in store /\ Stored(store)
    BY <2>1, AllFound, SoundStored DEF Found
  <2>3. PICK k \in Ids : k = row.key
    BY <2>2 DEF Stored
  <2>4. PICK y \in store : y.key = k /\ IsUpdate(db', store, y, v, db.next_row)
    BY <1>2, <2>1, <2>2, <2>3, UpdateStep
  <2>5. y = row
    BY <2>1, <2>2, <2>3, <2>4, OneRow
  <2>6. PICK new : new = [row EXCEPT !.val = v]
    OBVIOUS
  <2>7. Holding(db', Changed(store, row, v), db.next_row)
    BY <2>4, <2>5 DEF IsUpdate
  <2>8. new \in Changed(store, row, v) /\ new.key = row.key
    BY <2>2, <2>6 DEF Changed, Stored, Rows
  <2>9. FoundIn(db', new.key) = {new}
    BY <2>7, <2>8, RowFound
  <2> QED
    BY <2>6, <2>8, <2>9
<1>3. IInv /\ FewPages /\ [Next]_db =>
        [/\ \A v \in Values :
              \/ FoundIn(db', db.next_row) = {[key |-> db.next_row, val |-> v]}
              \/ ~Insert(v)
         /\ \A row \in Found, v \in Values :
              \/ FoundIn(db', row.key) = {[row EXCEPT !.val = v]}
              \/ ~Update(row.key, v)]_db
  BY <1>1, <1>2
<1>4. Spec /\ []FewPages => []IInv
  BY TreeSound
<1> QED
  BY <1>3, <1>4, PTL DEF Spec, WritesAreStored
=============================================================================
