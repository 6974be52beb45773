-------------------------- MODULE InnerNodeProofs --------------------------
(***************************************************************************)
(* A leaf is split and the nodes above it with it; a node is borrowed      *)
(* from, merged or given up when it has too few cells.  Each of these      *)
(* handlers takes a sound tree (module TreeLemmas) to a sound one.         *)
(***************************************************************************)
EXTENDS TreeLemmas

-----------------------------------------------------------------------------
(* A new root *)

LEMMA PageIsNode ==
  ASSUME NEW x \in Page, x.type = "internal", x.rows = <<>>
  PROVE  x \in Node
<1>1. /\ x.parent \in Nat /\ x.next \in Nat /\ x.prev \in Nat
      /\ x.cells \in Seq(Cell) /\ x.rightmost \in Nat
      /\ x = [type |-> x.type, parent |-> x.parent, next |-> x.next, prev |-> x.prev, rows |-> x.rows,
              cells |-> x.cells, rightmost |-> x.rightmost]
  BY DEF Page
<1> QED
  BY <1>1 DEF Node

\* A root q of one key above l and r.
IsRooted(t, s, q, l, r, e) ==
  /\ t \in Database /\ Len(s.page) <= Len(t.page) /\ q \in 1 .. Len(t.page)
  /\ \A x \in 1 .. Len(t.page) : x = q \/ x \in 1 .. Len(s.page)
  /\ t.page[q] \in Node /\ t.page[q].cells = <<[child |-> l, key |-> e]>>
  /\ t.page[q].rightmost = r /\ t.page[q].parent = 0
  /\ \A x \in 1 .. Len(s.page) : x # q =>
       /\ SameBody(t.page[x], s.page[x]) /\ SameLinks(t.page[x], s.page[x])
       /\ t.page[x].parent = IF x \in {l, r} THEN q ELSE s.page[x].parent
  /\ t.root_page_id = q /\ t.next_row = s.next_row
  /\ Listed(t.page, t.first_free_page)

LEMMA RootedPages ==
  ASSUME NEW s \in Database, Listed(s.page, s.first_free_page),
         NEW l \in 1 .. Len(s.page), NEW r \in 1 .. Len(s.page), NEW e \in Nat,
         s.page[l].type # "free", s.page[r].type # "free",
         NEW cut, cut.left = l, cut.right = r, cut.key = e
  PROVE  \E t, u \in Database, q \in Nat :
           /\ t = Rooted(s, cut) /\ IsAllocated(u, s, q, "internal") /\ IsRooted(t, s, q, l, r, e)
<1>1. PICK u \in Database, q \in Nat : /\ u = Allocated(s, "internal") /\ IsAllocated(u, s, q, "internal")
                                      /\ Listed(u.page, u.first_free_page)
  BY AllocatedEffect
<1>2. /\ q = NewId(s) /\ q \in 1 .. Len(u.page) /\ u.page[q] = NewPage("internal")
      /\ Len(s.page) \in Nat /\ Len(u.page) \in Nat /\ Len(s.page) <= Len(u.page)
      /\ \A x \in 1 .. Len(s.page) : x \in 1 .. Len(u.page) /\ (x # q => u.page[x] = s.page[x])
      /\ l # q /\ r # q /\ u.next_row = s.next_row
      /\ \A x \in 1 .. Len(u.page) : x = q \/ x \in 1 .. Len(s.page)
  <2>1. Len(s.page) \in Nat /\ Len(u.page) \in Nat
    BY PagesAre
  <2>2. l # q /\ r # q
    BY <1>1 DEF IsAllocated
  <2>3. /\ q = NewId(s) /\ q \in 1 .. Len(u.page) /\ u.page[q] = NewPage("internal")
        /\ Len(s.page) <= Len(u.page) /\ u.next_row = s.next_row
    BY <1>1 DEF IsAllocated
  <2>4. /\ \A x \in 1 .. Len(s.page) : x # q => u.page[x] = s.page[x]
        /\ \A x \in 1 .. Len(u.page) : x = q \/ x \in 1 .. Len(s.page)
    BY <1>1, Zenon DEF IsAllocated
  <2>5. \A x \in 1 .. Len(s.page) : x \in 1 .. Len(u.page)
    BY <2>1, <2>3
  <2> QED
    BY <2>1, <2>2, <2>3, <2>4, <2>5
<1>3. PICK v : v = Adopted(u, {l, r}, q) /\ IsAdopted(v, u, {l, r}, q)
  BY AdoptedEffect
<1>4. PICK c \in Seq(Cell) : c = <<[child |-> l, key |-> e]>>
  <2>1. l \in Nat
    BY <1>2
  <2>2. PICK x \in Cell : x = [child |-> l, key |-> e]
    BY <2>1 DEF Cell
  <2>3. <<x>> \in Seq(Cell)
    OBVIOUS
  <2> QED
    BY <2>2, <2>3
<1>5. PICK v1, y1 : /\ v1 = [v EXCEPT !.page[q].cells = c] /\ IsSet(v1, v, q, y1)
                    /\ IsWithCells(y1, v.page[q], c, v.page[q].rightmost)
  <2>1. v \in Database /\ q \in 1 .. Len(v.page)
    BY <1>2, <1>3 DEF IsAdopted
  <2> QED
    BY <2>1, SetCells
<1>6. PICK v2, y2 : /\ v2 = [v1 EXCEPT !.page[q].rightmost = r] /\ IsSet(v2, v1, q, y2)
                    /\ IsWithCells(y2, v1.page[q], v1.page[q].cells, r)
  <2>1. v1 \in Database /\ q \in 1 .. Len(v1.page) /\ r \in Nat
    BY <1>2, <1>3, <1>5 DEF IsAdopted, IsSet
  <2> QED
    BY <2>1, SetRightmost
<1>7. PICK t \in Database : /\ t = [v2 EXCEPT !.root_page_id = q] /\ t.page = v2.page /\ t.root_page_id = q
                            /\ t.first_free_page = v2.first_free_page /\ t.next_row = v2.next_row
  <2>1. v2 \in Database
    BY <1>6 DEF IsSet
  <2> QED
    BY <2>1, Renumbered, ZenonT(40)
<1>8. t = Rooted(s, cut)
  <2>1. v = Adopted(Allocated(s, "internal"), {cut.left, cut.right}, NewId(s))
    BY <1>1, <1>2, <1>3
  <2>2. t = [v EXCEPT !.page[q].cells = <<[child |-> l, key |-> e]>>,
                      !.page[q].rightmost = r, !.root_page_id = q]
    BY <1>4, <1>5, <1>6, <1>7
  <2> QED
    BY <1>2, <2>1, <2>2 DEF Rooted
<1>9. /\ Len(t.page) = Len(u.page) /\ t.first_free_page = u.first_free_page /\ t.next_row = s.next_row
      /\ t.page[q] = y2 /\ \A x \in 1 .. Len(u.page) : x # q => t.page[x] = v.page[x]
  <2>1. Len(v.page) = Len(u.page) /\ v.first_free_page = u.first_free_page /\ v.next_row = s.next_row
    BY <1>2, <1>3 DEF IsAdopted
  <2>2. /\ Len(v1.page) = Len(v.page) /\ v1.first_free_page = v.first_free_page
        /\ v1.next_row = v.next_row /\ \A x \in 1 .. Len(v.page) : x # q => v1.page[x] = v.page[x]
    BY <1>5 DEF IsSet
  <2>3. /\ Len(v2.page) = Len(v1.page) /\ v2.first_free_page = v1.first_free_page /\ v2.page[q] = y2
        /\ v2.next_row = v1.next_row /\ \A x \in 1 .. Len(v1.page) : x # q => v2.page[x] = v1.page[x]
    BY <1>6 DEF IsSet
  <2> QED
    BY <1>7, <2>1, <2>2, <2>3
<1>10. \A x \in 1 .. Len(u.page) :
         /\ SameBody(v.page[x], u.page[x]) /\ SameLinks(v.page[x], u.page[x])
         /\ v.page[x].parent = IF x \in {l, r} THEN q ELSE u.page[x].parent
  BY <1>3 DEF IsAdopted
<1>11. y2 \in Node /\ y2.cells = c /\ y2.rightmost = r /\ y2.parent = 0
  <2>1. v.page[q].type = "internal" /\ v.page[q].rows = <<>> /\ v.page[q].parent = 0
    BY <1>2, <1>10, NewPageIs, SMTT(30) DEF SameBody
  <2>2. y2 \in Page /\ y2.type = "internal" /\ y2.rows = <<>> /\ y2.parent = 0 /\ y2.cells = c /\ y2.rightmost = r
    BY <1>2, <1>3, <1>5, <1>6, <2>1 DEF IsWithCells, IsSet, IsAdopted
  <2> QED
    BY <2>2, PageIsNode
<1>12. Listed(t.page, t.first_free_page)
  <2>1. ASSUME NEW x \in 1 .. Len(u.page), u.page[x].type = "free"
        PROVE  t.page[x].type = "free" /\ t.page[x].next = u.page[x].next
    <3>1. x # q
      BY <1>2, <2>1, NewPageIs
    <3> QED
      BY <1>9, <1>10, <2>1, <3>1, SMTT(30) DEF SameBody, SameLinks
  <2>2. Len(u.page) <= Len(t.page) /\ Len(t.page) \in Nat
    BY <1>2, <1>9
  <2>3. ASSUME NEW x \in 1 .. Len(t.page), t.page[x].type = "free"
        PROVE  x \in 1 .. Len(u.page) /\ u.page[x].type = "free" /\ t.page[x].rows = u.page[x].rows
    <3>1. x \in 1 .. Len(u.page) /\ x # q
      BY <1>9, <1>11, <2>3, NodeIsPage
    <3> QED
      BY <1>9, <1>10, <2>3, <3>1, SMTT(30) DEF SameBody
  <2> QED
    BY <1>1, <1>2, <1>9, <2>1, <2>2, <2>3, ListedKept
<1>13. IsRooted(t, s, q, l, r, e)
  <2>1. ASSUME NEW x \in 1 .. Len(s.page), x # q
        PROVE  /\ SameBody(t.page[x], s.page[x]) /\ SameLinks(t.page[x], s.page[x])
               /\ t.page[x].parent = IF x \in {l, r} THEN q ELSE s.page[x].parent
    BY <1>2, <1>9, <1>10, <2>1, ZenonT(40)
  <2> QED
    BY <1>2, <1>4, <1>7, <1>9, <1>11, <1>12, <2>1 DEF IsRooted
<1> QED
  BY <1>1, <1>8, <1>13

\* The levels after it: one more, all of whose ids are the new root's.
IsRaised(h, g2, at2, g, at, q) ==
  /\ \A i \in Nat : i # h + 1 => g2[i] = g[i]
  /\ \A i \in Nat : i # h /\ i # h + 1 => at2[i] = at[i]
  /\ at2[h] = g[h] /\ at2[h + 1] = g2[h + 1] /\ \A k \in Ids : g2[h + 1][k] = q

LEMMA RootedSound ==
  ASSUME NEW s, NEW store, NEW h, NEW g, NEW at, Sound(s, store, h, g, at, 0), Inside(h, g, at),
         NEW l \in Nat, NEW r \in Nat, l # r, NEW e \in Ids, e - 1 \in Ids,
         at[h][e] = l, IsDivided(g[h], at[h], l, r, e),
         NEW cut, cut.left = l, cut.right = r, cut.key = e
  PROVE  \E t \in Database, q \in Nat : \E g2, at2 :
           /\ t = Rooted(s, cut) /\ Fresh(q, h, g, at) /\ IsRaised(h, g2, at2, g, at, q)
           /\ Sound(t, store, h + 1, g2, at2, 0)
           /\ Len(s.page) <= Len(t.page) /\ t.next_row = s.next_row
           /\ \A x \in 1 .. Len(s.page) : x # q => SameBody(t.page[x], s.page[x])
           /\ Keeps(t, h + 1, g2, s, h, g, {})
<1>1. /\ s \in Database /\ Listed(s.page, s.first_free_page)
      /\ Grown(s.page, s.root_page_id, store, h, g, at, 0)
  BY DEF Sound
<1>2. Len(s.page) \in Nat
  BY <1>1, PagesAre
<1>3. /\ IsDivision(h, g, at) /\ LeafLevel(s.page, g[0], store) /\ Chained(s.page, g[0])
      /\ \A i \in 1 .. h : NodeLevel(s.page, g[i], at[i - 1], 0)
      /\ \A i \in 1 .. h : Adopts(s.page, g[i - 1], at[i - 1], g[i])
      /\ s.page[s.root_page_id].parent = 0 /\ \A k \in Ids : at[h][k] = s.root_page_id
  BY <1>1 DEF Grown, IsDivision
<1>4. /\ h \in Nat /\ g \in [Nat -> Division] /\ at \in [Nat -> Division] /\ Apart(h, g, at)
      /\ h \in 0 .. h /\ h + 1 \in Nat /\ \A i \in 0 .. h : Contiguous(g[i]) /\ Contiguous(at[i])
  BY <1>3 DEF IsDivision
<1>5. \A k \in Ids : at[h][k] = l
  BY <1>3
<1>6. PICK b \in Division : b = g[h] /\ Contiguous(b)
  BY <1>4
<1>7. \A k \in Ids : b[k] = IF k < e THEN l ELSE r
  BY <1>5, <1>6 DEF IsDivided
<1>8. b[e - 1] = l /\ b[e] = r
  <2>1. e - 1 < e /\ ~(e < e)
    BY IdsAre
  <2> QED
    BY <1>7, <2>1
<1>9. \A i \in 0 .. h, k \in Ids : /\ g[i][k] \in Nat /\ g[i][k] \in 1 .. Len(s.page)
                                   /\ g[i][k] # 0 /\ s.page[g[i][k]].type # "free"
  BY <1>1, <1>2, PageOfLevel
<1>10. /\ l \in 1 .. Len(s.page) /\ s.page[l].type # "free"
       /\ r \in 1 .. Len(s.page) /\ s.page[r].type # "free"
  BY <1>4, <1>6, <1>8, <1>9
<1>11. PICK t, u \in Database, q \in Nat :
         /\ t = Rooted(s, cut) /\ IsAllocated(u, s, q, "internal") /\ IsRooted(t, s, q, l, r, e)
  <2>1. e \in Nat
    BY IdsAre
  <2> QED
    BY <1>1, <1>10, <2>1, RootedPages, SMTT(30)
<1>12. Fresh(q, h, g, at)
  BY <1>1, <1>11, AllocatedFresh
<1>13. \A i \in 0 .. h, k \in Ids : g[i][k] # q /\ at[i][k] # q
  BY <1>12 DEF Fresh
<1>14. /\ t \in Database /\ Len(s.page) <= Len(t.page) /\ q \in 1 .. Len(t.page)
       /\ t.page[q] \in Node /\ t.page[q].cells = <<[child |-> l, key |-> e]>>
       /\ t.page[q].rightmost = r /\ t.page[q].parent = 0
       /\ \A x \in 1 .. Len(s.page) : x # q =>
            /\ SameBody(t.page[x], s.page[x]) /\ SameLinks(t.page[x], s.page[x])
            /\ t.page[x].parent = IF x \in {l, r} THEN q ELSE s.page[x].parent
       /\ t.root_page_id = q /\ t.next_row = s.next_row /\ Listed(t.page, t.first_free_page)
       /\ \A x \in 1 .. Len(t.page) : x = q \/ x \in 1 .. Len(s.page)
  BY <1>11 DEF IsRooted
<1>15. PICK c \in Division : \A k \in Ids : c[k] = q
  <2>1. [k \in Ids |-> q] \in Division
    BY DEF Division
  <2> QED
    BY <2>1
<1>16. PICK g2 : g2 = [g EXCEPT ![h + 1] = c]
  OBVIOUS
<1>17. PICK at2 : at2 = [at EXCEPT ![h] = b, ![h + 1] = c]
  OBVIOUS
<1>18. /\ g2 \in [Nat -> Division] /\ at2 \in [Nat -> Division]
       /\ \A i \in Nat : i # h + 1 => g2[i] = g[i]
       /\ \A i \in Nat : i # h /\ i # h + 1 => at2[i] = at[i]
       /\ at2[h] = b /\ at2[h + 1] = c /\ g2[h + 1] = c
  BY <1>4, <1>16, <1>17
<1>19. Contiguous(c)
  BY <1>15 DEF Contiguous
<1>20. \A i \in 0 .. h : i \in Nat /\ i # h + 1
  BY <1>4
<1>21. \A i \in 0 .. h + 1 : i = h + 1 \/ i \in 0 .. h
  BY <1>4
<1>22. ASSUME NEW i \in 0 .. h + 1 PROVE Contiguous(g2[i]) /\ Contiguous(at2[i])
  BY <1>4, <1>6, <1>18, <1>19, <1>20, <1>21
<1>23. Apart(h + 1, g2, at2)
  <2>1. ASSUME NEW i \in 0 .. h, NEW k \in Ids
        PROVE  /\ \E m \in Ids : g2[i][k] = g[i][m]
               /\ \E m \in Ids : at2[i][k] = g[i][m] \/ at2[i][k] = at[i][m]
    BY <1>6, <1>18, <1>20
  <2>2. Among(h + 1, g2, at2, h, g, at, h + 1, q)
    BY <1>15, <1>18, <1>21, <2>1 DEF Among
  <2> QED
    BY <1>4, <1>12, <2>2, ApartStill
<1>24. ASSUME NEW i \in 0 .. h, NEW k \in Ids
       PROVE  /\ g[i][k] \in 1 .. Len(t.page) /\ t.page[g[i][k]] \in Page
              /\ SameBody(t.page[g[i][k]], s.page[g[i][k]]) /\ SameLinks(t.page[g[i][k]], s.page[g[i][k]])
              /\ t.page[g[i][k]].parent = IF g[i][k] \in {l, r} THEN q ELSE s.page[g[i][k]].parent
  <2>1. g[i][k] \in 1 .. Len(s.page) /\ g[i][k] # q
    BY <1>9, <1>13
  <2>2. g[i][k] \in 1 .. Len(t.page)
    BY <1>2, <1>14, <2>1, PagesAre
  <2>3. t.page[g[i][k]] \in Page
    BY <1>14, <2>2, PagesAre
  <2> QED
    BY <1>14, <2>1, <2>2, <2>3
<1>25. LeafLevel(t.page, g2[0], store) /\ Chained(t.page, g2[0])
  <2>1. 0 \in 0 .. h /\ g2[0] = g[0]
    BY <1>4, <1>18
  <2>2. LeafLevel(t.page, g[0], store)
    BY <1>3, <1>24, <2>1, LeafLevelKept
  <2>3. Chained(t.page, g[0])
    BY <1>3, <1>24, <2>1, ChainedKept
  <2> QED
    BY <2>1, <2>2, <2>3
<1>26. ASSUME NEW i \in 1 .. h + 1 PROVE NodeLevel(t.page, g2[i], at2[i - 1], 0)
  <2>1. CASE i = h + 1
    <3>1. g2[i] = c /\ at2[i - 1] = b
      BY <1>4, <1>18, <2>1
    <3>2. NodeIn(t.page[q], q, c, b) /\ Nested(c, b) /\ Len(t.page[q].cells) = 1
      <4>1. PICK n \in Node : n = t.page[q] /\ n.cells = <<[child |-> l, key |-> e]>> /\ n.rightmost = r
        BY <1>14
      <4>2. NodeIn(n, q, c, b) /\ Nested(c, b) /\ Len(n.cells) = 1
        BY <1>7, <1>15, <4>1, NodeOfTwo, SMTT(30)
      <4> QED
        BY <4>1, <4>2
    <3>3. 1 <= MAX_CELLS
      <4>1. PICK m \in Nat : m = MIN_CELLS /\ 1 <= m
        BY CellCounts
      <4> QED
        BY <4>1, CellCounts
    <3>4. t.page[q].cells # <<>>
      BY <1>14
    <3>5. NodeLevel(t.page, c, b, 0)
      BY <1>14, <1>15, <3>2, <3>3, <3>4 DEF NodeLevel
    <3> QED
      BY <3>1, <3>5
  <2>2. CASE i \in 1 .. h
    <3>1. i \in 0 .. h /\ g2[i] = g[i] /\ at2[i - 1] = at[i - 1]
      BY <1>4, <1>18, <2>2
    <3>2. NodeLevel(s.page, g[i], at[i - 1], 0)
      BY <1>3, <2>2
    <3> QED
      BY <1>24, <3>1, <3>2, NodeLevelKept
  <2> QED
    BY <1>4, <2>1, <2>2
<1>27. ASSUME NEW i \in 1 .. h + 1 PROVE Adopts(t.page, g2[i - 1], at2[i - 1], g2[i])
  <2>1. CASE i = h + 1
    <3>1. i - 1 = h /\ i - 1 \in 0 .. h /\ g2[i] = c /\ g2[i - 1] = b
      BY <1>4, <1>6, <1>18, <2>1
    <3>2. \A k \in Ids : t.page[b[k]].parent = q
      BY <1>4, <1>6, <1>7, <1>24
    <3> QED
      BY <1>15, <3>1, <3>2 DEF Adopts
  <2>2. CASE i \in 1 .. h
    <3>1. /\ i \in 0 .. h /\ i - 1 \in 0 .. h /\ i - 1 # h
          /\ g2[i] = g[i] /\ at2[i - 1] = at[i - 1] /\ g2[i - 1] = g[i - 1]
      BY <1>4, <1>18, <2>2
    <3>2. ASSUME NEW k \in Ids PROVE g[i - 1][k] \notin {l, r}
      BY <1>4, <1>6, <1>8, <3>1, ApartAt
    <3>3. Adopts(s.page, g[i - 1], at[i - 1], g[i])
      BY <1>3, <2>2
    <3>4. \A k \in Ids : t.page[g[i - 1][k]].parent = s.page[g[i - 1][k]].parent
      BY <1>24, <3>1, <3>2
    <3> QED
      BY <3>1, <3>3, <3>4 DEF Adopts
  <2> QED
    BY <1>4, <2>1, <2>2
<1>28. Grown(t.page, t.root_page_id, store, h + 1, g2, at2, 0)
  <2>1. \A k \in Ids : at2[h + 1][k] = q
    BY <1>15, <1>18
  <2> QED
    BY <1>4, <1>14, <1>18, <1>22, <1>23, <1>25, <1>26, <1>27, <2>1 DEF Grown
<1>29. Sound(t, store, h + 1, g2, at2, 0)
  BY <1>14, <1>28 DEF Sound
<1>30. IsRaised(h, g2, at2, g, at, q)
  BY <1>6, <1>15, <1>18 DEF IsRaised
<1>31. Keeps(t, h + 1, g2, s, h, g, {})
  <2>1. ASSUME NEW x, InTree(x, h, g) PROVE InTree(x, h + 1, g2)
    <3>1. PICK i \in 0 .. h, k \in Ids : g[i][k] = x
      BY <2>1 DEF InTree
    <3>2. i \in 0 .. h + 1 /\ g2[i] = g[i]
      BY <1>4, <1>18, <1>20
    <3> QED
      BY <3>1, <3>2 DEF InTree
  <2>2. InTree(q, h + 1, g2)
    <3>1. h + 1 \in 0 .. h + 1 /\ g2[h + 1][e] = q
      BY <1>4, <1>15, <1>18
    <3> QED
      BY <3>1 DEF InTree
  <2>3. ASSUME NEW x \in 1 .. Len(t.page), Home(x, s, h, g), x # q
        PROVE  t.page[x].type = "free" \/ InTree(x, h + 1, g2)
    BY <1>14, <2>1, <2>3 DEF SameBody, Home
  <2> QED
    BY <2>2, <2>3 DEF Keeps, Home
<1> QED
  BY <1>11, <1>12, <1>14, <1>29, <1>30, <1>31

-----------------------------------------------------------------------------
(* A node is told of a new child *)

\* Node p is m in t, and the pages of C have parent up.
IsPut(t, s, p, m, C, up) ==
  /\ t \in Database /\ Len(t.page) = Len(s.page) /\ SameBody(t.page[p], m)
  /\ \A x \in 1 .. Len(s.page) :
       /\ x # p => SameBody(t.page[x], s.page[x]) /\ SameLinks(t.page[x], s.page[x])
       /\ t.page[x].parent = IF x \in C THEN up ELSE s.page[x].parent
  /\ t.root_page_id = s.root_page_id /\ t.next_row = s.next_row
  /\ Listed(t.page, t.first_free_page)

LEMMA PutAndAdopt ==
  ASSUME NEW s \in Database, Listed(s.page, s.first_free_page), NEW p \in 1 .. Len(s.page),
         s.page[p].type # "free", NEW m \in Node, m.parent = s.page[p].parent, NEW C, NEW up \in Nat
  PROVE  IsPut(Adopted([s EXCEPT !.page[p] = m], C, up), s, p, m, C, up)
<1>1. PICK u : u = [s EXCEPT !.page[p] = m] /\ IsSet(u, s, p, m)
  <2>1. m \in Page
    BY NodeIsPage
  <2> QED
    BY <2>1, SetPage
<1>2. /\ u \in Database /\ Len(u.page) = Len(s.page) /\ u.page[p] = m
      /\ \A y \in 1 .. Len(s.page) : y # p => u.page[y] = s.page[y]
      /\ u.root_page_id = s.root_page_id /\ u.next_row = s.next_row
      /\ u.first_free_page = s.first_free_page
  BY <1>1 DEF IsSet
<1>3. PICK t : t = Adopted(u, C, up) /\ IsAdopted(t, u, C, up)
  BY <1>2, AdoptedEffect
<1>4. /\ t \in Database /\ Len(t.page) = Len(s.page)
      /\ \A x \in 1 .. Len(s.page) :
           /\ SameBody(t.page[x], u.page[x]) /\ SameLinks(t.page[x], u.page[x])
           /\ t.page[x].parent = IF x \in C THEN up ELSE u.page[x].parent
      /\ t.root_page_id = s.root_page_id /\ t.next_row = s.next_row
      /\ t.first_free_page = s.first_free_page
  BY <1>2, <1>3 DEF IsAdopted
<1>5. ASSUME NEW x \in 1 .. Len(s.page)
      PROVE  /\ x # p => SameBody(t.page[x], s.page[x]) /\ SameLinks(t.page[x], s.page[x])
             /\ t.page[x].parent = IF x \in C THEN up ELSE s.page[x].parent
  BY <1>2, <1>4
<1>6. Listed(t.page, t.first_free_page)
  <2>1. ASSUME NEW x \in 1 .. Len(s.page), s.page[x].type = "free"
        PROVE  t.page[x].type = "free" /\ t.page[x].next = s.page[x].next
    BY <1>5, <2>1 DEF SameBody, SameLinks
  <2>2. Len(s.page) <= Len(t.page) /\ Len(t.page) \in Nat /\ Len(s.page) \in Nat
    BY <1>4, PagesAre
  <2>3. ASSUME NEW x \in 1 .. Len(t.page), t.page[x].type = "free"
        PROVE  x \in 1 .. Len(s.page) /\ s.page[x].type = "free" /\ t.page[x].rows = s.page[x].rows
    <3>1. x \in 1 .. Len(s.page) /\ u.page[x].type = "free" /\ t.page[x].rows = u.page[x].rows
      BY <1>4, <2>3 DEF SameBody
    <3>2. x # p
      BY <1>2, <3>1, NodeIsPage
    <3> QED
      BY <1>2, <3>1, <3>2
  <2> QED
    BY <1>4, <2>1, <2>2, <2>3, ListedKept
<1>7. SameBody(t.page[p], m)
  BY <1>2, <1>4
<1> QED
  BY <1>1, <1>3, <1>4, <1>5, <1>6, <1>7 DEF IsPut

LEMMA WithCellKeeps ==
  ASSUME NEW n \in Node, NEW k, NEW l, NEW r
  PROVE  WithCell(n, k, l, r).parent = n.parent
BY DEF WithCell, Node

\* Level j has the new page r beside l, of which the nodes above it are not told.
IsSplit(g, seen, j, l, r, e) ==
  /\ l \in Nat /\ r \in Nat /\ l # r /\ e \in Ids /\ e - 1 \in Ids
  /\ seen[j][e - 1] = l /\ seen[j][e] = l /\ \A k \in Ids : seen[j][k] # r
  /\ IsDivided(g[j], seen[j], l, r, e)

\* The node above is told of the new page.
IsTold(t, seen2, s, store, h, g, seen, j, cut, parent) ==
  /\ t = Attached(s, cut, parent)
  /\ \A i \in Nat : seen2[i] = IF i = j THEN g[j] ELSE seen[i]
  /\ Sound(t, store, h, g, seen2, 0) /\ Inside(h, g, seen2)
  /\ Len(t.page) = Len(s.page) /\ t.next_row = s.next_row
  /\ \A x \in 1 .. Len(s.page) : x # parent => SameBody(t.page[x], s.page[x])
  /\ Keeps(t, h, g, s, h, g, {})
LEMMA AttachedSound ==
  ASSUME NEW s, NEW store, NEW h, NEW g, NEW seen, Sound(s, store, h, g, seen, 0),
         Inside(h, g, seen), NEW j \in 0 .. h, j # h,
         NEW cut, IsSplit(g, seen, j, cut.left, cut.right, cut.key),
         NEW parent, parent = g[j + 1][cut.key], Len(s.page[parent].cells) < MAX_CELLS
  PROVE  \E t \in Database : \E seen2 : IsTold(t, seen2, s, store, h, g, seen, j, cut, parent)
<1>1. /\ s \in Database /\ Listed(s.page, s.first_free_page)
      /\ Grown(s.page, s.root_page_id, store, h, g, seen, 0)
  BY DEF Sound
<1>0. PICK l \in Nat, r \in Nat, e \in Ids :
        /\ cut.left = l /\ cut.right = r /\ cut.key = e /\ l # r /\ e - 1 \in Ids
        /\ seen[j][e - 1] = l /\ seen[j][e] = l /\ \A k \in Ids : seen[j][k] # r
        /\ IsDivided(g[j], seen[j], l, r, e) /\ parent = g[j + 1][e]
  BY DEF IsSplit
<1>2. Len(s.page) \in Nat
  BY <1>1, PagesAre
<1>3. /\ IsDivision(h, g, seen) /\ LeafLevel(s.page, g[0], store) /\ Chained(s.page, g[0])
      /\ \A i \in 1 .. h : NodeLevel(s.page, g[i], seen[i - 1], 0)
      /\ \A i \in 1 .. h : Adopts(s.page, g[i - 1], seen[i - 1], g[i])
      /\ s.page[s.root_page_id].parent = 0 /\ \A k \in Ids : seen[h][k] = s.root_page_id
  BY <1>1 DEF Grown, IsDivision
<1>4. /\ h \in Nat /\ g \in [Nat -> Division] /\ seen \in [Nat -> Division] /\ Apart(h, g, seen)
      /\ j \in Nat /\ j + 1 \in 1 .. h /\ j + 1 \in Nat /\ j + 1 \in 0 .. h /\ j + 1 - 1 = j /\ h \in 0 .. h
      /\ \A i \in 0 .. h : i \in Nat /\ Contiguous(g[i]) /\ Contiguous(seen[i])
  BY <1>3 DEF IsDivision
<1>5. PICK down \in Division : down = seen[j] /\ Contiguous(down)
  BY <1>4
<1>6. PICK b \in Division : b = g[j] /\ Contiguous(b) /\ IsDivided(b, down, l, r, e)
  BY <1>0, <1>4, <1>5
<1>7. PICK a \in Division : a = g[j + 1]
  BY <1>4
<1>8. \A i \in 0 .. h, k \in Ids : /\ g[i][k] \in Nat /\ g[i][k] \in 1 .. Len(s.page)
                                   /\ g[i][k] # 0 /\ s.page[g[i][k]].type # "free"
  BY <1>1, <1>2, PageOfLevel
<1>9. PICK p \in Nat : p = parent /\ p = a[e] /\ p \in 1 .. Len(s.page) /\ s.page[p].type # "free"
  BY <1>0, <1>4, <1>7, <1>8
<1>10. NodeLevel(s.page, a, down, 0)
  BY <1>3, <1>4, <1>5, <1>7
<1>11. PICK n \in Node : /\ n = s.page[p] /\ NodeIn(n, p, a, down)
  BY <1>9, <1>10 DEF NodeLevel, NodeIn
<1>12. Nested(a, down)
  BY <1>10 DEF NodeLevel
<1>13. \A k \in Ids : b[k] = IF down[k] # l THEN down[k] ELSE IF k < e THEN l ELSE r
  BY <1>6 DEF IsDivided
<1>14. PICK m \in Node : /\ m = WithCell(n, e, l, r) /\ Len(m.cells) = Len(n.cells) + 1
                         /\ NodeIn(m, p, a, b) /\ Nested(a, b)
  <2>1. down[e - 1] = l /\ down[e] = l /\ a[e] = p /\ \A k \in Ids : down[k] # r
    BY <1>0, <1>5, <1>9
  <2>2. PICK m \in Node, below \in Division : IsKidAdded(m, below, n, p, l, r, e, a, down)
    BY <1>0, <1>5, <1>11, <1>12, <2>1, AddKid
  <2>3. \A k \in Ids : below[k] = IF down[k] # l THEN down[k] ELSE IF k < e THEN l ELSE r
    BY <2>2 DEF IsKidAdded
  <2>4. \A k \in Ids : below[k] = b[k]
    BY <1>13, <2>3
  <2>5. below = b
    BY <2>4 DEF Division
  <2> QED
    BY <2>2, <2>5 DEF IsKidAdded
<1>15. m.parent = s.page[p].parent
  BY <1>11, <1>14, WithCellKeeps
<1>16. PICK t : t = Attached(s, cut, p) /\ IsPut(t, s, p, m, {l, r}, p)
  <2>1. Attached(s, cut, p) = Adopted([s EXCEPT !.page[p] = m], {l, r}, p)
    BY <1>0, <1>11, <1>14 DEF Attached
  <2> QED
    BY <1>1, <1>9, <1>15, <2>1, PutAndAdopt
<1>17. /\ t \in Database /\ Len(t.page) = Len(s.page) /\ SameBody(t.page[p], m)
       /\ \A x \in 1 .. Len(s.page) :
            /\ x # p => SameBody(t.page[x], s.page[x]) /\ SameLinks(t.page[x], s.page[x])
            /\ t.page[x].parent = IF x \in {l, r} THEN p ELSE s.page[x].parent
       /\ t.root_page_id = s.root_page_id /\ t.next_row = s.next_row
       /\ Listed(t.page, t.first_free_page)
  BY <1>16 DEF IsPut
<1>18. PICK seen2 : seen2 = [seen EXCEPT ![j] = b]
  OBVIOUS
<1>19. /\ seen2 \in [Nat -> Division] /\ \A i \in Nat : seen2[i] = IF i = j THEN b ELSE seen[i]
  BY <1>4, <1>18
<1>20. Apart(h, g, seen2)
  <2>1. ASSUME NEW i \in 0 .. h, NEW k \in Ids
        PROVE  /\ \E x \in Ids : g[i][k] = g[i][x]
               /\ \E x \in Ids : seen2[i][k] = g[i][x] \/ seen2[i][k] = seen[i][x]
    BY <1>4, <1>6, <1>19
  <2>2. h \in Nat /\ h <= h /\ g \in [Nat -> Division] /\ seen \in [Nat -> Division] /\ Apart(h, g, seen)
    BY <1>4
  <2>3. NoNew(h, g, seen2, g, seen)
    BY <2>1 DEF NoNew
  <2> QED
    BY <2>2, <2>3, ApartSame
<1>21. ASSUME NEW i \in 0 .. h PROVE Contiguous(g[i]) /\ Contiguous(seen2[i])
  BY <1>4, <1>6, <1>19
<1>22. b[e - 1] = l /\ b[e] = r
  <2>1. e - 1 < e /\ ~(e < e)
    BY IdsAre
  <2> QED
    BY <1>0, <1>5, <1>13, <2>1
<1>23. ASSUME NEW i \in 0 .. h, i # j, NEW k \in Ids PROVE g[i][k] \notin {l, r}
  <2>1. g[j][e - 1] = l /\ g[j][e] = r
    BY <1>6, <1>22
  <2>2. Apart(h, g, seen)
    BY <1>4
  <2>3. g[i][k] = g[j][e - 1] => i = j
    BY <1>0, <2>2, ApartAt
  <2>4. g[i][k] = g[j][e] => i = j
    BY <2>2, ApartAt
  <2> QED
    BY <1>23, <2>1, <2>3, <2>4
<1>24. ASSUME NEW i \in 0 .. h, i # j + 1, NEW k \in Ids PROVE g[i][k] # p
  BY <1>4, <1>7, <1>9, <1>24, ApartAt, SMTT(30)
<1>25. ASSUME NEW i \in 0 .. h, NEW k \in Ids
       PROVE  /\ g[i][k] \in 1 .. Len(t.page) /\ t.page[g[i][k]] \in Page
              /\ g[i][k] # p => /\ SameBody(t.page[g[i][k]], s.page[g[i][k]])
                                /\ SameLinks(t.page[g[i][k]], s.page[g[i][k]])
              /\ t.page[g[i][k]].parent = IF g[i][k] \in {l, r} THEN p ELSE s.page[g[i][k]].parent
  <2>1. g[i][k] \in 1 .. Len(s.page) /\ g[i][k] \in 1 .. Len(t.page)
    BY <1>8, <1>17
  <2>2. t.page[g[i][k]] \in Page
    BY <1>17, <2>1, PagesAre
  <2> QED
    BY <1>17, <2>1, <2>2
<1>26. LeafLevel(t.page, g[0], store) /\ Chained(t.page, g[0])
  <2>1. 0 \in 0 .. h /\ 0 # j + 1
    BY <1>4
  <2>2. \A k \in Ids : /\ g[0][k] \in 1 .. Len(t.page)
                       /\ SameBody(t.page[g[0][k]], s.page[g[0][k]])
                       /\ SameLinks(t.page[g[0][k]], s.page[g[0][k]])
    BY <1>24, <1>25, <2>1
  <2> QED
    BY <1>3, <2>2, LeafLevelKept, ChainedKept
<1>27. NodeLevel(t.page, a, b, 0)
  <2>1. /\ p \in 1 .. Len(t.page) /\ NodeIn(t.page[p], p, a, b)
        /\ Len(t.page[p].cells) <= MAX_CELLS /\ t.page[p].cells # <<>>
    <3>1. t.page[p] \in Page /\ p \in 1 .. Len(t.page)
      BY <1>9, <1>17, PagesAre
    <3>2. NodeIn(t.page[p], p, a, b)
      BY <1>14, <1>17, <3>1, NodeKept, SMTT(30)
    <3>3. PICK L \in Nat : L = Len(n.cells) /\ L < MAX_CELLS /\ Len(t.page[p].cells) = L + 1
      BY <1>9, <1>11, <1>14, <1>17, CellsType, SMTT(30) DEF SameBody
    <3>4. Len(t.page[p].cells) <= MAX_CELLS
      BY <3>3, CellCounts
    <3>5. t.page[p].cells # <<>>
      <4>1. Len(t.page[p].cells) # 0
        BY <3>3
      <4> QED
        BY <4>1
    <3> QED
      BY <3>1, <3>2, <3>4, <3>5
  <2>2. ASSUME NEW k \in Ids, a[k] # p
        PROVE  /\ a[k] \in 1 .. Len(t.page) /\ NodeIn(t.page[a[k]], a[k], a, b)
               /\ Len(t.page[a[k]].cells) <= MAX_CELLS /\ t.page[a[k]].cells # <<>>
    <3>1. PICK x \in Nat : x = a[k] /\ x # p /\ x # 0
      BY <1>4, <1>7, <1>8, <2>2
    <3>2. /\ NodeIn(s.page[x], x, a, down) /\ Len(s.page[x].cells) <= MAX_CELLS
          /\ s.page[x].cells # <<>>
      BY <1>10, <3>1 DEF NodeLevel
    <3>3. x \in 1 .. Len(t.page) /\ t.page[x] \in Page /\ SameBody(t.page[x], s.page[x])
      BY <1>4, <1>7, <1>25, <3>1
    <3>4. \A y \in Ids : a[y] = x => b[y] = down[y]
      <4>1. \A y \in Ids : down[y] = l => a[y] = p
        BY <1>0, <1>5, <1>9, <1>12 DEF Nested
      <4> QED
        BY <1>13, <3>1, <4>1
    <3>5. NodeIn(s.page[x], x, a, b)
      BY <3>2, <3>4, NodeInSame
    <3>6. NodeIn(t.page[x], x, a, b)
      BY <3>3, <3>5, NodeKept
    <3> QED
      BY <3>1, <3>2, <3>3, <3>6 DEF SameBody
  <2>3. ASSUME NEW k \in Ids
        PROVE  /\ a[k] \in 1 .. Len(t.page) /\ NodeIn(t.page[a[k]], a[k], a, b)
               /\ Len(t.page[a[k]].cells) <= MAX_CELLS /\ t.page[a[k]].cells # <<>>
    BY <2>1, <2>2
  <2> QED
    BY <1>14, <2>3 DEF NodeLevel
<1>28. ASSUME NEW i \in 1 .. h PROVE NodeLevel(t.page, g[i], seen2[i - 1], 0)
  <2>1. i \in 0 .. h /\ i - 1 \in Nat /\ (i = j + 1 \/ (i # j + 1 /\ i - 1 # j))
    BY <1>4
  <2>2. CASE i = j + 1
    BY <1>4, <1>7, <1>19, <1>27, <2>2
  <2>3. CASE i # j + 1 /\ i - 1 # j
    <3>1. NodeLevel(s.page, g[i], seen[i - 1], 0) /\ seen2[i - 1] = seen[i - 1]
      BY <1>3, <1>19, <2>1, <2>3
    <3>2. \A k \in Ids : /\ g[i][k] \in 1 .. Len(t.page) /\ t.page[g[i][k]] \in Page
                         /\ SameBody(t.page[g[i][k]], s.page[g[i][k]])
      BY <1>24, <1>25, <2>1, <2>3
    <3> QED
      BY <3>1, <3>2, NodeLevelKept
  <2> QED
    BY <2>1, <2>2, <2>3
<1>29. ASSUME NEW i \in 1 .. h PROVE Adopts(t.page, g[i - 1], seen2[i - 1], g[i])
  <2>1. /\ i \in 0 .. h /\ i - 1 \in Nat /\ i - 1 \in 0 .. h /\ (i = j + 1 \/ (i # j + 1 /\ i - 1 # j))
        /\ Adopts(s.page, g[i - 1], seen[i - 1], g[i])
    BY <1>3, <1>4
  <2>2. CASE i = j + 1
    <3>1. i - 1 = j /\ g[i - 1] = b /\ g[i] = a /\ seen[i - 1] = down
      BY <1>4, <1>5, <1>6, <1>7, <2>2
    <3>2. ASSUME NEW k \in Ids PROVE t.page[b[k]].parent = a[k]
      <4>1. t.page[b[k]].parent = IF b[k] \in {l, r} THEN p ELSE s.page[b[k]].parent
        BY <1>6, <1>25
      <4>2. CASE b[k] \in {l, r}
        <5>1. down[k] = l
          BY <1>0, <1>5, <1>13, <4>2
        <5> QED
          BY <1>0, <1>5, <1>9, <1>12, <4>1, <4>2, <5>1 DEF Nested
      <4>3. CASE b[k] \notin {l, r}
        <5>1. b[k] = down[k]
          BY <1>13, <4>3
        <5> QED
          BY <2>1, <3>1, <4>1, <4>3, <5>1 DEF Adopts
      <4> QED
        BY <4>2, <4>3
    <3> QED
      BY <3>1, <3>2 DEF Adopts
  <2>3. CASE i # j + 1 /\ i - 1 # j
    <3>1. seen2[i - 1] = seen[i - 1]
      BY <1>19, <2>1, <2>3
    <3>2. \A k \in Ids : t.page[g[i - 1][k]].parent = s.page[g[i - 1][k]].parent
      BY <1>23, <1>25, <2>1, <2>3
    <3> QED
      BY <2>1, <3>1, <3>2 DEF Adopts
  <2> QED
    BY <2>1, <2>2, <2>3
<1>30. t.page[t.root_page_id].parent = 0 /\ \A k \in Ids : seen2[h][k] = t.root_page_id
  <2>1. \A k \in Ids : seen[h][k] = s.root_page_id /\ seen2[h] = seen[h]
    BY <1>3, <1>4, <1>19
  <2>2. s.root_page_id \notin {l, r}
    <3>1. seen[h][e] # l /\ seen[h][e] # r
      <4>1. g[j][e - 1] = l /\ g[j][e] = r
        BY <1>6, <1>22
      <4>2. Apart(h, g, seen) /\ h \in 0 .. h
        BY <1>4
      <4>3. seen[h][e] = g[j][e - 1] => h = j
        BY <1>0, <4>2, ApartAt
      <4>4. seen[h][e] = g[j][e] => h = j
        BY <4>2, ApartAt
      <4> QED
        BY <4>1, <4>3, <4>4
    <3> QED
      BY <1>3, <3>1
  <2>3. s.root_page_id \in 1 .. Len(s.page)
    <3>1. PICK x \in Ids : seen[h][e] = g[h][x]
      BY <1>4 DEF Inside
    <3> QED
      BY <1>3, <1>4, <1>8, <3>1
  <2>4. t.page[s.root_page_id].parent = s.page[s.root_page_id].parent
    BY <1>17, <2>2, <2>3
  <2> QED
    BY <1>3, <1>17, <2>1, <2>4
<1>31. Sound(t, store, h, g, seen2, 0)
  <2>1. Grown(t.page, t.root_page_id, store, h, g, seen2, 0)
    BY <1>4, <1>19, <1>20, <1>21, <1>26, <1>28, <1>29, <1>30 DEF Grown
  <2> QED
    BY <1>17, <2>1 DEF Sound
<1>32. Inside(h, g, seen2)
  <2>1. ASSUME NEW i \in 0 .. h, NEW k \in Ids PROVE \E x \in Ids : seen2[i][k] = g[i][x]
    <3>1. \E x \in Ids : seen[i][k] = g[i][x]
      BY DEF Inside
    <3> QED
      BY <1>4, <1>6, <1>19, <3>1
  <2> QED
    BY <2>1 DEF Inside
<1>33. Keeps(t, h, g, s, h, g, {})
  <2>1. \A x \in 1 .. Len(s.page) : s.page[x].type = "free" => t.page[x].type = "free"
    BY <1>9, <1>17 DEF SameBody
  <2> QED
    BY <1>17, <2>1, KeepsTo
<1> QED
  BY <1>6, <1>9, <1>16, <1>17, <1>19, <1>31, <1>32, <1>33, SMTT(30) DEF IsTold

-----------------------------------------------------------------------------
(* From a page up and from the root down *)

\* The levels from j on are known to those above them.
Known(j, h, at, seen) == \A i \in j .. h : seen[i] = at[i]

\* No level without a page: the searches up and down may go through all levels.
LEMMA HeightFits ==
  ASSUME NEW pg, Len(pg) \in Nat, NEW root, NEW store, NEW h, NEW at, NEW seen, NEW thin,
         Grown(pg, root, store, h, at, seen, thin)
  PROVE  h \in Nat /\ h < Len(pg)
<1>1. /\ h \in Nat /\ Apart(h, at, seen) /\ 0 \in Ids
      /\ \A i \in 0 .. h : at[i][0] \in 1 .. Len(pg)
  <2>1. \A i \in 0 .. h, k \in Ids : at[i][k] \in 1 .. Len(pg)
    BY PageOfLevel
  <2> QED
    BY <2>1, IdsAre DEF Grown
<1>2. SUFFICES ASSUME Len(pg) <= h PROVE FALSE
  BY <1>1
<1>3. PICK f : f = [i \in 0 .. h |-> at[i][0]]
  OBVIOUS
<1>4. f \in [0 .. h -> 1 .. Len(pg)]
  BY <1>1, <1>3
<1>5. /\ IsFiniteSet(0 .. h) /\ Cardinality(0 .. h) = h + 1
      /\ IsFiniteSet(1 .. Len(pg)) /\ Cardinality(1 .. Len(pg)) = Len(pg)
  <2>1. h \in Int /\ Len(pg) \in Int /\ 0 \in Int /\ 1 \in Int
    BY <1>1
  <2>2. /\ IsFiniteSet(0 .. h) /\ Cardinality(0 .. h) = IF 0 > h THEN 0 ELSE h - 0 + 1
        /\ IsFiniteSet(1 .. Len(pg)) /\ Cardinality(1 .. Len(pg)) = IF 1 > Len(pg) THEN 0 ELSE Len(pg) - 1 + 1
    BY <2>1, FS_Interval
  <2> QED
    BY <1>1, <2>2
<1>6. Cardinality(1 .. Len(pg)) < Cardinality(0 .. h)
  BY <1>1, <1>2, <1>5
<1>7. PICK x, y \in 0 .. h : x # y /\ f[x] = f[y]
  BY <1>4, <1>5, <1>6, FS_PigeonHole
<1>8. at[x][0] = at[y][0]
  BY <1>3, <1>7
<1> QED
  BY <1>1, <1>7, <1>8, ApartAt

\* A path through the pages, one level per step.
LEMMA AncestorsAre ==
  ASSUME NEW s, NEW store, NEW h, NEW at, NEW seen, NEW thin,
         Sound(s, store, h, at, seen, thin), NEW j \in 0 .. h, Known(j, h, at, seen), NEW k \in Ids
  PROVE  Ancestors(s, at[j][k]) = [i \in 1 .. h - j |-> at[j + i][k]]
<1>1. s \in Database /\ Grown(s.page, s.root_page_id, store, h, at, seen, thin)
  BY DEF Sound
<1>2. PICK L \in Nat : L = Len(s.page) /\ h \in Nat /\ h < L
  BY <1>1, PagesAre, HeightFits
<1>3. \A i \in 0 .. h : at[i][k] \in Nat /\ at[i][k] # 0
  BY <1>1, <1>2, PageOfLevel
<1>4. ASSUME NEW i \in j .. h PROVE s.page[at[i][k]].parent = IF i < h THEN at[i + 1][k] ELSE 0
  <2>1. i \in Nat /\ seen[i] = at[i] /\ seen[i][k] = at[i][k]
    BY <1>2 DEF Known
  <2>2. CASE i < h
    <3>1. i + 1 \in 1 .. h /\ i + 1 - 1 = i
      BY <1>2, <2>1, <2>2
    <3>2. Adopts(s.page, at[i], seen[i], at[i + 1])
      BY <1>1, <3>1 DEF Grown
    <3> QED
      BY <2>1, <2>2, <3>2 DEF Adopts
  <2>3. CASE ~(i < h)
    <3>1. i = h
      BY <1>2, <2>1, <2>3
    <3> QED
      BY <1>1, <2>1, <3>1 DEF Grown
  <2> QED
    BY <2>2, <2>3
<1> DEFINE Up(i, x) == LET q == x IN IF q = 0 THEN 0 ELSE s.page[q].parent
           w == [i \in 0 .. L |-> IF j + i <= h THEN at[j + i][k] ELSE 0]
           above == CHOOSE f : f = [i \in 0 .. L |-> IF i = 0 THEN at[j][k] ELSE Up(i, f[i - 1])]
<1>5. w = [i \in 0 .. L |-> IF i = 0 THEN at[j][k] ELSE Up(i, w[i - 1])]
  <2>1. ASSUME NEW i \in 0 .. L PROVE w[i] = IF i = 0 THEN at[j][k] ELSE Up(i, w[i - 1])
    <3>1. CASE i = 0
      BY <1>2, <3>1
    <3>2. CASE i # 0
      <4>1. i - 1 \in 0 .. L /\ i - 1 \in Nat /\ j + (i - 1) + 1 = j + i /\ j \in Nat
        BY <1>2, <3>2
      <4>2. CASE j + i <= h
        <5>1. j + (i - 1) \in j .. h /\ j + (i - 1) < h /\ j + (i - 1) \in 0 .. h
          BY <1>2, <4>1, <4>2
        <5>2. w[i - 1] = at[j + (i - 1)][k] /\ w[i] = at[j + i][k]
          BY <4>1, <4>2, <5>1
        <5>3. s.page[at[j + (i - 1)][k]].parent = at[j + i][k]
          BY <1>4, <4>1, <5>1
        <5> QED
          BY <1>3, <3>2, <5>1, <5>2, <5>3
      <4>3. CASE ~(j + i <= h)
        <5>1. CASE j + (i - 1) = h
          <6>1. h \in j .. h /\ h \in 0 .. h /\ ~(h < h)
            BY <1>2, <4>1
          <6>2. w[i - 1] = at[h][k] /\ w[i] = 0
            BY <1>2, <4>1, <4>3, <5>1
          <6>3. s.page[at[h][k]].parent = 0
            BY <1>4, <6>1
          <6> QED
            BY <1>3, <3>2, <6>1, <6>2, <6>3
        <5>2. CASE j + (i - 1) # h
          <6>1. ~(j + (i - 1) <= h)
            BY <1>2, <4>1, <4>3, <5>2
          <6>2. w[i - 1] = 0 /\ w[i] = 0
            BY <4>1, <4>3, <6>1, SMTT(30)
          <6> QED
            BY <3>2, <6>2
        <5> QED
          BY <5>1, <5>2
      <4> QED
        BY <4>2, <4>3
    <3> QED
      BY <3>1, <3>2
  <2> QED
    BY <2>1
<1> HIDE DEF w
<1>6. above = [i \in 0 .. L |-> IF i = 0 THEN at[j][k] ELSE Up(i, above[i - 1])]
  BY <1>5, ZenonT(40)
<1>7. Ancestors(s, at[j][k]) =
        LET height == CHOOSE n \in 0 .. L - 1 : above[n] # 0 /\ above[n + 1] = 0
        IN [i \in 1 .. height |-> above[i]]
  BY <1>2 DEF Ancestors
<1> HIDE DEF above
<1>8. \A i \in 0 .. L : above[i] = w[i]
  <2> DEFINE P == {i \in 0 .. L : above[i] = w[i]}
  <2>1. 0 \in P
    BY <1>5, <1>6
  <2>2. \A i \in 1 .. L : i - 1 \in P => i \in P
    BY <1>5, <1>6
  <2> HIDE DEF P
  <2>3. \A i \in 0 .. L : i \in P
    BY <2>1, <2>2, UpTo
  <2> QED
    BY <2>3 DEF P
<1>9. PICK H \in Nat : H = h - j /\ H < L /\ j \in Nat
  BY <1>2
<1>10. ASSUME NEW i \in 0 .. L PROVE above[i] = IF i <= H THEN at[j + i][k] ELSE 0
  <2>1. j + i <= h <=> i <= H
    BY <1>2, <1>9
  <2> QED
    BY <1>8, <2>1 DEF w
<1>11. ASSUME NEW n \in 0 .. L - 1 PROVE above[n] # 0 /\ above[n + 1] = 0 <=> n = H
  <2>1. n \in 0 .. L /\ n + 1 \in 0 .. L /\ n \in Nat
    BY <1>2
  <2>2. n <= H => above[n] # 0
    BY <1>2, <1>3, <1>9, <1>10, <2>1
  <2>3. n + 1 <= H => above[n + 1] # 0
    BY <1>2, <1>3, <1>9, <1>10, <2>1
  <2>4. ~(n <= H) => above[n] = 0
    BY <1>10, <2>1
  <2>5. ~(n + 1 <= H) => above[n + 1] = 0
    BY <1>10, <2>1
  <2> QED
    BY <1>9, <2>1, <2>2, <2>3, <2>4, <2>5
<1>12. (CHOOSE n \in 0 .. L - 1 : above[n] # 0 /\ above[n + 1] = 0) = H
  <2>1. H \in 0 .. L - 1
    BY <1>2, <1>9
  <2> QED
    BY <1>11, <2>1
<1>13. \A i \in 1 .. H : above[i] = at[j + i][k]
  BY <1>9, <1>10
<1> QED
  BY <1>7, <1>9, <1>12, <1>13

\* The descent passes the pages of an id, to its leaf.
LEMMA LeafForIs ==
  ASSUME NEW s, NEW store, NEW h, NEW at, NEW seen, NEW thin,
         Sound(s, store, h, at, seen, thin), Known(0, h, at, seen), NEW k \in Ids
  PROVE  LeafFor(s, k) = at[0][k]
<1>1. s \in Database /\ Grown(s.page, s.root_page_id, store, h, at, seen, thin)
  BY DEF Sound
<1>2. PICK L \in Nat : L = Len(s.page) /\ h \in Nat /\ h < L
  BY <1>1, PagesAre, HeightFits
<1>3. \A i \in 0 .. h : at[i][k] \in 1 .. L
  BY <1>1, <1>2, PageOfLevel
<1> DEFINE down == [p \in DOMAIN s.page |->
                 IF s.page[p].type = "internal" THEN Kids(s.page[p])[CellFor(s.page[p], k)]
                 ELSE p]
           root == s.root_page_id
           w == [d \in 0 .. L |-> IF d <= h THEN at[h - d][k] ELSE at[0][k]]
           path == CHOOSE f : f = [d \in 0 .. L |-> IF d = 0 THEN root ELSE down[f[d - 1]]]
<1>4. LeafFor(s, k) = path[L]
  BY <1>2 DEF LeafFor
<1>5. ASSUME NEW i \in 1 .. h PROVE down[at[i][k]] = at[i - 1][k]
  <2>1. i \in 0 .. h /\ i - 1 \in 0 .. h
    BY <1>2
  <2>2. at[i][k] \in DOMAIN s.page
    BY <1>1, <1>2, <1>3, <2>1, PagesAre
  <2>3. s.page[at[i][k]].type = "internal"
    <3>1. IsLevel(s.page, at[i], "internal")
      BY <1>1, <1>2, LevelIs
    <3> QED
      BY <3>1 DEF IsLevel
  <2>4. NodeIn(s.page[at[i][k]], at[i][k], at[i], seen[i - 1])
    BY <1>1 DEF Grown, NodeLevel
  <2>5. KidFor(s.page[at[i][k]], k) = seen[i - 1][k]
    BY <2>4 DEF NodeIn
  <2>6. seen[i - 1] = at[i - 1]
    BY <2>1 DEF Known
  <2> QED
    BY <2>2, <2>3, <2>5, <2>6 DEF KidFor
<1>6. down[at[0][k]] = at[0][k]
  <2>1. 0 \in 0 .. h
    BY <1>2
  <2>2. at[0][k] \in DOMAIN s.page
    BY <1>1, <1>2, <1>3, <2>1, PagesAre
  <2>3. s.page[at[0][k]].type = "leaf"
    <3>1. IsLevel(s.page, at[0], "leaf")
      BY <1>1, <1>2, LevelIs
    <3> QED
      BY <3>1 DEF IsLevel
  <2> QED
    BY <2>2, <2>3
<1>7. at[h][k] = root
  <2>1. h \in 0 .. h
    BY <1>2
  <2>2. seen[h] = at[h] /\ seen[h][k] = root
    BY <1>1, <2>1 DEF Known, Grown
  <2> QED
    BY <2>2
<1> HIDE DEF down, root
<1>8. ASSUME NEW d \in 0 .. L PROVE w[d] = IF d = 0 THEN root ELSE down[w[d - 1]]
  <2>1. CASE d = 0
    BY <1>2, <1>7, <2>1
  <2>2. CASE d # 0
    <3>1. d - 1 \in 0 .. L /\ d \in Nat /\ d - 1 \in Nat
      BY <1>2, <2>2
    <3>2. CASE d <= h
      <4>1. h - (d - 1) \in 1 .. h /\ h - (d - 1) - 1 = h - d /\ d - 1 <= h
        BY <1>2, <3>1, <3>2
      <4>2. w[d - 1] = at[h - (d - 1)][k] /\ w[d] = at[h - d][k]
        BY <3>1, <3>2, <4>1
      <4> QED
        BY <1>5, <2>2, <4>1, <4>2
    <3>3. CASE ~(d <= h)
      <4>1. w[d - 1] = at[0][k]
        <5>1. d - 1 <= h => h - (d - 1) = 0
          BY <1>2, <3>1, <3>3
        <5> QED
          BY <3>1, <5>1
      <4>2. w[d] = at[0][k]
        BY <3>3
      <4> QED
        BY <1>6, <2>2, <4>1, <4>2
    <3> QED
      BY <3>2, <3>3
  <2> QED
    BY <2>1, <2>2
<1>9. w = [d \in 0 .. L |-> IF d = 0 THEN root ELSE down[w[d - 1]]]
  BY <1>8
<1>10. w[L] = at[0][k]
  BY <1>2
<1> HIDE DEF w
<1>11. path = [d \in 0 .. L |-> IF d = 0 THEN root ELSE down[path[d - 1]]]
  BY <1>9
<1> HIDE DEF path
<1>12. path[L] = w[L]
  <2> DEFINE P == {i \in 0 .. L : path[i] = w[i]}
  <2>1. 0 \in P
    BY <1>9, <1>11
  <2>2. \A i \in 1 .. L : i - 1 \in P => i \in P
    BY <1>9, <1>11
  <2> HIDE DEF P
  <2>3. \A i \in 0 .. L : i \in P
    BY <2>1, <2>2, UpTo
  <2> QED
    BY <2>3 DEF P
<1> QED
  BY <1>4, <1>10, <1>12

-----------------------------------------------------------------------------
(* split_leaf_node, on the way up *)

\* Where a run of numbers not in F ends.
LEMMA FirstOf ==
  ASSUME NEW n \in Nat, NEW F
  PROVE  \E t \in 0 .. n : (\A i \in 1 .. t : i \notin F) /\ (t < n => t + 1 \in F)
<1> DEFINE T == {t \in 0 .. n : t = n \/ t + 1 \in F}
<1>1. n \in T /\ T \in SUBSET Nat
  OBVIOUS
<1>2. PICK t \in T : \A m \in T : t <= m
  <2> HIDE DEF T
  <2>1. T # {}
    BY <1>1
  <2> QED
    BY <1>1, <2>1, LeastNat
<1>3. ASSUME NEW i \in 1 .. t PROVE i \notin F
  <2>1. i - 1 \in 0 .. n /\ ~(t <= i - 1) /\ i - 1 + 1 = i
    BY <1>2
  <2>2. i - 1 \notin T
    BY <1>2, <2>1
  <2> QED
    BY <2>1, <2>2
<1> QED
  BY <1>2, <1>3

\* What is so after the leaf of k and the nodes up to level i are cut.
Untold(cut, i, g, at, k) ==
  /\ \A j \in 0 .. i : /\ IsSplit(g, at, j, cut[j].left, cut[j].right, cut[j].key)
                       /\ cut[j].left = at[j][k]
  /\ \A j \in Nat : j > i => g[j] = at[j]
Unlike(t, s, i, h, at) ==
  \A j \in 0 .. h, x \in Ids : j > i => SameBody(t.page[at[j][x]], s.page[at[j][x]])
Roomy(t, i, g, at, k) ==
  \A j \in 1 .. i, x \in Ids : at[j][x] = at[j][k] => Len(t.page[g[j][x]].cells) < MAX_CELLS
Halved(t, s, g, at, k) ==
  \A x \in Ids : at[0][x] = at[0][k] => Len(t.page[g[0][x]].rows) < Len(s.page[at[0][k]].rows)
SplitTo(cut, i, s, store, h, g, at, k) ==
  /\ Sound(cut[i].db, store, h, g, at, 0) /\ Inside(h, g, at)
  /\ cut[i].db.next_row = s.next_row
  /\ Untold(cut, i, g, at, k) /\ Unlike(cut[i].db, s, i, h, at)
  /\ Roomy(cut[i].db, i, g, at, k) /\ Halved(cut[i].db, s, g, at, k)
  /\ Keeps(cut[i].db, h, g, s, h, at, {})

LEMMA CutFirst ==
  ASSUME NEW s, NEW store, NEW h, NEW at, Sound(s, store, h, at, at, 0), NEW k \in Ids,
         Len(s.page[at[0][k]].rows) >= 2, NEW cut, cut[0] = CutLeaf(s, at[0][k])
  PROVE  \E g : SplitTo(cut, 0, s, store, h, g, at, k)
<1>1. PICK p \in Nat : p = at[0][k] /\ Used(p, at[0]) /\ Len(s.page[p].rows) >= 2
  <2>1. at[0] \in Division
    BY DEF Sound, Grown
  <2> QED
    BY <2>1 DEF Used, Division
<1>2. PICK t \in Database, q \in Nat, e \in Ids : \E g :
        /\ CutLeaf(s, p) = [db |-> t, left |-> p, right |-> q, key |-> e]
        /\ IsCut(g, at, 0, p, q, e) /\ Fresh(q, h, at, at)
        /\ Sound(t, store, h, g, at, 0) /\ Inside(h, g, at) /\ SameOthers(t, s, p, q)
        /\ Len(t.page[p].rows) < Len(s.page[p].rows)
        /\ Len(t.page[q].rows) < Len(s.page[p].rows)
  BY <1>1, CutLeafSound
<1>3. PICK g :
        /\ CutLeaf(s, p) = [db |-> t, left |-> p, right |-> q, key |-> e]
        /\ IsCut(g, at, 0, p, q, e) /\ Fresh(q, h, at, at)
        /\ Sound(t, store, h, g, at, 0) /\ Inside(h, g, at) /\ SameOthers(t, s, p, q)
        /\ Len(t.page[p].rows) < Len(s.page[p].rows)
        /\ Len(t.page[q].rows) < Len(s.page[p].rows)
  BY <1>2
<1>4. cut[0].db = t /\ cut[0].left = p /\ cut[0].right = q /\ cut[0].key = e
  BY <1>1, <1>3
<1>5. /\ h \in Nat /\ 0 \in 0 .. h /\ at \in [Nat -> Division] /\ s \in Database
      /\ Grown(s.page, s.root_page_id, store, h, at, at, 0) /\ Apart(h, at, at)
  BY DEF Sound, Grown
<1>6. /\ p # q /\ e - 1 \in Ids /\ at[0][e - 1] = p /\ at[0][e] = p
      /\ g = [at EXCEPT ![0] = Shift(at[0], p, q, e)]
  BY <1>3 DEF IsCut
<1>7. \A x \in Ids : g[0][x] = IF at[0][x] # p THEN at[0][x] ELSE IF x < e THEN p ELSE q
  <2>1. at[0] \in Division /\ g[0] = Shift(at[0], p, q, e)
    BY <1>5, <1>6
  <2>2. \A x \in Ids : at[0][x] # q
    BY <1>3, <1>5 DEF Fresh
  <2>3. \A x \in Ids : g[0][x] = IF at[0][x] # p /\ at[0][x] # q THEN at[0][x]
                                 ELSE IF x < e THEN p ELSE q
    BY <2>1, ShiftAt
  <2> QED
    BY <2>2, <2>3
<1>8. IsSplit(g, at, 0, p, q, e)
  BY <1>3, <1>5, <1>6, <1>7 DEF IsSplit, IsDivided, Fresh
<1>9. \A j \in Nat : j > 0 => g[j] = at[j]
  BY <1>5, <1>6
<1>10. Untold(cut, 0, g, at, k)
  <2>1. \A j \in 0 .. 0 : j = 0
    OBVIOUS
  <2> QED
    BY <1>1, <1>4, <1>8, <1>9, <2>1 DEF Untold
<1>11. Unlike(t, s, 0, h, at)
  <2>1. ASSUME NEW j \in 0 .. h, NEW x \in Ids, j > 0
        PROVE  SameBody(t.page[at[j][x]], s.page[at[j][x]])
    <3>1. at[j][x] \in 1 .. Len(s.page)
      BY <1>5, PagesAre, PageOfLevel
    <3>2. at[j][x] # q
      BY <1>3 DEF Fresh
    <3>3. at[j][x] # p
      BY <1>1, <1>5, <2>1, ApartAt
    <3> QED
      BY <1>3, <3>1, <3>2, <3>3 DEF SameOthers
  <2> QED
    BY <2>1 DEF Unlike
<1>12. Roomy(t, 0, g, at, k)
  <2>1. 1 .. 0 = {}
    OBVIOUS
  <2> QED
    BY <2>1 DEF Roomy
<1>13. Halved(t, s, g, at, k)
  BY <1>1, <1>3, <1>7 DEF Halved
<1>14. t.next_row = s.next_row
  BY <1>3 DEF SameOthers
<1>15. Keeps(t, h, g, s, h, at, {})
  BY <1>3, <1>5, CutKeeps
<1> QED
  BY <1>3, <1>4, <1>10, <1>11, <1>12, <1>13, <1>14, <1>15 DEF SplitTo

LEMMA CutMore ==
  ASSUME NEW s, NEW store, NEW h, NEW g, NEW at, NEW k \in Ids, NEW cut, NEW i \in 1 .. h,
         SplitTo(cut, i - 1, s, store, h, g, at, k), ~HasRoom(s.page[at[i][k]]),
         cut[i] = CutInternal(cut[i - 1].db, at[i][k])
  PROVE  \E g2 : SplitTo(cut, i, s, store, h, g2, at, k)
<1>1. PICK u : u = cut[i - 1].db
  OBVIOUS
<1>2. /\ Sound(u, store, h, g, at, 0) /\ Inside(h, g, at) /\ u.next_row = s.next_row
      /\ Untold(cut, i - 1, g, at, k) /\ Unlike(u, s, i - 1, h, at)
      /\ Roomy(u, i - 1, g, at, k) /\ Halved(u, s, g, at, k)
      /\ Keeps(u, h, g, s, h, at, {})
  BY <1>1 DEF SplitTo
<1>3. /\ h \in Nat /\ at \in [Nat -> Division] /\ g \in [Nat -> Division] /\ u \in Database
      /\ Grown(u.page, u.root_page_id, store, h, g, at, 0) /\ Apart(h, g, at)
  BY <1>2 DEF Sound, Grown
<1>4. /\ i \in Nat /\ i \in 0 .. h /\ i > i - 1 /\ i - 1 \in Nat /\ \A j \in Nat : j >= i => g[j] = at[j]
  BY <1>2, <1>3 DEF Untold
<1>5. PICK p \in Nat : p = at[i][k] /\ Used(p, at[i])
  BY <1>3, <1>4 DEF Used, Division
<1>6. SameBody(u.page[p], s.page[p])
  BY <1>2, <1>4, <1>5 DEF Unlike
<1>7. ~HasRoom(u.page[p])
  BY <1>5, <1>6 DEF HasRoom, SameBody
<1>8. PICK t \in Database, q \in Nat, e \in Ids : \E g2 :
        /\ CutInternal(u, p) = [db |-> t, left |-> p, right |-> q, key |-> e]
        /\ IsCut(g2, g, i, p, q, e) /\ Fresh(q, h, g, at)
        /\ Sound(t, store, h, g2, at, 0) /\ Inside(h, g2, at) /\ SameOthers(t, u, p, q)
        /\ Len(t.page[p].cells) < MAX_CELLS /\ Len(t.page[q].cells) < MAX_CELLS
  BY <1>2, <1>4, <1>5, <1>7, CutInternalSound
<1>9. PICK g2 :
        /\ CutInternal(u, p) = [db |-> t, left |-> p, right |-> q, key |-> e]
        /\ IsCut(g2, g, i, p, q, e) /\ Fresh(q, h, g, at)
        /\ Sound(t, store, h, g2, at, 0) /\ Inside(h, g2, at) /\ SameOthers(t, u, p, q)
        /\ Len(t.page[p].cells) < MAX_CELLS /\ Len(t.page[q].cells) < MAX_CELLS
  BY <1>8
<1>10. cut[i].db = t /\ cut[i].left = p /\ cut[i].right = q /\ cut[i].key = e
  BY <1>1, <1>5, <1>9
<1>11. /\ p # q /\ e - 1 \in Ids /\ at[i][e - 1] = p /\ at[i][e] = p
       /\ g2 = [g EXCEPT ![i] = Shift(at[i], p, q, e)]
  <2>1. g[i] = at[i]
    <3>1. i >= i
      BY <1>4
    <3> QED
      BY <1>4, <3>1
  <2> QED
    BY <1>9, <2>1 DEF IsCut
<1>12. \A j \in Nat : j # i => g2[j] = g[j]
  BY <1>3, <1>11
<1>13. \A x \in Ids : g2[i][x] = IF at[i][x] # p THEN at[i][x] ELSE IF x < e THEN p ELSE q
  <2>1. at[i] \in Division /\ g2[i] = Shift(at[i], p, q, e)
    BY <1>3, <1>4, <1>11
  <2>2. \A x \in Ids : at[i][x] # q
    BY <1>4, <1>9 DEF Fresh
  <2>3. \A x \in Ids : g2[i][x] = IF at[i][x] # p /\ at[i][x] # q THEN at[i][x]
                                  ELSE IF x < e THEN p ELSE q
    BY <2>1, ShiftAt
  <2> QED
    BY <2>2, <2>3
<1>14. IsSplit(g2, at, i, p, q, e)
  BY <1>4, <1>9, <1>11, <1>13 DEF IsSplit, IsDivided, Fresh
<1>15. Untold(cut, i, g2, at, k)
  <2>1. ASSUME NEW j \in 0 .. i
        PROVE  /\ IsSplit(g2, at, j, cut[j].left, cut[j].right, cut[j].key)
               /\ cut[j].left = at[j][k]
    <3>1. CASE j = i
      BY <1>5, <1>10, <1>14, <3>1
    <3>2. CASE j # i
      <4>1. j \in 0 .. i - 1 /\ j \in Nat /\ g2[j] = g[j]
        BY <1>4, <1>12, <3>2
      <4> QED
        BY <1>2, <4>1 DEF Untold, IsSplit
    <3> QED
      BY <3>1, <3>2
  <2>2. ASSUME NEW j \in Nat, j > i PROVE g2[j] = at[j]
    BY <1>4, <1>12, <2>2
  <2> QED
    BY <2>1, <2>2 DEF Untold
<1>16. ASSUME NEW j \in 0 .. h, j # i, NEW x \in Ids
       PROVE  /\ SameBody(t.page[at[j][x]], u.page[at[j][x]])
              /\ SameBody(t.page[g[j][x]], u.page[g[j][x]])
  <2>1. \A y \in Ids : g[j][y] \in 1 .. Len(u.page) /\ g[j][y] # q /\ g[j][y] # p
    <3>1. \A y \in Ids : g[j][y] \in 1 .. Len(u.page)
      BY <1>3, PagesAre, PageOfLevel
    <3>2. \A y \in Ids : g[j][y] # q
      BY <1>9 DEF Fresh
    <3>3. p = g[i][k]
      BY <1>4, <1>5
    <3>4. \A y \in Ids : g[j][y] # p
      BY <1>3, <1>4, <1>16, <3>3, ApartAt
    <3> QED
      BY <3>1, <3>2, <3>4
  <2>2. PICK y \in Ids : at[j][x] = g[j][y]
    BY <1>2 DEF Inside
  <2> QED
    BY <1>9, <2>1, <2>2 DEF SameOthers
<1>17. Unlike(t, s, i, h, at)
  <2>1. ASSUME NEW j \in 0 .. h, NEW x \in Ids, j > i
        PROVE  SameBody(t.page[at[j][x]], s.page[at[j][x]])
    <3>1. j # i /\ j > i - 1
      BY <1>4, <2>1
    <3>2. SameBody(t.page[at[j][x]], u.page[at[j][x]]) /\ SameBody(u.page[at[j][x]], s.page[at[j][x]])
      BY <1>2, <1>16, <3>1 DEF Unlike
    <3> QED
      BY <3>2 DEF SameBody
  <2> QED
    BY <2>1 DEF Unlike
<1>18. Roomy(t, i, g2, at, k)
  <2>1. ASSUME NEW j \in 1 .. i, NEW x \in Ids, at[j][x] = at[j][k]
        PROVE  Len(t.page[g2[j][x]].cells) < MAX_CELLS
    <3>1. CASE j = i
      BY <1>5, <1>9, <1>13, <2>1, <3>1, SMTT(30)
    <3>2. CASE j # i
      <4>1. j \in 1 .. i - 1 /\ j \in 0 .. h /\ j \in Nat /\ g2[j] = g[j]
        BY <1>3, <1>4, <1>12, <3>2
      <4>2. Len(u.page[g[j][x]].cells) < MAX_CELLS
        BY <1>2, <2>1, <4>1 DEF Roomy
      <4> QED
        BY <1>16, <3>2, <4>1, <4>2, SMTT(30) DEF SameBody
    <3> QED
      BY <3>1, <3>2
  <2> QED
    BY <2>1 DEF Roomy
<1>19. Halved(t, s, g2, at, k)
  <2>1. 0 \in 0 .. h /\ 0 # i /\ g2[0] = g[0]
    BY <1>3, <1>12
  <2>2. \A x \in Ids : SameBody(t.page[g[0][x]], u.page[g[0][x]])
    BY <1>16, <2>1
  <2> QED
    BY <1>2, <2>1, <2>2 DEF Halved, SameBody
<1>20. t.next_row = s.next_row
  BY <1>2, <1>9 DEF SameOthers
<1>21. Keeps(t, h, g2, s, h, at, {})
  <2>1. Keeps(t, h, g2, u, h, g, {})
    BY <1>3, <1>4, <1>9, CutKeeps
  <2> QED
    BY <1>2, <2>1, KeepsAfter
<1> QED
  BY <1>9, <1>10, <1>15, <1>17, <1>18, <1>19, <1>20, <1>21 DEF SplitTo

CutsAre(cut, n, s, at, k) ==
  /\ cut[0] = CutLeaf(s, at[0][k])
  /\ \A i \in 1 .. n : cut[i] = CutInternal(cut[i - 1].db, at[i][k])
AllFull(n, s, at, k) == \A i \in 1 .. n : ~HasRoom(s.page[at[i][k]])

LEMMA CutLoop ==
  ASSUME NEW s, NEW store, NEW h, NEW at, Sound(s, store, h, at, at, 0), NEW k \in Ids,
         Len(s.page[at[0][k]].rows) >= 2, NEW n \in 0 .. h, AllFull(n, s, at, k),
         NEW cut, CutsAre(cut, n, s, at, k)
  PROVE  \E g : SplitTo(cut, n, s, store, h, g, at, k)
<1>1. h \in Nat /\ n \in Nat
  <2>1. h \in Nat
    BY DEF Sound, Grown
  <2> QED
    BY <2>1
<1> DEFINE P == {i \in 0 .. n : \E g : SplitTo(cut, i, s, store, h, g, at, k)}
<1>2. 0 \in P
  <2>1. \E g : SplitTo(cut, 0, s, store, h, g, at, k)
    <3>1. cut[0] = CutLeaf(s, at[0][k])
      BY DEF CutsAre
    <3> QED
      BY <3>1, CutFirst
  <2> QED
    BY <1>1, <2>1
<1>3. ASSUME NEW i \in 1 .. n, i - 1 \in P PROVE i \in P
  <2>1. PICK g : SplitTo(cut, i - 1, s, store, h, g, at, k)
    BY <1>3
  <2>2. i \in 1 .. h /\ ~HasRoom(s.page[at[i][k]]) /\ cut[i] = CutInternal(cut[i - 1].db, at[i][k])
    BY <1>1 DEF CutsAre, AllFull
  <2>3. \E g2 : SplitTo(cut, i, s, store, h, g2, at, k)
    BY <2>1, <2>2, CutMore
  <2> QED
    BY <1>1, <2>3
<1> HIDE DEF P
<1>4. \A i \in 0 .. n : i \in P
  BY <1>1, <1>2, <1>3, UpTo
<1>5. n \in P
  BY <1>1, <1>4
<1> QED
  BY <1>5 DEF P

-----------------------------------------------------------------------------
(* split_leaf_node, on the way back *)

\* The levels from m on are tied to the nodes above them, those below are not yet.
TiedFrom(m, g2, seen, g, at, h) ==
  /\ \A j \in Nat : seen[j] = IF j >= m THEN g2[j] ELSE at[j]
  /\ \A j \in 0 .. h : g2[j] = g[j]
Tied(t, m, s, store, h, h2, g2, seen, g, at, k) ==
  /\ h2 \in Nat /\ h <= h2
  /\ Sound(t, store, h2, g2, seen, 0) /\ Inside(h2, g2, seen) /\ t.next_row = s.next_row
  /\ TiedFrom(m, g2, seen, g, at, h)
  /\ Roomy(t, m, g, at, k) /\ Halved(t, s, g, at, k)
  /\ Keeps(t, h2, g2, s, h, at, {})

\* The pages of lower levels are as they were.
LEMMA RoomyKept ==
  ASSUME NEW u, NEW t, NEW s, NEW h \in Nat, NEW m \in 0 .. h, NEW i \in 0 .. h, m <= i,
         NEW g, NEW at, NEW k,
         Roomy(u, i, g, at, k), Halved(u, s, g, at, k),
         \A j \in 0 .. m, x \in Ids : SameBody(t.page[g[j][x]], u.page[g[j][x]])
  PROVE  Roomy(t, m, g, at, k) /\ Halved(t, s, g, at, k)
<1>1. \A j \in 1 .. m : j \in 0 .. m /\ j \in 1 .. i
  OBVIOUS
<1>2. 0 \in 0 .. m
  OBVIOUS
<1> QED
  BY <1>1, <1>2 DEF Roomy, Halved, SameBody

LEMMA TieFirst ==
  ASSUME NEW s, NEW store, NEW h, NEW at, Sound(s, store, h, at, at, 0), NEW k \in Ids,
         NEW n \in 0 .. h, NEW cut, NEW g, SplitTo(cut, n, s, store, h, g, at, k),
         n < h => HasRoom(s.page[at[n + 1][k]]),
         NEW t, t = IF n = h THEN Rooted(cut[n].db, cut[n])
                    ELSE Attached(cut[n].db, cut[n], at[n + 1][k])
  PROVE  \E h2, g2, seen : Tied(t, n, s, store, h, h2, g2, seen, g, at, k)
<1>1. PICK u : u = cut[n].db
  OBVIOUS
<1>2. /\ Sound(u, store, h, g, at, 0) /\ Inside(h, g, at) /\ u.next_row = s.next_row
      /\ Untold(cut, n, g, at, k) /\ Unlike(u, s, n, h, at)
      /\ Roomy(u, n, g, at, k) /\ Halved(u, s, g, at, k)
      /\ Keeps(u, h, g, s, h, at, {})
  BY <1>1 DEF SplitTo
<1>3. /\ h \in Nat /\ n \in Nat /\ at \in [Nat -> Division] /\ g \in [Nat -> Division]
      /\ u \in Database /\ Len(u.page) \in Nat
      /\ Grown(u.page, u.root_page_id, store, h, g, at, 0) /\ Apart(h, g, at)
  <2>1. u \in Database /\ Grown(u.page, u.root_page_id, store, h, g, at, 0)
    BY <1>2 DEF Sound
  <2>2. h \in Nat /\ at \in [Nat -> Division] /\ g \in [Nat -> Division] /\ Apart(h, g, at)
    BY <2>1 DEF Grown
  <2>3. Len(u.page) \in Nat
    BY <2>1, PagesAre
  <2>4. n \in Nat
    BY <2>2
  <2> QED
    BY <2>1, <2>2, <2>3, <2>4
<1>4. /\ IsSplit(g, at, n, cut[n].left, cut[n].right, cut[n].key) /\ cut[n].left = at[n][k]
      /\ \A j \in Nat : j > n => g[j] = at[j]
  <2>1. n \in 0 .. n
    BY <1>3
  <2> QED
    BY <1>2, <2>1 DEF Untold
<1>5. \A j \in 0 .. h, x \in Ids : g[j][x] \in 1 .. Len(u.page)
  BY <1>3, PageOfLevel
<1>6. CASE n = h
  <2>1. PICK l \in Nat, r \in Nat, e \in Ids :
          /\ cut[h].left = l /\ cut[h].right = r /\ cut[h].key = e /\ l # r /\ e - 1 \in Ids
          /\ at[h][e] = l /\ IsDivided(g[h], at[h], l, r, e)
    BY <1>4, <1>6 DEF IsSplit
  <2> DEFINE top == cut[h]
  <2>11. top.left = l /\ top.right = r /\ top.key = e /\ cut[h] = top
    BY <2>1
  <2> HIDE DEF top
  <2>2. PICK v \in Database, q \in Nat : \E g2, seen :
           /\ v = Rooted(u, top) /\ Fresh(q, h, g, at) /\ IsRaised(h, g2, seen, g, at, q)
           /\ Sound(v, store, h + 1, g2, seen, 0)
           /\ Len(u.page) <= Len(v.page) /\ v.next_row = u.next_row
           /\ \A x \in 1 .. Len(u.page) : x # q => SameBody(v.page[x], u.page[x])
           /\ Keeps(v, h + 1, g2, u, h, g, {})
    BY <1>2, <2>1, <2>11, RootedSound, SMTT(30)
  <2>3. PICK g2, seen :
           /\ v = Rooted(u, top) /\ Fresh(q, h, g, at) /\ IsRaised(h, g2, seen, g, at, q)
           /\ Sound(v, store, h + 1, g2, seen, 0)
           /\ Len(u.page) <= Len(v.page) /\ v.next_row = u.next_row
           /\ \A x \in 1 .. Len(u.page) : x # q => SameBody(v.page[x], u.page[x])
           /\ Keeps(v, h + 1, g2, u, h, g, {})
    BY <2>2
  <2>4. t = v
    BY <1>1, <1>6, <2>3, <2>11
  <2>5. /\ \A i \in Nat : i # h + 1 => g2[i] = g[i]
        /\ \A i \in Nat : i # h /\ i # h + 1 => seen[i] = at[i]
        /\ seen[h] = g[h] /\ seen[h + 1] = g2[h + 1]
    BY <2>3 DEF IsRaised
  <2>6. TiedFrom(h, g2, seen, g, at, h)
    <3>1. ASSUME NEW j \in Nat PROVE seen[j] = IF j >= h THEN g2[j] ELSE at[j]
      BY <1>3, <1>4, <1>6, <2>5
    <3>2. ASSUME NEW j \in 0 .. h PROVE g2[j] = g[j]
      BY <1>3, <2>5
    <3> QED
      BY <3>1, <3>2 DEF TiedFrom
  <2>7. Inside(h + 1, g2, seen)
    <3>1. ASSUME NEW j \in 0 .. h + 1, NEW x \in Ids PROVE \E y \in Ids : seen[j][x] = g2[j][y]
      <4>1. CASE j >= h
        <5>1. j \in Nat /\ seen[j] = g2[j]
          BY <1>3, <2>6, <4>1 DEF TiedFrom
        <5> QED
          BY <5>1
      <4>2. CASE ~(j >= h)
        <5>1. j \in Nat /\ j \in 0 .. h /\ j # h /\ j # h + 1
          BY <1>3, <4>2
        <5>2. seen[j] = at[j] /\ g2[j] = g[j]
          BY <2>5, <5>1
        <5>3. \E y \in Ids : at[j][x] = g[j][y]
          BY <1>2, <5>1 DEF Inside
        <5> QED
          BY <5>2, <5>3
      <4> QED
        BY <4>1, <4>2
    <3> QED
      BY <3>1 DEF Inside
  <2>8. Roomy(v, h, g, at, k) /\ Halved(v, s, g, at, k)
    <3>1. \A j \in 0 .. h, x \in Ids : SameBody(v.page[g[j][x]], u.page[g[j][x]])
      BY <1>5, <2>3 DEF Fresh
    <3>2. h \in 0 .. h /\ h <= h
      BY <1>3
    <3>3. Roomy(u, h, g, at, k)
      BY <1>2, <1>6
    <3> QED
      BY <1>2, <1>3, <3>1, <3>2, <3>3, RoomyKept
  <2>9. v.next_row = s.next_row /\ h + 1 \in Nat /\ h <= h + 1
    BY <1>2, <1>3, <2>3
  <2>10. Tied(v, h, s, store, h, h + 1, g2, seen, g, at, k)
    <3>1. Keeps(v, h + 1, g2, s, h, at, {})
      BY <1>2, <2>3, KeepsAfter
    <3> QED
      BY <2>3, <2>6, <2>7, <2>8, <2>9, <3>1 DEF Tied
  <2> QED
    BY <1>6, <2>4, <2>10
<1>7. CASE n # h
  <2>1. n + 1 \in 1 .. h /\ n + 1 \in 0 .. h /\ n < h /\ n + 1 - 1 = n /\ n + 1 \in Nat /\ n + 1 > n
    BY <1>3, <1>7
  <2>2. PICK l \in Nat, r \in Nat, e \in Ids :
          /\ cut[n].left = l /\ cut[n].right = r /\ cut[n].key = e
          /\ at[n][e] = l /\ l = at[n][k]
    BY <1>4 DEF IsSplit
  <2>3. PICK p \in Nat : p = at[n + 1][k] /\ p = g[n + 1][e] /\ g[n + 1] = at[n + 1]
    <3>1. Nested(at[n + 1], at[n])
      BY <2>1 DEF Sound, Grown, NodeLevel
    <3>2. at[n + 1][e] = at[n + 1][k]
      BY <2>2, <3>1 DEF Nested
    <3>3. g[n + 1] = at[n + 1] /\ at[n + 1] \in Division
      BY <1>3, <1>4, <2>1
    <3> QED
      BY <3>2, <3>3 DEF Division
  <2>4. Len(u.page[p].cells) < MAX_CELLS
    <3>1. HasRoom(s.page[p])
      BY <2>1, <2>3
    <3>2. SameBody(u.page[p], s.page[p])
      BY <1>2, <2>1, <2>3 DEF Unlike
    <3>3. PICK L \in Nat : L = Len(u.page[p].cells)
      <4>1. p \in 1 .. Len(u.page)
        BY <1>5, <2>1, <2>3
      <4>2. u.page[p] \in Page
        BY <1>3, <4>1, PagesAre
      <4>3. u.page[p].cells \in Seq(Cell)
        BY <4>2, PageIs
      <4> QED
        BY <4>3
    <3>4. CELL_SIZE * (L + 1) <= NODE_SPACE
      BY <3>1, <3>2, <3>3 DEF HasRoom, SameBody
    <3>5. L + 1 <= MAX_CELLS /\ MAX_CELLS \in Nat
      BY <3>4, CellCounts
    <3> QED
      BY <3>3, <3>5
  <2> DEFINE top == cut[n]
  <2>14. cut[n] = top
    OBVIOUS
  <2>5. IsSplit(g, at, n, top.left, top.right, top.key)
    BY <1>4
  <2>6. p = g[n + 1][top.key]
    BY <2>2, <2>3
  <2> HIDE DEF top
  <2>7. PICK v \in Database : \E seen : IsTold(v, seen, u, store, h, g, at, n, top, p)
    <3>1. Sound(u, store, h, g, at, 0) /\ Inside(h, g, at)
      BY <1>2
    <3> QED
      BY <1>7, <2>4, <2>5, <2>6, <3>1, AttachedSound
  <2>8. PICK seen :
           /\ v = Attached(u, top, p)
           /\ \A i \in Nat : seen[i] = IF i = n THEN g[n] ELSE at[i]
           /\ Sound(v, store, h, g, seen, 0) /\ Inside(h, g, seen)
           /\ Len(v.page) = Len(u.page) /\ v.next_row = u.next_row
           /\ \A x \in 1 .. Len(u.page) : x # p => SameBody(v.page[x], u.page[x])
           /\ Keeps(v, h, g, u, h, g, {})
    BY <2>7 DEF IsTold
  <2>9. t = v
    BY <1>1, <1>7, <2>3, <2>8, <2>14
  <2>10. TiedFrom(n, g, seen, g, at, h)
    <3>1. ASSUME NEW j \in Nat PROVE seen[j] = IF j >= n THEN g[j] ELSE at[j]
      BY <1>3, <1>4, <2>8
    <3> QED
      BY <3>1 DEF TiedFrom
  <2>11. Roomy(v, n, g, at, k) /\ Halved(v, s, g, at, k)
    <3>1. ASSUME NEW j \in 0 .. n, NEW x \in Ids PROVE SameBody(v.page[g[j][x]], u.page[g[j][x]])
      <4>1. j \in 0 .. h /\ j # n + 1
        BY <1>3, <2>1
      <4>2. g[j][x] # p
        <5>1. g[j][x] = g[n + 1][e] => j = n + 1
          BY <1>3, <2>1, <2>2, <4>1, ApartAt, SMTT(30)
        <5> QED
          BY <2>3, <4>1, <5>1
      <4> QED
        BY <1>5, <2>8, <4>1, <4>2
    <3>2. n <= n
      BY <1>3
    <3> QED
      BY <1>2, <1>3, <3>1, <3>2, RoomyKept
  <2>12. v.next_row = s.next_row /\ h <= h
    BY <1>2, <1>3, <2>8
  <2>13. Tied(v, n, s, store, h, h, g, seen, g, at, k)
    <3>1. Keeps(v, h, g, s, h, at, {})
      BY <1>2, <2>8, KeepsAfter
    <3> QED
      BY <1>3, <2>8, <2>10, <2>11, <2>12, <3>1 DEF Tied
  <2> QED
    BY <2>9, <2>13
<1> QED
  BY <1>6, <1>7

\* The half goes to the half of its parent that its key belongs to.
AttachedBelow(u, half, above) ==
  Attached(u, half, IF half.key < above.key THEN u.page[half.left].parent ELSE above.right)

LEMMA TieMore ==
  ASSUME NEW s, NEW store, NEW h, NEW at, Sound(s, store, h, at, at, 0), NEW k \in Ids,
         NEW n \in 0 .. h, NEW cut, NEW g, SplitTo(cut, n, s, store, h, g, at, k),
         NEW m \in 1 .. n, NEW u, NEW h2, NEW g2, NEW seen,
         Tied(u, m, s, store, h, h2, g2, seen, g, at, k),
         NEW half, half = cut[m - 1], NEW above, above = cut[m],
         NEW t, t = AttachedBelow(u, half, above)
  PROVE  \E seen2 : Tied(t, m - 1, s, store, h, h2, g2, seen2, g, at, k)
<1>1. /\ h2 \in Nat /\ h <= h2
      /\ Sound(u, store, h2, g2, seen, 0) /\ Inside(h2, g2, seen) /\ u.next_row = s.next_row
      /\ \A j \in Nat : seen[j] = IF j >= m THEN g2[j] ELSE at[j]
      /\ \A j \in 0 .. h : g2[j] = g[j]
      /\ Roomy(u, m, g, at, k) /\ Halved(u, s, g, at, k)
      /\ Keeps(u, h2, g2, s, h, at, {})
  BY DEF Tied, TiedFrom
<1>2. Untold(cut, n, g, at, k)
  BY DEF SplitTo
<1>3. /\ h \in Nat /\ n \in Nat /\ at \in [Nat -> Division]
      /\ \A j \in 1 .. h : NodeLevel(s.page, at[j], at[j - 1], 0)
  <2>1. h \in Nat
    BY DEF Sound, Grown
  <2> QED
    BY <2>1 DEF Sound, Grown
<1>4. /\ m \in Nat /\ m \in 0 .. n /\ m \in 0 .. h /\ m \in 1 .. h /\ m - 1 \in Nat /\ m - 1 \in 0 .. n
      /\ m - 1 \in 0 .. h /\ m - 1 \in 0 .. h2 /\ m \in 0 .. h2 /\ m \in 1 .. h2 /\ m - 1 # h2
      /\ m - 1 + 1 = m
  BY <1>1, <1>3
<1>5. /\ u \in Database /\ Len(u.page) \in Nat
      /\ Grown(u.page, u.root_page_id, store, h2, g2, seen, 0) /\ Apart(h2, g2, seen)
      /\ g2 \in [Nat -> Division] /\ seen \in [Nat -> Division]
  <2>1. u \in Database
    BY <1>1 DEF Sound
  <2> QED
    BY <1>1, <2>1, PagesAre DEF Sound, Grown
<1>6. \A j \in 0 .. h2, x \in Ids : g2[j][x] \in 1 .. Len(u.page)
  BY <1>5, PageOfLevel
<1>7. seen[m] = g2[m] /\ seen[m - 1] = at[m - 1]
  BY <1>1, <1>4
<1>8. g2[m] = g[m] /\ g2[m - 1] = g[m - 1]
  BY <1>1, <1>4
<1>9. PICK l \in Nat, e \in Ids :
        /\ half.left = l /\ half.key = e /\ e - 1 \in Ids /\ l = at[m - 1][k]
        /\ at[m - 1][e - 1] = l /\ at[m - 1][e] = l
        /\ IsDivided(g[m - 1], at[m - 1], l, half.right, e)
        /\ IsSplit(g, at, m - 1, half.left, half.right, half.key)
  <2>1. IsSplit(g, at, m - 1, half.left, half.right, half.key) /\ half.left = at[m - 1][k]
    BY <1>2, <1>4 DEF Untold
  <2> QED
    BY <2>1 DEF IsSplit
<1>10. PICK p \in Nat, q \in Nat, b \in Ids :
        /\ above.left = p /\ above.right = q /\ above.key = b /\ p = at[m][k]
        /\ IsDivided(g[m], at[m], p, q, b)
  <2>1. IsSplit(g, at, m, above.left, above.right, above.key) /\ above.left = at[m][k]
    BY <1>2, <1>4 DEF Untold
  <2> QED
    BY <2>1 DEF IsSplit
<1>11. at[m][e] = p /\ at[m][e - 1] = p
  <2>1. Nested(at[m], at[m - 1])
    BY <1>3, <1>4 DEF NodeLevel
  <2> QED
    BY <1>9, <1>10, <2>1 DEF Nested
<1>12. PICK parent : parent = IF half.key < above.key THEN u.page[half.left].parent ELSE above.right
  OBVIOUS
<1>13. parent = g2[m][e]
  <2>1. e \in Nat /\ b \in Nat /\ e - 1 < e
    BY IdsAre
  <2>2. CASE e < b
    <3>1. parent = u.page[l].parent
      BY <1>9, <1>10, <1>12, <2>2
    <3>2. g2[m - 1][e - 1] = l /\ seen[m - 1][e - 1] = l
      BY <1>7, <1>8, <1>9, <2>1 DEF IsDivided
    <3>3. Adopts(u.page, g2[m - 1], seen[m - 1], g2[m])
      BY <1>4, <1>5 DEF Grown
    <3>4. u.page[l].parent = g2[m][e - 1]
      BY <1>9, <3>2, <3>3 DEF Adopts
    <3>5. e - 1 < b
      BY <2>1, <2>2
    <3>6. g2[m][e - 1] = p /\ g2[m][e] = p
      BY <1>8, <1>9, <1>10, <1>11, <2>2, <3>5 DEF IsDivided
    <3> QED
      BY <3>1, <3>4, <3>6
  <2>3. CASE ~(e < b)
    <3>1. parent = q
      BY <1>9, <1>10, <1>12, <2>3
    <3> QED
      BY <1>8, <1>10, <1>11, <2>3, <3>1 DEF IsDivided
  <2> QED
    BY <2>2, <2>3
<1>14. Len(u.page[parent].cells) < MAX_CELLS
  <2>1. at[m][e] = at[m][k] /\ m \in 1 .. m
    BY <1>4, <1>10, <1>11
  <2> QED
    BY <1>1, <1>8, <1>13, <2>1 DEF Roomy
<1>15. IsSplit(g2, seen, m - 1, half.left, half.right, half.key)
  BY <1>7, <1>8, <1>9 DEF IsSplit
<1>16. PICK v \in Database : \E seen2 :
           /\ v = Attached(u, half, parent)
           /\ \A i \in Nat : seen2[i] = IF i = m - 1 THEN g2[m - 1] ELSE seen[i]
           /\ Sound(v, store, h2, g2, seen2, 0) /\ Inside(h2, g2, seen2)
           /\ Len(v.page) = Len(u.page) /\ v.next_row = u.next_row
           /\ \A x \in 1 .. Len(u.page) : x # parent => SameBody(v.page[x], u.page[x])
           /\ Keeps(v, h2, g2, u, h2, g2, {})
  <2>1. Sound(u, store, h2, g2, seen, 0) /\ Inside(h2, g2, seen)
    BY <1>1
  <2>2. PICK j \in 0 .. h2 : j = m - 1 /\ j # h2
    BY <1>4
  <2>3. parent = g2[j + 1][half.key]
    BY <1>4, <1>9, <1>13, <2>2
  <2>4. IsSplit(g2, seen, j, half.left, half.right, half.key)
    BY <1>15, <2>2, SMTT(30)
  <2>5. \E v \in Database : \E seen2 : IsTold(v, seen2, u, store, h2, g2, seen, j, half, parent)
    BY <1>14, <2>1, <2>2, <2>3, <2>4, AttachedSound, SMTT(30)
  <2> QED
    BY <2>2, <2>5 DEF IsTold
<1>17. PICK seen2 :
           /\ v = Attached(u, half, parent)
           /\ \A i \in Nat : seen2[i] = IF i = m - 1 THEN g2[m - 1] ELSE seen[i]
           /\ Sound(v, store, h2, g2, seen2, 0) /\ Inside(h2, g2, seen2)
           /\ Len(v.page) = Len(u.page) /\ v.next_row = u.next_row
           /\ \A x \in 1 .. Len(u.page) : x # parent => SameBody(v.page[x], u.page[x])
           /\ Keeps(v, h2, g2, u, h2, g2, {})
  BY <1>16
<1>18. t = v
  BY <1>12, <1>17, ZenonT(40) DEF AttachedBelow
<1>19. TiedFrom(m - 1, g2, seen2, g, at, h)
  <2>1. ASSUME NEW j \in Nat PROVE seen2[j] = IF j >= m - 1 THEN g2[j] ELSE at[j]
    <3>1. CASE j = m - 1
      BY <1>4, <1>17, <3>1
    <3>2. CASE j # m - 1
      <4>1. j >= m - 1 <=> j >= m
        BY <1>4, <3>2
      <4> QED
        BY <1>1, <1>17, <3>2, <4>1
    <3> QED
      BY <3>1, <3>2
  <2> QED
    BY <1>1, <2>1 DEF TiedFrom
<1>20. Roomy(v, m - 1, g, at, k) /\ Halved(v, s, g, at, k)
  <2>1. ASSUME NEW j \in 0 .. m - 1, NEW x \in Ids PROVE SameBody(v.page[g[j][x]], u.page[g[j][x]])
    <3>1. j \in 0 .. h /\ j \in 0 .. h2 /\ j # m
      BY <1>1, <1>3, <1>4
    <3>2. g2[j][x] = g2[m][e] => j = m
      BY <1>4, <1>5, <3>1, ApartAt
    <3>3. g2[j][x] # parent
      BY <1>13, <3>1, <3>2
    <3>4. g[j] = g2[j]
      BY <1>1, <3>1
    <3> QED
      BY <1>6, <1>17, <3>1, <3>3, <3>4
  <2>2. m - 1 <= m
    BY <1>4
  <2>3. Roomy(u, m, g, at, k) /\ Halved(u, s, g, at, k)
    BY <1>1
  <2> QED
    BY <1>3, <1>4, <2>1, <2>2, <2>3, RoomyKept
<1>21. v.next_row = s.next_row
  BY <1>1, <1>17
<1>22. Tied(v, m - 1, s, store, h, h2, g2, seen2, g, at, k)
  <2>1. Keeps(v, h2, g2, s, h, at, {})
    BY <1>1, <1>17, KeepsAfter
  <2> QED
    BY <1>1, <1>17, <1>19, <1>20, <1>21, <2>1 DEF Tied
<1> QED
  BY <1>18, <1>22

\* split_leaf_node keeps the tree sound, and the rows of the leaf are then in leaves
\* with fewer rows.
LEMMA SplitLeafSound ==
  ASSUME NEW s, NEW store, NEW h, NEW at, Sound(s, store, h, at, at, 0), NEW k \in Ids,
         NEW p, p = at[0][k], Len(s.page[p].rows) >= 2
  PROVE  \E t \in Database : \E h2, g2 :
           /\ t = SplitLeaf(s, p) /\ Sound(t, store, h2, g2, g2, 0) /\ t.next_row = s.next_row
           /\ \A x \in Ids : at[0][x] = p => Len(t.page[g2[0][x]].rows) < Len(s.page[p].rows)
           /\ Keeps(t, h2, g2, s, h, at, {})
<1>1. h \in Nat /\ 0 \in 0 .. h
  <2>1. h \in Nat
    BY DEF Sound, Grown
  <2> QED
    BY <2>1
<1> DEFINE above == Ancestors(s, p)
<1>3. above = [i \in 1 .. h |-> at[i][k]]
  <2>1. Known(0, h, at, at)
    BY DEF Known
  <2>2. Ancestors(s, at[0][k]) = [i \in 1 .. h - 0 |-> at[0 + i][k]]
    BY <1>1, <2>1, AncestorsAre
  <2>3. h - 0 = h /\ \A i \in 1 .. h : 0 + i = i
    BY <1>1
  <2> QED
    BY <2>2, <2>3
<1> HIDE DEF above
<1>4. Len(above) = h /\ \A i \in 1 .. h : above[i] = at[i][k]
  BY <1>1, <1>3
<1> DEFINE Turn(x) == /\ \A i \in 1 .. x : ~HasRoom(s.page[above[i]])
                      /\ x < Len(above) => HasRoom(s.page[above[x + 1]])
           n == CHOOSE x \in 0 .. Len(above) : Turn(x)
<1>5. \E x \in 0 .. Len(above) : Turn(x)
  <2>1. PICK F : F = {i \in 1 .. h : HasRoom(s.page[above[i]])}
    OBVIOUS
  <2>2. PICK x \in 0 .. h : (\A i \in 1 .. x : i \notin F) /\ (x < h => x + 1 \in F)
    BY <1>1, FirstOf
  <2>3. ASSUME NEW i \in 1 .. x PROVE ~HasRoom(s.page[above[i]])
    <3>1. i \in 1 .. h
      BY <1>1
    <3> QED
      BY <2>1, <2>2, <3>1
  <2>4. x < h => HasRoom(s.page[above[x + 1]])
    BY <2>1, <2>2
  <2> QED
    BY <1>4, <2>2, <2>3, <2>4
<1>6. n \in 0 .. Len(above) /\ Turn(n)
  BY <1>5
<1> HIDE DEF n
<1>7. n \in 0 .. h /\ n \in Nat /\ AllFull(n, s, at, k) /\ (n < h => HasRoom(s.page[at[n + 1][k]]))
  <2>1. n \in 0 .. h /\ n \in Nat
    BY <1>1, <1>4, <1>6
  <2>2. ASSUME NEW i \in 1 .. n PROVE ~HasRoom(s.page[at[i][k]])
    <3>1. i \in 1 .. h
      BY <1>1, <2>1
    <3> QED
      BY <1>4, <1>6, <3>1
  <2>3. ASSUME n < h PROVE HasRoom(s.page[at[n + 1][k]])
    <3>1. n + 1 \in 1 .. h
      BY <1>1, <2>1, <2>3
    <3> QED
      BY <1>4, <1>6, <2>3, <3>1
  <2> QED
    BY <2>1, <2>2, <2>3 DEF AllFull
<1> DEFINE cut == CHOOSE f : f = [i \in 0 .. n |-> IF i = 0 THEN CutLeaf(s, p)
                                                   ELSE CutInternal(f[i - 1].db, above[i])]
<1>8. cut = [i \in 0 .. n |-> IF i = 0 THEN CutLeaf(s, p) ELSE CutInternal(cut[i - 1].db, above[i])]
  <2> DEFINE IsF(f, m) == f = [i \in 0 .. m |-> IF i = 0 THEN CutLeaf(s, p)
                                                ELSE CutInternal(f[i - 1].db, above[i])]
             P == {m \in 0 .. n : \E f : IsF(f, m)}
  <2>1. 0 \in P
    <3>1. IsF([i \in 0 .. 0 |-> CutLeaf(s, p)], 0)
      OBVIOUS
    <3> HIDE DEF IsF
    <3> QED
      BY <1>7, <3>1
  <2>2. ASSUME NEW m \in 1 .. n, m - 1 \in P PROVE m \in P
    <3>1. PICK f : IsF(f, m - 1)
      BY <2>2
    <3> DEFINE g == [i \in 0 .. m |-> IF i = m THEN CutInternal(f[m - 1].db, above[m]) ELSE f[i]]
    <3>2. ASSUME NEW i \in 0 .. m
          PROVE  g[i] = IF i = 0 THEN CutLeaf(s, p) ELSE CutInternal(g[i - 1].db, above[i])
      <4>1. CASE i = m
        <5>1. i # 0 /\ i - 1 \in 0 .. m /\ i - 1 # m
          BY <4>1
        <5> QED
          BY <4>1, <5>1
      <4>2. CASE i # m
        <5>1. i \in 0 .. m - 1
          BY <4>2
        <5>2. f[i] = IF i = 0 THEN CutLeaf(s, p) ELSE CutInternal(f[i - 1].db, above[i])
          BY <3>1, <5>1
        <5>3. i # 0 => i - 1 \in 0 .. m /\ i - 1 # m
          OBVIOUS
        <5> QED
          BY <4>2, <5>2, <5>3
      <4> QED
        BY <4>1, <4>2
    <3>3. IsF(g, m)
      BY <3>2
    <3> HIDE DEF g, IsF
    <3> QED
      BY <3>3
  <2>3. n \in P
    <3> HIDE DEF P
    <3>1. \A m \in 0 .. n : m \in P
      BY <1>7, <2>1, <2>2, UpTo
    <3> QED
      BY <1>7, <3>1
  <2> QED
    BY <2>3
<1> HIDE DEF cut
<1>9. CutsAre(cut, n, s, at, k)
  <2>1. cut[0] = CutLeaf(s, at[0][k])
    BY <1>7, <1>8
  <2>2. ASSUME NEW i \in 1 .. n PROVE cut[i] = CutInternal(cut[i - 1].db, at[i][k])
    <3>1. i \in 0 .. n /\ i # 0 /\ i \in 1 .. h
      BY <1>1, <1>7
    <3>2. cut[i] = CutInternal(cut[i - 1].db, above[i])
      BY <1>8, <3>1, ZenonT(40)
    <3> QED
      BY <1>4, <3>1, <3>2
  <2> QED
    BY <2>1, <2>2 DEF CutsAre
<1>10. PICK g : SplitTo(cut, n, s, store, h, g, at, k)
  BY <1>7, <1>9, CutLoop
<1> DEFINE top == cut[n]
           First == IF n = Len(above) THEN Rooted(top.db, top)
                    ELSE Attached(top.db, top, above[n + 1])
           After(i, t) == LET half == cut[n - i]
                              parent == cut[n - i + 1]
                          IN Attached(t, half, IF half.key < parent.key THEN t.page[half.left].parent
                                               ELSE parent.right)
           attached == CHOOSE f : f = [i \in 0 .. n |-> IF i = 0 THEN First ELSE After(i, f[i - 1])]
<1>11. SplitLeaf(s, p) = attached[n]
  <2>1. s.page[p].rows # <<>>
    OBVIOUS
  <2> QED
    BY <2>1, ZenonT(40) DEF SplitLeaf, cut, n, above
<1> HIDE DEF First, After
<1>12. attached = [i \in 0 .. n |-> IF i = 0 THEN First ELSE After(i, attached[i - 1])]
  <2> DEFINE IsF(f, m) == f = [i \in 0 .. m |-> IF i = 0 THEN First ELSE After(i, f[i - 1])]
             P == {m \in 0 .. n : \E f : IsF(f, m)}
  <2>1. 0 \in P
    <3>1. IsF([i \in 0 .. 0 |-> First], 0)
      OBVIOUS
    <3> HIDE DEF IsF
    <3> QED
      BY <1>7, <3>1
  <2>2. ASSUME NEW m \in 1 .. n, m - 1 \in P PROVE m \in P
    <3>1. PICK f : IsF(f, m - 1)
      BY <2>2
    <3> DEFINE r == [i \in 0 .. m |-> IF i = m THEN After(m, f[m - 1]) ELSE f[i]]
    <3>2. ASSUME NEW i \in 0 .. m PROVE r[i] = IF i = 0 THEN First ELSE After(i, r[i - 1])
      <4>1. CASE i = m
        <5>1. i # 0 /\ i - 1 \in 0 .. m /\ i - 1 # m
          BY <4>1
        <5> QED
          BY <4>1, <5>1
      <4>2. CASE i # m
        <5>1. i \in 0 .. m - 1
          BY <4>2
        <5>2. f[i] = IF i = 0 THEN First ELSE After(i, f[i - 1])
          BY <3>1, <5>1
        <5>3. i # 0 => i - 1 \in 0 .. m /\ i - 1 # m
          OBVIOUS
        <5> QED
          BY <4>2, <5>2, <5>3
      <4> QED
        BY <4>1, <4>2
    <3>3. IsF(r, m)
      BY <3>2
    <3> HIDE DEF r, IsF
    <3> QED
      BY <3>3
  <2>3. n \in P
    <3> HIDE DEF P
    <3>1. \A m \in 0 .. n : m \in P
      BY <1>7, <2>1, <2>2, UpTo
    <3> QED
      BY <1>7, <3>1
  <2> QED
    BY <2>3
<1> HIDE DEF attached
<1> DEFINE Finished(t, m) == \E h2, g2, seen : Tied(t, m, s, store, h, h2, g2, seen, g, at, k)
<1>13. \A i \in 0 .. n : Finished(attached[i], n - i)
  <2> DEFINE P == {i \in 0 .. n : Finished(attached[i], n - i)}
  <2>1. 0 \in P
    <3>1. PICK t : t = attached[0]
      OBVIOUS
    <3>2. t = First
      BY <1>7, <1>12, <3>1
    <3>3. t = IF n = h THEN Rooted(cut[n].db, cut[n]) ELSE Attached(cut[n].db, cut[n], at[n + 1][k])
      <4>1. n # h => above[n + 1] = at[n + 1][k]
        <5>1. n # h => n + 1 \in 1 .. h
          BY <1>1, <1>7
        <5> QED
          BY <1>4, <5>1
      <4> QED
        BY <1>4, <3>2, <4>1 DEF First
    <3>4. \E h2, g2, seen : Tied(t, n, s, store, h, h2, g2, seen, g, at, k)
      BY <1>7, <1>10, <3>3, TieFirst
    <3>5. n - 0 = n /\ 0 \in 0 .. n
      BY <1>7
    <3> QED
      BY <3>1, <3>4, <3>5
  <2>2. ASSUME NEW i \in 1 .. n, i - 1 \in P PROVE i \in P
    <3>1. PICK u : u = attached[i - 1]
      OBVIOUS
    <3>2. PICK t : t = attached[i]
      OBVIOUS
    <3>3. PICK m \in 1 .. n : m = n - (i - 1) /\ m - 1 = n - i /\ n - i + 1 = m
      BY <1>7
    <3>4. PICK h2, g2, seen : Tied(u, m, s, store, h, h2, g2, seen, g, at, k)
      BY <2>2, <3>1, <3>3
    <3>5. t = After(i, u)
      BY <1>7, <1>12, <3>1, <3>2
    <3>6. PICK half, parent : half = cut[m - 1] /\ parent = cut[m]
      OBVIOUS
    <3>7. t = AttachedBelow(u, half, parent)
      BY <3>3, <3>5, <3>6 DEF After, AttachedBelow
    <3>8. \E seen2 : Tied(t, m - 1, s, store, h, h2, g2, seen2, g, at, k)
      BY <1>7, <1>10, <3>4, <3>6, <3>7, TieMore, SMTT(30)
    <3>9. Finished(t, n - i)
      BY <3>3, <3>8
    <3>10. i \in 0 .. n
      BY <1>7
    <3> QED
      BY <3>2, <3>9, <3>10
  <2> HIDE DEF P
  <2>3. \A i \in 0 .. n : i \in P
    BY <1>7, <2>1, <2>2, UpTo
  <2> QED
    BY <2>3 DEF P
<1>14. PICK t : t = SplitLeaf(s, p) /\ Finished(t, 0)
  <2>1. n \in 0 .. n /\ n - n = 0
    BY <1>7
  <2>2. Finished(attached[n], n - n)
    BY <1>13, <2>1
  <2> QED
    BY <1>11, <2>1, <2>2
<1>15. PICK h2, g2, seen : Tied(t, 0, s, store, h, h2, g2, seen, g, at, k)
  BY <1>14
<1>16. /\ Sound(t, store, h2, g2, seen, 0) /\ t.next_row = s.next_row /\ Halved(t, s, g, at, k)
       /\ \A j \in Nat : seen[j] = g2[j] /\ g2[0] = g[0]
       /\ Keeps(t, h2, g2, s, h, at, {})
  <2>1. \A j \in Nat : j >= 0
    OBVIOUS
  <2> QED
    BY <1>1, <1>15, <2>1 DEF Tied, TiedFrom
<1>17. seen = g2 /\ t \in Database
  <2>1. seen \in [Nat -> Division] /\ g2 \in [Nat -> Division] /\ t \in Database
    BY <1>16 DEF Sound, Grown
  <2> QED
    BY <1>16, <2>1
<1>18. \A x \in Ids : at[0][x] = p => Len(t.page[g2[0][x]].rows) < Len(s.page[p].rows)
  <2>1. g2[0] = g[0]
    BY <1>16
  <2> QED
    BY <1>16, <2>1 DEF Halved
<1> QED
  BY <1>14, <1>16, <1>17, <1>18

-----------------------------------------------------------------------------
(* Nodes that a change leaves right *)

NodeOk(pg, x, a, down, thin) ==
  /\ x \in 1 .. Len(pg) /\ NodeIn(pg[x], x, a, down)
  /\ Len(pg[x].cells) <= MAX_CELLS /\ (x = thin \/ pg[x].cells # <<>>)

LEMMA NodeLevelIs ==
  ASSUME NEW pg, NEW a, NEW down, NEW thin
  PROVE  NodeLevel(pg, a, down, thin) <=>
           Nested(a, down) /\ \A k \in Ids : NodeOk(pg, a[k], a, down, thin)
BY DEF NodeLevel, NodeOk

LEMMA NodeOkKept ==
  ASSUME NEW pg, NEW pg2, NEW x, NEW a, NEW down, NEW thin, NodeOk(pg, x, a, down, thin),
         x \in 1 .. Len(pg2), pg2[x] \in Page, SameBody(pg2[x], pg[x]),
         NEW b, \A y \in Ids : b[y] = x <=> a[y] = x,
         NEW below, \A y \in Ids : a[y] = x => below[y] = down[y],
         NEW thin2, x # thin \/ thin2 = thin
  PROVE  NodeOk(pg2, x, b, below, thin2)
<1>1. NodeIn(pg[x], x, a, down) /\ Len(pg[x].cells) <= MAX_CELLS /\ (x = thin \/ pg[x].cells # <<>>)
  BY DEF NodeOk
<1>2. NodeIn(pg[x], x, b, below)
  BY <1>1, NodeInSame
<1>3. NodeIn(pg2[x], x, b, below)
  BY <1>2, NodeKept
<1> QED
  BY <1>1, <1>3 DEF NodeOk, SameBody

\* free_page on a page that is in no level.
LEMMA FreeSound ==
  ASSUME NEW s, NEW store, NEW h, NEW at, NEW seen, NEW thin, Sound(s, store, h, at, seen, thin),
         NEW q \in 1 .. Len(s.page), q # s.root_page_id, \A j \in 0 .. h, k \in Ids : at[j][k] # q
  PROVE  \E t \in Database :
           /\ t = Freed(s, q) /\ Sound(t, store, h, at, seen, thin)
           /\ Len(t.page) = Len(s.page) /\ t.next_row = s.next_row
           /\ Keeps(t, h, at, s, h, at, {}) /\ Home(q, t, h, at)
<1>1. /\ s \in Database /\ Listed(s.page, s.first_free_page) /\ s.next_row <= MAX_ROWS
      /\ Grown(s.page, s.root_page_id, store, h, at, seen, thin)
      /\ \A row \in store : row \in Rows /\ row.key < s.next_row
  BY DEF Sound
<1>2. Len(s.page) \in Nat
  BY <1>1, PagesAre
<1>3. PICK t \in Database :
           /\ t = Freed(s, q) /\ Len(t.page) = Len(s.page)
           /\ \A p \in 1 .. Len(s.page) : p # q => t.page[p] = s.page[p]
           /\ t.page[q].type = "free"
           /\ t.root_page_id = s.root_page_id /\ t.next_row = s.next_row
           /\ Listed(t.page, t.first_free_page)
  BY <1>1, FreedEffect
<1>4. \A j \in 0 .. h, k \in Ids : at[j][k] \in 1 .. Len(s.page)
  BY <1>1, <1>2, PageOfLevel
<1>5. ASSUME NEW j \in 0 .. h, NEW k \in Ids
      PROVE  /\ t.page[at[j][k]] = s.page[at[j][k]] /\ at[j][k] \in 1 .. Len(t.page)
             /\ t.page[at[j][k]] \in Page
             /\ SameBody(t.page[at[j][k]], s.page[at[j][k]])
             /\ SameLinks(t.page[at[j][k]], s.page[at[j][k]])
  <2>1. t.page[at[j][k]] = s.page[at[j][k]] /\ at[j][k] \in 1 .. Len(t.page)
    BY <1>3, <1>4
  <2>2. t.page[at[j][k]] \in Page
    BY <2>1, PagesAre
  <2> QED
    BY <2>1, <2>2 DEF SameBody, SameLinks
<1>6. /\ h \in Nat /\ at \in [Nat -> Division] /\ seen \in [Nat -> Division]
      /\ \A j \in 0 .. h : Contiguous(at[j]) /\ Contiguous(seen[j])
      /\ Apart(h, at, seen)
      /\ LeafLevel(s.page, at[0], store)
      /\ Chained(s.page, at[0])
      /\ \A j \in 1 .. h : NodeLevel(s.page, at[j], seen[j - 1], thin)
      /\ \A j \in 1 .. h : Adopts(s.page, at[j - 1], seen[j - 1], at[j])
      /\ s.page[s.root_page_id].parent = 0 /\ \A k \in Ids : seen[h][k] = s.root_page_id
  BY <1>1 DEF Grown
<1>7. LeafLevel(t.page, at[0], store) /\ Chained(t.page, at[0])
  <2>1. 0 \in 0 .. h
    BY <1>6
  <2> QED
    BY <1>5, <1>6, <2>1, LeafLevelKept, ChainedKept
<1>8. ASSUME NEW j \in 1 .. h PROVE NodeLevel(t.page, at[j], seen[j - 1], thin)
  <2>1. j \in 0 .. h
    BY <1>6
  <2> QED
    BY <1>5, <1>6, <2>1, NodeLevelKept
<1>9. ASSUME NEW j \in 1 .. h PROVE Adopts(t.page, at[j - 1], seen[j - 1], at[j])
  <2>1. j - 1 \in 0 .. h
    BY <1>6
  <2>2. \A k \in Ids : t.page[at[j - 1][k]] = s.page[at[j - 1][k]]
    BY <1>5, <2>1
  <2> QED
    BY <1>6, <2>2, ZenonT(40) DEF Adopts
<1>10. t.page[t.root_page_id].parent = 0 /\ \A k \in Ids : seen[h][k] = t.root_page_id
  <2>1. CASE s.root_page_id \in 1 .. Len(s.page)
    BY <1>3, <1>6, <2>1
  <2>2. CASE s.root_page_id \notin 1 .. Len(s.page)
    <3>1. t.page[s.root_page_id] = s.page[s.root_page_id]
      <4>1. Freed(s, q).page[s.root_page_id] = s.page[s.root_page_id]
        BY <1>1, <1>2, <2>2, PagesAre DEF Freed
      <4> QED
        BY <1>3, <4>1
    <3> QED
      BY <1>3, <1>6, <3>1
  <2> QED
    BY <2>1, <2>2
<1>11. Grown(t.page, t.root_page_id, store, h, at, seen, thin)
  BY <1>6, <1>7, <1>8, <1>9, <1>10 DEF Grown
<1>12. Sound(t, store, h, at, seen, thin)
  BY <1>1, <1>3, <1>11 DEF Sound
<1>13. Keeps(t, h, at, s, h, at, {})
  <2>1. \A x \in 1 .. Len(s.page) : s.page[x].type = "free" => t.page[x].type = "free"
    BY <1>3
  <2> QED
    BY <1>3, <2>1, KeepsTo
<1>14. Home(q, t, h, at)
  BY <1>3 DEF Home
<1> QED
  BY <1>3, <1>12, <1>13, <1>14

-----------------------------------------------------------------------------
(* A node forgets a child that is merged away *)

\* Level j has page r no more, whose ids are those of its left neighbour l, of which the
\* node above them is not told.
IsMerged(at, seen, j, l, r, e) ==
  /\ l \in Nat /\ r \in Nat /\ l # r /\ e \in Ids /\ e - 1 \in Ids
  /\ seen[j][e - 1] = l /\ seen[j][e] = r
  /\ \A k \in Ids : at[j][k] = IF seen[j][k] = r THEN l ELSE seen[j][k]
  /\ at[j + 1][e - 1] = at[j + 1][e]
  /\ \A i \in Nat : i # j => seen[i] = at[i]

LEMMA WithoutChildKeeps ==
  ASSUME NEW n \in Node, NEW c
  PROVE  WithoutChild(n, c).parent = n.parent
BY DEF WithoutChild, Node

\* Node p is m in t, and all else is as it was; what was asked of level j is now what it has.
IsDropped(t, m, s, store, h, at, seen, p, r) ==
  /\ m = WithoutChild(s.page[p], r) /\ t = [s EXCEPT !.page[p] = WithoutChild(s.page[p], r)]
  /\ t.page[p] = m /\ m.parent = s.page[p].parent
  /\ r \in ToSet(Kids(s.page[p])) /\ s.page[p].cells # <<>>
  /\ Sound(t, store, h, at, at, p)
  /\ Len(t.page) = Len(s.page) /\ t.next_row = s.next_row
  /\ Keeps(t, h, at, s, h, at, {})

LEMMA DropSound ==
  ASSUME NEW s, NEW store, NEW h, NEW at, NEW seen, Sound(s, store, h, at, seen, 0),
         NEW j \in 0 .. h, j # h, NEW l, NEW r, NEW e, IsMerged(at, seen, j, l, r, e),
         NEW p, p = at[j + 1][e]
  PROVE  \E t \in Database, m \in Node : IsDropped(t, m, s, store, h, at, seen, p, r)
<1>1. /\ s \in Database /\ Listed(s.page, s.first_free_page) /\ s.next_row <= MAX_ROWS
      /\ Grown(s.page, s.root_page_id, store, h, at, seen, 0)
      /\ \A row \in store : row \in Rows /\ row.key < s.next_row
  BY DEF Sound
<1>2. Len(s.page) \in Nat
  BY <1>1, PagesAre
<1>3. /\ h \in Nat /\ at \in [Nat -> Division] /\ seen \in [Nat -> Division]
      /\ \A i \in 0 .. h : Contiguous(at[i]) /\ Contiguous(seen[i])
      /\ Apart(h, at, seen)
      /\ LeafLevel(s.page, at[0], store)
      /\ Chained(s.page, at[0])
      /\ \A i \in 1 .. h : NodeLevel(s.page, at[i], seen[i - 1], 0)
      /\ \A i \in 1 .. h : Adopts(s.page, at[i - 1], seen[i - 1], at[i])
      /\ s.page[s.root_page_id].parent = 0 /\ \A k \in Ids : seen[h][k] = s.root_page_id
  BY <1>1 DEF Grown
<1>4. /\ l \in Nat /\ r \in Nat /\ l # r /\ e \in Ids /\ e - 1 \in Ids
      /\ seen[j][e - 1] = l /\ seen[j][e] = r
      /\ \A k \in Ids : at[j][k] = IF seen[j][k] = r THEN l ELSE seen[j][k]
      /\ at[j + 1][e - 1] = p
      /\ \A i \in Nat : i # j => seen[i] = at[i]
  BY DEF IsMerged
<1>5. /\ j \in Nat /\ j + 1 \in 1 .. h /\ j + 1 \in Nat /\ j + 1 \in 0 .. h /\ j + 1 - 1 = j /\ h \in 0 .. h
  BY <1>3
<1>6. PICK down \in Division : down = seen[j] /\ Contiguous(down)
  BY <1>3, <1>5
<1>7. PICK b \in Division : b = at[j]
  BY <1>3, <1>5
<1>8. PICK a \in Division : a = at[j + 1]
  BY <1>3, <1>5
<1>9. \A i \in 0 .. h, k \in Ids : /\ at[i][k] \in Nat /\ at[i][k] \in 1 .. Len(s.page)
                                   /\ at[i][k] # 0 /\ s.page[at[i][k]].type # "free"
  BY <1>1, <1>2, PageOfLevel
<1>10. p \in Nat /\ p = a[e] /\ a[e - 1] = p /\ p \in 1 .. Len(s.page) /\ s.page[p].type # "free" /\ p # 0
  BY <1>4, <1>5, <1>8, <1>9
<1>11. NodeLevel(s.page, a, down, 0)
  BY <1>3, <1>5, <1>6, <1>8
<1>12. PICK n \in Node : n = s.page[p] /\ NodeIn(n, p, a, down) /\ Len(n.cells) <= MAX_CELLS
  BY <1>4, <1>10, <1>11, SMTT(30) DEF NodeLevel, NodeIn
<1>13. Nested(a, down) /\ n.cells # <<>>
  BY <1>4, <1>10, <1>11, <1>12 DEF NodeLevel
<1>14. PICK m \in Node : /\ m = WithoutChild(n, r) /\ Len(m.cells) = Len(n.cells) - 1
                         /\ NodeIn(m, p, a, b) /\ Nested(a, b)
  <2>1. down[e - 1] = l /\ down[e] = r
    BY <1>4, <1>6
  <2>2. PICK m \in Node, below \in Division : IsKidDropped(m, below, n, p, l, r, a, down)
    BY <1>4, <1>6, <1>10, <1>12, <1>13, <2>1, DropKid
  <2>3. \A k \in Ids : below[k] = IF down[k] = r THEN l ELSE down[k]
    BY <2>2 DEF IsKidDropped
  <2>4. \A k \in Ids : below[k] = b[k]
    BY <1>4, <1>6, <1>7, <2>3
  <2>5. below = b
    BY <2>4 DEF Division
  <2> QED
    BY <2>2, <2>5 DEF IsKidDropped
<1>15. m.parent = n.parent
  BY <1>14, WithoutChildKeeps
<1>16. r \in ToSet(Kids(n))
  <2>1. down[e - 1] = l /\ down[e] = r
    BY <1>4, <1>6
  <2>2. PICK i \in 1 .. Len(n.cells) : Kids(n)[i + 1] = r
    <3>1. a[e - 1] = p /\ a[e] = p /\ down[e - 1] # down[e] /\ e - 1 \in Ids /\ e \in Ids
      BY <1>4, <1>10, <2>1
    <3>2. HasKey(n, e, down[e - 1], down[e])
      BY <1>12, <3>1, BorderIsKey
    <3> QED
      BY <2>1, <3>2 DEF HasKey
  <2>3. i + 1 \in DOMAIN Kids(n)
    <3>1. Len(n.cells) \in Nat /\ DOMAIN n.cells = 1 .. Len(n.cells)
      BY <1>12, CellsType
    <3>2. i + 1 \in 1 .. Len(n.cells) + 1
      BY <3>1
    <3>3. DOMAIN Kids(n) = 1 .. Len(n.cells) + 1
      BY <3>1 DEF Kids
    <3> QED
      BY <3>2, <3>3
  <2> QED
    BY <2>2, <2>3 DEF ToSet
<1>17. PICK t : t = [s EXCEPT !.page[p] = m] /\ IsSet(t, s, p, m)
  BY <1>1, <1>10, <1>14, NodeIsPage, SetPage
<1>18. /\ t \in Database /\ Len(t.page) = Len(s.page) /\ t.page[p] = m
       /\ \A y \in 1 .. Len(s.page) : y # p => t.page[y] = s.page[y]
       /\ t.root_page_id = s.root_page_id /\ t.next_row = s.next_row
       /\ t.first_free_page = s.first_free_page
  BY <1>17 DEF IsSet
<1>19. \A i \in Nat : at[i] = IF i = j THEN b ELSE seen[i]
  BY <1>4, <1>7
<1>20. Apart(h, at, at)
  <2>1. ASSUME NEW i \in 0 .. h, NEW k \in Ids
        PROVE  /\ \E x \in Ids : at[i][k] = at[i][x]
               /\ \E x \in Ids : at[i][k] = at[i][x] \/ at[i][k] = seen[i][x]
    OBVIOUS
  <2>2. h \in Nat /\ h <= h /\ at \in [Nat -> Division] /\ seen \in [Nat -> Division] /\ Apart(h, at, seen)
    BY <1>3
  <2>3. NoNew(h, at, at, at, seen)
    BY <2>1 DEF NoNew
  <2> QED
    BY <2>2, <2>3, ApartSame
<1>21. ASSUME NEW i \in 0 .. h, NEW k \in Ids
       PROVE  /\ at[i][k] \in 1 .. Len(t.page) /\ t.page[at[i][k]] \in Page
              /\ at[i][k] # p => t.page[at[i][k]] = s.page[at[i][k]]
              /\ t.page[at[i][k]].parent = s.page[at[i][k]].parent
  <2>1. at[i][k] \in 1 .. Len(s.page) /\ at[i][k] \in 1 .. Len(t.page)
    BY <1>9, <1>18
  <2>2. t.page[at[i][k]] \in Page
    BY <1>18, <2>1, PagesAre
  <2> QED
    BY <1>12, <1>15, <1>18, <2>1, <2>2
<1>22. ASSUME NEW i \in 0 .. h, i # j + 1, NEW k \in Ids
       PROVE  /\ at[i][k] # p /\ SameBody(t.page[at[i][k]], s.page[at[i][k]])
              /\ SameLinks(t.page[at[i][k]], s.page[at[i][k]])
  <2>1. at[i][k] # p
    <3>1. at[i][k] = at[j + 1][e] => i = j + 1
      BY <1>3, <1>4, <1>5, ApartAt
    <3> QED
      BY <1>22, <3>1
  <2>2. t.page[at[i][k]] = s.page[at[i][k]]
    BY <1>21, <2>1
  <2> QED
    BY <2>1, <2>2 DEF SameBody, SameLinks
<1>23. LeafLevel(t.page, at[0], store) /\ Chained(t.page, at[0])
  <2>1. 0 \in 0 .. h /\ 0 # j + 1
    BY <1>3, <1>5
  <2> QED
    BY <1>3, <1>21, <1>22, <2>1, LeafLevelKept, ChainedKept, SMTT(30)
<1>24. NodeLevel(t.page, a, b, p)
  <2>1. NodeOk(t.page, p, a, b, p)
    <3>1. p \in 1 .. Len(t.page) /\ t.page[p] = m
      BY <1>10, <1>18
    <3>2. Len(m.cells) <= MAX_CELLS
      <4>1. PICK L \in Nat : L = Len(n.cells)
        BY <1>12, CellsType
      <4>2. MAX_CELLS \in Nat
        BY CellCounts
      <4> QED
        BY <1>12, <1>14, <4>1, <4>2
    <3> QED
      BY <1>14, <3>1, <3>2 DEF NodeOk
  <2>2. ASSUME NEW k \in Ids, a[k] # p PROVE NodeOk(t.page, a[k], a, b, p)
    <3>1. PICK x \in Nat : x = a[k] /\ x # p /\ x # 0 /\ x = at[j + 1][k]
      BY <1>5, <1>8, <1>9, <2>2
    <3>2. NodeOk(s.page, x, a, down, 0)
      BY <1>11, <3>1, NodeLevelIs
    <3>3. /\ x \in 1 .. Len(t.page) /\ t.page[x] \in Page /\ SameBody(t.page[x], s.page[x])
      <4>1. x \in 1 .. Len(t.page) /\ t.page[x] \in Page /\ t.page[x] = s.page[x]
        BY <1>5, <1>21, <3>1
      <4> QED
        BY <4>1 DEF SameBody
    <3>4. \A y \in Ids : a[y] = x => b[y] = down[y]
      <4>1. \A y \in Ids : down[y] = r => a[y] = p
        BY <1>4, <1>6, <1>10, <1>13 DEF Nested
      <4> QED
        BY <1>4, <1>6, <1>7, <3>1, <4>1
    <3>5. \A y \in Ids : a[y] = x <=> a[y] = x
      OBVIOUS
    <3>6. NodeOk(t.page, x, a, b, p)
      BY <3>1, <3>2, <3>3, <3>4, <3>5, NodeOkKept, SMTT(30)
    <3> QED
      BY <3>1, <3>6
  <2>3. ASSUME NEW k \in Ids PROVE NodeOk(t.page, a[k], a, b, p)
    BY <2>1, <2>2
  <2> QED
    BY <1>14, <2>3, NodeLevelIs
<1>25. ASSUME NEW i \in 1 .. h PROVE NodeLevel(t.page, at[i], at[i - 1], p)
  <2>1. i \in 0 .. h /\ i - 1 \in Nat /\ (i = j + 1 \/ (i # j + 1 /\ i - 1 # j))
    BY <1>3, <1>5
  <2>2. CASE i = j + 1
    BY <1>5, <1>7, <1>8, <1>24, <2>2
  <2>3. CASE i # j + 1 /\ i - 1 # j
    <3>1. NodeLevel(s.page, at[i], at[i - 1], 0)
      BY <1>3, <1>4, <2>1, <2>3
    <3>2. ASSUME NEW k \in Ids PROVE NodeOk(t.page, at[i][k], at[i], at[i - 1], p)
      <4>1. NodeOk(s.page, at[i][k], at[i], at[i - 1], 0)
        BY <3>1, NodeLevelIs
      <4>2. PICK x : x = at[i][k] /\ x # 0
        BY <1>9, <2>1
      <4>3. /\ x \in 1 .. Len(t.page) /\ t.page[x] \in Page /\ SameBody(t.page[x], s.page[x])
        BY <1>21, <1>22, <2>1, <2>3, <4>2
      <4>4. NodeOk(s.page, x, at[i], at[i - 1], 0) /\ (x # 0 \/ p = 0)
        BY <4>1, <4>2
      <4>5. NodeOk(t.page, x, at[i], at[i - 1], p)
        BY <4>3, <4>4, NodeOkKept, SMTT(30)
      <4> QED
        BY <4>2, <4>5
    <3>3. Nested(at[i], at[i - 1])
      BY <3>1, NodeLevelIs
    <3> QED
      BY <3>2, <3>3, NodeLevelIs
  <2> QED
    BY <2>1, <2>2, <2>3
<1>26. ASSUME NEW i \in 1 .. h PROVE Adopts(t.page, at[i - 1], at[i - 1], at[i])
  <2>1. /\ i \in 0 .. h /\ i - 1 \in Nat /\ i - 1 \in 0 .. h /\ (i = j + 1 \/ (i # j + 1 /\ i - 1 # j))
        /\ Adopts(s.page, at[i - 1], seen[i - 1], at[i])
    BY <1>3, <1>5
  <2>2. ASSUME NEW k \in Ids PROVE s.page[at[i - 1][k]].parent = at[i][k]
    <3>1. CASE at[i - 1][k] = seen[i - 1][k]
      BY <2>1, <3>1 DEF Adopts
    <3>2. CASE at[i - 1][k] # seen[i - 1][k]
      <4>1. i - 1 = j /\ i = j + 1 /\ seen[j][k] = r /\ at[j][k] = l
        BY <1>4, <2>1, <3>2
      <4>2. at[j][e - 1] = l /\ seen[j][e - 1] = l
        BY <1>4
      <4>3. s.page[l].parent = at[j + 1][e - 1]
        BY <1>4, <2>1, <4>1, <4>2 DEF Adopts
      <4>4. at[j + 1][k] = p
        BY <1>4, <1>6, <1>8, <1>10, <1>13, <4>1 DEF Nested
      <4> QED
        BY <1>4, <4>1, <4>3, <4>4
    <3> QED
      BY <3>1, <3>2
  <2> QED
    BY <1>21, <2>1, <2>2 DEF Adopts
<1>27. t.page[t.root_page_id].parent = 0 /\ \A k \in Ids : at[h][k] = t.root_page_id
  <2>1. \A k \in Ids : at[h][k] = s.root_page_id
    BY <1>3, <1>4
  <2>2. t.page[s.root_page_id].parent = s.page[s.root_page_id].parent
    <3>1. t.page[at[h][e]].parent = s.page[at[h][e]].parent /\ at[h][e] = s.root_page_id
      BY <1>4, <1>5, <1>21, <2>1
    <3> QED
      BY <3>1
  <2> QED
    BY <1>3, <1>18, <2>1, <2>2
<1>28. Sound(t, store, h, at, at, p)
  <2>1. Grown(t.page, t.root_page_id, store, h, at, at, p)
    BY <1>3, <1>20, <1>23, <1>25, <1>26, <1>27 DEF Grown
  <2>2. Listed(t.page, t.first_free_page)
    <3>1. ASSUME NEW y \in 1 .. Len(s.page), s.page[y].type = "free"
          PROVE  t.page[y].type = "free" /\ t.page[y].next = s.page[y].next
      BY <1>10, <1>18, <3>1
    <3>2. Len(t.page) \in Nat /\ Len(s.page) <= Len(t.page)
      BY <1>2, <1>18
    <3>3. ASSUME NEW y \in 1 .. Len(t.page), t.page[y].type = "free"
          PROVE  y \in 1 .. Len(s.page) /\ s.page[y].type = "free" /\ t.page[y].rows = s.page[y].rows
      BY <1>14, <1>18, <3>3, NodeIsPage
    <3> QED
      BY <1>1, <1>2, <1>18, <3>1, <3>2, <3>3, ListedKept
  <2> QED
    BY <1>1, <1>18, <2>1, <2>2 DEF Sound
<1>29. Keeps(t, h, at, s, h, at, {})
  <2>1. \A x \in 1 .. Len(s.page) : s.page[x].type = "free" => t.page[x].type = "free"
    BY <1>10, <1>18, SMTT(30)
  <2> QED
    BY <1>18, <2>1, KeepsTo
<1>30. IsDropped(t, m, s, store, h, at, seen, p, r)
  BY <1>12, <1>13, <1>14, <1>15, <1>16, <1>17, <1>18, <1>28, <1>29 DEF IsDropped
<1> QED
  BY <1>18, <1>30

-----------------------------------------------------------------------------
(* The root is given up *)

IsWithParent(y, x, parent) ==
  y \in Page /\ SameBody(y, x) /\ SameLinks(y, x) /\ y.parent = parent

LEMMA SetParent ==
  ASSUME NEW s \in Database, NEW p \in 1 .. Len(s.page), NEW parent \in Nat
  PROVE  \E y : /\ IsSet([s EXCEPT !.page[p].parent = parent], s, p, y)
                /\ IsWithParent(y, s.page[p], parent)
<1>1. PICK x \in Page : x = s.page[p]
  BY PagesAre
<1>2. PICK y : y = [x EXCEPT !.parent = parent]
  OBVIOUS
<1>3. IsWithParent(y, x, parent)
  BY <1>2 DEF Page, IsWithParent, SameBody, SameLinks
<1>4. y \in Page
  BY <1>3 DEF IsWithParent
<1>5. [s EXCEPT !.page[p].parent = parent] = [s EXCEPT !.page[p] = y]
  BY <1>1, <1>2
<1> QED
  BY <1>1, <1>3, <1>4, <1>5, SetPage

\* Page only is the root and has no parent.
IsCrowned(u, s, only) ==
  /\ u \in Database /\ Len(u.page) = Len(s.page)
  /\ \A x \in 1 .. Len(s.page) :
       /\ SameBody(u.page[x], s.page[x]) /\ SameLinks(u.page[x], s.page[x])
       /\ u.page[x].parent = IF x = only THEN 0 ELSE s.page[x].parent
  /\ u.root_page_id = only /\ u.next_row = s.next_row /\ u.first_free_page = s.first_free_page

LEMMA CrownedPages ==
  ASSUME NEW s \in Database, NEW only \in 1 .. Len(s.page)
  PROVE  IsCrowned([s EXCEPT !.root_page_id = only, !.page[only].parent = 0], s, only)
<1>1. only \in Nat
  BY PagesAre
<1>2. PICK v : v = [s EXCEPT !.root_page_id = only]
  OBVIOUS
<1>3. /\ v \in Database /\ v.page = s.page /\ v.root_page_id = only
      /\ v.first_free_page = s.first_free_page /\ v.next_row = s.next_row
  BY <1>1, <1>2, Renumbered
<1>4. PICK y : /\ IsSet([v EXCEPT !.page[only].parent = 0], v, only, y)
               /\ IsWithParent(y, v.page[only], 0)
  BY <1>3, SetParent
<1>5. PICK u : u = [v EXCEPT !.page[only].parent = 0]
  OBVIOUS
<1>6. u = [s EXCEPT !.root_page_id = only, !.page[only].parent = 0]
  BY <1>2, <1>5
<1>7. /\ u \in Database /\ Len(u.page) = Len(s.page) /\ u.page[only] = y
      /\ \A x \in 1 .. Len(s.page) : x # only => u.page[x] = s.page[x]
      /\ u.root_page_id = only /\ u.next_row = s.next_row /\ u.first_free_page = s.first_free_page
  BY <1>3, <1>4, <1>5 DEF IsSet
<1>8. SameBody(y, s.page[only]) /\ SameLinks(y, s.page[only]) /\ y.parent = 0
  BY <1>3, <1>4 DEF IsWithParent
<1>9. ASSUME NEW x \in 1 .. Len(s.page)
      PROVE  /\ SameBody(u.page[x], s.page[x]) /\ SameLinks(u.page[x], s.page[x])
             /\ u.page[x].parent = IF x = only THEN 0 ELSE s.page[x].parent
  <2>1. CASE x = only
    BY <1>7, <1>8, <2>1
  <2>2. CASE x # only
    BY <1>7, <2>2 DEF SameBody, SameLinks
  <2> QED
    BY <2>1, <2>2
<1> QED
  BY <1>6, <1>7, <1>9 DEF IsCrowned

\* The only child of p is the root instead, and p is free.
IsCollapsed(t, s, store, h, at, p) ==
  /\ t = Collapsed(s, p) /\ Sound(t, store, h - 1, at, at, 0)
  /\ Len(t.page) = Len(s.page) /\ t.next_row = s.next_row
  /\ Keeps(t, h - 1, at, s, h, at, {})
\* The root p of a sound tree has lost its last key: its one child has all the ids.
LEMMA CollapseSound ==
  ASSUME NEW s, NEW store, NEW h, NEW at, NEW p, Sound(s, store, h, at, at, p),
         h # 0, NEW k0 \in Ids, p = at[h][k0], s.page[p].cells = <<>>
  PROVE  \E t \in Database : IsCollapsed(t, s, store, h, at, p)
<1>1. /\ s \in Database /\ Listed(s.page, s.first_free_page) /\ s.next_row <= MAX_ROWS
      /\ Grown(s.page, s.root_page_id, store, h, at, at, p)
      /\ \A row \in store : row \in Rows /\ row.key < s.next_row
  BY DEF Sound
<1>2. Len(s.page) \in Nat
  BY <1>1, PagesAre
<1>3. /\ h \in Nat /\ at \in [Nat -> Division]
      /\ \A i \in 0 .. h : Contiguous(at[i])
      /\ Apart(h, at, at)
      /\ LeafLevel(s.page, at[0], store)
      /\ Chained(s.page, at[0])
      /\ \A i \in 1 .. h : NodeLevel(s.page, at[i], at[i - 1], p)
      /\ \A i \in 1 .. h : Adopts(s.page, at[i - 1], at[i - 1], at[i])
      /\ s.page[s.root_page_id].parent = 0 /\ \A k \in Ids : at[h][k] = s.root_page_id
  BY <1>1 DEF Grown
<1>4. /\ h - 1 \in Nat /\ h \in 1 .. h /\ h \in 0 .. h /\ h - 1 \in 0 .. h /\ h - 1 <= h /\ h - 1 # h
      /\ \A i \in 0 .. h - 1 : i \in 0 .. h /\ i # h
      /\ \A i \in 1 .. h - 1 : i \in 0 .. h /\ i # h /\ i \in 1 .. h /\ i - 1 \in 0 .. h /\ i - 1 # h - 1
  BY <1>3
<1>5. \A i \in 0 .. h, k \in Ids : /\ at[i][k] \in Nat /\ at[i][k] \in 1 .. Len(s.page)
                                   /\ at[i][k] # 0 /\ s.page[at[i][k]].type # "free"
  BY <1>1, <1>2, PageOfLevel
<1>6. PICK only : only = s.page[p].rightmost
  OBVIOUS
<1>7. ASSUME NEW k \in Ids PROVE at[h - 1][k] = only
  <2>1. NodeLevel(s.page, at[h], at[h - 1], p) /\ at[h][k] = p
    BY <1>3, <1>4
  <2>2. PICK n : n = s.page[p] /\ NodeIn(n, p, at[h], at[h - 1])
    BY <2>1 DEF NodeLevel
  <2>3. CellFor(n, k) \in 1 .. Len(n.cells) + 1 /\ Len(n.cells) = 0
    BY <2>2, PlaceOf
  <2>4. KidFor(n, k) = at[h - 1][k]
    BY <2>1, <2>2 DEF NodeIn
  <2>5. CellFor(n, k) = 1
    BY <2>3, SMTT(30)
  <2>6. Kids(n)[1] = n.rightmost
    <3>1. n \in Node /\ 1 \in 1 .. Len(n.cells) + 1 /\ ~(1 <= Len(n.cells))
      BY <2>2, <2>3, NodeKeys
    <3> QED
      BY <3>1, KidAt
  <2> QED
    BY <1>6, <2>2, <2>4, <2>5, <2>6 DEF KidFor
<1>8. only \in Nat /\ only \in 1 .. Len(s.page) /\ p \in 1 .. Len(s.page) /\ only # p
  <2>1. at[h - 1][k0] = at[h][k0] => h - 1 = h
    BY <1>3, <1>4, ApartAt
  <2> QED
    BY <1>4, <1>5, <1>7, <2>1
<1>9. PICK u : /\ u = [s EXCEPT !.root_page_id = only, !.page[only].parent = 0]
               /\ IsCrowned(u, s, only)
  BY <1>1, <1>8, CrownedPages, ZenonT(40)
<1>10. /\ u \in Database /\ Len(u.page) = Len(s.page)
       /\ \A x \in 1 .. Len(s.page) :
            /\ SameBody(u.page[x], s.page[x]) /\ SameLinks(u.page[x], s.page[x])
            /\ u.page[x].parent = IF x = only THEN 0 ELSE s.page[x].parent
       /\ u.root_page_id = only /\ u.next_row = s.next_row /\ u.first_free_page = s.first_free_page
  BY <1>9 DEF IsCrowned
<1>11. ASSUME NEW i \in 0 .. h, NEW k \in Ids
       PROVE  /\ at[i][k] \in 1 .. Len(u.page) /\ u.page[at[i][k]] \in Page
              /\ SameBody(u.page[at[i][k]], s.page[at[i][k]])
              /\ SameLinks(u.page[at[i][k]], s.page[at[i][k]])
  <2>1. at[i][k] \in 1 .. Len(s.page) /\ at[i][k] \in 1 .. Len(u.page)
    BY <1>5, <1>10
  <2>2. u.page[at[i][k]] \in Page
    BY <1>10, <2>1, PagesAre
  <2> QED
    BY <1>10, <2>1, <2>2
<1>12. LeafLevel(u.page, at[0], store) /\ Chained(u.page, at[0])
  <2>1. 0 \in 0 .. h
    BY <1>3
  <2> QED
    BY <1>3, <1>11, <2>1, LeafLevelKept, ChainedKept
<1>13. ASSUME NEW i \in 1 .. h - 1 PROVE NodeLevel(u.page, at[i], at[i - 1], 0)
  <2>1. i \in 0 .. h /\ i # h /\ i \in 1 .. h
    BY <1>4
  <2>2. NodeLevel(s.page, at[i], at[i - 1], p)
    BY <1>3, <2>1
  <2>3. ASSUME NEW k \in Ids PROVE NodeOk(u.page, at[i][k], at[i], at[i - 1], 0)
    <3>1. NodeOk(s.page, at[i][k], at[i], at[i - 1], p)
      BY <2>2, NodeLevelIs
    <3>2. at[i][k] # p
      <4>1. at[i][k] = at[h][k0] => i = h
        BY <1>3, <1>4, <2>1, ApartAt
      <4> QED
        BY <2>1, <4>1
    <3>3. PICK x : x = at[i][k]
      OBVIOUS
    <3>4. /\ x \in 1 .. Len(u.page) /\ u.page[x] \in Page /\ SameBody(u.page[x], s.page[x])
      BY <1>11, <2>1, <3>3
    <3>5. NodeOk(s.page, x, at[i], at[i - 1], p) /\ (x # p \/ 0 = p)
      BY <3>1, <3>2, <3>3
    <3>6. NodeOk(u.page, x, at[i], at[i - 1], 0)
      BY <3>4, <3>5, NodeOkKept
    <3> QED
      BY <3>3, <3>6
  <2>4. Nested(at[i], at[i - 1])
    BY <2>2, NodeLevelIs
  <2> QED
    BY <2>3, <2>4, NodeLevelIs
<1>14. ASSUME NEW i \in 1 .. h - 1 PROVE Adopts(u.page, at[i - 1], at[i - 1], at[i])
  <2>1. i \in 1 .. h /\ i - 1 \in 0 .. h /\ i - 1 # h - 1
    BY <1>4
  <2>2. ASSUME NEW k \in Ids PROVE u.page[at[i - 1][k]].parent = at[i][k]
    <3>1. s.page[at[i - 1][k]].parent = at[i][k]
      BY <1>3, <2>1 DEF Adopts
    <3>2. at[i - 1][k] # only
      <4>1. at[i - 1][k] = at[h - 1][k0] => i - 1 = h - 1
        BY <1>3, <1>4, <2>1, ApartAt
      <4> QED
        BY <1>7, <2>1, <4>1
    <3>3. at[i - 1][k] \in 1 .. Len(s.page)
      BY <1>5, <2>1
    <3> QED
      BY <1>10, <3>1, <3>2, <3>3
  <2> QED
    BY <2>2 DEF Adopts
<1>15. Apart(h - 1, at, at)
  <2>1. ASSUME NEW i \in 0 .. h - 1, NEW k \in Ids
        PROVE  /\ \E x \in Ids : at[i][k] = at[i][x]
               /\ \E x \in Ids : at[i][k] = at[i][x] \/ at[i][k] = at[i][x]
    OBVIOUS
  <2>2. NoNew(h - 1, at, at, at, at)
    BY <2>1 DEF NoNew
  <2> QED
    BY <1>3, <1>4, <2>2, ApartSame
<1>16. Sound(u, store, h - 1, at, at, 0)
  <2>1. u.page[u.root_page_id].parent = 0 /\ \A k \in Ids : at[h - 1][k] = u.root_page_id
    BY <1>7, <1>8, <1>10
  <2>2. Grown(u.page, u.root_page_id, store, h - 1, at, at, 0)
    BY <1>3, <1>4, <1>12, <1>13, <1>14, <1>15, <2>1 DEF Grown
  <2>3. Listed(u.page, u.first_free_page)
    <3>1. ASSUME NEW y \in 1 .. Len(s.page), s.page[y].type = "free"
          PROVE  u.page[y].type = "free" /\ u.page[y].next = s.page[y].next
      BY <1>10, <3>1 DEF SameBody, SameLinks
    <3>2. Len(u.page) \in Nat /\ Len(s.page) <= Len(u.page)
      BY <1>2, <1>10
    <3>3. ASSUME NEW y \in 1 .. Len(u.page), u.page[y].type = "free"
          PROVE  y \in 1 .. Len(s.page) /\ s.page[y].type = "free" /\ u.page[y].rows = s.page[y].rows
      BY <1>10, <3>3 DEF SameBody
    <3> QED
      BY <1>1, <1>2, <1>10, <3>1, <3>2, <3>3, ListedKept
  <2> QED
    BY <1>1, <1>10, <2>2, <2>3 DEF Sound
<1>17. p \in 1 .. Len(u.page) /\ p # u.root_page_id /\ \A i \in 0 .. h - 1, k \in Ids : at[i][k] # p
  <2>1. ASSUME NEW i \in 0 .. h - 1, NEW k \in Ids PROVE at[i][k] # p
    <3>1. i \in 0 .. h /\ i # h
      BY <1>4
    <3>2. at[i][k] = at[h][k0] => i = h
      BY <1>3, <1>4, <3>1, ApartAt
    <3> QED
      BY <3>1, <3>2
  <2> QED
    BY <1>8, <1>10, <2>1
<1>18. PICK t \in Database :
           /\ t = Freed(u, p) /\ Sound(t, store, h - 1, at, at, 0)
           /\ Len(t.page) = Len(u.page) /\ t.next_row = u.next_row
           /\ Keeps(t, h - 1, at, u, h - 1, at, {}) /\ Home(p, t, h - 1, at)
  BY <1>16, <1>17, FreeSound
<1>19. t = Collapsed(s, p)
  BY <1>6, <1>9, <1>18, ZenonT(40) DEF Collapsed
<1>20. Keeps(u, h - 1, at, s, h, at, {p})
  <2>1. \A x \in 1 .. Len(s.page) : s.page[x].type = "free" => u.page[x].type = "free"
    BY <1>10 DEF SameBody
  <2>2. ASSUME NEW x, InTree(x, h, at) PROVE InTree(x, h - 1, at) \/ x \in {p}
    <3>1. PICK j \in 0 .. h, k \in Ids : at[j][k] = x
      BY <2>2 DEF InTree
    <3>2. CASE j = h
      BY <1>3, <3>1, <3>2
    <3>3. CASE j # h
      <4>1. j \in 0 .. h - 1
        BY <1>3, <3>3
      <4> QED
        BY <3>1, <4>1 DEF InTree
    <3> QED
      BY <3>2, <3>3
  <2> QED
    BY <1>10, <2>1, <2>2, KeepsTo
<1>21. Keeps(t, h - 1, at, s, h, at, {})
  BY <1>18, <1>20 DEF Keeps
<1> QED
  BY <1>10, <1>18, <1>19, <1>21 DEF IsCollapsed

-----------------------------------------------------------------------------
(* A level is divided anew *)

\* What a change of nodes on level i and of those above them leaves as it was.
IsOutside(t, s, h, at, i) ==
  /\ t \in Database /\ Len(t.page) = Len(s.page)
  /\ \A j \in 0 .. h, k \in Ids :
       /\ SameLinks(t.page[at[j][k]], s.page[at[j][k]])
       /\ j # i /\ j # i + 1 => SameBody(t.page[at[j][k]], s.page[at[j][k]])
       /\ j # i - 1 => t.page[at[j][k]].parent = s.page[at[j][k]].parent
  /\ t.root_page_id = s.root_page_id /\ t.next_row = s.next_row
  /\ Listed(t.page, t.first_free_page)

\* Level i is divided by b, and the nodes above it send their ids as c does.
IsRelevelled(t, g, seen, store, h, at, i, b, c) ==
  /\ \A j \in Nat : g[j] = IF j = i THEN b ELSE at[j]
  /\ \A j \in Nat : seen[j] = IF j = i THEN c ELSE at[j]
  /\ Sound(t, store, h, g, seen, 0)

LEMMA LevelChanged ==
  ASSUME NEW s, NEW store, NEW h, NEW at, NEW p, Sound(s, store, h, at, at, p),
         NEW i \in 1 .. h, i # h, NEW k0 \in Ids, p = at[i][k0],
         NEW b \in Division, Contiguous(b), \A k \in Ids : \E x \in Ids : b[k] = at[i][x],
         NEW c \in {b, at[i]}, NEW t, IsOutside(t, s, h, at, i),
         NodeLevel(t.page, b, at[i - 1], 0), NodeLevel(t.page, at[i + 1], c, 0),
         Adopts(t.page, at[i - 1], at[i - 1], b), Adopts(t.page, b, c, at[i + 1])
  PROVE  \E g, seen : IsRelevelled(t, g, seen, store, h, at, i, b, c)
<1>1. /\ s \in Database /\ Listed(s.page, s.first_free_page) /\ s.next_row <= MAX_ROWS
      /\ Grown(s.page, s.root_page_id, store, h, at, at, p)
      /\ \A row \in store : row \in Rows /\ row.key < s.next_row
  BY DEF Sound
<1>2. Len(s.page) \in Nat
  BY <1>1, PagesAre
<1>3. /\ h \in Nat /\ at \in [Nat -> Division]
      /\ \A j \in 0 .. h : Contiguous(at[j])
      /\ Apart(h, at, at)
      /\ LeafLevel(s.page, at[0], store)
      /\ Chained(s.page, at[0])
      /\ \A j \in 1 .. h : NodeLevel(s.page, at[j], at[j - 1], p)
      /\ \A j \in 1 .. h : Adopts(s.page, at[j - 1], at[j - 1], at[j])
      /\ s.page[s.root_page_id].parent = 0 /\ \A k \in Ids : at[h][k] = s.root_page_id
  BY <1>1 DEF Grown
<1>4. /\ t \in Database /\ Len(t.page) = Len(s.page)
      /\ \A j \in 0 .. h, k \in Ids :
           /\ SameLinks(t.page[at[j][k]], s.page[at[j][k]])
           /\ j # i /\ j # i + 1 => SameBody(t.page[at[j][k]], s.page[at[j][k]])
           /\ j # i - 1 => t.page[at[j][k]].parent = s.page[at[j][k]].parent
      /\ t.root_page_id = s.root_page_id /\ t.next_row = s.next_row
      /\ Listed(t.page, t.first_free_page)
  BY DEF IsOutside
<1>5. \A j \in 0 .. h, k \in Ids : /\ at[j][k] \in Nat /\ at[j][k] \in 1 .. Len(s.page)
                                   /\ at[j][k] # 0 /\ s.page[at[j][k]].type # "free"
  BY <1>1, <1>2, PageOfLevel
<1>6. /\ i \in Nat /\ i + 1 \in 1 .. h /\ i \in 0 .. h /\ h \in 0 .. h /\ 0 \in 0 .. h /\ i - 1 \in Nat
      /\ i - 1 \in 0 .. h /\ i + 1 - 1 = i
      /\ 0 # i /\ 0 # i + 1 /\ h # i - 1
  BY <1>3
<1>7. c \in Division /\ Contiguous(c) /\ \A k \in Ids : \E x \in Ids : c[k] = at[i][x]
  BY <1>3, <1>6
<1>8. PICK g : g = [at EXCEPT ![i] = b]
  OBVIOUS
<1>9. PICK seen : seen = [at EXCEPT ![i] = c]
  OBVIOUS
<1>10. /\ g \in [Nat -> Division] /\ \A j \in Nat : g[j] = IF j = i THEN b ELSE at[j]
       /\ seen \in [Nat -> Division] /\ \A j \in Nat : seen[j] = IF j = i THEN c ELSE at[j]
  BY <1>3, <1>6, <1>7, <1>8, <1>9
<1>11. ASSUME NEW j \in 0 .. h PROVE Contiguous(g[j]) /\ Contiguous(seen[j])
  BY <1>3, <1>7, <1>10
<1>12. Apart(h, g, seen)
  <2>1. ASSUME NEW j \in 0 .. h, NEW k \in Ids
        PROVE  /\ \E x \in Ids : g[j][k] = at[j][x]
               /\ \E x \in Ids : seen[j][k] = at[j][x] \/ seen[j][k] = at[j][x]
    BY <1>3, <1>7, <1>10, SMTT(30)
  <2>2. NoNew(h, g, seen, at, at)
    BY <2>1 DEF NoNew
  <2>3. h <= h
    BY <1>3
  <2> QED
    BY <1>3, <2>2, <2>3, ApartSame
<1>13. ASSUME NEW j \in 0 .. h, NEW k \in Ids
       PROVE  at[j][k] \in 1 .. Len(t.page) /\ t.page[at[j][k]] \in Page
  <2>1. at[j][k] \in 1 .. Len(t.page)
    BY <1>4, <1>5
  <2> QED
    BY <1>4, <2>1, PagesAre
<1>14. LeafLevel(t.page, at[0], store) /\ Chained(t.page, at[0])
  BY <1>3, <1>4, <1>6, <1>13, LeafLevelKept, ChainedKept
<1>15. ASSUME NEW j \in 1 .. h PROVE NodeLevel(t.page, g[j], seen[j - 1], 0)
  <2>1. /\ j \in Nat /\ j \in 0 .. h /\ j - 1 \in Nat
        /\ (j = i \/ j = i + 1 \/ (j # i /\ j # i + 1 /\ j - 1 # i))
    BY <1>3, <1>6
  <2>2. CASE j = i
    BY <1>6, <1>10, <2>1, <2>2
  <2>3. CASE j = i + 1
    BY <1>6, <1>10, <2>1, <2>3
  <2>4. CASE j # i /\ j # i + 1 /\ j - 1 # i
    <3>1. g[j] = at[j] /\ seen[j - 1] = at[j - 1] /\ NodeLevel(s.page, at[j], at[j - 1], p)
      BY <1>3, <1>10, <2>1, <2>4
    <3>2. ASSUME NEW k \in Ids PROVE NodeOk(t.page, at[j][k], at[j], at[j - 1], 0)
      <4>1. NodeOk(s.page, at[j][k], at[j], at[j - 1], p)
        BY <3>1, NodeLevelIs
      <4>2. at[j][k] # p
        <5>1. j \in 0 .. h /\ i \in 0 .. h /\ Apart(h, at, at)
          BY <1>3, <1>6, <2>1
        <5>2. at[j][k] = at[i][k0] => j = i
          BY <5>1, ApartAt
        <5> QED
          BY <2>4, <5>2
      <4>3. PICK x : x = at[j][k]
        OBVIOUS
      <4>4. /\ x \in 1 .. Len(t.page) /\ t.page[x] \in Page /\ SameBody(t.page[x], s.page[x])
        <5>1. SameBody(t.page[at[j][k]], s.page[at[j][k]])
          <6>1. \A y \in 0 .. h, z \in Ids : y # i /\ y # i + 1 => SameBody(t.page[at[y][z]], s.page[at[y][z]])
            BY <1>4
          <6> QED
            BY <2>1, <2>4, <6>1
        <5>2. at[j][k] \in 1 .. Len(t.page) /\ t.page[at[j][k]] \in Page
          BY <1>13, <2>1
        <5> QED
          BY <4>3, <5>1, <5>2
      <4>5. x # p
        BY <4>2, <4>3
      <4>6. NodeOk(s.page, x, at[j], at[j - 1], p)
        BY <4>1, <4>3
      <4>7. NodeOk(t.page, x, at[j], at[j - 1], 0)
        BY <4>4, <4>5, <4>6, NodeOkKept, SMTT(30)
      <4> QED
        BY <4>3, <4>7
    <3>3. Nested(at[j], at[j - 1])
      BY <3>1, NodeLevelIs
    <3>4. NodeLevel(t.page, at[j], at[j - 1], 0)
      BY <3>2, <3>3, NodeLevelIs
    <3> QED
      BY <3>1, <3>4
  <2> QED
    BY <2>1, <2>2, <2>3, <2>4
<1>16. ASSUME NEW j \in 1 .. h PROVE Adopts(t.page, g[j - 1], seen[j - 1], g[j])
  <2>1. /\ j \in Nat /\ j \in 0 .. h /\ j - 1 \in Nat /\ j - 1 \in 0 .. h
        /\ (j = i \/ j = i + 1 \/ (j # i /\ j # i + 1 /\ j - 1 # i /\ j - 1 # i - 1))
    BY <1>3, <1>6
  <2>2. CASE j = i
    BY <1>6, <1>10, <2>1, <2>2
  <2>3. CASE j = i + 1
    BY <1>6, <1>10, <2>1, <2>3
  <2>4. CASE j # i /\ j # i + 1 /\ j - 1 # i /\ j - 1 # i - 1
    <3>1. g[j] = at[j] /\ g[j - 1] = at[j - 1] /\ Adopts(s.page, at[j - 1], at[j - 1], at[j])
      BY <1>3, <1>10, <2>1, <2>4
    <3>2. ASSUME NEW k \in Ids PROVE t.page[at[j - 1][k]].parent = at[j][k]
      <4>1. s.page[at[j - 1][k]].parent = at[j][k]
        BY <3>1 DEF Adopts
      <4> QED
        BY <1>4, <2>1, <2>4, <4>1
    <3> QED
      BY <3>1, <3>2 DEF Adopts
  <2> QED
    BY <2>1, <2>2, <2>3, <2>4
<1>17. t.page[t.root_page_id].parent = 0 /\ \A k \in Ids : seen[h][k] = t.root_page_id
  <2>1. \A k \in Ids : seen[h][k] = s.root_page_id
    BY <1>3, <1>6, <1>10
  <2>2. t.page[at[h][k0]].parent = s.page[at[h][k0]].parent
    BY <1>4, <1>6
  <2> QED
    BY <1>3, <1>4, <2>1, <2>2
<1>18. g[0] = at[0]
  BY <1>6, <1>10
<1>19. Grown(t.page, t.root_page_id, store, h, g, seen, 0)
  BY <1>3, <1>10, <1>11, <1>12, <1>14, <1>15, <1>16, <1>17, <1>18 DEF Grown
<1>20. Sound(t, store, h, g, seen, 0)
  BY <1>1, <1>4, <1>19 DEF Sound
<1> QED
  BY <1>10, <1>20 DEF IsRelevelled

\* l and r are neighbours on level i, with the node q above them and its key x between.
AreSiblings(s, h, at, i, l, r, q, x, e) ==
  /\ i \in 0 .. h /\ i # h /\ e \in Ids /\ e - 1 \in Ids /\ l # r
  /\ at[i][e - 1] = l /\ at[i][e] = r /\ at[i + 1][e - 1] = q /\ at[i + 1][e] = q
  /\ x \in 1 .. Len(s.page[q].cells) /\ s.page[q].cells[x].key = e

-----------------------------------------------------------------------------
(* Two neighbouring nodes and the key between them *)

LEMMA RekeyedNode ==
  ASSUME NEW n \in Node, NEW x \in 1 .. Len(n.cells), NEW g \in Nat
  PROVE  \E cells \in Seq(Cell) :
           /\ cells = [n.cells EXCEPT ![x].key = g]
           /\ \A m \in Node : m.cells = cells /\ m.rightmost = n.rightmost => IsRekeyed(m, n, x, g)
<1>1. /\ n.cells \in Seq(Cell) /\ Len(n.cells) \in Nat /\ DOMAIN n.cells = 1 .. Len(n.cells)
      /\ n.rightmost \in Nat
  BY CellsType
<1>2. PICK cells : cells = [n.cells EXCEPT ![x].key = g]
  OBVIOUS
<1>3. PICK c : c = [n.cells[x] EXCEPT !.key = g]
  OBVIOUS
<1>4. n.cells[x] \in Cell
  BY <1>1
<1>5. c \in Cell /\ c.child = n.cells[x].child /\ c.key = g
  BY <1>3, <1>4, CellRekeyed
<1>6. cells = [n.cells EXCEPT ![x] = c]
  BY <1>2, <1>3
<1>7. cells \in Seq(Cell) /\ Len(cells) = Len(n.cells)
  BY <1>1, <1>5, <1>6
<1>8. \A y \in 1 .. Len(n.cells) : cells[y] = IF y = x THEN c ELSE n.cells[y]
  BY <1>1, <1>6
<1>9. ASSUME NEW m \in Node, m.cells = cells, m.rightmost = n.rightmost
      PROVE  IsRekeyed(m, n, x, g)
  <2>1. Len(m.cells) = Len(n.cells)
    BY <1>7, <1>9
  <2>2. \A y \in 1 .. Len(n.cells) : m.cells[y].key = IF y = x THEN g ELSE n.cells[y].key
    BY <1>5, <1>8, <1>9
  <2>3. ASSUME NEW y \in 1 .. Len(n.cells) + 1 PROVE Kids(m)[y] = Kids(n)[y]
    <3>1. Kids(n)[y] = IF y <= Len(n.cells) THEN n.cells[y].child ELSE n.rightmost
      BY KidAt
    <3>2. Kids(m)[y] = IF y <= Len(n.cells) THEN m.cells[y].child ELSE m.rightmost
      BY <2>1, KidAt
    <3>3. y <= Len(n.cells) => y \in 1 .. Len(n.cells)
      BY <1>1
    <3>4. y <= Len(n.cells) => m.cells[y].child = n.cells[y].child
      BY <1>5, <1>8, <1>9, <3>3
    <3> QED
      BY <1>9, <3>1, <3>2, <3>4
  <2> QED
    BY <2>1, <2>2, <2>3 DEF IsRekeyed
<1> QED
  BY <1>2, <1>7, <1>9

\* Node y has other cells.
LEMMA NodeWith ==
  ASSUME NEW x \in Node, NEW y, NEW cells, NEW rightmost, IsWithCells(y, x, cells, rightmost)
  PROVE  /\ y \in Node /\ y.cells = cells /\ y.rightmost = rightmost /\ y.parent = x.parent
         /\ SameLinks(y, x)
BY NodeIsPage, PageIsNode DEF IsWithCells

\* Of three pages of s, l is L in t, r has other cells and q has key g in its cell x.
AreThree(t, R, M, s, l, L, r, cells, q, x, g) ==
  /\ t \in Database /\ Len(t.page) = Len(s.page)
  /\ t.page[l] = L /\ t.page[r] = R /\ t.page[q] = M
  /\ R.cells = cells /\ R.rightmost = s.page[r].rightmost /\ R.parent = s.page[r].parent
  /\ SameLinks(R, s.page[r])
  /\ IsRekeyed(M, s.page[q], x, g) /\ M.parent = s.page[q].parent /\ SameLinks(M, s.page[q])
  /\ \A y \in 1 .. Len(s.page) : y # l /\ y # r /\ y # q => t.page[y] = s.page[y]
  /\ t.root_page_id = s.root_page_id /\ t.next_row = s.next_row
  /\ t.first_free_page = s.first_free_page

LEMMA ThreePages ==
  ASSUME NEW s \in Database, NEW l \in 1 .. Len(s.page), NEW r \in 1 .. Len(s.page),
         NEW q \in 1 .. Len(s.page), l # r, l # q, r # q,
         s.page[r] \in Node, s.page[q] \in Node, NEW L \in Node, NEW cells \in Seq(Cell),
         NEW x \in 1 .. Len(s.page[q].cells), NEW g \in Nat
  PROVE  \E t : \E R, M \in Node :
           /\ t = [s EXCEPT !.page[l] = L, !.page[r].cells = cells, !.page[q].cells[x].key = g]
           /\ AreThree(t, R, M, s, l, L, r, cells, q, x, g)
<1>1. PICK t1 : t1 = [s EXCEPT !.page[l] = L] /\ IsSet(t1, s, l, L)
  BY NodeIsPage, SetPage
<1>2. /\ t1 \in Database /\ Len(t1.page) = Len(s.page) /\ t1.page[l] = L
      /\ \A y \in 1 .. Len(s.page) : y # l => t1.page[y] = s.page[y]
      /\ t1.root_page_id = s.root_page_id /\ t1.next_row = s.next_row
      /\ t1.first_free_page = s.first_free_page
  BY <1>1 DEF IsSet
<1>3. PICK t2 : t2 = [t1 EXCEPT !.page[r].cells = cells]
  OBVIOUS
<1>4. PICK R : IsSet(t2, t1, r, R) /\ IsWithCells(R, t1.page[r], cells, t1.page[r].rightmost)
  BY <1>2, <1>3, SetCells
<1>5. t1.page[r] = s.page[r]
  BY <1>2
<1>6. /\ R \in Node /\ R.cells = cells /\ R.rightmost = s.page[r].rightmost
      /\ R.parent = s.page[r].parent /\ SameLinks(R, s.page[r])
  BY <1>4, <1>5, NodeWith
<1>7. /\ t2 \in Database /\ Len(t2.page) = Len(s.page) /\ t2.page[r] = R
      /\ \A y \in 1 .. Len(s.page) : y # r => t2.page[y] = t1.page[y]
      /\ t2.root_page_id = s.root_page_id /\ t2.next_row = s.next_row
      /\ t2.first_free_page = s.first_free_page
  BY <1>2, <1>4 DEF IsSet
<1>8. t2.page[q] = s.page[q]
  BY <1>2, <1>7
<1>9. PICK C \in Seq(Cell) :
        /\ C = [s.page[q].cells EXCEPT ![x].key = g]
        /\ \A m \in Node : m.cells = C /\ m.rightmost = s.page[q].rightmost
                             => IsRekeyed(m, s.page[q], x, g)
  BY RekeyedNode
<1>10. PICK t : t = [t2 EXCEPT !.page[q].cells = C]
  OBVIOUS
<1>11. PICK M : IsSet(t, t2, q, M) /\ IsWithCells(M, t2.page[q], C, t2.page[q].rightmost)
  BY <1>7, <1>10, SetCells
<1>12. /\ M \in Node /\ M.cells = C /\ M.rightmost = s.page[q].rightmost
       /\ M.parent = s.page[q].parent /\ SameLinks(M, s.page[q])
  BY <1>8, <1>11, NodeWith
<1>13. IsRekeyed(M, s.page[q], x, g)
  BY <1>9, <1>12
<1>14. /\ t \in Database /\ Len(t.page) = Len(s.page) /\ t.page[q] = M
       /\ \A y \in 1 .. Len(s.page) : y # q => t.page[y] = t2.page[y]
       /\ t.root_page_id = s.root_page_id /\ t.next_row = s.next_row
       /\ t.first_free_page = s.first_free_page
  BY <1>7, <1>11 DEF IsSet
<1>15. t.page[l] = L /\ t.page[r] = R
  BY <1>2, <1>7, <1>14
<1>16. \A y \in 1 .. Len(s.page) : y # l /\ y # r /\ y # q => t.page[y] = s.page[y]
  BY <1>2, <1>7, <1>14
<1>17. t = [t2 EXCEPT !.page[q].cells[x].key = g]
  BY <1>8, <1>9, <1>10
<1>18. t = [s EXCEPT !.page[l] = L, !.page[r].cells = cells, !.page[q].cells[x].key = g]
  BY <1>1, <1>3, <1>17
<1>19. AreThree(t, R, M, s, l, L, r, cells, q, x, g)
  BY <1>6, <1>12, <1>13, <1>14, <1>15, <1>16 DEF AreThree
<1> QED
  BY <1>6, <1>12, <1>18, <1>19

\* The cells of l and r with the key e between them are divided between the two, the first
\* A of them to l; the border is then at g.
AreRecut(L, R, b, g, m, n, l, r, e, A, a, down) ==
  /\ L = LeftPart(Joined(m, n, e), A) /\ R.cells = RightCells(Joined(m, n, e), A)
  /\ R.rightmost = n.rightmost /\ g = Joined(m, n, e).cells[A + 1].key
  /\ Len(Joined(m, n, e).cells) = Len(m.cells) + 1 + Len(n.cells)
  /\ g \in Ids /\ g - 1 \in Ids /\ a[g - 1] \in {l, r} /\ a[g] \in {l, r}
  /\ b = Shift(a, l, r, g) /\ Nested(b, down) /\ Contiguous(b)
  /\ NodeIn(L, l, b, down) /\ NodeIn(R, r, b, down)
  /\ Len(L.cells) = A /\ Len(R.cells) = Len(m.cells) + Len(n.cells) - A
  /\ L.parent = m.parent
  /\ A > Len(m.cells) => e < g
  /\ A < Len(m.cells) => g < e

LEMMA RecutNodes ==
  ASSUME NEW m, NEW n, NEW l \in Nat, NEW r \in Nat, l # r,
         NEW a \in Division, NEW down \in Division,
         NodeIn(m, l, a, down), NodeIn(n, r, a, down),
         Nested(a, down), Contiguous(a), Contiguous(down),
         NEW e \in Ids, e - 1 \in Ids, a[e - 1] = l, a[e] = r,
         NEW A \in Nat, A < Len(m.cells) + 1 + Len(n.cells)
  PROVE  \E L, R \in Node, b \in Division : \E g :
           AreRecut(L, R, b, g, m, n, l, r, e, A, a, down)
<1>1. m \in Node /\ n \in Node
  BY DEF NodeIn
<1>2. PICK all \in Node, c \in Division : AreJoined(all, c, m, n, l, r, e, a, down)
  BY JoinNodes
<1>3. /\ all = Joined(m, n, e) /\ \A k \in Ids : c[k] = IF a[k] = r THEN l ELSE a[k]
      /\ Len(all.cells) = Len(m.cells) + 1 + Len(n.cells) /\ all.cells[Len(m.cells) + 1].key = e
      /\ NodeIn(all, l, c, down) /\ Nested(c, down) /\ Contiguous(c)
  BY <1>2 DEF AreJoined
<1>4. all.rightmost = n.rightmost /\ all.parent = m.parent
  BY <1>1, <1>3 DEF Joined, Node
<1>5. Len(m.cells) \in Nat /\ Len(n.cells) \in Nat /\ Len(all.cells) \in Nat /\ all.cells \in Seq(Cell)
  BY <1>1, <1>2, CellsType
<1>6. PICK cells \in Seq(Cell) : cells = RightCells(all, A)
  <2>1. SubSeq(all.cells, A + 2, Len(all.cells)) \in Seq(Cell)
    <3>1. \A x \in A + 2 .. Len(all.cells) : all.cells[x] \in Cell
      BY <1>5
    <3> QED
      BY <1>5, <3>1
  <2> QED
    BY <2>1 DEF RightCells
<1>7. PICK R \in Node : R.cells = cells /\ R.rightmost = n.rightmost
  <2>1. [n EXCEPT !.cells = cells] \in Node
    BY <1>1, <1>6 DEF Node
  <2>2. [n EXCEPT !.cells = cells].cells = cells /\ [n EXCEPT !.cells = cells].rightmost = n.rightmost
    BY <1>1 DEF Node
  <2> QED
    BY <2>1, <2>2
<1>8. PICK L \in Node, g \in Ids, b \in Division : AreNodesCut(L, R, g, b, all, A, l, r, c, down)
  <2>1. \A k \in Ids : c[k] # r
    BY <1>3
  <2>2. A < Len(all.cells) /\ R.cells = RightCells(all, A) /\ R.rightmost = all.rightmost
    BY <1>3, <1>4, <1>6, <1>7
  <2> QED
    BY <1>3, <2>1, <2>2, CutNode, ZenonT(40)
<1>9. /\ L = LeftPart(all, A) /\ g = all.cells[A + 1].key /\ b = Shift(c, l, r, g)
      /\ Len(L.cells) = A /\ Len(R.cells) = Len(all.cells) - (A + 1)
      /\ g - 1 \in Ids /\ c[g - 1] = l /\ c[g] = l
      /\ NodeIn(L, l, b, down) /\ NodeIn(R, r, b, down)
      /\ Nested(b, down) /\ Contiguous(b)
  BY <1>8 DEF AreNodesCut
<1>10. b = Shift(a, l, r, g)
  <2>1. PICK d \in Division : d = Shift(a, l, r, g) /\ \A k \in Ids : d[k] = IF a[k] # l /\ a[k] # r THEN a[k]
                                                  ELSE IF k < g THEN l ELSE r
    BY ShiftAt
  <2>2. \A k \in Ids : b[k] = IF c[k] # l /\ c[k] # r THEN c[k] ELSE IF k < g THEN l ELSE r
    BY <1>9, ShiftAt
  <2>3. \A k \in Ids : b[k] = d[k]
    BY <1>3, <2>1, <2>2
  <2>4. b = d
    BY <2>3 DEF Division
  <2> QED
    BY <2>1, <2>4
<1>11. a[g - 1] \in {l, r} /\ a[g] \in {l, r}
  BY <1>3, <1>9
<1>12. (A > Len(m.cells) => e < g) /\ (A < Len(m.cells) => g < e)
  <2>1. \A x, y \in 1 .. Len(all.cells) : x < y => all.cells[x].key < all.cells[y].key
    <3>1. Rising(all)
      BY <1>3 DEF NodeIn
    <3> QED
      BY <3>1 DEF Rising
  <2>2. PICK B \in Nat, T \in Nat : B = Len(m.cells) /\ T = Len(all.cells) /\ A < T /\ B < T
    <3>1. PICK B \in Nat, C \in Nat, T \in Nat : B = Len(m.cells) /\ C = Len(n.cells) /\ T = Len(all.cells)
      BY <1>5
    <3>2. T = B + 1 + C /\ A < B + 1 + C
      BY <1>3, <3>1
    <3>3. A < T /\ B < T
      BY <3>2
    <3> QED
      BY <3>1, <3>3
  <2>3. A + 1 \in 1 .. Len(all.cells) /\ B + 1 \in 1 .. Len(all.cells)
    <3>1. A + 1 \in 1 .. T /\ B + 1 \in 1 .. T
      BY <2>2, SMTT(30)
    <3> QED
      BY <2>2, <3>1
  <2>4. (A > B => B + 1 < A + 1) /\ (A < B => A + 1 < B + 1)
    BY <2>2
  <2>5. A > B => all.cells[B + 1].key < all.cells[A + 1].key
    BY <2>1, <2>3, <2>4
  <2>6. A < B => all.cells[A + 1].key < all.cells[B + 1].key
    BY <2>1, <2>3, <2>4
  <2>7. all.cells[B + 1].key = e /\ all.cells[A + 1].key = g
    BY <1>3, <1>9, <2>2
  <2> QED
    BY <2>2, <2>5, <2>6, <2>7
<1>13. L.parent = m.parent
  BY <1>4, <1>9 DEF LeftPart, Node
<1>14. Len(R.cells) = Len(m.cells) + Len(n.cells) - A
  <2>1. PICK B \in Nat, C \in Nat, T \in Nat : B = Len(m.cells) /\ C = Len(n.cells) /\ T = Len(all.cells)
    BY <1>5
  <2>2. T = B + 1 + C /\ Len(R.cells) = T - (A + 1)
    BY <1>3, <1>9, <2>1
  <2>3. B + 1 + C - (A + 1) = B + C - A
    OBVIOUS
  <2>4. Len(R.cells) = B + C - A
    BY <2>2, <2>3, SMTT(30)
  <2> QED
    BY <2>1, <2>4
<1>15. AreRecut(L, R, b, g, m, n, l, r, e, A, a, down)
  <2>1. R.cells = RightCells(Joined(m, n, e), A) /\ L = LeftPart(Joined(m, n, e), A) /\ g = Joined(m, n, e).cells[A + 1].key
        /\ Len(Joined(m, n, e).cells) = Len(m.cells) + 1 + Len(n.cells)
    BY <1>3, <1>6, <1>7, <1>9
  <2> QED
    BY <1>7, <1>8, <1>9, <1>10, <1>11, <1>12, <1>13, <1>14, <2>1 DEF AreRecut
<1> QED
  BY <1>15, <1>8

\* What is so of two neighbouring nodes.
ArePair(s, at, i, l, r, q, x, e) ==
  /\ i \in Nat /\ i - 1 \in Nat /\ i + 1 \in Nat
  /\ at[i - 1] \in Division /\ at[i] \in Division /\ at[i + 1] \in Division
  /\ Contiguous(at[i - 1]) /\ Contiguous(at[i]) /\ Contiguous(at[i + 1])
  /\ l \in 1 .. Len(s.page) /\ r \in 1 .. Len(s.page) /\ q \in 1 .. Len(s.page)
  /\ l \in Nat /\ r \in Nat /\ q \in Nat /\ l # r /\ l # q /\ r # q
  /\ s.page[l] \in Node /\ s.page[r] \in Node /\ s.page[q] \in Node
  /\ NodeIn(s.page[l], l, at[i], at[i - 1]) /\ NodeIn(s.page[r], r, at[i], at[i - 1])
  /\ NodeIn(s.page[q], q, at[i + 1], at[i])
  /\ Nested(at[i], at[i - 1]) /\ Nested(at[i + 1], at[i])
  /\ Len(s.page[l].cells) <= MAX_CELLS /\ Len(s.page[r].cells) <= MAX_CELLS
  /\ Len(s.page[q].cells) <= MAX_CELLS
  /\ s.page[l].parent = q /\ s.page[r].parent = q

LEMMA PairIs ==
  ASSUME NEW s, NEW store, NEW h, NEW at, NEW p, Sound(s, store, h, at, at, p),
         NEW i \in 1 .. h, NEW l, NEW r, NEW q, NEW x, NEW e, AreSiblings(s, h, at, i, l, r, q, x, e)
  PROVE  ArePair(s, at, i, l, r, q, x, e)
<1>1. /\ s \in Database /\ Grown(s.page, s.root_page_id, store, h, at, at, p)
  BY DEF Sound
<1>2. Len(s.page) \in Nat
  BY <1>1, PagesAre
<1>3. /\ h \in Nat /\ at \in [Nat -> Division]
      /\ \A j \in 0 .. h : Contiguous(at[j])
      /\ Apart(h, at, at)
      /\ \A j \in 1 .. h : NodeLevel(s.page, at[j], at[j - 1], p)
      /\ \A j \in 1 .. h : Adopts(s.page, at[j - 1], at[j - 1], at[j])
  BY <1>1 DEF Grown
<1>4. /\ i # h /\ e \in Ids /\ e - 1 \in Ids /\ l # r
      /\ at[i][e - 1] = l /\ at[i][e] = r /\ at[i + 1][e - 1] = q /\ at[i + 1][e] = q
  BY DEF AreSiblings
<1>5. /\ i \in Nat /\ i \in 0 .. h /\ i - 1 \in 0 .. h /\ i + 1 \in 1 .. h /\ i + 1 \in 0 .. h
      /\ i + 1 - 1 = i /\ i # i + 1 /\ i - 1 \in Nat /\ i + 1 \in Nat
  BY <1>3, <1>4
<1>6. \A j \in 0 .. h, k \in Ids : at[j][k] \in Nat /\ at[j][k] \in 1 .. Len(s.page)
  BY <1>1, <1>2, PageOfLevel
<1>7. /\ l \in Nat /\ l \in 1 .. Len(s.page) /\ r \in Nat /\ r \in 1 .. Len(s.page)
      /\ q \in Nat /\ q \in 1 .. Len(s.page)
  BY <1>4, <1>5, <1>6
<1>8. l # q /\ r # q
  <2>1. PICK up \in 0 .. h : up = i + 1
    BY <1>5
  <2>2. i \in 0 .. h /\ Apart(h, at, at) /\ e \in Ids /\ e - 1 \in Ids
    BY <1>3, <1>4, <1>5
  <2>3. PICK d \in Ids : d = e - 1
    BY <2>2
  <2>4. at[i][d] = at[up][e] => i = up
    BY <2>2, ApartAt
  <2>5. at[i][e] = at[up][e] => i = up
    BY <2>2, ApartAt
  <2> QED
    BY <1>4, <1>5, <2>1, <2>3, <2>4, <2>5
<1>9. NodeLevel(s.page, at[i], at[i - 1], p) /\ NodeLevel(s.page, at[i + 1], at[i], p)
  BY <1>3, <1>5
<1>10. /\ Nested(at[i], at[i - 1])
       /\ NodeIn(s.page[l], l, at[i], at[i - 1]) /\ Len(s.page[l].cells) <= MAX_CELLS
       /\ NodeIn(s.page[r], r, at[i], at[i - 1]) /\ Len(s.page[r].cells) <= MAX_CELLS
  BY <1>4, <1>9 DEF NodeLevel
<1>11. /\ Nested(at[i + 1], at[i])
       /\ NodeIn(s.page[q], q, at[i + 1], at[i]) /\ Len(s.page[q].cells) <= MAX_CELLS
  BY <1>4, <1>9 DEF NodeLevel
<1>12. s.page[l] \in Node /\ s.page[r] \in Node /\ s.page[q] \in Node
  BY <1>10, <1>11 DEF NodeIn
<1>13. s.page[l].parent = q /\ s.page[r].parent = q
  <2>1. Adopts(s.page, at[i], at[i], at[i + 1])
    BY <1>3, <1>5
  <2> QED
    BY <1>4, <2>1 DEF Adopts
<1>14. at[i - 1] \in Division /\ at[i] \in Division /\ at[i + 1] \in Division
       /\ Contiguous(at[i - 1]) /\ Contiguous(at[i]) /\ Contiguous(at[i + 1])
  BY <1>3, <1>5
<1> QED
  BY <1>4, <1>5, <1>7, <1>8, <1>10, <1>11, <1>12, <1>13, <1>14 DEF ArePair

\* The children of a node are the pages below that have its ids.
AreKids(C, p, a, down) ==
  /\ \A k \in Ids : down[k] \in C <=> a[k] = p
  /\ \A c \in C : \E k \in Ids : a[k] = p /\ down[k] = c

LEMMA KidsAre ==
  ASSUME NEW n, NEW p, NEW a \in Division, NEW down \in Division, NodeIn(n, p, a, down),
         Nested(a, down), Used(p, a)
  PROVE  AreKids(ToSet(Kids(n)), p, a, down)
<1>1. EachAsked(n, p, a, down)
  BY KidHasId
<1>2. n \in Node /\ Len(n.cells) \in Nat /\ DOMAIN n.cells = 1 .. Len(n.cells)
  BY CellsType DEF NodeIn
<1>3. DOMAIN Kids(n) = 1 .. Len(n.cells) + 1
  BY <1>2 DEF Kids
<1>4. ASSUME NEW c \in ToSet(Kids(n)) PROVE \E k \in Ids : a[k] = p /\ down[k] = c
  <2>1. PICK i \in 1 .. Len(n.cells) + 1 : Kids(n)[i] = c
    BY <1>3 DEF ToSet
  <2>2. PICK k \in Ids : a[k] = p /\ down[k] = Kids(n)[i]
    BY <1>1 DEF EachAsked
  <2> QED
    BY <2>1, <2>2
<1>5. ASSUME NEW k \in Ids, down[k] \in ToSet(Kids(n)) PROVE a[k] = p
  <2>1. PICK j \in Ids : a[j] = p /\ down[j] = down[k]
    BY <1>4, <1>5
  <2> QED
    BY <2>1 DEF Nested
<1>6. ASSUME NEW k \in Ids, a[k] = p PROVE down[k] \in ToSet(Kids(n))
  <2>1. CellFor(n, k) \in 1 .. Len(n.cells) + 1
    BY PlaceOf
  <2>2. Kids(n)[CellFor(n, k)] = down[k]
    BY <1>6 DEF NodeIn, KidFor
  <2> QED
    BY <1>3, <2>1, <2>2 DEF ToSet
<1> QED
  BY <1>4, <1>5, <1>6 DEF AreKids

\* What becomes of the neighbours l and r under the node q: level i is divided by b, and q
\* sends its ids as c does.  dst has got the children in C.
HasCells(n) == n.cells # <<>> /\ Len(n.cells) <= MAX_CELLS
IsPairChanged(t, s, at, i, l, r, q, b, c, dst, C) ==
  /\ t \in Database /\ Len(t.page) = Len(s.page)
  /\ NodeIn(t.page[l], l, b, at[i - 1]) /\ HasCells(t.page[l])
  /\ Used(r, b) => NodeIn(t.page[r], r, b, at[i - 1]) /\ HasCells(t.page[r])
  /\ NodeIn(t.page[q], q, at[i + 1], c) /\ HasCells(t.page[q])
  /\ Nested(b, at[i - 1]) /\ Contiguous(b) /\ Nested(at[i + 1], c) /\ c \in {b, at[i]}
  /\ \A k \in Ids : b[k] = at[i][k] \/ (b[k] = dst /\ at[i][k] \in {l, r})
  /\ \A k \in Ids : at[i - 1][k] \in C <=> b[k] = dst /\ at[i][k] # dst
  /\ \A y \in C : \E k \in Ids : at[i - 1][k] = y
  /\ \A y \in 1 .. Len(s.page) :
       /\ y # l /\ y # r /\ y # q => SameBody(t.page[y], s.page[y])
       /\ SameLinks(t.page[y], s.page[y])
       /\ t.page[y].parent = IF y \in C THEN dst ELSE s.page[y].parent
  /\ t.root_page_id = s.root_page_id /\ t.next_row = s.next_row
  /\ Listed(t.page, t.first_free_page)

LEMMA PairSound ==
  ASSUME NEW s, NEW store, NEW h, NEW at, NEW p, Sound(s, store, h, at, at, p),
         NEW i \in 1 .. h, NEW l, NEW r, NEW q, NEW x, NEW e, AreSiblings(s, h, at, i, l, r, q, x, e),
         p \in {l, r}, NEW b \in Division, NEW c, NEW dst \in {l, r}, NEW C, NEW t,
         IsPairChanged(t, s, at, i, l, r, q, b, c, dst, C)
  PROVE  \E g, seen : IsRelevelled(t, g, seen, store, h, at, i, b, c)
<1>1. /\ s \in Database /\ Grown(s.page, s.root_page_id, store, h, at, at, p)
  BY DEF Sound
<1>2. Len(s.page) \in Nat
  BY <1>1, PagesAre
<1>3. /\ h \in Nat /\ at \in [Nat -> Division] /\ Apart(h, at, at)
      /\ \A j \in 1 .. h : NodeLevel(s.page, at[j], at[j - 1], p)
      /\ \A j \in 1 .. h : Adopts(s.page, at[j - 1], at[j - 1], at[j])
  BY <1>1 DEF Grown
<1>4. /\ i # h /\ e \in Ids /\ e - 1 \in Ids
      /\ at[i][e - 1] = l /\ at[i][e] = r /\ at[i + 1][e - 1] = q /\ at[i + 1][e] = q
  BY DEF AreSiblings
<1>5. PICK up \in 1 .. h, below \in 0 .. h :
        up = i + 1 /\ up - 1 = i /\ below = i - 1 /\ up \in 0 .. h /\ i \in 0 .. h
        /\ i # up /\ i # below /\ up # below
  BY <1>3, <1>4
<1>6. PICK a \in Division : a = at[i]
  BY <1>3, <1>5
<1>7. PICK above \in Division : above = at[up]
  BY <1>3, <1>5
<1>8. PICK down \in Division : down = at[below]
  BY <1>3, <1>5
<1>9. \A j \in 0 .. h, k \in Ids : at[j][k] \in Nat /\ at[j][k] \in 1 .. Len(s.page)
  BY <1>1, <1>2, PageOfLevel
<1>10. /\ t \in Database /\ Len(t.page) = Len(s.page)
       /\ NodeIn(t.page[l], l, b, down) /\ HasCells(t.page[l])
       /\ Used(r, b) => NodeIn(t.page[r], r, b, down) /\ HasCells(t.page[r])
       /\ NodeIn(t.page[q], q, above, c) /\ HasCells(t.page[q])
       /\ Nested(b, down) /\ Contiguous(b) /\ Nested(above, c) /\ c \in {b, a}
       /\ t.root_page_id = s.root_page_id /\ t.next_row = s.next_row
       /\ Listed(t.page, t.first_free_page)
  BY <1>5, <1>6, <1>7, <1>8 DEF IsPairChanged
<1>11. \A k \in Ids : b[k] = a[k] \/ (b[k] = dst /\ a[k] \in {l, r})
  BY <1>6 DEF IsPairChanged
<1>12. /\ \A k \in Ids : down[k] \in C <=> b[k] = dst /\ a[k] # dst
       /\ \A y \in C : \E k \in Ids : down[k] = y
  BY <1>5, <1>6, <1>8 DEF IsPairChanged
<1>13. \A y \in 1 .. Len(s.page) :
         /\ y # l /\ y # r /\ y # q => SameBody(t.page[y], s.page[y])
         /\ SameLinks(t.page[y], s.page[y])
         /\ t.page[y].parent = IF y \in C THEN dst ELSE s.page[y].parent
  BY DEF IsPairChanged
<1>14. /\ l = a[e - 1] /\ r = a[e] /\ q = above[e] /\ above[e - 1] = q
  BY <1>4, <1>5, <1>6, <1>7
<1>15. ASSUME NEW j \in 0 .. h, NEW k \in Ids
       PROVE  /\ j # i => at[j][k] # l /\ at[j][k] # r
              /\ j # up => at[j][k] # q
              /\ j # below => at[j][k] \notin C
  <2>1. PICK d \in Ids : d = e - 1
    BY <1>4
  <2>2. Apart(h, at, at) /\ i \in 0 .. h /\ up \in 0 .. h /\ below \in 0 .. h
    BY <1>3, <1>5
  <2>3. at[j][k] = at[i][d] => j = i
    BY <2>2, ApartAt
  <2>4. at[j][k] = at[i][e] => j = i
    BY <1>4, <2>2, ApartAt
  <2>5. at[j][k] = at[up][e] => j = up
    BY <1>4, <2>2, ApartAt
  <2>6. ASSUME at[j][k] \in C PROVE j = below
    <3>1. PICK y \in Ids : down[y] = at[j][k]
      BY <1>12, <2>6
    <3>2. at[j][k] = at[below][y] => j = below
      BY <2>2, ApartAt
    <3> QED
      BY <1>8, <3>1, <3>2
  <2> QED
    BY <1>4, <1>5, <2>1, <2>3, <2>4, <2>5, <2>6
<1>16. IsOutside(t, s, h, at, i)
  <2>1. ASSUME NEW j \in 0 .. h, NEW k \in Ids
        PROVE  /\ SameLinks(t.page[at[j][k]], s.page[at[j][k]])
               /\ j # i /\ j # i + 1 => SameBody(t.page[at[j][k]], s.page[at[j][k]])
               /\ j # i - 1 => t.page[at[j][k]].parent = s.page[at[j][k]].parent
    <3>1. PICK y \in 1 .. Len(s.page) : y = at[j][k]
      BY <1>9
    <3>2. j # i /\ j # i + 1 => y # l /\ y # r /\ y # q
      BY <1>5, <1>15, <3>1
    <3>3. j # i - 1 => y \notin C
      BY <1>5, <1>15, <3>1
    <3>4. /\ SameLinks(t.page[y], s.page[y])
          /\ j # i /\ j # i + 1 => SameBody(t.page[y], s.page[y])
          /\ j # i - 1 => t.page[y].parent = s.page[y].parent
      BY <1>13, <3>2, <3>3
    <3> QED
      BY <3>1, <3>4
  <2> QED
    BY <1>10, <2>1 DEF IsOutside
<1>17. \A k \in Ids : \E y \in Ids : b[k] = at[i][y]
  BY <1>4, <1>6, <1>11, <1>14
<1>18. NodeLevel(s.page, a, down, p) /\ NodeLevel(s.page, above, a, p)
  <2>1. NodeLevel(s.page, at[i], at[i - 1], p) /\ NodeLevel(s.page, at[up], at[up - 1], p)
    BY <1>3
  <2> QED
    BY <1>5, <1>6, <1>7, <1>8, <2>1
<1>19. NodeLevel(t.page, b, down, 0)
  <2>1. ASSUME NEW k \in Ids PROVE NodeOk(t.page, b[k], b, down, 0)
    <3>0. l \in 1 .. Len(t.page) /\ r \in 1 .. Len(t.page)
      BY <1>4, <1>5, <1>9, <1>10
    <3>1. CASE b[k] = l
      BY <1>10, <3>0, <3>1 DEF NodeOk, HasCells
    <3>2. CASE b[k] = r
      <4>1. Used(r, b)
        BY <3>2 DEF Used
      <4> QED
        BY <1>10, <3>0, <3>2, <4>1 DEF NodeOk, HasCells
    <3>3. CASE b[k] # l /\ b[k] # r
      <4>1. PICK y : y = a[k]
        OBVIOUS
      <4>2. y # l /\ y # r /\ b[k] = y
        BY <1>11, <3>3, <4>1
      <4>3. y \in 1 .. Len(s.page) /\ y \in 1 .. Len(t.page) /\ y # q
        BY <1>5, <1>6, <1>9, <1>10, <1>15, <4>1
      <4>4. t.page[y] \in Page /\ SameBody(t.page[y], s.page[y])
        BY <1>10, <1>13, <4>2, <4>3, PagesAre
      <4>5. NodeOk(s.page, y, a, down, p)
        BY <1>18, <4>1, NodeLevelIs
      <4>6. \A z \in Ids : b[z] = y <=> a[z] = y
        BY <1>11, <4>2
      <4>7. y # p
        BY <4>2
      <4>8. NodeOk(t.page, y, b, down, 0)
        BY <4>3, <4>4, <4>5, <4>6, <4>7, NodeOkKept, SMTT(30)
      <4> QED
        BY <4>2, <4>8
    <3> QED
      BY <3>1, <3>2, <3>3
  <2> QED
    BY <1>10, <2>1, NodeLevelIs
<1>20. NodeLevel(t.page, above, c, 0)
  <2>1. ASSUME NEW k \in Ids PROVE NodeOk(t.page, above[k], above, c, 0)
    <3>1. CASE above[k] = q
      <4>1. q \in 1 .. Len(t.page)
        BY <1>4, <1>7, <1>9, <1>10, <1>14
      <4> QED
        BY <1>10, <3>1, <4>1 DEF NodeOk, HasCells
    <3>2. CASE above[k] # q
      <4>1. PICK y : y = above[k]
        OBVIOUS
      <4>2. y # l /\ y # r /\ y # q /\ y # p
        BY <1>5, <1>7, <1>15, <3>2, <4>1
      <4>3. y \in 1 .. Len(s.page) /\ y \in 1 .. Len(t.page)
        BY <1>5, <1>7, <1>9, <1>10, <4>1
      <4>4. t.page[y] \in Page /\ SameBody(t.page[y], s.page[y])
        BY <1>10, <1>13, <4>2, <4>3, PagesAre
      <4>5. NodeOk(s.page, y, above, a, p)
        BY <1>18, <4>1, NodeLevelIs
      <4>6. ASSUME NEW z \in Ids, above[z] = y PROVE c[z] = a[z]
        <5>1. a[z] = l => above[z] = above[e - 1]
          BY <1>4, <1>14, <1>18 DEF NodeLevel, Nested
        <5>2. a[z] = r => above[z] = above[e]
          BY <1>4, <1>14, <1>18 DEF NodeLevel, Nested
        <5>3. a[z] # l /\ a[z] # r
          BY <1>14, <4>2, <4>6, <5>1, <5>2
        <5> QED
          BY <1>10, <1>11, <5>3
      <4>7. NodeOk(t.page, y, above, c, 0)
        BY <4>2, <4>3, <4>4, <4>5, <4>6, NodeOkKept, SMTT(30)
      <4> QED
        BY <4>1, <4>7
    <3> QED
      BY <3>1, <3>2
  <2> QED
    BY <1>10, <2>1, NodeLevelIs
<1>21. Adopts(s.page, down, down, a) /\ Adopts(s.page, a, a, above)
  <2>1. Adopts(s.page, at[i - 1], at[i - 1], at[i]) /\ Adopts(s.page, at[up - 1], at[up - 1], at[up])
    BY <1>3
  <2> QED
    BY <1>5, <1>6, <1>7, <1>8, <2>1
<1>22. Adopts(t.page, down, down, b)
  <2>1. ASSUME NEW k \in Ids PROVE t.page[down[k]].parent = b[k]
    <3>1. s.page[down[k]].parent = a[k]
      BY <1>21 DEF Adopts
    <3>2. down[k] \in 1 .. Len(s.page)
      BY <1>8, <1>9
    <3>3. t.page[down[k]].parent = IF down[k] \in C THEN dst ELSE a[k]
      BY <1>13, <3>1, <3>2
    <3> QED
      BY <1>11, <1>12, <3>3
  <2> QED
    BY <2>1 DEF Adopts
<1>23. Adopts(t.page, b, c, above)
  <2>1. ASSUME NEW k \in Ids PROVE t.page[b[k]].parent = above[k]
    <3>1. b[k] \in 1 .. Len(s.page) /\ b[k] \notin C
      <4>1. PICK y \in Ids : b[k] = at[i][y]
        BY <1>17
      <4> QED
        BY <1>5, <1>9, <1>15, <4>1
    <3>2. s.page[b[k]].parent = above[k]
      <4>1. CASE b[k] = a[k]
        BY <1>21, <4>1 DEF Adopts
      <4>2. CASE b[k] = dst /\ a[k] \in {l, r}
        <5>1. s.page[l].parent = q /\ s.page[r].parent = q
          BY <1>4, <1>14, <1>21 DEF Adopts
        <5>2. a[k] = l => above[k] = above[e - 1]
          BY <1>4, <1>14, <1>18 DEF NodeLevel, Nested
        <5>3. a[k] = r => above[k] = above[e]
          BY <1>4, <1>14, <1>18 DEF NodeLevel, Nested
        <5> QED
          BY <1>14, <4>2, <5>1, <5>2, <5>3
      <4> QED
        BY <1>11, <4>1, <4>2
    <3> QED
      BY <1>13, <3>1, <3>2
  <2> QED
    BY <2>1 DEF Adopts
<1>24. PICK k0 \in Ids : p = at[i][k0]
  BY <1>4
<1>25. /\ c \in {b, at[i]} /\ NodeLevel(t.page, b, at[i - 1], 0) /\ NodeLevel(t.page, at[i + 1], c, 0)
       /\ Adopts(t.page, at[i - 1], at[i - 1], b) /\ Adopts(t.page, b, c, at[i + 1])
  BY <1>5, <1>6, <1>7, <1>8, <1>10, <1>19, <1>20, <1>22, <1>23
<1> QED
  BY <1>4, <1>10, <1>16, <1>17, <1>24, <1>25, LevelChanged

-----------------------------------------------------------------------------
(* borrow_internal *)

\* How many cells the two have after it.
LEMMA BorrowCounts ==
  ASSUME NEW B \in Nat, NEW C \in Nat, B <= MAX_CELLS, C <= MAX_CELLS, B + C + 1 >= MAX_CELLS,
         NEW from_beg \in BOOLEAN, (IF from_beg THEN B ELSE C) < MIN_CELLS,
         NEW A, A = IF from_beg THEN MIN_CELLS ELSE B + 1 + C - 1 - MIN_CELLS
  PROVE  /\ A \in Nat /\ A < B + 1 + C /\ 1 <= A /\ A <= MAX_CELLS
         /\ 1 <= B + C - A /\ B + C - A <= MAX_CELLS
         /\ from_beg => A > B
         /\ ~from_beg => A < B
<1>1. PICK X \in Nat, N \in Nat : X = MAX_CELLS /\ N = MIN_CELLS /\ 1 <= N /\ N + 2 <= X
  BY CellCounts
<1>2. CASE from_beg
  <2>1. A = N /\ B < N /\ B <= X /\ C <= X /\ B + C + 1 >= X
    BY <1>1, <1>2
  <2>2. A \in Nat /\ A < B + 1 + C /\ 1 <= A /\ A <= X /\ 1 <= B + C - A /\ B + C - A <= X /\ A > B
    BY <1>1, <2>1
  <2> QED
    BY <1>1, <1>2, <2>2
<1>3. CASE ~from_beg
  <2>1. A = B + C - N /\ C < N /\ B <= X /\ C <= X /\ B + C + 1 >= X
    BY <1>1, <1>3
  <2>2. A \in Nat /\ A < B + 1 + C /\ 1 <= A /\ A <= X /\ 1 <= B + C - A /\ B + C - A <= X /\ A < B
    BY <1>1, <2>1
  <2> QED
    BY <1>1, <1>3, <2>2
<1> QED
  BY <1>2, <1>3

LEMMA PartKeeps ==
  ASSUME NEW m \in Node, NEW n, NEW e, NEW A
  PROVE  SameLinks(LeftPart(Joined(m, n, e), A), m)
BY DEF LeftPart, Joined, Node, SameLinks

\* Every id of dst on level i is its own after it.
Grows(b, a, l, r, dst) == \A k \in Ids : b[k] = a[k] \/ (b[k] = dst /\ a[k] \in {l, r})

LEMMA BorderGrows ==
  ASSUME NEW a \in Division, Contiguous(a), NEW e \in Ids, e - 1 \in Ids,
         NEW l \in Nat, NEW r \in Nat, l # r, l = a[e - 1], r = a[e], NEW g \in Ids,
         NEW b, b = Shift(a, l, r, g), NEW from_beg \in BOOLEAN,
         from_beg => e < g, ~from_beg => g < e,
         NEW dst, dst = IF from_beg THEN l ELSE r
  PROVE  Grows(b, a, l, r, dst) /\ Used(dst, b) /\ Used(dst, a)
<1>1. \A k \in Ids : b[k] = IF a[k] # l /\ a[k] # r THEN a[k] ELSE IF k < g THEN l ELSE r
  BY ShiftAt
<1>2. \A k \in Ids : (a[k] = l => k < e) /\ (a[k] = r => e <= k)
  BY Sides
<1>3. e \in Nat /\ g \in Nat /\ \A k \in Ids : k \in Nat
  BY IdsAre
<1>4. CASE from_beg
  <2>1. ASSUME NEW k \in Ids PROVE b[k] = a[k] \/ (b[k] = dst /\ a[k] \in {l, r})
    <3>1. k < e => k < g
      BY <1>3, <1>4
    <3> QED
      BY <1>1, <1>2, <1>4, <3>1
  <2>2. b[e - 1] = dst /\ a[e - 1] = dst
    <3>1. e - 1 < g
      BY <1>3, <1>4
    <3> QED
      BY <1>1, <1>4, <3>1
  <2> QED
    BY <2>1, <2>2 DEF Grows, Used
<1>5. CASE ~from_beg
  <2>1. ASSUME NEW k \in Ids PROVE b[k] = a[k] \/ (b[k] = dst /\ a[k] \in {l, r})
    <3>1. e <= k => ~(k < g)
      BY <1>3, <1>5
    <3> QED
      BY <1>1, <1>2, <1>5, <3>1
  <2>2. b[e] = dst /\ a[e] = dst
    <3>1. ~(e < g)
      BY <1>3, <1>5
    <3> QED
      BY <1>1, <1>5, <3>1
  <2> QED
    BY <2>1, <2>2 DEF Grows, Used
<1> QED
  BY <1>4, <1>5

IsBorrowed(s, at, i, l, r, q, x, src, dst, from_beg) ==
  \E t, C : \E b \in Division :
    /\ t = BorrowInternal(s, src, dst, q, x, from_beg)
    /\ IsPairChanged(t, s, at, i, l, r, q, b, b, dst, C)
    /\ Used(l, b) /\ Used(r, b)
LEMMA BorrowPages ==
  ASSUME NEW s \in Database, Listed(s.page, s.first_free_page), NEW h, NEW at, NEW i, NEW l, NEW r,
         NEW q, NEW x, NEW e, AreSiblings(s, h, at, i, l, r, q, x, e),
         ArePair(s, at, i, l, r, q, x, e),
         NEW from_beg \in BOOLEAN,
         NEW src, src = IF from_beg THEN r ELSE l, NEW dst, dst = IF from_beg THEN l ELSE r,
         NodeUnderflows(s.page[dst]),
         Len(s.page[l].cells) + Len(s.page[r].cells) + 1 >= MAX_CELLS
  PROVE  IsBorrowed(s, at, i, l, r, q, x, src, dst, from_beg)
<1>1. /\ i \in Nat /\ i - 1 \in Nat /\ i + 1 \in Nat
      /\ at[i - 1] \in Division /\ at[i] \in Division /\ at[i + 1] \in Division
      /\ Contiguous(at[i - 1]) /\ Contiguous(at[i]) /\ Contiguous(at[i + 1])
      /\ l \in 1 .. Len(s.page) /\ r \in 1 .. Len(s.page) /\ q \in 1 .. Len(s.page)
      /\ l \in Nat /\ r \in Nat /\ q \in Nat /\ l # r /\ l # q /\ r # q
      /\ Nested(at[i], at[i - 1]) /\ Nested(at[i + 1], at[i])
  BY DEF ArePair
<1>2. PICK m \in Node : m = s.page[l] /\ NodeIn(m, l, at[i], at[i - 1]) /\ Len(m.cells) <= MAX_CELLS
  BY DEF ArePair
<1>3. PICK n \in Node : n = s.page[r] /\ NodeIn(n, r, at[i], at[i - 1]) /\ Len(n.cells) <= MAX_CELLS
  BY DEF ArePair
<1>4. PICK w \in Node : w = s.page[q] /\ NodeIn(w, q, at[i + 1], at[i]) /\ Len(w.cells) <= MAX_CELLS
  BY DEF ArePair
<1>5. PICK a \in Division : a = at[i] /\ Contiguous(a)
  BY <1>1
<1>6. PICK down \in Division : down = at[i - 1] /\ Contiguous(down)
  BY <1>1
<1>7. PICK above \in Division : above = at[i + 1] /\ Contiguous(above)
  BY <1>1
<1>8. /\ e \in Ids /\ e - 1 \in Ids /\ a[e - 1] = l /\ a[e] = r
      /\ above[e - 1] = q /\ above[e] = q
      /\ x \in 1 .. Len(w.cells) /\ w.cells[x].key = e
  BY <1>4, <1>5, <1>7 DEF AreSiblings
<1>9. PICK B \in Nat, D \in Nat : B = Len(m.cells) /\ D = Len(n.cells)
  BY CellsType
<1>10. PICK A : A = IF from_beg THEN MIN_CELLS ELSE B + 1 + D - 1 - MIN_CELLS
  OBVIOUS
<1>11. /\ A \in Nat /\ A < B + 1 + D /\ 1 <= A /\ A <= MAX_CELLS
       /\ 1 <= B + D - A /\ B + D - A <= MAX_CELLS
       /\ from_beg => A > B
       /\ ~from_beg => A < B
  <2>1. (IF from_beg THEN B ELSE D) < MIN_CELLS
    <3>1. PICK y \in Nat : y = Len(s.page[dst].cells) /\ y = IF from_beg THEN B ELSE D
      BY <1>2, <1>3, <1>9
    <3>2. y * CELL_SIZE < NODE_SPACE \div 2
      BY <3>1 DEF NodeUnderflows
    <3>3. y < MIN_CELLS
      BY <3>2, CellCounts
    <3> QED
      BY <3>1, <3>3
  <2>2. B <= MAX_CELLS /\ D <= MAX_CELLS /\ B + D + 1 >= MAX_CELLS
    BY <1>2, <1>3, <1>9
  <2> QED
    BY <1>10, <2>1, <2>2, BorrowCounts
<1>12. PICK L \in Node, R0 \in Node, b \in Division : \E g :
           AreRecut(L, R0, b, g, m, n, l, r, e, A, a, down)
  <2>1. A < Len(m.cells) + 1 + Len(n.cells)
    BY <1>9, <1>11
  <2>2. NodeIn(m, l, a, down) /\ NodeIn(n, r, a, down) /\ Nested(a, down)
    BY <1>1, <1>2, <1>3, <1>5, <1>6
  <2> QED
    BY <1>1, <1>5, <1>6, <1>8, <1>11, <2>1, <2>2, RecutNodes
<1>13. PICK g : AreRecut(L, R0, b, g, m, n, l, r, e, A, a, down)
  BY <1>12
<1>14. PICK all : all = Joined(m, n, e)
  OBVIOUS
<1>15. /\ L = LeftPart(all, A) /\ R0.cells = RightCells(all, A)
       /\ R0.rightmost = n.rightmost /\ g = all.cells[A + 1].key
       /\ Len(all.cells) = B + 1 + D
       /\ g \in Ids /\ g - 1 \in Ids /\ a[g - 1] \in {l, r} /\ a[g] \in {l, r}
       /\ b = Shift(a, l, r, g) /\ Nested(b, down) /\ Contiguous(b)
       /\ NodeIn(L, l, b, down) /\ NodeIn(R0, r, b, down)
       /\ Len(L.cells) = A /\ Len(R0.cells) = B + D - A
       /\ L.parent = m.parent
       /\ A > B => e < g
       /\ A < B => g < e
  BY <1>9, <1>13, <1>14 DEF AreRecut
<1>16. PICK cells \in Seq(Cell) : cells = RightCells(all, A)
  BY <1>15, CellsType
<1>17. g \in Nat
  BY <1>15, IdsAre
<1>18. PICK u : \E R, M \in Node :
           /\ u = [s EXCEPT !.page[l] = L, !.page[r].cells = cells, !.page[q].cells[x].key = g]
           /\ AreThree(u, R, M, s, l, L, r, cells, q, x, g)
  <2>1. /\ l \in 1 .. Len(s.page) /\ r \in 1 .. Len(s.page) /\ q \in 1 .. Len(s.page)
        /\ l # r /\ l # q /\ r # q
    BY <1>1
  <2>2. s.page[r] \in Node /\ s.page[q] \in Node /\ x \in 1 .. Len(s.page[q].cells)
    BY <1>3, <1>4, <1>8
  <2> QED
    BY <1>17, <2>1, <2>2, ThreePages, ZenonT(40)
<1>19. PICK R \in Node, M \in Node :
           /\ u = [s EXCEPT !.page[l] = L, !.page[r].cells = cells, !.page[q].cells[x].key = g]
           /\ AreThree(u, R, M, s, l, L, r, cells, q, x, g)
  BY <1>18, SMTT(30)
<1>20. /\ u \in Database /\ Len(u.page) = Len(s.page)
       /\ u.page[l] = L /\ u.page[r] = R /\ u.page[q] = M
       /\ R.cells = cells /\ R.rightmost = n.rightmost /\ R.parent = n.parent
       /\ SameLinks(R, n)
       /\ IsRekeyed(M, w, x, g) /\ M.parent = w.parent /\ SameLinks(M, w)
       /\ \A y \in 1 .. Len(s.page) : y # l /\ y # r /\ y # q => u.page[y] = s.page[y]
       /\ u.root_page_id = s.root_page_id /\ u.next_row = s.next_row
       /\ u.first_free_page = s.first_free_page
  BY <1>3, <1>4, <1>19, ZenonT(40) DEF AreThree
<1>21. PICK C : C = ToSet(Kids(u.page[dst])) \ ToSet(Kids(s.page[dst]))
  BY ZenonT(40)
<1>22. PICK t : t = Adopted(u, C, dst)
  OBVIOUS
<1>23. t = BorrowInternal(s, src, dst, q, x, from_beg)
  <2>1. /\ (IF from_beg THEN dst ELSE src) = l /\ (IF from_beg THEN src ELSE dst) = r
    OBVIOUS
  <2>2. all = Joined(s.page[l], s.page[r], s.page[q].cells[x].key)
    BY <1>2, <1>3, <1>4, <1>8, <1>14
  <2>3. A = IF from_beg THEN MIN_CELLS ELSE Len(all.cells) - 1 - MIN_CELLS
    <3>1. Len(all.cells) = B + 1 + D
      BY <1>15
    <3>2. MIN_CELLS \in Nat
      BY CellCounts, SMTT(30)
    <3> QED
      BY <1>10, <3>1, <3>2
  <2>4. u = [s EXCEPT !.page[l] = LeftPart(all, A), !.page[r].cells = RightCells(all, A),
                      !.page[q].cells[x].key = all.cells[A + 1].key]
    BY <1>15, <1>16, <1>19
  <2> QED
    BY <1>21, <1>22, <2>1, <2>2, <2>3, <2>4, ZenonT(40) DEF BorrowInternal
<1>24. dst \in Nat /\ dst \in {l, r} /\ dst \in 1 .. Len(s.page)
  BY <1>1
<1>25. IsAdopted(t, u, C, dst)
  BY <1>20, <1>22, <1>24, AdoptedEffect
<1>26. /\ t \in Database /\ Len(t.page) = Len(s.page)
       /\ \A y \in 1 .. Len(s.page) :
            /\ SameBody(t.page[y], u.page[y]) /\ SameLinks(t.page[y], u.page[y])
            /\ t.page[y].parent = IF y \in C THEN dst ELSE u.page[y].parent
       /\ t.root_page_id = s.root_page_id /\ t.next_row = s.next_row
       /\ t.first_free_page = s.first_free_page
  BY <1>20, <1>25 DEF IsAdopted
<1>27. \A y \in 1 .. Len(s.page) : t.page[y] \in Page
  BY <1>26, PagesAre
<1>28. Grows(b, a, l, r, dst) /\ Used(dst, b) /\ Used(dst, a)
  <2>1. l \in Nat /\ r \in Nat /\ l # r /\ l = a[e - 1] /\ r = a[e] /\ e \in Ids /\ e - 1 \in Ids
    BY <1>1, <1>8
  <2>2. g \in Ids /\ b = Shift(a, l, r, g)
    BY <1>15
  <2>3. (from_beg => e < g) /\ (~from_beg => g < e)
    BY <1>11, <1>15
  <2> QED
    BY <1>5, <2>1, <2>2, <2>3, BorderGrows, SMTT(30)
<1>29. NodeIn(t.page[l], l, b, down) /\ HasCells(t.page[l])
  <2>1. SameBody(t.page[l], L) /\ t.page[l] \in Page
    BY <1>1, <1>20, <1>26, <1>27
  <2>2. t.page[l].cells = L.cells
    BY <2>1 DEF SameBody
  <2>3. L.cells # <<>> /\ Len(L.cells) <= MAX_CELLS
    BY <1>11, <1>15
  <2> QED
    BY <1>15, <2>1, <2>2, <2>3, NodeKept DEF HasCells
<1>30. NodeIn(t.page[r], r, b, down) /\ HasCells(t.page[r])
  <2>1. SameBody(t.page[r], R) /\ t.page[r] \in Page
    BY <1>1, <1>20, <1>26, <1>27
  <2>2. SameBody(R, R0)
    BY <1>15, <1>16, <1>20, NodeIsPage DEF SameBody
  <2>3. SameBody(t.page[r], R0)
    BY <2>1, <2>2 DEF SameBody
  <2>4. t.page[r].cells = R0.cells
    BY <2>3 DEF SameBody
  <2>5. R0.cells # <<>> /\ Len(R0.cells) <= MAX_CELLS
    <3>1. PICK z \in Nat : z = Len(R0.cells) /\ z = B + D - A
      BY <1>15, CellsType
    <3>2. Len(R0.cells) # 0 /\ Len(R0.cells) <= MAX_CELLS
      BY <1>11, <3>1
    <3> QED
      BY <3>2
  <2> QED
    BY <1>15, <2>1, <2>3, <2>4, <2>5, NodeKept DEF HasCells
<1>31. NodeIn(t.page[q], q, above, b) /\ Nested(above, b) /\ HasCells(t.page[q])
  <2>1. NodeIn(w, q, above, a) /\ Nested(above, a)
    BY <1>1, <1>4, <1>5, <1>7, SMTT(30)
  <2>2. PICK b2 \in Division : IsBorderMoved(b2, M, q, l, r, g, above, a)
    BY <1>1, <1>5, <1>7, <1>8, <1>15, <1>20, <2>1, Rekey
  <2>3. b2 = b /\ NodeIn(M, q, above, b) /\ Nested(above, b)
    BY <1>15, <2>2 DEF IsBorderMoved
  <2>4. SameBody(t.page[q], M) /\ t.page[q] \in Page
    BY <1>1, <1>20, <1>26, <1>27
  <2>5. t.page[q].cells = M.cells
    BY <2>4 DEF SameBody
  <2>6. M.cells # <<>> /\ Len(M.cells) <= MAX_CELLS
    <3>1. Len(M.cells) = Len(w.cells)
      BY <1>20 DEF IsRekeyed
    <3>2. Len(w.cells) # 0 /\ Len(w.cells) \in Nat
      BY <1>8, CellsType
    <3> QED
      BY <1>4, <3>1, <3>2
  <2> QED
    BY <2>3, <2>4, <2>5, <2>6, NodeKept DEF HasCells
<1>32. /\ \A k \in Ids : down[k] \in C <=> b[k] = dst /\ a[k] # dst
       /\ \A y \in C : \E k \in Ids : down[k] = y
  <2>1. PICK new \in Node : new = u.page[dst] /\ NodeIn(new, dst, b, down)
    <3>1. NodeIn(R, r, b, down)
      <4>1. SameBody(R, R0)
        BY <1>15, <1>16, <1>20, NodeIsPage DEF SameBody
      <4> QED
        BY <1>15, <4>1, NodeIsPage, NodeKept
    <3> QED
      BY <1>15, <1>20, <3>1
  <2>2. PICK old \in Node : old = s.page[dst] /\ NodeIn(old, dst, a, down)
    BY <1>2, <1>3, <1>5, <1>6, SMTT(30)
  <2>3. Nested(a, down) /\ Nested(b, down)
    BY <1>1, <1>5, <1>6, <1>15
  <2>4. AreKids(ToSet(Kids(new)), dst, b, down)
    BY <1>28, <2>1, <2>3, KidsAre
  <2>5. AreKids(ToSet(Kids(old)), dst, a, down)
    BY <1>28, <2>2, <2>3, KidsAre
  <2>6. C = ToSet(Kids(new)) \ ToSet(Kids(old))
    BY <1>21, <2>1, <2>2
  <2>7. \A k \in Ids : (down[k] \in ToSet(Kids(new)) <=> b[k] = dst) /\ (down[k] \in ToSet(Kids(old)) <=> a[k] = dst)
    BY <2>4, <2>5 DEF AreKids
  <2>8. \A y \in ToSet(Kids(new)) : \E k \in Ids : down[k] = y
    BY <2>4 DEF AreKids
  <2> QED
    BY <2>6, <2>7, <2>8
<1>33. ASSUME NEW y \in 1 .. Len(s.page)
       PROVE  /\ y # l /\ y # r /\ y # q => SameBody(t.page[y], s.page[y])
              /\ SameLinks(t.page[y], s.page[y])
              /\ t.page[y].parent = IF y \in C THEN dst ELSE s.page[y].parent
  <2>1. /\ SameBody(t.page[y], u.page[y]) /\ SameLinks(t.page[y], u.page[y])
        /\ t.page[y].parent = IF y \in C THEN dst ELSE u.page[y].parent
    BY <1>26
  <2>2. SameLinks(u.page[y], s.page[y]) /\ u.page[y].parent = s.page[y].parent
    <3>1. CASE y = l
      <4>1. u.page[y] = L /\ s.page[y] = m
        BY <1>2, <1>20, <3>1, SMTT(30)
      <4>2. L = LeftPart(Joined(m, n, e), A) /\ L.parent = m.parent
        BY <1>14, <1>15
      <4>3. SameLinks(LeftPart(Joined(m, n, e), A), m)
        BY PartKeeps
      <4>4. SameLinks(L, m)
        BY <4>2, <4>3
      <4> QED
        BY <4>1, <4>2, <4>4
    <3>2. CASE y = r
      BY <1>3, <1>20, <3>2
    <3>3. CASE y = q
      BY <1>4, <1>20, <3>3
    <3>4. CASE y # l /\ y # r /\ y # q
      BY <1>20, <3>4 DEF SameLinks
    <3> QED
      BY <3>1, <3>2, <3>3, <3>4
  <2>3. y # l /\ y # r /\ y # q => u.page[y] = s.page[y]
    BY <1>20
  <2> QED
    BY <2>1, <2>2, <2>3 DEF SameLinks
<1>34. Listed(t.page, t.first_free_page)
  <2>1. ASSUME NEW y \in 1 .. Len(s.page), s.page[y].type = "free"
        PROVE  t.page[y].type = "free" /\ t.page[y].next = s.page[y].next
    <3>1. y # l /\ y # r /\ y # q
      BY <1>2, <1>3, <1>4, <2>1, NodeIsPage
    <3> QED
      BY <1>33, <2>1, <3>1 DEF SameBody, SameLinks
  <2>2. Len(t.page) \in Nat /\ Len(s.page) \in Nat /\ Len(s.page) <= Len(t.page)
    BY <1>26, PagesAre
  <2>3. ASSUME NEW y \in 1 .. Len(t.page), t.page[y].type = "free"
        PROVE  y \in 1 .. Len(s.page) /\ s.page[y].type = "free" /\ t.page[y].rows = s.page[y].rows
    <3>1. t.page[l] \in Node /\ t.page[r] \in Node /\ t.page[q] \in Node
      BY <1>29, <1>30, <1>31 DEF NodeIn
    <3>2. y # l /\ y # r /\ y # q
      BY <2>3, <3>1, NodeIsPage
    <3> QED
      BY <1>26, <1>33, <2>3, <3>2 DEF SameBody
  <2> QED
    BY <1>26, <2>1, <2>2, <2>3, ListedKept
<1>35. \A k \in Ids : b[k] = a[k] \/ (b[k] = dst /\ a[k] \in {l, r})
  BY <1>28, SMTT(30) DEF Grows
<1>36. IsPairChanged(t, s, at, i, l, r, q, b, b, dst, C)
  BY <1>5, <1>6, <1>7, <1>15, <1>26, <1>29, <1>30, <1>31, <1>32, <1>33, <1>34, <1>35, ZenonT(40)
     DEF IsPairChanged
<1>37. Used(l, b) /\ Used(r, b)
  <2>1. \A k \in Ids : b[k] = IF a[k] # l /\ a[k] # r THEN a[k] ELSE IF k < g THEN l ELSE r
    <3>1. \A k \in Ids : Shift(a, l, r, g)[k] = IF a[k] # l /\ a[k] # r THEN a[k]
                                               ELSE IF k < g THEN l ELSE r
      BY <1>1, ShiftAt
    <3> QED
      BY <1>15, <3>1
  <2>2. g - 1 < g /\ ~(g < g)
    BY <1>17
  <2>3. b[g - 1] = l /\ b[g] = r
    BY <1>15, <2>1, <2>2
  <2> QED
    BY <1>15, <2>3 DEF Used
<1> QED
  BY <1>23, <1>36, <1>37 DEF IsBorrowed

-----------------------------------------------------------------------------
(* merge_internal *)

IsJoinedUp(s, at, i, l, r, q, x) ==
  \E t, C : \E b \in Division :
    /\ t = MergeInternal(s, l, r, q, x)
    /\ \A k \in Ids : b[k] = IF at[i][k] = r THEN l ELSE at[i][k]
    /\ IsPairChanged(t, s, at, i, l, r, q, b, at[i], l, C)
LEMMA MergePages ==
  ASSUME NEW s \in Database, Listed(s.page, s.first_free_page), NEW h, NEW at, NEW i, NEW l, NEW r,
         NEW q, NEW x, NEW e, AreSiblings(s, h, at, i, l, r, q, x, e),
         ArePair(s, at, i, l, r, q, x, e),
         ~(Len(s.page[l].cells) + Len(s.page[r].cells) + 1 >= MAX_CELLS)
  PROVE  IsJoinedUp(s, at, i, l, r, q, x)
<1>1. /\ i \in Nat /\ i - 1 \in Nat /\ i + 1 \in Nat
      /\ at[i - 1] \in Division /\ at[i] \in Division /\ at[i + 1] \in Division
      /\ Contiguous(at[i - 1]) /\ Contiguous(at[i]) /\ Contiguous(at[i + 1])
      /\ l \in 1 .. Len(s.page) /\ r \in 1 .. Len(s.page) /\ q \in 1 .. Len(s.page)
      /\ l \in Nat /\ r \in Nat /\ q \in Nat /\ l # r /\ l # q /\ r # q
      /\ Nested(at[i], at[i - 1]) /\ Nested(at[i + 1], at[i])
  BY DEF ArePair
<1>2. PICK m \in Node : m = s.page[l] /\ NodeIn(m, l, at[i], at[i - 1])
  BY DEF ArePair
<1>3. PICK n \in Node : n = s.page[r] /\ NodeIn(n, r, at[i], at[i - 1])
  BY DEF ArePair
<1>4. PICK w \in Node : w = s.page[q] /\ NodeIn(w, q, at[i + 1], at[i]) /\ Len(w.cells) <= MAX_CELLS
  BY DEF ArePair
<1>5. PICK a \in Division : a = at[i] /\ Contiguous(a)
  BY <1>1
<1>6. PICK down \in Division : down = at[i - 1] /\ Contiguous(down)
  BY <1>1
<1>7. PICK above \in Division : above = at[i + 1]
  BY <1>1
<1>8. /\ e \in Ids /\ e - 1 \in Ids /\ a[e - 1] = l /\ a[e] = r
      /\ x \in 1 .. Len(w.cells) /\ w.cells[x].key = e
  BY <1>4, <1>5 DEF AreSiblings
<1>9. PICK B \in Nat, D \in Nat : B = Len(m.cells) /\ D = Len(n.cells)
  BY CellsType
<1>10. B + 1 + D <= MAX_CELLS
  <2>1. ~(B + D + 1 >= MAX_CELLS)
    BY <1>2, <1>3, <1>9
  <2>2. MAX_CELLS \in Nat
    BY CellCounts
  <2> QED
    BY <2>1, <2>2
<1>11. NodeIn(m, l, a, down) /\ NodeIn(n, r, a, down) /\ Nested(a, down)
  BY <1>1, <1>2, <1>3, <1>5, <1>6
<1>12. PICK all \in Node, b \in Division : AreJoined(all, b, m, n, l, r, e, a, down)
  BY <1>1, <1>5, <1>6, <1>8, <1>11, JoinNodes
<1>13. /\ all = Joined(m, n, e) /\ \A k \in Ids : b[k] = IF a[k] = r THEN l ELSE a[k]
       /\ Len(all.cells) = B + 1 + D
       /\ NodeIn(all, l, b, down) /\ Nested(b, down) /\ Contiguous(b)
  BY <1>9, <1>12 DEF AreJoined
<1>14. all.parent = m.parent /\ SameLinks(all, m)
  BY <1>13 DEF Joined, Node, SameLinks
<1>15. PICK C : C = ToSet(Kids(n))
  OBVIOUS
<1>16. AreKids(C, r, a, down)
  <2>1. Used(r, a)
    BY <1>8 DEF Used
  <2> QED
    BY <1>11, <1>15, <2>1, KidsAre
<1>17. PICK t : t = Adopted([s EXCEPT !.page[l] = all], C, l)
  OBVIOUS
<1>18. t = MergeInternal(s, l, r, q, x)
  <2>1. all = Joined(s.page[l], s.page[r], s.page[q].cells[x].key)
    BY <1>2, <1>3, <1>4, <1>8, <1>13
  <2>2. C = ToSet(Kids(s.page[r]))
    BY <1>3, <1>15
  <2> QED
    BY <1>17, <2>1, <2>2 DEF MergeInternal
<1>19. IsPut(t, s, l, all, C, l)
  <2>1. s.page[l].type # "free" /\ all.parent = s.page[l].parent
    BY <1>2, <1>14, NodeIsPage
  <2> QED
    BY <1>1, <1>17, <2>1, PutAndAdopt
<1>20. /\ t \in Database /\ Len(t.page) = Len(s.page) /\ SameBody(t.page[l], all)
       /\ \A y \in 1 .. Len(s.page) :
            /\ y # l => SameBody(t.page[y], s.page[y]) /\ SameLinks(t.page[y], s.page[y])
            /\ t.page[y].parent = IF y \in C THEN l ELSE s.page[y].parent
       /\ t.root_page_id = s.root_page_id /\ t.next_row = s.next_row
       /\ Listed(t.page, t.first_free_page)
  BY <1>19 DEF IsPut
<1>21. \A y \in 1 .. Len(s.page) : t.page[y] \in Page
  BY <1>20, PagesAre
<1>22. NodeIn(t.page[l], l, b, down) /\ HasCells(t.page[l])
  <2>1. SameBody(t.page[l], all) /\ t.page[l] \in Page
    BY <1>1, <1>20, <1>21
  <2>2. t.page[l].cells = all.cells
    BY <2>1 DEF SameBody
  <2>3. all.cells # <<>> /\ Len(all.cells) <= MAX_CELLS
    BY <1>10, <1>13
  <2> QED
    BY <1>13, <2>1, <2>2, <2>3, NodeKept DEF HasCells
<1>23. NodeIn(t.page[q], q, above, a) /\ Nested(above, a) /\ HasCells(t.page[q])
  <2>1. SameBody(t.page[q], w) /\ t.page[q] \in Page
    BY <1>1, <1>4, <1>20, <1>21
  <2>2. t.page[q].cells = w.cells
    BY <2>1 DEF SameBody
  <2>3. Len(w.cells) # 0 /\ Len(w.cells) \in Nat
    BY <1>8, CellsType
  <2>4. w.cells # <<>>
    BY <2>3
  <2>5. NodeIn(w, q, above, a) /\ Nested(above, a)
    BY <1>1, <1>4, <1>5, <1>7
  <2> QED
    BY <1>4, <2>1, <2>2, <2>4, <2>5, NodeKept DEF HasCells
<1>24. ~Used(r, b)
  BY <1>1, <1>13 DEF Used
<1>25. \A k \in Ids : b[k] = a[k] \/ (b[k] = l /\ a[k] \in {l, r})
  BY <1>13
<1>26. /\ \A k \in Ids : down[k] \in C <=> b[k] = l /\ a[k] # l
       /\ \A y \in C : \E k \in Ids : down[k] = y
  BY <1>1, <1>13, <1>16 DEF AreKids
<1>27. SameLinks(t.page[l], s.page[l])
  <2>1. PICK u : u = [s EXCEPT !.page[l] = all] /\ IsSet(u, s, l, all)
    BY <1>1, NodeIsPage, SetPage
  <2>2. u \in Database /\ u.page[l] = all /\ Len(u.page) = Len(s.page)
    BY <2>1 DEF IsSet
  <2>3. IsAdopted(t, u, C, l)
    BY <1>1, <1>17, <2>1, <2>2, AdoptedEffect
  <2>4. SameLinks(t.page[l], all)
    BY <1>1, <2>2, <2>3 DEF IsAdopted
  <2> QED
    BY <1>2, <1>14, <2>4 DEF SameLinks
<1>28. IsPairChanged(t, s, at, i, l, r, q, b, a, l, C)
  <2>1. ASSUME NEW y \in 1 .. Len(s.page)
        PROVE  /\ y # l /\ y # r /\ y # q => SameBody(t.page[y], s.page[y])
               /\ SameLinks(t.page[y], s.page[y])
               /\ t.page[y].parent = IF y \in C THEN l ELSE s.page[y].parent
    BY <1>20, <1>27
  <2> QED
    BY <1>5, <1>6, <1>7, <1>13, <1>20, <1>22, <1>23, <1>24, <1>25, <1>26, <2>1 DEF IsPairChanged
<1> QED
  BY <1>5, <1>13, <1>18, <1>28 DEF IsJoinedUp

-----------------------------------------------------------------------------
(* balance_internal *)

\* The levels up to h have no other pages than they had.
Narrowed(g, at, h) == \A j \in 0 .. h, k \in Ids : \E y \in Ids : g[j][k] = at[j][y]

\* What is so after a call of remove_internal_cell has done with level i: either all is right
\* again, or a page of the level is merged away and the node above is to be told.
IsLeftOver(merged, g, seen, h, at, i, k0, n) ==
  /\ merged \in 1 .. n /\ \A j \in 0 .. h, k \in Ids : g[j][k] # merged
  /\ \E l, e : IsMerged(g, seen, i, l, merged, e) /\ at[i + 1][e] = at[i + 1][k0]
IsStep(res, s, store, h, at, i, k0, h2, g, seen) ==
  /\ h2 \in Nat /\ h2 <= h /\ Narrowed(g, at, h2) /\ \A j \in Nat : j > i => g[j] = at[j]
  /\ Len(res.db.page) = Len(s.page) /\ res.db.next_row = s.next_row
  /\ IF res.merged = 0 THEN Sound(res.db, store, h2, g, g, 0)
     ELSE /\ h2 = h /\ i # h /\ Sound(res.db, store, h, g, seen, 0)
          /\ IsLeftOver(res.merged, g, seen, h, at, i, k0, Len(s.page))

IsKeptStep(res, s, store, h, at, i, k0, h2, g, seen) ==
  /\ IsStep(res, s, store, h, at, i, k0, h2, g, seen)
  /\ Keeps(res.db, h2, g, s, h, at, {res.merged})

\* No page of the level is lost, but those of L, when its neighbours l and r are changed.
LEMMA PairKeeps ==
  ASSUME NEW s, NEW t, NEW h \in Nat, NEW at, NEW i, NEW l, NEW r, NEW q, NEW x, NEW e,
         ArePair(s, at, i, l, r, q, x, e), NEW b, NEW c, NEW dst, NEW C,
         IsPairChanged(t, s, at, i, l, r, q, b, c, dst, C),
         NEW g, \A j \in Nat : g[j] = IF j = i THEN b ELSE at[j],
         NEW L, \A k \in Ids : Used(at[i][k], b) \/ at[i][k] \in L
  PROVE  Keeps(t, h, g, s, h, at, L)
<1>1. /\ Len(t.page) = Len(s.page)
      /\ \A y \in 1 .. Len(s.page) : y # l /\ y # r /\ y # q => SameBody(t.page[y], s.page[y])
  BY DEF IsPairChanged
<1>2. s.page[l].type # "free" /\ s.page[r].type # "free" /\ s.page[q].type # "free" /\ i \in Nat
  BY NodeIsPage DEF ArePair
<1>3. \A y \in 1 .. Len(s.page) : s.page[y].type = "free" => t.page[y].type = "free"
  BY <1>1, <1>2 DEF SameBody
<1>4. ASSUME NEW y, InTree(y, h, at) PROVE InTree(y, h, g) \/ y \in L
  <2>1. PICK j \in 0 .. h, k \in Ids : at[j][k] = y
    BY <1>4 DEF InTree
  <2>2. CASE j = i
    <3>1. CASE Used(y, b)
      <4>1. PICK z \in Ids : b[z] = y
        BY <3>1 DEF Used
      <4>2. g[j][z] = y
        BY <2>2, <4>1
      <4> QED
        BY <4>2 DEF InTree
    <3> QED
      BY <2>1, <2>2, <3>1
  <2>3. CASE j # i
    <3>1. g[j][k] = y
      BY <2>1, <2>3
    <3> QED
      BY <3>1 DEF InTree
  <2> QED
    BY <2>2, <2>3
<1> QED
  BY <1>1, <1>3, <1>4, KeepsTo

\* A division in which each page of the level is one the level had before.
LEMMA NarrowedBy ==
  ASSUME NEW h \in Nat, NEW at, NEW i \in Nat, NEW g, NEW b,
         \A j \in Nat : g[j] = IF j = i THEN b ELSE at[j],
         \A k \in Ids : \E y \in Ids : b[k] = at[i][y]
  PROVE  Narrowed(g, at, h) /\ \A j \in Nat : j > i => g[j] = at[j]
BY DEF Narrowed

\* One division is what is asked for and what there is.
LEMMA SoundAsSeen ==
  ASSUME NEW s, NEW store, NEW h, NEW g, NEW seen, Sound(s, store, h, g, seen, 0),
         \A j \in Nat : g[j] = seen[j]
  PROVE  Sound(s, store, h, g, g, 0)
<1>1. g \in [Nat -> Division] /\ seen \in [Nat -> Division]
  BY DEF Sound, Grown
<1>2. g = seen
  BY <1>1, SMTT(30)
<1> QED
  BY <1>2

\* The neighbours p has in its parent.
LEMMA SiblingsAre ==
  ASSUME NEW s, NEW store, NEW h, NEW at, NEW p, Sound(s, store, h, at, at, p),
         NEW i \in 0 .. h, i # h, NEW k0 \in Ids, NEW q, q = at[i + 1][k0],
         NEW x \in 1 .. Len(s.page[q].cells)
  PROVE  AreSiblings(s, h, at, i, Kids(s.page[q])[x], Kids(s.page[q])[x + 1], q, x,
                     s.page[q].cells[x].key)
<1>1. /\ h \in Nat /\ at \in [Nat -> Division]
      /\ \A j \in 0 .. h : Contiguous(at[j])
      /\ \A j \in 1 .. h : NodeLevel(s.page, at[j], at[j - 1], p)
  BY DEF Sound, Grown
<1>2. i + 1 \in 1 .. h /\ i + 1 \in Nat /\ i \in Nat /\ i + 1 - 1 = i
  BY <1>1
<1>3. PICK above \in Division, a \in Division : above = at[i + 1] /\ a = at[i]
  BY <1>1, <1>2
<1>4. NodeLevel(s.page, above, a, p)
  BY <1>1, <1>2, <1>3
<1>5. PICK n : n = s.page[q] /\ NodeIn(n, q, above, a)
  BY <1>3, <1>4 DEF NodeLevel
<1>6. x \in 1 .. Len(n.cells)
  BY <1>5
<1>7. PICK e : e = n.cells[x].key
  OBVIOUS
<1>8. /\ e \in Ids /\ e - 1 \in Ids /\ above[e - 1] = q /\ above[e] = q /\ a[e - 1] # a[e]
  <2>1. KeyIn(n.cells[x].key, q, above, a)
    BY <1>5, <1>6 DEF NodeIn
  <2> QED
    BY <1>7, <2>1, SMTT(30) DEF KeyIn
<1>9. a[e - 1] = Kids(n)[x] /\ a[e] = Kids(n)[x + 1]
  <2>1. a[n.cells[x].key - 1] = Kids(n)[x] /\ a[n.cells[x].key] = Kids(n)[x + 1]
    BY <1>5, <1>6, KidsAtKey, ZenonT(40)
  <2> QED
    BY <1>7, <2>1, SMTT(30)
<1> QED
  BY <1>2, <1>3, <1>5, <1>6, <1>7, <1>8, <1>9, ZenonT(40) DEF AreSiblings

\* The one place p has in its parent.
HasPlace(n, p) ==
  \E j \in 1 .. Len(n.cells) + 1 : Indices(n, p) = {j} /\ Kids(n)[j] = p
LEMMA PlaceIs ==
  ASSUME NEW s, NEW store, NEW h, NEW at, NEW p, Sound(s, store, h, at, at, p),
         NEW i \in 0 .. h, i # h, NEW k0 \in Ids, NEW q, q = at[i + 1][k0], p = at[i][k0],
         Len(s.page) < CHILD_IDS
  PROVE  HasPlace(s.page[q], p)
<1>1. /\ h \in Nat /\ at \in [Nat -> Division] /\ s \in Database
      /\ \A j \in 0 .. h : Contiguous(at[j])
      /\ \A j \in 1 .. h : NodeLevel(s.page, at[j], at[j - 1], p)
      /\ Grown(s.page, s.root_page_id, store, h, at, at, p)
  BY DEF Sound, Grown
<1>2. i + 1 \in 1 .. h /\ i + 1 \in Nat /\ i \in Nat /\ i + 1 - 1 = i /\ Len(s.page) \in Nat
  BY <1>1, PagesAre
<1>3. PICK above \in Division, a \in Division : above = at[i + 1] /\ a = at[i] /\ Contiguous(a)
  BY <1>1, <1>2
<1>4. NodeLevel(s.page, above, a, p)
  BY <1>1, <1>2, <1>3
<1>5. PICK n : n = s.page[q] /\ NodeIn(n, q, above, a)
  BY <1>3, <1>4 DEF NodeLevel
<1>6. PICK j : j = CellFor(n, k0) /\ j \in 1 .. Len(n.cells) + 1
  BY <1>5, PlaceOf
<1>7. Kids(n)[j] = p
  BY <1>3, <1>5, <1>6, ZenonT(40) DEF NodeIn, KidFor
<1>8. \A x, y \in 1 .. Len(n.cells) + 1 : Kids(n)[x] = Kids(n)[y] => x = y
  <2>1. Used(q, above)
    BY <1>3 DEF Used
  <2> QED
    BY <1>3, <1>5, <2>1, KidsDiffer, SMTT(30)
<1>9. p % CHILD_IDS = p
  <2>1. p \in Nat /\ p <= Len(s.page)
    BY <1>1, <1>2, PageOfLevel, SMTT(30)
  <2>2. CHILD_IDS \in Nat \ {0}
    BY NodeAssumption
  <2> QED
    BY <1>2, <2>1, <2>2, SMTT(30)
<1>10. DOMAIN Kids(n) = 1 .. Len(n.cells) + 1
  <2>1. Len(n.cells) \in Nat /\ DOMAIN n.cells = 1 .. Len(n.cells)
    BY <1>5, CellsType DEF NodeIn
  <2> QED
    BY <2>1 DEF Kids
<1>11. Indices(n, p) = {j}
  BY <1>6, <1>7, <1>8, <1>9, <1>10 DEF Indices
<1> QED
  BY <1>5, <1>6, <1>7, <1>11 DEF HasPlace

LEMMA BorrowStep ==
  ASSUME NEW s, NEW store, NEW h, NEW at, NEW p, Sound(s, store, h, at, at, p),
         NEW i \in 1 .. h, NEW l, NEW r, NEW q, NEW x, NEW e, AreSiblings(s, h, at, i, l, r, q, x, e),
         NEW k0 \in Ids, NEW from_beg \in BOOLEAN, p = IF from_beg THEN l ELSE r,
         NEW src, src = IF from_beg THEN r ELSE l, NodeUnderflows(s.page[p]),
         Len(s.page[l].cells) + Len(s.page[r].cells) + 1 >= MAX_CELLS
  PROVE  \E g : IsKeptStep([db |-> BorrowInternal(s, src, p, q, x, from_beg), merged |-> 0],
                           s, store, h, at, i, k0, h, g, g)
<1>1. s \in Database /\ Listed(s.page, s.first_free_page) /\ h \in Nat
  BY DEF Sound, Grown
<1>2. ArePair(s, at, i, l, r, q, x, e)
  BY PairIs
<1>3. PICK t, C : \E b \in Division :
           /\ t = BorrowInternal(s, src, p, q, x, from_beg)
           /\ IsPairChanged(t, s, at, i, l, r, q, b, b, p, C)
           /\ Used(l, b) /\ Used(r, b)
  <2>1. IsBorrowed(s, at, i, l, r, q, x, src, p, from_beg)
    BY <1>1, <1>2, BorrowPages
  <2> QED
    BY <2>1 DEF IsBorrowed
<1>4. PICK b \in Division :
           /\ t = BorrowInternal(s, src, p, q, x, from_beg)
           /\ IsPairChanged(t, s, at, i, l, r, q, b, b, p, C)
           /\ Used(l, b) /\ Used(r, b)
  BY <1>3
<1>5. p \in {l, r}
  OBVIOUS
<1>6. PICK g, seen : IsRelevelled(t, g, seen, store, h, at, i, b, b)
  BY <1>4, <1>5, PairSound, ZenonT(40)
<1>7. /\ \A j \in Nat : g[j] = IF j = i THEN b ELSE at[j]
      /\ \A j \in Nat : seen[j] = IF j = i THEN b ELSE at[j]
      /\ Sound(t, store, h, g, seen, 0)
  BY <1>6 DEF IsRelevelled
<1>8. Sound(t, store, h, g, g, 0)
  BY <1>7, SoundAsSeen
<1>9. \A k \in Ids : \E y \in Ids : b[k] = at[i][y]
  <2>1. \A k \in Ids : b[k] = at[i][k] \/ (b[k] = p /\ at[i][k] \in {l, r})
    BY <1>4 DEF IsPairChanged
  <2>2. e \in Ids /\ e - 1 \in Ids /\ at[i][e - 1] = l /\ at[i][e] = r
    BY DEF AreSiblings
  <2> QED
    BY <1>5, <2>1, <2>2
<1>10. Narrowed(g, at, h) /\ \A j \in Nat : j > i => g[j] = at[j]
  <2>1. i \in Nat
    BY <1>1
  <2> QED
    BY <1>1, <1>7, <1>9, <2>1, NarrowedBy
<1>11. Len(t.page) = Len(s.page) /\ t.next_row = s.next_row
  BY <1>4 DEF IsPairChanged
<1>12. PICK res : res = [db |-> t, merged |-> 0]
  OBVIOUS
<1>13. res.db = t /\ res.merged = 0
  BY <1>12
<1>14. IsStep(res, s, store, h, at, i, k0, h, g, g)
  BY <1>1, <1>8, <1>10, <1>11, <1>13 DEF IsStep
<1>15. Keeps(t, h, g, s, h, at, {0})
  <2>1. \A k \in Ids : Used(at[i][k], b) \/ at[i][k] \in {0}
    <3>1. \A k \in Ids : b[k] = at[i][k] \/ at[i][k] \in {l, r}
      BY <1>4 DEF IsPairChanged
    <3> QED
      BY <1>4, <3>1 DEF Used
  <2> QED
    BY <1>1, <1>2, <1>4, <1>7, <2>1, PairKeeps, ZenonT(40)
<1>16. IsKeptStep(res, s, store, h, at, i, k0, h, g, g)
  BY <1>13, <1>14, <1>15 DEF IsKeptStep
<1> QED
  BY <1>4, <1>12, <1>16

LEMMA MergeStep ==
  ASSUME NEW s, NEW store, NEW h, NEW at, NEW p, Sound(s, store, h, at, at, p),
         NEW i \in 1 .. h, NEW l, NEW r, NEW q, NEW x, NEW e, AreSiblings(s, h, at, i, l, r, q, x, e),
         NEW k0 \in Ids, q = at[i + 1][k0], p \in {l, r},
         ~(Len(s.page[l].cells) + Len(s.page[r].cells) + 1 >= MAX_CELLS)
  PROVE  \E g, seen : IsKeptStep([db |-> MergeInternal(s, l, r, q, x), merged |-> r],
                                 s, store, h, at, i, k0, h, g, seen)
<1>1. s \in Database /\ Listed(s.page, s.first_free_page) /\ h \in Nat /\ Apart(h, at, at)
  BY DEF Sound, Grown
<1>2. ArePair(s, at, i, l, r, q, x, e)
  BY PairIs
<1>3. PICK t, C : \E b \in Division :
           /\ t = MergeInternal(s, l, r, q, x)
           /\ \A k \in Ids : b[k] = IF at[i][k] = r THEN l ELSE at[i][k]
           /\ IsPairChanged(t, s, at, i, l, r, q, b, at[i], l, C)
  <2>1. IsJoinedUp(s, at, i, l, r, q, x)
    BY <1>1, <1>2, MergePages
  <2> QED
    BY <2>1 DEF IsJoinedUp
<1>4. PICK b \in Division :
           /\ t = MergeInternal(s, l, r, q, x)
           /\ \A k \in Ids : b[k] = IF at[i][k] = r THEN l ELSE at[i][k]
           /\ IsPairChanged(t, s, at, i, l, r, q, b, at[i], l, C)
  BY <1>3
<1>5. l \in {l, r}
  OBVIOUS
<1>6. PICK g, seen : IsRelevelled(t, g, seen, store, h, at, i, b, at[i])
  BY <1>4, <1>5, PairSound
<1>7. /\ \A j \in Nat : g[j] = IF j = i THEN b ELSE at[j]
      /\ \A j \in Nat : seen[j] = IF j = i THEN at[i] ELSE at[j]
      /\ Sound(t, store, h, g, seen, 0)
  BY <1>6 DEF IsRelevelled
<1>8. /\ i # h /\ e \in Ids /\ e - 1 \in Ids /\ l # r /\ at[i][e - 1] = l /\ at[i][e] = r
      /\ at[i + 1][e - 1] = q /\ at[i + 1][e] = q
  BY DEF AreSiblings
<1>9. i \in Nat /\ i + 1 \in Nat /\ i + 1 # i /\ i \in 0 .. h
  BY <1>1
<1>10. l \in Nat /\ r \in Nat /\ r \in 1 .. Len(s.page) /\ r # 0
  <2>1. l \in Nat /\ r \in Nat /\ r \in 1 .. Len(s.page) /\ Len(s.page) \in Nat
    BY <1>1, <1>2, PagesAre DEF ArePair
  <2> QED
    BY <2>1
<1>11. \A k \in Ids : \E y \in Ids : b[k] = at[i][y]
  BY <1>4, <1>8
<1>12. Narrowed(g, at, h) /\ \A j \in Nat : j > i => g[j] = at[j]
  <2>1. h \in Nat /\ i \in Nat
    BY <1>1, <1>9
  <2>2. \A j \in Nat : g[j] = IF j = i THEN b ELSE at[j]
    BY <1>7, SMTT(30)
  <2> QED
    BY <1>11, <2>1, <2>2, NarrowedBy
<1>13. Len(t.page) = Len(s.page) /\ t.next_row = s.next_row
  BY <1>4 DEF IsPairChanged
<1>14. ASSUME NEW j \in 0 .. h, NEW k \in Ids PROVE g[j][k] # r
  <2>1. CASE j = i
    BY <1>4, <1>7, <1>8, <1>9, <2>1
  <2>2. CASE j # i
    <3>1. at[j][k] = at[i][e] => j = i
      BY <1>1, <1>8, <1>9, ApartAt
    <3>2. g[j] = at[j]
      BY <1>1, <1>7, <2>2
    <3> QED
      BY <1>8, <2>2, <3>1, <3>2
  <2> QED
    BY <2>1, <2>2
<1>15. IsMerged(g, seen, i, l, r, e)
  <2>1. seen[i] = at[i] /\ g[i] = b /\ g[i + 1] = at[i + 1]
    BY <1>7, <1>9
  <2>2. \A j \in Nat : j # i => seen[j] = g[j]
    BY <1>7
  <2> QED
    BY <1>4, <1>8, <1>10, <2>1, <2>2 DEF IsMerged
<1>16. IsLeftOver(r, g, seen, h, at, i, k0, Len(s.page))
  BY <1>8, <1>10, <1>14, <1>15 DEF IsLeftOver
<1>17. PICK res : res = [db |-> t, merged |-> r]
  OBVIOUS
<1>18. res.db = t /\ res.merged = r
  BY <1>17
<1>19. IsStep(res, s, store, h, at, i, k0, h, g, seen)
  BY <1>1, <1>7, <1>8, <1>10, <1>12, <1>13, <1>16, <1>18 DEF IsStep
<1>20. Keeps(t, h, g, s, h, at, {r})
  <2>1. \A k \in Ids : Used(at[i][k], b) \/ at[i][k] \in {r}
    BY <1>4 DEF Used
  <2> QED
    BY <1>1, <1>2, <1>4, <1>7, <2>1, PairKeeps, ZenonT(40)
<1>21. IsKeptStep(res, s, store, h, at, i, k0, h, g, seen)
  BY <1>18, <1>19, <1>20 DEF IsKeptStep
<1> QED
  BY <1>4, <1>17, <1>21

\* The node that might have no cell has some.
LEMMA ThinGone ==
  ASSUME NEW s, NEW store, NEW h, NEW at, NEW seen, NEW p, Sound(s, store, h, at, seen, p),
         s.page[p].cells # <<>>
  PROVE  Sound(s, store, h, at, seen, 0)
<1>1. Grown(s.page, s.root_page_id, store, h, at, seen, p)
  BY DEF Sound
<1>2. ASSUME NEW j \in 1 .. h PROVE NodeLevel(s.page, at[j], seen[j - 1], 0)
  <2>1. NodeLevel(s.page, at[j], seen[j - 1], p)
    BY <1>1 DEF Grown
  <2> QED
    BY <2>1 DEF NodeLevel
<1>3. Grown(s.page, s.root_page_id, store, h, at, seen, 0)
  BY <1>1, <1>2 DEF Grown
<1> QED
  BY <1>3 DEF Sound

\* The node above p, and the one place of p in it.
IsUnder(s, at, i, p, q, j, k0) ==
  /\ q = at[i + 1][k0] /\ s.page[p].parent = q /\ s.page[q] \in Node
  /\ Len(s.page[q].cells) \in Nat /\ Len(s.page[q].cells) # 0
  /\ j \in 1 .. Len(s.page[q].cells) + 1
  /\ Indices(s.page[q], p) = {j} /\ Kids(s.page[q])[j] = p
LEMMA ParentIs ==
  ASSUME NEW s, NEW store, NEW h, NEW at, NEW p, Sound(s, store, h, at, at, p),
         NEW i \in 1 .. h, i # h, NEW k0 \in Ids, p = at[i][k0], Len(s.page) < CHILD_IDS
  PROVE  \E q, j : IsUnder(s, at, i, p, q, j, k0)
<1>1. /\ h \in Nat /\ at \in [Nat -> Division] /\ s \in Database /\ Apart(h, at, at)
      /\ \A j \in 1 .. h : NodeLevel(s.page, at[j], at[j - 1], p)
      /\ \A j \in 1 .. h : Adopts(s.page, at[j - 1], at[j - 1], at[j])
  BY DEF Sound, Grown
<1>2. i + 1 \in 1 .. h /\ i + 1 \in Nat /\ i \in Nat /\ i + 1 - 1 = i /\ i \in 0 .. h
      /\ i + 1 \in 0 .. h /\ i # i + 1
  BY <1>1
<1>3. PICK q : q = at[i + 1][k0]
  OBVIOUS
<1>4. s.page[p].parent = q
  BY <1>1, <1>2, <1>3 DEF Adopts
<1>5. q # p
  <2>1. PICK up \in 0 .. h : up = i + 1
    BY <1>2
  <2>2. i \in 0 .. h /\ Apart(h, at, at)
    BY <1>1, <1>2
  <2>3. at[i][k0] = at[up][k0] => i = up
    BY <2>2, ApartAt
  <2> QED
    BY <1>2, <1>3, <2>1, <2>3
<1>6. NodeLevel(s.page, at[i + 1], at[i], p)
  BY <1>1, <1>2
<1>7. NodeIn(s.page[q], q, at[i + 1], at[i]) /\ s.page[q].cells # <<>>
  BY <1>3, <1>5, <1>6 DEF NodeLevel
<1>8. PICK n : n = s.page[q] /\ n \in Node /\ n.cells # <<>>
  BY <1>7 DEF NodeIn
<1>9. Len(n.cells) \in Nat /\ Len(n.cells) # 0
  <2>1. n.cells \in Seq(Cell) /\ Len(n.cells) \in Nat
    BY <1>8, CellsType
  <2> QED
    BY <1>8, <2>1
<1>10. PICK j \in 1 .. Len(n.cells) + 1 : Indices(n, p) = {j} /\ Kids(n)[j] = p
  <2>1. i \in 0 .. h
    BY <1>2
  <2>2. HasPlace(s.page[q], p)
    BY <1>3, <2>1, PlaceIs
  <2> QED
    BY <1>8, <2>2 DEF HasPlace
<1> QED
  BY <1>3, <1>4, <1>8, <1>9, <1>10 DEF IsUnder

LEMMA BalanceSound ==
  ASSUME NEW s, NEW store, NEW h, NEW at, NEW p, Sound(s, store, h, at, at, p),
         NEW i \in 1 .. h, i # h, NEW k0 \in Ids, p = at[i][k0], Len(s.page) < CHILD_IDS,
         NodeUnderflows(s.page[p])
  PROVE  \E g, seen : IsKeptStep(BalanceInternal(s, p), s, store, h, at, i, k0, h, g, seen)
<1>1. PICK q, j : IsUnder(s, at, i, p, q, j, k0)
  BY ParentIs
<1>2. PICK n \in Node : n = s.page[q]
  BY <1>1 DEF IsUnder
<1>3. PICK C \in Nat : C = Len(n.cells)
  BY <1>1, <1>2, SMTT(30) DEF IsUnder
<1>4. /\ q = at[i + 1][k0] /\ s.page[p].parent = q /\ C # 0 /\ j \in 1 .. C + 1
      /\ Indices(n, p) = {j} /\ Kids(n)[j] = p
  BY <1>1, <1>2, <1>3 DEF IsUnder
<1>5. DOMAIN Kids(n) = 1 .. C + 1 /\ Len(Kids(n)) = C + 1
  BY <1>2, <1>3, CellsType, SMTT(30) DEF Kids
<1>6. PICK kids : kids = Kids(n)
  OBVIOUS
<1>7. (CHOOSE y \in {j} : \A z \in {j} : y <= z) = j
  BY <1>4
<1> DEFINE MayBorrow(y) == /\ y \in 1 .. C + 1
                           /\ Len(s.page[p].cells) + Len(s.page[kids[y]].cells) + 1 >= MAX_CELLS
<1>8. BalanceInternal(s, p) =
        IF MayBorrow(j - 1) THEN [db |-> BorrowInternal(s, kids[j - 1], p, q, j - 1, FALSE), merged |-> 0]
        ELSE IF MayBorrow(j + 1) THEN [db |-> BorrowInternal(s, kids[j + 1], p, q, j, TRUE), merged |-> 0]
        ELSE IF j > 1 THEN [db |-> MergeInternal(s, kids[j - 1], p, q, j - 1), merged |-> p]
        ELSE IF j < C + 1 THEN [db |-> MergeInternal(s, p, kids[j + 1], q, j), merged |-> kids[j + 1]]
        ELSE [db |-> Fault(s), merged |-> 0]
  BY <1>2, <1>4, <1>5, <1>6, <1>7, ZenonT(40) DEF BalanceInternal
<1>9. i \in 0 .. h /\ h \in Nat /\ i \in Nat
  BY DEF Sound, Grown
<1>10. ASSUME NEW x \in 1 .. C
       PROVE  \E e : /\ AreSiblings(s, h, at, i, kids[x], kids[x + 1], q, x, e)
                     /\ Len(s.page[kids[x]].cells) \in Nat /\ Len(s.page[kids[x + 1]].cells) \in Nat
  <2>1. PICK e : AreSiblings(s, h, at, i, kids[x], kids[x + 1], q, x, e)
    BY <1>2, <1>3, <1>4, <1>6, <1>9, SiblingsAre
  <2>2. PICK l, r : l = kids[x] /\ r = kids[x + 1]
    OBVIOUS
  <2>3. AreSiblings(s, h, at, i, l, r, q, x, e)
    BY <2>1, <2>2
  <2>4. ArePair(s, at, i, l, r, q, x, e)
    BY <2>3, PairIs
  <2>5. s.page[l] \in Node /\ s.page[r] \in Node
    BY <2>4 DEF ArePair
  <2>6. Len(s.page[l].cells) \in Nat /\ Len(s.page[r].cells) \in Nat
    BY <2>5, CellsType
  <2> QED
    BY <2>1, <2>2, <2>6
<1>11. MAX_CELLS \in Nat
  BY CellCounts
<1> HIDE DEF MayBorrow
<1>12. CASE MayBorrow(j - 1)
  <2>1. PICK x \in 1 .. C : x = j - 1 /\ j = x + 1
    BY <1>4, <1>12 DEF MayBorrow
  <2>2. PICK e : /\ AreSiblings(s, h, at, i, kids[x], p, q, x, e)
                 /\ Len(s.page[kids[x]].cells) \in Nat /\ Len(s.page[p].cells) \in Nat
    BY <1>4, <1>6, <1>10, <2>1
  <2>3. Len(s.page[kids[x]].cells) + Len(s.page[p].cells) + 1 >= MAX_CELLS
    <3>1. PICK A \in Nat, B \in Nat : A = Len(s.page[p].cells) /\ B = Len(s.page[kids[x]].cells)
      BY <2>2
    <3>2. A + B + 1 >= MAX_CELLS
      BY <1>12, <2>1, <3>1 DEF MayBorrow
    <3>3. B + A + 1 = A + B + 1
      OBVIOUS
    <3> QED
      BY <3>1, <3>2, <3>3
  <2>4. PICK l : l = kids[x]
    OBVIOUS
  <2>5. PICK g : IsKeptStep([db |-> BorrowInternal(s, l, p, q, x, FALSE), merged |-> 0],
                        s, store, h, at, i, k0, h, g, g)
    <3>1. /\ AreSiblings(s, h, at, i, l, p, q, x, e)
          /\ Len(s.page[l].cells) + Len(s.page[p].cells) + 1 >= MAX_CELLS
      BY <2>2, <2>3, <2>4
    <3>2. FALSE \in BOOLEAN /\ p = (IF FALSE THEN l ELSE p) /\ l = IF FALSE THEN p ELSE l
      OBVIOUS
    <3> QED
      BY <3>1, <3>2, BorrowStep
  <2> QED
    BY <1>8, <1>12, <2>1, <2>4, <2>5
<1>13. CASE ~MayBorrow(j - 1) /\ MayBorrow(j + 1)
  <2>1. j \in 1 .. C
    BY <1>4, <1>13 DEF MayBorrow
  <2>2. PICK e : /\ AreSiblings(s, h, at, i, p, kids[j + 1], q, j, e)
                 /\ Len(s.page[kids[j + 1]].cells) \in Nat /\ Len(s.page[p].cells) \in Nat
    BY <1>4, <1>6, <1>10, <2>1
  <2>3. PICK r : r = kids[j + 1]
    OBVIOUS
  <2>4. Len(s.page[p].cells) + Len(s.page[r].cells) + 1 >= MAX_CELLS
    BY <1>13, <2>3 DEF MayBorrow
  <2>5. PICK g : IsKeptStep([db |-> BorrowInternal(s, r, p, q, j, TRUE), merged |-> 0],
                        s, store, h, at, i, k0, h, g, g)
    <3>1. AreSiblings(s, h, at, i, p, r, q, j, e)
      BY <2>2, <2>3
    <3>2. TRUE \in BOOLEAN /\ p = (IF TRUE THEN p ELSE r) /\ r = IF TRUE THEN r ELSE p
      OBVIOUS
    <3> QED
      BY <2>4, <3>1, <3>2, BorrowStep, ZenonT(40)
  <2> QED
    BY <1>8, <1>13, <2>3, <2>5
<1>14. CASE ~MayBorrow(j - 1) /\ ~MayBorrow(j + 1) /\ j > 1
  <2>1. PICK x \in 1 .. C : x = j - 1 /\ j = x + 1
    BY <1>4, <1>14
  <2>2. PICK e : /\ AreSiblings(s, h, at, i, kids[x], p, q, x, e)
                 /\ Len(s.page[kids[x]].cells) \in Nat /\ Len(s.page[p].cells) \in Nat
    BY <1>4, <1>6, <1>10, <2>1
  <2>3. x \in 1 .. C + 1
    BY <2>1
  <2>4. ~(Len(s.page[kids[x]].cells) + Len(s.page[p].cells) + 1 >= MAX_CELLS)
    <3>1. PICK A \in Nat, B \in Nat : A = Len(s.page[p].cells) /\ B = Len(s.page[kids[x]].cells)
      BY <2>2
    <3>2. ~(A + B + 1 >= MAX_CELLS)
      BY <1>14, <2>1, <2>3, <3>1 DEF MayBorrow
    <3>3. B + A + 1 = A + B + 1
      OBVIOUS
    <3> QED
      BY <3>1, <3>2, <3>3
  <2>5. PICK l : l = kids[x]
    OBVIOUS
  <2>6. PICK g, seen : IsKeptStep([db |-> MergeInternal(s, l, p, q, x), merged |-> p],
                              s, store, h, at, i, k0, h, g, seen)
    <3>1. /\ AreSiblings(s, h, at, i, l, p, q, x, e)
          /\ ~(Len(s.page[l].cells) + Len(s.page[p].cells) + 1 >= MAX_CELLS)
      BY <2>2, <2>4, <2>5
    <3>2. q = at[i + 1][k0] /\ p \in {l, p}
      BY <1>4
    <3> QED
      BY <3>1, <3>2, MergeStep
  <2> QED
    BY <1>8, <1>14, <2>1, <2>5, <2>6
<1>15. CASE ~MayBorrow(j - 1) /\ ~MayBorrow(j + 1) /\ ~(j > 1)
  <2>1. j \in 1 .. C /\ j < C + 1 /\ j + 1 \in 1 .. C + 1
    BY <1>4, <1>15
  <2>2. PICK e : /\ AreSiblings(s, h, at, i, p, kids[j + 1], q, j, e)
                 /\ Len(s.page[kids[j + 1]].cells) \in Nat /\ Len(s.page[p].cells) \in Nat
    BY <1>4, <1>6, <1>10, <2>1
  <2>3. PICK r : r = kids[j + 1]
    OBVIOUS
  <2>4. ~(Len(s.page[p].cells) + Len(s.page[r].cells) + 1 >= MAX_CELLS)
    BY <1>15, <2>1, <2>3 DEF MayBorrow
  <2>5. PICK g, seen : IsKeptStep([db |-> MergeInternal(s, p, r, q, j), merged |-> r],
                              s, store, h, at, i, k0, h, g, seen)
    <3>1. AreSiblings(s, h, at, i, p, r, q, j, e)
      BY <2>2, <2>3
    <3>2. q = at[i + 1][k0] /\ p \in {p, r}
      BY <1>4
    <3> QED
      BY <2>1, <2>4, <3>1, <3>2, MergeStep, ZenonT(40)
  <2> QED
    BY <1>8, <1>15, <2>1, <2>3, <2>5
<1> QED
  BY <1>12, <1>13, <1>14, <1>15
-----------------------------------------------------------------------------
(* remove_internal_cell *)
LEMMA EmptyUnderflows ==
  ASSUME NEW n, n.cells = <<>>
  PROVE  NodeUnderflows(n)
<1>1. NODE_SPACE \div 2 \in Nat /\ NODE_SPACE <= 2 * (NODE_SPACE \div 2) + 1 /\ NODE_SPACE \in Nat
  BY HalfOf
<1>2. PICK H \in Nat : H = NODE_SPACE \div 2
  BY <1>1
<1>3. CELL_SIZE \in Nat \ {0} /\ NODE_SPACE >= 4 * CELL_SIZE
  BY NodeAssumption
<1>4. 0 < H
  BY <1>1, <1>2, <1>3
<1>5. Len(n.cells) = 0 /\ 0 * CELL_SIZE = 0
  BY <1>3
<1> QED
  BY <1>2, <1>4, <1>5 DEF NodeUnderflows

\* A step from a database of as many pages.
LEMMA StepFrom ==
  ASSUME NEW t, NEW s, Len(t.page) = Len(s.page), t.next_row = s.next_row,
         NEW res, NEW store, NEW h, NEW at, NEW i, NEW k0, NEW h2, NEW g, NEW seen,
         Keeps(t, h, at, s, h, at, {}), IsKeptStep(res, t, store, h, at, i, k0, h2, g, seen)
  PROVE  IsKeptStep(res, s, store, h, at, i, k0, h2, g, seen)
<1>1. IsStep(res, t, store, h, at, i, k0, h2, g, seen) /\ Keeps(res.db, h2, g, t, h, at, {res.merged})
  BY DEF IsKeptStep
<1>2. IsStep(res, s, store, h, at, i, k0, h2, g, seen)
  BY <1>1 DEF IsStep
<1>3. Keeps(res.db, h2, g, s, h, at, {res.merged})
  BY <1>1, KeepsAfter
<1> QED
  BY <1>2, <1>3 DEF IsKeptStep

\* Nothing has become of the divisions.
LEMMA StepSame ==
  ASSUME NEW t, NEW s, Len(t.page) = Len(s.page), t.next_row = s.next_row,
         NEW store, NEW h \in Nat, NEW at, NEW i, NEW k0, NEW h2 \in Nat, h2 <= h,
         Sound(t, store, h2, at, at, 0), NEW res, res.db = t, res.merged = 0,
         Keeps(t, h2, at, s, h, at, {})
  PROVE  IsKeptStep(res, s, store, h, at, i, k0, h2, at, at)
<1>1. Narrowed(at, at, h2)
  BY DEF Narrowed
<1>2. IsStep(res, s, store, h, at, i, k0, h2, at, at)
  BY <1>1 DEF IsStep
<1>3. Keeps(res.db, h2, at, s, h, at, {res.merged})
  BY DEF Keeps
<1> QED
  BY <1>2, <1>3 DEF IsKeptStep

\* One node of the way up forgets the child that is merged away.
LEMMA WithoutKidSound ==
  ASSUME NEW s, NEW store, NEW h, NEW at, NEW seen, Sound(s, store, h, at, seen, 0),
         NEW j \in 0 .. h, j # h, NEW l, NEW r, NEW e, IsMerged(at, seen, j, l, r, e),
         NEW k0 \in Ids, NEW p, p = at[j + 1][k0], p = at[j + 1][e], Len(s.page) < CHILD_IDS
  PROVE  \E h2, g, seen2 : IsKeptStep(WithoutKid(s, p, r), s, store, h, at, j + 1, k0, h2, g, seen2)
<1>1. PICK t \in Database, m \in Node : IsDropped(t, m, s, store, h, at, seen, p, r)
  BY DropSound, SMTT(30)
<1>2. /\ t = [s EXCEPT !.page[p] = WithoutChild(s.page[p], r)]
      /\ t.page[p].parent = s.page[p].parent /\ t.page[p] \in Node
      /\ r \in ToSet(Kids(s.page[p])) /\ s.page[p].cells # <<>>
      /\ Sound(t, store, h, at, at, p)
      /\ Len(t.page) = Len(s.page) /\ t.next_row = s.next_row
      /\ Keeps(t, h, at, s, h, at, {})
  BY <1>1 DEF IsDropped
<1>3. h \in Nat
  BY DEF Sound, Grown
<1>4. PICK i \in 1 .. h : i = j + 1 /\ i \in Nat /\ i - 1 = j
  BY <1>3
<1>5. p = at[i][k0]
  BY <1>4
<1>6. /\ at \in [Nat -> Division]
      /\ \A y \in 1 .. h : Adopts(t.page, at[y - 1], at[y - 1], at[y])
      /\ \A y \in 0 .. h, k \in Ids : at[y][k] # 0
      /\ t.page[t.root_page_id].parent = 0 /\ \A k \in Ids : at[h][k] = t.root_page_id
  <2>1. Grown(t.page, t.root_page_id, store, h, at, at, p) /\ Len(t.page) \in Nat
    BY <1>1, <1>2, PagesAre DEF Sound
  <2>2. \A y \in 0 .. h, k \in Ids : at[y][k] # 0
    BY <2>1, PageOfLevel
  <2> QED
    BY <2>1, <2>2 DEF Grown
<1>7. t.page[p].parent # 0 <=> i # h
  <2>1. CASE i = h
    BY <1>5, <1>6, <2>1
  <2>2. CASE i # h
    <3>1. PICK up \in 1 .. h : up = i + 1 /\ up - 1 = i /\ up \in 0 .. h
      BY <1>3, <1>4, <2>2
    <3>2. Adopts(t.page, at[i], at[i], at[up])
      BY <1>6, <3>1
    <3>3. t.page[at[i][k0]].parent = at[up][k0]
      BY <3>2, SMTT(30) DEF Adopts
    <3> QED
      BY <1>5, <1>6, <2>2, <3>1, <3>3
  <2> QED
    BY <2>1, <2>2
<1>8. WithoutKid(s, p, r) =
        IF t.page[p].parent # 0 /\ NodeUnderflows(t.page[p]) THEN BalanceInternal(t, p)
        ELSE IF t.page[p].parent = 0 /\ t.page[p].cells = <<>>
        THEN [db |-> Collapsed(t, p), merged |-> 0]
        ELSE [db |-> t, merged |-> 0]
  BY <1>2 DEF WithoutKid
<1>9. CASE t.page[p].parent # 0 /\ NodeUnderflows(t.page[p])
  <2>1. i # h /\ Len(t.page) < CHILD_IDS
    BY <1>2, <1>7, <1>9
  <2>2. PICK g, seen2 : IsKeptStep(BalanceInternal(t, p), t, store, h, at, i, k0, h, g, seen2)
    BY <1>2, <1>5, <1>9, <2>1, BalanceSound
  <2>3. IsKeptStep(BalanceInternal(t, p), s, store, h, at, i, k0, h, g, seen2)
    BY <1>2, <2>2, StepFrom
  <2> QED
    BY <1>4, <1>8, <1>9, <2>3, SMTT(30)
<1>10. CASE t.page[p].parent = 0 /\ t.page[p].cells = <<>>
  <2>1. i = h /\ h # 0 /\ p = at[h][k0]
    BY <1>4, <1>5, <1>7, <1>10
  <2>2. PICK u \in Database : /\ u = Collapsed(t, p) /\ Sound(u, store, h - 1, at, at, 0)
                              /\ Len(u.page) = Len(t.page) /\ u.next_row = t.next_row
                              /\ Keeps(u, h - 1, at, t, h, at, {})
    <3>1. \E u \in Database : IsCollapsed(u, t, store, h, at, p)
      BY <1>2, <1>10, <2>1, CollapseSound
    <3> QED
      BY <3>1 DEF IsCollapsed
  <2>3. PICK h2 \in Nat : h2 = h - 1 /\ h2 <= h
    BY <1>3, <2>1
  <2>4. PICK res : res = [db |-> u, merged |-> 0] /\ res.db = u /\ res.merged = 0
    <3>1. [db |-> u, merged |-> 0].db = u /\ [db |-> u, merged |-> 0].merged = 0
      OBVIOUS
    <3> QED
      BY <3>1
  <2>5. IsKeptStep(res, s, store, h, at, i, k0, h2, at, at)
    <3>1. Keeps(u, h2, at, s, h, at, {})
      BY <1>2, <2>2, <2>3, KeepsAfter, SMTT(30)
    <3>2. Sound(u, store, h2, at, at, 0) /\ Len(u.page) = Len(s.page) /\ u.next_row = s.next_row
      BY <1>2, <2>2, <2>3
    <3> QED
      BY <1>3, <2>3, <2>4, <3>1, <3>2, StepSame, SMTT(30)
  <2> QED
    BY <1>4, <1>8, <1>10, <2>2, <2>4, <2>5
<1>11. CASE /\ ~(t.page[p].parent # 0 /\ NodeUnderflows(t.page[p]))
            /\ ~(t.page[p].parent = 0 /\ t.page[p].cells = <<>>)
  <2>1. t.page[p].cells # <<>>
    <3>1. t.page[p].cells = <<>> => NodeUnderflows(t.page[p])
      BY EmptyUnderflows
    <3> QED
      BY <1>11, <3>1
  <2>2. Sound(t, store, h, at, at, 0)
    BY <1>2, <2>1, ThinGone
  <2>3. PICK res : res = [db |-> t, merged |-> 0] /\ res.db = t /\ res.merged = 0
    <3>1. [db |-> t, merged |-> 0].db = t /\ [db |-> t, merged |-> 0].merged = 0
      OBVIOUS
    <3> QED
      BY <3>1
  <2>4. IsKeptStep(res, s, store, h, at, i, k0, h, at, at)
    <3>1. h <= h
      BY <1>3
    <3> QED
      BY <1>2, <1>3, <2>2, <2>3, <3>1, StepSame
  <2> QED
    BY <1>4, <1>8, <1>11, <2>3, <2>4, ZenonT(40)
<1> QED
  BY <1>9, <1>10, <1>11

\* A step is one from the database and the levels before those it was taken from.
LEMMA StepAfter ==
  ASSUME NEW u, NEW s, Len(u.page) = Len(s.page), u.next_row = s.next_row,
         NEW store, NEW h \in Nat, NEW at, NEW g, NEW i \in Nat, Narrowed(g, at, h),
         \A j \in Nat : j > i => g[j] = at[j],
         NEW res, NEW k0, NEW h2, NEW g2, NEW seen2,
         IsStep(res, u, store, h, g, i, k0, h2, g2, seen2)
  PROVE  IsStep(res, s, store, h, at, i, k0, h2, g2, seen2)
<1>1. /\ h2 \in Nat /\ h2 <= h /\ Narrowed(g2, g, h2) /\ \A j \in Nat : j > i => g2[j] = g[j]
      /\ Len(res.db.page) = Len(u.page) /\ res.db.next_row = u.next_row
      /\ IF res.merged = 0 THEN Sound(res.db, store, h2, g2, g2, 0)
         ELSE /\ h2 = h /\ i # h /\ Sound(res.db, store, h, g2, seen2, 0)
              /\ IsLeftOver(res.merged, g2, seen2, h, g, i, k0, Len(u.page))
  BY DEF IsStep
<1>2. Narrowed(g2, at, h2)
  <2>1. ASSUME NEW j \in 0 .. h2, NEW k \in Ids PROVE \E y \in Ids : g2[j][k] = at[j][y]
    <3>1. PICK x \in Ids : g2[j][k] = g[j][x]
      BY <1>1 DEF Narrowed
    <3>2. j \in 0 .. h
      BY <1>1
    <3>3. PICK y \in Ids : g[j][x] = at[j][y]
      BY <3>2 DEF Narrowed
    <3> QED
      BY <3>1, <3>3
  <2> QED
    BY <2>1 DEF Narrowed
<1>3. \A j \in Nat : j > i => g2[j] = at[j]
  BY <1>1
<1>4. g[i + 1] = at[i + 1]
  <2>1. i + 1 \in Nat /\ i + 1 > i
    OBVIOUS
  <2> QED
    BY <2>1
<1>5. ASSUME res.merged # 0
      PROVE  IsLeftOver(res.merged, g2, seen2, h, at, i, k0, Len(s.page))
  BY <1>1, <1>4, <1>5 DEF IsLeftOver
<1> QED
  BY <1>1, <1>2, <1>3, <1>5 DEF IsStep

\* The pages merged away on the levels up to i are on no level.
Gone(step, i, g, h, n) ==
  \A y \in 1 .. i : \/ step[y].merged = 0
                    \/ /\ step[y].merged \in 1 .. n
                       /\ \A j \in 0 .. h, k \in Ids : g[j][k] # step[y].merged
\* Those are all that are lost so far.
Merged(step, i) == {step[y].merged : y \in 1 .. i}
WayUp(step, i, s, store, h, at, e) ==
  \E h2, g, seen : /\ IsStep(step[i], s, store, h, at, i, e, h2, g, seen)
                   /\ Gone(step, i, g, h2, Len(s.page))
                   /\ Keeps(step[i].db, h2, g, s, h, at, Merged(step, i))
LEMMA WayUpFirst ==
  ASSUME NEW s, NEW store, NEW h, NEW at, NEW e, NEW step, NEW h2, NEW g, NEW seen,
         IsKeptStep(step[1], s, store, h, at, 1, e, h2, g, seen)
  PROVE  WayUp(step, 1, s, store, h, at, e)
<1>2. IsStep(step[1], s, store, h, at, 1, e, h2, g, seen)
  BY DEF IsKeptStep
<1>3. Keeps(step[1].db, h2, g, s, h, at, Merged(step, 1))
  <2>1. step[1].merged \in Merged(step, 1)
    BY DEF Merged
  <2> QED
    BY <2>1 DEF IsKeptStep, Keeps
<1>1. Gone(step, 1, g, h2, Len(s.page))
  <2>1. ASSUME step[1].merged # 0
        PROVE  /\ step[1].merged \in 1 .. Len(s.page)
               /\ \A j \in 0 .. h2, k \in Ids : g[j][k] # step[1].merged
    BY <1>2, <2>1 DEF IsStep, IsLeftOver
  <2>2. \A y \in 1 .. 1 : y = 1
    OBVIOUS
  <2> QED
    BY <2>1, <2>2 DEF Gone
<1> QED
  BY <1>1, <1>2, <1>3 DEF WayUp

LEMMA WayUpMore ==
  ASSUME NEW s, NEW store, NEW h \in Nat, NEW at, NEW e \in Ids, NEW step, NEW i \in 1 .. h, i # h,
         WayUp(step, i, s, store, h, at, e), Len(s.page) < CHILD_IDS,
         step[i + 1] = IF step[i].merged = 0 THEN step[i]
                       ELSE WithoutKid(step[i].db, at[i + 1][e], step[i].merged)
  PROVE  WayUp(step, i + 1, s, store, h, at, e)
<1>1. PICK h2, g, seen : /\ IsStep(step[i], s, store, h, at, i, e, h2, g, seen)
                         /\ Gone(step, i, g, h2, Len(s.page))
                         /\ Keeps(step[i].db, h2, g, s, h, at, Merged(step, i))
  BY DEF WayUp
<1>2. /\ h2 \in Nat /\ h2 <= h /\ Narrowed(g, at, h2) /\ \A j \in Nat : j > i => g[j] = at[j]
      /\ Len(step[i].db.page) = Len(s.page) /\ step[i].db.next_row = s.next_row
  BY <1>1 DEF IsStep
<1>3. PICK up \in 1 .. h : up = i + 1 /\ up \in Nat /\ up > i /\ i \in Nat /\ i \in 0 .. h
  OBVIOUS
<1>4. \A y \in 1 .. up : y \in 1 .. i \/ y = up
  BY <1>3
<1>7. Merged(step, i) \subseteq Merged(step, up) /\ step[up].merged \in Merged(step, up)
  BY <1>3 DEF Merged
<1>5. CASE step[i].merged = 0
  <2>1. step[up] = step[i]
    BY <1>3, <1>5
  <2>2. \A j \in Nat : j > up => g[j] = at[j]
    BY <1>2, <1>3
  <2>3. Sound(step[i].db, store, h2, g, g, 0)
    BY <1>1, <1>5 DEF IsStep
  <2>4. IsStep(step[up], s, store, h, at, up, e, h2, g, seen)
    BY <1>2, <1>5, <2>1, <2>2, <2>3 DEF IsStep
  <2>5. Gone(step, up, g, h2, Len(s.page))
    BY <1>1, <1>4, <1>5, <2>1 DEF Gone
  <2>6. Keeps(step[up].db, h2, g, s, h, at, Merged(step, up))
    BY <1>1, <1>7, <2>1 DEF Keeps
  <2> QED
    BY <1>3, <2>4, <2>5, <2>6 DEF WayUp
<1>6. CASE step[i].merged # 0
  <2>1. PICK u, r : u = step[i].db /\ r = step[i].merged
    OBVIOUS
  <2>2. h2 = h /\ Sound(u, store, h, g, seen, 0) /\ IsLeftOver(r, g, seen, h, at, i, e, Len(s.page))
    BY <1>1, <1>6, <2>1 DEF IsStep
  <2>3. PICK l, e2 : IsMerged(g, seen, i, l, r, e2) /\ at[i + 1][e2] = at[i + 1][e]
    BY <2>2 DEF IsLeftOver
  <2>4. PICK p : p = at[i + 1][e]
    OBVIOUS
  <2>5. p = g[i + 1][e] /\ p = g[i + 1][e2]
    BY <1>2, <1>3, <2>3, <2>4
  <2>6. Len(u.page) = Len(s.page) /\ u.next_row = s.next_row /\ Len(u.page) < CHILD_IDS
    BY <1>2, <2>1
  <2>7. PICK h3, g3, seen3 : IsKeptStep(WithoutKid(u, p, r), u, store, h, g, i + 1, e, h3, g3, seen3)
    <3>1. i \in 0 .. h
      BY <1>3
    <3> QED
      BY <2>2, <2>3, <2>5, <2>6, <3>1, WithoutKidSound
  <2>8. PICK res : res = WithoutKid(u, p, r)
    OBVIOUS
  <2>9. IsStep(res, u, store, h, g, up, e, h3, g3, seen3) /\ Keeps(res.db, h3, g3, u, h, g, {res.merged})
    BY <1>3, <2>7, <2>8 DEF IsKeptStep
  <2>10. Narrowed(g, at, h) /\ \A j \in Nat : j > up => g[j] = at[j]
    BY <1>2, <1>3, <2>2
  <2>11. IsStep(res, s, store, h, at, up, e, h3, g3, seen3)
    BY <1>3, <2>6, <2>9, <2>10, StepAfter
  <2>12. step[up] = res
    BY <1>3, <1>6, <2>1, <2>4, <2>8
  <2>13. h3 \in Nat /\ h3 <= h /\ Narrowed(g3, g, h3)
    BY <2>9 DEF IsStep
  <2>14. ASSUME NEW y \in 1 .. i, step[y].merged # 0
         PROVE  /\ step[y].merged \in 1 .. Len(s.page)
                /\ \A j \in 0 .. h3, k \in Ids : g3[j][k] # step[y].merged
    <3>1. /\ step[y].merged \in 1 .. Len(s.page)
          /\ \A j \in 0 .. h, k \in Ids : g[j][k] # step[y].merged
      BY <1>1, <2>2, <2>14 DEF Gone
    <3>2. \A j \in 0 .. h3 : j \in 0 .. h
      BY <2>13
    <3> QED
      BY <2>13, <3>1, <3>2 DEF Narrowed
  <2>15. ASSUME res.merged # 0
         PROVE  /\ res.merged \in 1 .. Len(s.page)
                /\ \A j \in 0 .. h3, k \in Ids : g3[j][k] # res.merged
    BY <2>11, <2>15 DEF IsStep, IsLeftOver
  <2>16. Gone(step, up, g3, h3, Len(s.page))
    BY <1>4, <2>12, <2>14, <2>15 DEF Gone
  <2>17. Keeps(step[up].db, h3, g3, s, h, at, Merged(step, up))
    <3>1. Keeps(u, h, g, s, h, at, Merged(step, i))
      BY <1>1, <2>1, <2>2
    <3>2. Merged(step, i) \cup {res.merged} \subseteq Merged(step, up)
      BY <1>7, <2>12
    <3>3. Keeps(res.db, h3, g3, s, h, at, Merged(step, up))
      BY <2>9, <3>1, <3>2, KeepsAfter
    <3> QED
      BY <2>12, <3>3
  <2> QED
    BY <1>3, <2>11, <2>12, <2>16, <2>17 DEF WayUp
<1> QED
  BY <1>5, <1>6

\* What a handler makes of the database: it is sound, with as many pages, and none is lost.
IsRemoved(t, s, store, h, at) ==
  /\ \E h2, g : Sound(t, store, h2, g, g, 0) /\ Keeps(t, h2, g, s, h, at, {})
  /\ Len(t.page) = Len(s.page) /\ t.next_row = s.next_row

\* The pages merged away are freed on the way back: freed[i] is the database after turn i,
\* which frees what level h + 1 - i was merged out of.
AreFreed(freed, step, h) ==
  freed = [i \in 0 .. h |-> IF i = 0 THEN step[h].db
                            ELSE LET merged == step[h + 1 - i].merged
                                 IN IF merged = 0 THEN freed[i - 1]
                                    ELSE Freed(freed[i - 1], merged)]

LEMMA FreedLoop ==
  ASSUME NEW s, NEW store, NEW h \in Nat, NEW at, NEW e, NEW step, h # 0,
         WayUp(step, h, s, store, h, at, e), NEW freed, AreFreed(freed, step, h)
  PROVE  IsRemoved(freed[h], s, store, h, at)
<1> USE DEF AreFreed
<1>1. PICK h2, g, seen : /\ IsStep(step[h], s, store, h, at, h, e, h2, g, seen)
                         /\ Gone(step, h, g, h2, Len(s.page))
                         /\ Keeps(step[h].db, h2, g, s, h, at, Merged(step, h))
  BY DEF WayUp
<1>2. /\ h2 \in Nat /\ Sound(step[h].db, store, h2, g, g, 0)
      /\ Len(step[h].db.page) = Len(s.page) /\ step[h].db.next_row = s.next_row
  BY <1>1 DEF IsStep
<1> DEFINE IsRight(t) == /\ Sound(t, store, h2, g, g, 0)
                         /\ Len(t.page) = Len(s.page) /\ t.next_row = s.next_row
           Lost(i) == Merged(step, h - i)
           P == {i \in 0 .. h : IsRight(freed[i]) /\ Keeps(freed[i], h2, g, s, h, at, Lost(i))}
<1>3. 0 \in P
  <2>1. 0 \in 0 .. h /\ freed[0] = step[h].db /\ h - 0 = h
    OBVIOUS
  <2>2. IsRight(freed[0])
    BY <1>2, <2>1
  <2>3. Keeps(freed[0], h2, g, s, h, at, Lost(0))
    BY <1>1, <2>1
  <2> QED
    BY <2>1, <2>2, <2>3
<1>4. ASSUME NEW i \in 1 .. h, i - 1 \in P PROVE i \in P
  <2>1. PICK u : u = freed[i - 1]
    OBVIOUS
  <2>2. IsRight(u) /\ Keeps(u, h2, g, s, h, at, Lost(i - 1))
    BY <1>4, <2>1
  <2>3. PICK y \in 1 .. h : y = h + 1 - i
    OBVIOUS
  <2>8. Lost(i - 1) \subseteq Lost(i) \cup {step[y].merged}
    <3>1. h - (i - 1) = y /\ h - i = y - 1
      BY <2>3
    <3>2. \A z \in 1 .. y : z \in 1 .. y - 1 \/ z = y
      OBVIOUS
    <3> QED
      BY <3>1, <3>2 DEF Merged
  <2>4. PICK merged : merged = step[y].merged
    OBVIOUS
  <2>5. i \in 0 .. h /\ freed[i] = IF merged = 0 THEN u ELSE Freed(u, merged)
    <3>1. i \in 0 .. h /\ i # 0
      OBVIOUS
    <3> QED
      BY <2>1, <2>3, <2>4, <3>1
  <2> HIDE DEF Lost
  <2>6. CASE merged = 0
    <3>1. Home(0, u, h2, g)
      BY DEF Home
    <3>2. Keeps(u, h2, g, s, h, at, Lost(i))
      BY <2>2, <2>4, <2>6, <2>8, <3>1 DEF Keeps
    <3> QED
      BY <2>2, <2>5, <2>6, <3>2
  <2>7. CASE merged # 0
    <3>1. merged \in 1 .. Len(s.page) /\ \A j \in 0 .. h2, k \in Ids : g[j][k] # merged
      BY <1>1, <2>4, <2>7 DEF Gone
    <3>2. merged # u.root_page_id
      <4>1. \A k \in Ids : g[h2][k] = u.root_page_id
        BY <2>2 DEF Sound, Grown
      <4>2. 0 \in Ids /\ h2 \in 0 .. h2
        BY <1>2, IdsAre
      <4> QED
        BY <3>1, <4>1, <4>2
    <3>3. merged \in 1 .. Len(u.page)
      BY <2>2, <3>1
    <3>4. PICK t \in Database :
            /\ t = Freed(u, merged) /\ Sound(t, store, h2, g, g, 0)
            /\ Len(t.page) = Len(u.page) /\ t.next_row = u.next_row
            /\ Keeps(t, h2, g, u, h2, g, {}) /\ Home(merged, t, h2, g)
      BY <2>2, <3>1, <3>2, <3>3, FreeSound
    <3>5. Keeps(t, h2, g, s, h, at, Lost(i))
      BY <2>2, <2>4, <2>8, <3>4 DEF Keeps
    <3> QED
      BY <2>2, <2>5, <2>7, <3>4, <3>5
  <2> QED
    BY <2>6, <2>7
<1> HIDE DEF P
<1>5. \A i \in 0 .. h : i \in P
  BY <1>3, <1>4, UpTo
<1>6. h \in P
  BY <1>5
<1>7. Lost(h) = {}
  BY DEF Merged
<1> HIDE DEF Lost
<1> QED
  BY <1>6, <1>7 DEF P, IsRemoved

\* remove_internal_cell makes the tree sound again after two of its pages were merged.
LEMMA RemoveSound ==
  ASSUME NEW s, NEW store, NEW h, NEW at, NEW seen, Sound(s, store, h, at, seen, 0), h # 0,
         NEW l, NEW r, NEW e, IsMerged(at, seen, 0, l, r, e), NEW p, p = at[1][e],
         Len(s.page) < CHILD_IDS
  PROVE  IsRemoved(RemoveInternalCell(s, p, r), s, store, h, at)
<1>1. h \in Nat /\ 1 \in 1 .. h /\ 1 \in 0 .. h /\ 0 \in 0 .. h /\ h - 1 \in Nat
  <2>1. h \in Nat
    BY DEF Sound, Grown
  <2> QED
    BY <2>1
<1>2. e \in Ids /\ \A i \in Nat : i # 0 => seen[i] = at[i]
  BY DEF IsMerged
<1> DEFINE nodes == <<p>> \o Ancestors(s, p)
           N == Len(nodes)
<1>3. Len(nodes) = h /\ \A i \in 1 .. h : nodes[i] = at[i][e]
  <2>1. Known(1, h, at, seen)
    BY <1>1, <1>2 DEF Known
  <2>2. Ancestors(s, at[1][e]) = [i \in 1 .. h - 1 |-> at[1 + i][e]]
    BY <1>1, <1>2, <2>1, AncestorsAre
  <2>3. PICK above : above = [i \in 1 .. h - 1 |-> at[1 + i][e]] /\ above = Ancestors(s, p)
    BY <2>2
  <2>4. Len(above) = h - 1 /\ \A i \in 1 .. h - 1 : above[i] = at[1 + i][e]
    BY <1>1, <2>3
  <2>5. nodes = <<p>> \o above
    BY <2>3
  <2> HIDE DEF nodes
  <2>6. Len(nodes) = h /\ \A i \in 1 .. h : nodes[i] = IF i = 1 THEN p ELSE above[i - 1]
    <3>1. at \in [Nat -> Division]
      BY DEF Sound, Grown
    <3>2. \A i \in Nat : at[i][e] \in Nat
      BY <1>2, <3>1 DEF Division
    <3>3. above \in Seq(Nat) /\ p \in Nat
      BY <1>1, <2>3, <3>2
    <3> QED
      BY <1>1, <2>4, <2>5, <3>3
  <2>7. ASSUME NEW i \in 1 .. h PROVE nodes[i] = at[i][e]
    <3>1. CASE i = 1
      BY <2>6, <3>1
    <3>2. CASE i # 1
      <4>1. i - 1 \in 1 .. h - 1 /\ 1 + (i - 1) = i
        BY <1>1, <3>2
      <4> QED
        BY <2>4, <2>6, <3>2, <4>1
    <3> QED
      BY <3>1, <3>2
  <2> QED
    BY <2>6, <2>7
<1>10. N = h
  BY <1>3
<1> HIDE DEF nodes, N
<1> DEFINE First == WithoutKid(s, p, r)
           After(i, before) == IF before.merged = 0 THEN before
                               ELSE WithoutKid(before.db, nodes[i], before.merged)
           step == CHOOSE f : f = [i \in 1 .. N |-> IF i = 1 THEN First ELSE After(i, f[i - 1])]
<1>4. step = [i \in 1 .. h |-> IF i = 1 THEN First ELSE After(i, step[i - 1])]
  <2> HIDE DEF First, After
  <2> DEFINE IsF(f, m) == f = [i \in 1 .. m + 1 |-> IF i = 1 THEN First ELSE After(i, f[i - 1])]
             P == {m \in 0 .. h - 1 : \E f : IsF(f, m)}
  <2>1. 0 \in P
    <3>1. IsF([i \in 1 .. 0 + 1 |-> First], 0)
      OBVIOUS
    <3> HIDE DEF IsF
    <3> QED
      BY <1>1, <3>1
  <2>2. ASSUME NEW m \in 1 .. h - 1, m - 1 \in P PROVE m \in P
    <3>1. PICK f : IsF(f, m - 1)
      BY <2>2
    <3>2. m \in Nat /\ m - 1 + 1 = m /\ m # 0 /\ m + 1 - 1 = m
      BY <1>1
    <3>3. f = [i \in 1 .. m |-> IF i = 1 THEN First ELSE After(i, f[i - 1])]
      BY <3>1, <3>2
    <3> DEFINE w == [i \in 1 .. m + 1 |-> IF i = m + 1 THEN After(m + 1, f[m]) ELSE f[i]]
    <3>4. ASSUME NEW i \in 1 .. m + 1 PROVE w[i] = IF i = 1 THEN First ELSE After(i, w[i - 1])
      <4>1. CASE i = m + 1
        <5>1. i # 1 /\ i - 1 \in 1 .. m + 1 /\ i - 1 # m + 1 /\ i - 1 = m
          BY <3>2, <4>1
        <5> QED
          BY <4>1, <5>1
      <4>2. CASE i # m + 1
        <5>1. i \in 1 .. m
          BY <3>2, <4>2
        <5>2. f[i] = IF i = 1 THEN First ELSE After(i, f[i - 1])
          BY <3>3, <5>1
        <5>3. i # 1 => i - 1 \in 1 .. m + 1 /\ i - 1 # m + 1
          BY <3>2
        <5> QED
          BY <4>2, <5>2, <5>3
      <4> QED
        BY <4>1, <4>2
    <3>5. IsF(w, m)
      BY <3>4
    <3> HIDE DEF w, IsF
    <3> QED
      BY <1>1, <3>2, <3>5
  <2>3. \E f : IsF(f, h - 1)
    <3>1. h - 1 \in P
      <4> HIDE DEF P
      <4>1. \A m \in 0 .. h - 1 : m \in P
        BY <1>1, <2>1, <2>2, UpTo
      <4> QED
        BY <1>1, <4>1
    <3> QED
      BY <3>1
  <2>4. h - 1 + 1 = h
    BY <1>1
  <2>5. \E f : f = [i \in 1 .. h |-> IF i = 1 THEN First ELSE After(i, f[i - 1])]
    BY <2>3, <2>4
  <2> QED
    BY <1>10, <2>5
<1>5. step[1] = First /\ \A i \in 1 .. h : i # 1 => step[i] = After(i, step[i - 1])
  <2> HIDE DEF First, After, step
  <2> QED
    BY <1>1, <1>4
<1> HIDE DEF step
<1>6. WayUp(step, h, s, store, h, at, e)
  <2> DEFINE P == {m \in 0 .. h - 1 : WayUp(step, m + 1, s, store, h, at, e)}
  <2>1. 0 \in P
    <3>1. at[0 + 1][e] = p /\ 0 # h
      BY <1>1
    <3>2. PICK h2, g, seen2 :
            IsKeptStep(WithoutKid(s, p, r), s, store, h, at, 0 + 1, e, h2, g, seen2)
      BY <1>1, <1>2, <3>1, WithoutKidSound
    <3>3. IsKeptStep(step[1], s, store, h, at, 1, e, h2, g, seen2)
      BY <1>5, <3>2
    <3>4. WayUp(step, 1, s, store, h, at, e)
      BY <3>3, WayUpFirst
    <3>5. 0 + 1 = 1 /\ 0 \in 0 .. h - 1
      BY <1>1
    <3> QED
      BY <3>4, <3>5
  <2>2. ASSUME NEW m \in 1 .. h - 1, m - 1 \in P PROVE m \in P
    <3>1. m \in 1 .. h /\ m # h /\ m + 1 \in 1 .. h /\ m + 1 # 1 /\ m + 1 - 1 = m /\ m - 1 + 1 = m
          /\ m \in 0 .. h - 1
      BY <1>1
    <3>2. WayUp(step, m, s, store, h, at, e)
      BY <2>2, <3>1
    <3>3. step[m + 1] = IF step[m].merged = 0 THEN step[m]
                        ELSE WithoutKid(step[m].db, at[m + 1][e], step[m].merged)
      <4>1. step[m + 1] = After(m + 1, step[m + 1 - 1])
        <5> HIDE DEF After
        <5> QED
          BY <1>5, <3>1
      <4> QED
        BY <1>3, <3>1, <4>1
    <3>4. WayUp(step, m + 1, s, store, h, at, e)
      BY <1>1, <1>2, <3>1, <3>2, <3>3, WayUpMore
    <3> QED
      BY <3>1, <3>4
  <2>3. h - 1 \in P
    <3> HIDE DEF P
    <3>1. \A m \in 0 .. h - 1 : m \in P
      BY <1>1, <2>1, <2>2, UpTo
    <3> QED
      BY <1>1, <3>1
  <2> QED
    BY <1>1, <2>3
<1> DEFINE Then(i, t) == LET merged == step[N + 1 - i].merged
                         IN IF merged = 0 THEN t ELSE Freed(t, merged)
           freed == CHOOSE f : f = [i \in 0 .. N |-> IF i = 0 THEN step[N].db ELSE Then(i, f[i - 1])]
<1>7. RemoveInternalCell(s, p, r) = freed[N]
  BY DEF RemoveInternalCell, step, N, nodes
<1>8. freed = [i \in 0 .. N |-> IF i = 0 THEN step[N].db ELSE Then(i, freed[i - 1])]
  <2> HIDE DEF Then
  <2> DEFINE IsF(f, m) == f = [i \in 0 .. m |-> IF i = 0 THEN step[h].db ELSE Then(i, f[i - 1])]
             P == {m \in 0 .. h : \E f : IsF(f, m)}
  <2>1. 0 \in P
    <3>1. IsF([i \in 0 .. 0 |-> step[h].db], 0)
      OBVIOUS
    <3> HIDE DEF IsF
    <3> QED
      BY <1>1, <3>1
  <2>2. ASSUME NEW m \in 1 .. h, m - 1 \in P PROVE m \in P
    <3>1. PICK f : IsF(f, m - 1)
      BY <2>2
    <3> DEFINE w == [i \in 0 .. m |-> IF i = m THEN Then(m, f[m - 1]) ELSE f[i]]
    <3>2. ASSUME NEW i \in 0 .. m PROVE w[i] = IF i = 0 THEN step[h].db ELSE Then(i, w[i - 1])
      <4>1. CASE i = m
        <5>1. i # 0 /\ i - 1 \in 0 .. m /\ i - 1 # m
          BY <4>1
        <5> QED
          BY <4>1, <5>1
      <4>2. CASE i # m
        <5>1. i \in 0 .. m - 1
          BY <4>2
        <5>2. f[i] = IF i = 0 THEN step[h].db ELSE Then(i, f[i - 1])
          BY <3>1, <5>1
        <5>3. i # 0 => i - 1 \in 0 .. m /\ i - 1 # m
          OBVIOUS
        <5> QED
          BY <4>2, <5>2, <5>3
      <4> QED
        BY <4>1, <4>2
    <3>3. IsF(w, m)
      BY <3>2
    <3> HIDE DEF w, IsF
    <3> QED
      BY <1>1, <3>3
  <2>3. h \in P
    <3> HIDE DEF P
    <3>1. \A m \in 0 .. h : m \in P
      BY <1>1, <2>1, <2>2, UpTo
    <3> QED
      BY <1>1, <3>1
  <2> QED
    BY <1>10, <2>3, ZenonT(40)
<1> HIDE DEF freed
<1>9. IsRemoved(freed[N], s, store, h, at)
  <2>1. N \in Nat /\ N # 0 /\ WayUp(step, N, s, store, N, at, e)
    BY <1>1, <1>6, <1>10
  <2>2. AreFreed(freed, step, N)
    BY <1>8, Zenon DEF AreFreed
  <2>3. IsRemoved(freed[N], s, store, N, at)
    <3> HIDE DEF N, step, Then
    <3> QED
      BY <2>1, <2>2, FreedLoop, ZenonT(30)
  <2> QED
    BY <1>10, <2>3
<1> QED
  BY <1>7, <1>9
=============================================================================
