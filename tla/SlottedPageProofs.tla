------------------------- MODULE SlottedPageProofs -------------------------
(***************************************************************************)
(* Proofs about SlottedPage, for pages of every size and rows of every     *)
(* length: records stay intact, no byte is lost, and the page implements   *)
(* the sequence of rows that the tree takes it for.                        *)
(***************************************************************************)
EXTENDS SlottedPage, BTreeNodeProofs

Places == HEADER_SIZE .. PAGE_SIZE - 1
Byte == [row : Rows, place : Nat] \cup {NoByte}
Slot == [offset : Nat, size : Nat]
Page == [slots : Seq(Slot), lower_offset : Int, upper_offset : Int, garbage_cnt : Int,
         data : [Places -> Byte]]

\* The bytes that slot leads to are those of row.
RecordAt(data, slot, row) ==
  /\ slot.size = Size[row.val]
  /\ slot.offset + slot.size <= PAGE_SIZE
  /\ \A b \in slot.offset .. slot.offset + slot.size - 1 :
       data[b] = [row |-> row, place |-> b - slot.offset]

\* The slots of pg lead to the rows, above the free space.
Sound(pg, rows) ==
  /\ pg \in Page /\ rows \in Seq(Rows) /\ Len(pg.slots) = Len(rows)
  /\ InOrder(rows)
  /\ HEADER_SIZE <= pg.upper_offset /\ pg.upper_offset <= PAGE_SIZE
  /\ \A i \in 1 .. Len(rows) : /\ pg.upper_offset <= pg.slots[i].offset
                               /\ RecordAt(pg.data, pg.slots[i], rows[i])

\* The header's counts are right for the rows.
Accounted(pg, rows) ==
  /\ pg.lower_offset = HEADER_SIZE + SLOT_SIZE * Len(rows)
  /\ pg.lower_offset <= pg.upper_offset
  /\ pg.garbage_cnt \in Nat
  /\ Taken(rows) + Free(pg) + pg.garbage_cnt = NODE_SPACE

\* The inductive invariant.
IInv == Sound(page, Stored) /\ Accounted(page, Stored)

RowsOf(pg) == [i \in DOMAIN pg.slots |-> pg.data[pg.slots[i].offset].row]

LEMMA Sizes ==
  /\ HEADER_SIZE \in Nat /\ NODE_SPACE \in Nat /\ SLOT_SIZE \in Nat /\ PAGE_SIZE \in Nat
  /\ PAGE_SIZE = HEADER_SIZE + NODE_SPACE
BY HeaderAssumption, NodeAssumption DEF PAGE_SIZE

LEMMA PageType ==
  ASSUME NEW pg \in Page
  PROVE  /\ pg.slots \in Seq(Slot) /\ Len(pg.slots) \in Nat
         /\ DOMAIN pg.slots = 1 .. Len(pg.slots)
         /\ \A i \in 1 .. Len(pg.slots) : /\ pg.slots[i] \in Slot
                                          /\ pg.slots[i].offset \in Nat
                                          /\ pg.slots[i].size \in Nat
         /\ pg.lower_offset \in Int /\ pg.upper_offset \in Int /\ pg.garbage_cnt \in Int
         /\ pg.data \in [Places -> Byte] /\ DOMAIN pg.data = Places
<1>1. /\ pg.slots \in Seq(Slot) /\ pg.data \in [Places -> Byte]
      /\ pg.lower_offset \in Int /\ pg.upper_offset \in Int /\ pg.garbage_cnt \in Int
  BY DEF Page
<1>2. Len(pg.slots) \in Nat /\ DOMAIN pg.slots = 1 .. Len(pg.slots)
  BY <1>1
<1>3. \A i \in 1 .. Len(pg.slots) : pg.slots[i] \in Slot
  BY <1>1
<1>4. \A s \in Slot : s.offset \in Nat /\ s.size \in Nat
  BY DEF Slot
<1> QED
  BY <1>1, <1>2, <1>3, <1>4

\* What a page's fields are decides whether it is sound.
LEMMA SoundType ==
  ASSUME NEW pg, NEW rows, Sound(pg, rows)
  PROVE  /\ pg \in Page /\ rows \in Seq(Rows) /\ InOrder(rows)
         /\ Len(rows) \in Nat /\ Len(pg.slots) = Len(rows)
         /\ \A i \in 1 .. Len(rows) : /\ rows[i] \in Rows
                                      /\ pg.slots[i].size = Size[rows[i].val]
                                      /\ pg.slots[i].size \in Nat \ {0}
                                      /\ pg.slots[i].offset \in Nat
                                      /\ pg.upper_offset <= pg.slots[i].offset
                                      /\ pg.slots[i].offset + pg.slots[i].size <= PAGE_SIZE
         /\ pg.upper_offset \in Nat
         /\ HEADER_SIZE <= pg.upper_offset /\ pg.upper_offset <= PAGE_SIZE
<1>1. /\ pg \in Page /\ rows \in Seq(Rows) /\ InOrder(rows) /\ Len(pg.slots) = Len(rows)
      /\ HEADER_SIZE <= pg.upper_offset /\ pg.upper_offset <= PAGE_SIZE
  BY DEF Sound
<1>2. Len(rows) \in Nat /\ \A i \in 1 .. Len(rows) : rows[i] \in Rows
  BY <1>1
<1>3. pg.upper_offset \in Nat
  BY <1>1, Sizes, PageType
<1>4. ASSUME NEW i \in 1 .. Len(rows)
      PROVE  /\ pg.slots[i].size = Size[rows[i].val] /\ pg.slots[i].size \in Nat \ {0}
             /\ pg.slots[i].offset \in Nat /\ pg.upper_offset <= pg.slots[i].offset
             /\ pg.slots[i].offset + pg.slots[i].size <= PAGE_SIZE
  <2>1. pg.slots[i].size = Size[rows[i].val] /\ pg.upper_offset <= pg.slots[i].offset
        /\ pg.slots[i].offset + pg.slots[i].size <= PAGE_SIZE
    BY DEF Sound, RecordAt
  <2>2. Size[rows[i].val] \in Nat \ {0}
    BY <1>2, CostType
  <2> QED
    BY <1>1, <2>1, <2>2, PageType
<1> QED
  BY <1>1, <1>2, <1>3, <1>4

\* get_record reads the rows.
LEMMA RowsRead ==
  ASSUME NEW pg, NEW rows, Sound(pg, rows)
  PROVE  RowsOf(pg) = rows
<1>1. DOMAIN pg.slots = 1 .. Len(rows) /\ DOMAIN rows = 1 .. Len(rows)
  BY SoundType, PageType
<1>2. ASSUME NEW i \in 1 .. Len(rows) PROVE pg.data[pg.slots[i].offset].row = rows[i]
  <2>1. pg.slots[i].offset \in pg.slots[i].offset .. pg.slots[i].offset + pg.slots[i].size - 1
    BY SoundType, SMTT(30)
  <2>2. pg.data[pg.slots[i].offset] =
          [row |-> rows[i], place |-> pg.slots[i].offset - pg.slots[i].offset]
    BY <2>1 DEF Sound, RecordAt
  <2> QED
    BY <2>2
<1>3. rows = [i \in 1 .. Len(rows) |-> rows[i]]
  BY SoundType
<1> QED
  BY <1>1, <1>2, <1>3 DEF RowsOf

-----------------------------------------------------------------------------
(* What the operations do to a page *)

LEMMA SweptSound ==
  ASSUME NEW pg, NEW rows, Sound(pg, rows)
  PROVE  /\ Sound(Swept(pg), rows)
         /\ Swept(pg).slots = pg.slots
         /\ Swept(pg).lower_offset = pg.lower_offset
         /\ Swept(pg).upper_offset = pg.upper_offset
         /\ Swept(pg).garbage_cnt = pg.garbage_cnt
<1> DEFINE live == UNION {pg.slots[i].offset .. pg.slots[i].offset + pg.slots[i].size - 1 :
                            i \in DOMAIN pg.slots}
           data == [b \in DOMAIN pg.data |-> IF b \in live THEN pg.data[b] ELSE NoByte]
<1>0. pg \in Page
  BY SoundType
<1>1. PICK q : q = Swept(pg)
  OBVIOUS
<1>2. q = [pg EXCEPT !.data = data]
  BY <1>1 DEF Swept
<1>3. data \in [Places -> Byte]
  BY <1>0, PageType DEF Byte
<1>4. ASSUME NEW i \in 1 .. Len(rows), RecordAt(pg.data, pg.slots[i], rows[i])
      PROVE  RecordAt(data, pg.slots[i], rows[i])
  <2>1. /\ i \in DOMAIN pg.slots /\ pg.slots[i].offset \in Nat /\ pg.slots[i].size \in Nat
        /\ HEADER_SIZE <= pg.slots[i].offset /\ HEADER_SIZE \in Nat
    BY <1>0, PageType, SoundType, Sizes
  <2>2. ASSUME NEW b \in pg.slots[i].offset .. pg.slots[i].offset + pg.slots[i].size - 1
        PROVE  data[b] = pg.data[b]
    <3>1. b \in live
      BY <2>1
    <3>2. b \in Places
      BY <1>4, <2>1, Sizes, SMTT(30) DEF Places, RecordAt
    <3> QED
      BY <1>0, <3>1, <3>2, PageType
  <2> HIDE DEF data
  <2> QED
    BY <1>4, <2>2 DEF RecordAt
<1> HIDE DEF data
<1>5. /\ q \in Page /\ q.data = data /\ q.slots = pg.slots
      /\ q.lower_offset = pg.lower_offset /\ q.upper_offset = pg.upper_offset
      /\ q.garbage_cnt = pg.garbage_cnt
  BY <1>0, <1>2, <1>3 DEF Page
<1>6. Sound(q, rows)
  BY <1>4, <1>5 DEF Sound
<1> QED
  BY <1>1, <1>5, <1>6

LEMMA PageWritten ==
  ASSUME NEW pg \in Page, NEW u \in Int, NEW data \in [Places -> Byte]
  PROVE  [pg EXCEPT !.upper_offset = u, !.data = data] \in Page
BY DEF Page

\* The bytes written for a row are those of the row; the others stay.
LEMMA WrittenEffect ==
  ASSUME NEW pg \in Page, NEW row \in Rows,
         pg.upper_offset <= PAGE_SIZE, HEADER_SIZE <= pg.upper_offset - Size[row.val]
  PROVE  /\ Written(pg, row) \in Page
         /\ Written(pg, row).slots = pg.slots
         /\ Written(pg, row).lower_offset = pg.lower_offset
         /\ Written(pg, row).upper_offset = pg.upper_offset - Size[row.val]
         /\ Written(pg, row).garbage_cnt = pg.garbage_cnt
         /\ \A b \in Places :
              Written(pg, row).data[b] =
                IF b \in pg.upper_offset - Size[row.val] .. pg.upper_offset - 1
                THEN [row |-> row, place |-> b - (pg.upper_offset - Size[row.val])]
                ELSE pg.data[b]
<1>1. PICK to : to = pg.upper_offset - Size[row.val]
  OBVIOUS
<1> DEFINE data == [b \in DOMAIN pg.data |-> IF b \in to .. to + Size[row.val] - 1
                                             THEN [row |-> row, place |-> b - to]
                                             ELSE pg.data[b]]
<1>2. PICK q : q = Written(pg, row)
  OBVIOUS
<1>3. q = [pg EXCEPT !.upper_offset = to, !.data = data]
  BY <1>1, <1>2 DEF Written
<1>4. to \in Nat /\ HEADER_SIZE <= to /\ to + Size[row.val] = pg.upper_offset
      /\ Size[row.val] \in Nat /\ pg.upper_offset \in Int
  BY <1>1, CostType, PageType, Sizes
<1>5. data \in [Places -> Byte]
  <2>1. ASSUME NEW b \in Places, b \in to .. to + Size[row.val] - 1
        PROVE  [row |-> row, place |-> b - to] \in Byte
    BY <1>4, <2>1 DEF Byte
  <2> QED
    BY <2>1, PageType
<1>6. \A b \in Places : data[b] = IF b \in to .. pg.upper_offset - 1
                                  THEN [row |-> row, place |-> b - to] ELSE pg.data[b]
  BY <1>4, PageType
<1> HIDE DEF data
<1>7. q \in Page
  <2>1. to \in Int
    BY <1>4
  <2> QED
    BY <1>3, <1>5, <2>1, PageWritten, ZenonT(40)
<1>8. /\ q.data = data /\ q.slots = pg.slots
      /\ q.lower_offset = pg.lower_offset /\ q.upper_offset = to
      /\ q.garbage_cnt = pg.garbage_cnt
  BY <1>3 DEF Page
<1> QED
  BY <1>1, <1>2, <1>4, <1>6, <1>7, <1>8

\* A row written into the free space is where the page now begins, and no
\* other row is touched.
LEMMA WrittenSound ==
  ASSUME NEW pg, NEW rows, Sound(pg, rows), NEW row \in Rows,
         HEADER_SIZE <= pg.upper_offset - Size[row.val]
  PROVE  /\ Sound(Written(pg, row), rows)
         /\ Written(pg, row).slots = pg.slots
         /\ Written(pg, row).lower_offset = pg.lower_offset
         /\ Written(pg, row).upper_offset = pg.upper_offset - Size[row.val]
         /\ Written(pg, row).garbage_cnt = pg.garbage_cnt
         /\ RecordAt(Written(pg, row).data,
                     [offset |-> Written(pg, row).upper_offset, size |-> Size[row.val]], row)
<1>0. pg \in Page /\ pg.upper_offset <= PAGE_SIZE /\ pg.upper_offset \in Nat
      /\ Size[row.val] \in Nat
  BY SoundType, CostType
<1>1. PICK q : q = Written(pg, row)
  OBVIOUS
<1>2. PICK to : to = pg.upper_offset - Size[row.val]
  OBVIOUS
<1>3. /\ q \in Page /\ q.slots = pg.slots /\ q.lower_offset = pg.lower_offset
      /\ q.upper_offset = to /\ q.garbage_cnt = pg.garbage_cnt
  BY <1>0, <1>1, <1>2, WrittenEffect
<1>4. \A b \in Places : q.data[b] = IF b \in to .. pg.upper_offset - 1
                                    THEN [row |-> row, place |-> b - to] ELSE pg.data[b]
  BY <1>0, <1>1, <1>2, WrittenEffect
<1>5. to \in Nat /\ HEADER_SIZE <= to /\ to + Size[row.val] = pg.upper_offset
  BY <1>0, <1>2, Sizes
<1>6. ASSUME NEW i \in 1 .. Len(rows) PROVE RecordAt(q.data, pg.slots[i], rows[i])
  <2>1. RecordAt(pg.data, pg.slots[i], rows[i])
    BY DEF Sound
  <2>2. /\ pg.slots[i].offset \in Nat /\ pg.slots[i].size \in Nat
        /\ pg.upper_offset <= pg.slots[i].offset
        /\ pg.slots[i].offset + pg.slots[i].size <= PAGE_SIZE
    BY SoundType
  <2>3. ASSUME NEW b \in pg.slots[i].offset .. pg.slots[i].offset + pg.slots[i].size - 1
        PROVE  q.data[b] = pg.data[b]
    <3>1. PICK o, z, u : /\ o = pg.slots[i].offset /\ z = pg.slots[i].size
                         /\ u = pg.upper_offset
      OBVIOUS
    <3>2. b \in o .. o + z - 1
      BY <3>1, Zenon
    <3>3. o \in Nat /\ z \in Nat /\ u <= o /\ o + z <= PAGE_SIZE /\ u \in Nat /\ HEADER_SIZE <= u
      BY <1>0, <2>2, <3>1, SoundType
    <3>4. b \in Places /\ b \notin to .. u - 1
      BY <1>5, <3>2, <3>3, Sizes DEF Places
    <3> QED
      BY <1>4, <3>1, <3>4
  <2> QED
    BY <2>1, <2>3 DEF RecordAt
<1>7. RecordAt(q.data, [offset |-> to, size |-> Size[row.val]], row)
  <2>1. to + Size[row.val] <= PAGE_SIZE
    BY <1>0, <1>5
  <2>2. ASSUME NEW b \in to .. to + Size[row.val] - 1
        PROVE  q.data[b] = [row |-> row, place |-> b - to]
    <3>1. b \in Places /\ b \in to .. pg.upper_offset - 1
      BY <1>0, <1>5, Sizes DEF Places
    <3> QED
      BY <1>4, <3>1
  <2> QED
    BY <2>1, <2>2 DEF RecordAt
<1>8. to <= pg.upper_offset /\ to <= PAGE_SIZE
  BY <1>0, <1>5, Sizes
<1>9. \A i \in 1 .. Len(rows) : to <= pg.slots[i].offset
  BY <1>0, <1>5, <1>8, SoundType, SMTT(30)
<1>10. Sound(q, rows)
  BY <1>3, <1>5, <1>6, <1>8, <1>9 DEF Sound
<1> QED
  BY <1>1, <1>2, <1>3, <1>7, <1>10

\* f adds up the sizes z; and records of these sizes, put one below the other
\* from P down, do not overlap.
Adding(n, z, f) ==
  /\ \A i \in 0 .. n : f[i] \in Nat
  /\ \A i \in 1 .. n : z[i] \in Nat /\ f[i] = f[i - 1] + z[i]
  /\ \A i \in 0 .. n : \A j \in i .. n : f[i] <= f[j]
Apart(n, z, f, P) ==
  \A i, j \in 1 .. n : \A b \in P - f[i] .. P - f[i] + z[i] - 1 :
    b \in P - f[j] .. P - f[j] + z[j] - 1 => i = j

LEMMA PackedApart ==
  ASSUME NEW n \in Nat, NEW z, NEW f, NEW P \in Nat, Adding(n, z, f)
  PROVE  Apart(n, z, f, P)
<1>1. ASSUME NEW i \in 1 .. n, NEW j \in 1 .. n, i < j,
             NEW b \in P - f[i] .. P - f[i] + z[i] - 1, b \in P - f[j] .. P - f[j] + z[j] - 1
      PROVE  FALSE
  <2>1. j - 1 \in i .. n /\ i \in 0 .. n /\ j - 1 \in 0 .. n /\ j \in 0 .. n
    BY <1>1
  <2>2. f[i] <= f[j - 1] /\ f[j] = f[j - 1] + z[j] /\ f[i] \in Nat /\ f[j - 1] \in Nat
        /\ z[i] \in Nat /\ z[j] \in Nat
    BY <2>1 DEF Adding
  <2> QED
    BY <1>1, <2>2
<1> QED
  BY <1>1 DEF Apart

IsPacked(q, pg, s, u, data) ==
  q = [[pg EXCEPT !.slots = s, !.upper_offset = u, !.data = data] EXCEPT !.garbage_cnt = 0]

LEMMA PagePacked ==
  ASSUME NEW pg \in Page, NEW s \in Seq(Slot), NEW u \in Int, NEW data \in [Places -> Byte],
         NEW q, IsPacked(q, pg, s, u, data)
  PROVE  /\ q \in Page /\ q.slots = s /\ q.data = data /\ q.upper_offset = u
         /\ q.lower_offset = pg.lower_offset /\ q.garbage_cnt = 0
<1>1. /\ q.slots = s /\ q.data = data /\ q.upper_offset = u
      /\ q.lower_offset = pg.lower_offset /\ q.garbage_cnt = 0
  BY DEF Page, IsPacked
<1>2. 0 \in Int
  OBVIOUS
<1>3. q \in Page
  BY <1>2 DEF Page, IsPacked
<1> QED
  BY <1>1, <1>3

\* defragment: the records, in the order of slots, from the end of the page
\* down.  What is left between them and the slots is what rows do not take.
LEMMA PackedSound ==
  ASSUME NEW pg, NEW rows, Sound(pg, rows), Taken(rows) <= NODE_SPACE
  PROVE  /\ Sound(Defragmented(pg), rows)
         /\ Defragmented(pg).lower_offset = pg.lower_offset
         /\ Defragmented(pg).upper_offset + Taken(rows) = PAGE_SIZE + SLOT_SIZE * Len(rows)
         /\ Defragmented(pg).garbage_cnt = 0
<1> DEFINE sizes == [i \in DOMAIN pg.slots |-> pg.slots[i].size]
           f == Sums(sizes)
           In(i) == PAGE_SIZE - f[i] .. PAGE_SIZE - f[i] + pg.slots[i].size - 1
           Into(b) == {i \in DOMAIN pg.slots : b \in In(i)}
           data == [b \in DOMAIN pg.data |->
                      IF Into(b) = {} THEN pg.data[b]
                      ELSE LET i == CHOOSE i \in Into(b) : TRUE
                           IN pg.data[pg.slots[i].offset + b - (PAGE_SIZE - f[i])]]
           slots == [i \in DOMAIN pg.slots |-> [pg.slots[i] EXCEPT !.offset = PAGE_SIZE - f[i]]]
<1>0. Defragmented(pg) =
        [[pg EXCEPT !.slots = slots, !.upper_offset = PAGE_SIZE - f[Len(pg.slots)], !.data = data]
           EXCEPT !.garbage_cnt = 0]
  BY DEF Defragmented, Packed
<1> HIDE DEF f, data, slots
<1>1. PICK n : n = Len(rows)
  OBVIOUS
<1>2. n \in Nat /\ pg \in Page /\ rows \in Seq(Rows) /\ DOMAIN pg.slots = 1 .. n
  BY <1>1, SoundType, PageType
<1>3. PICK z : z = sizes
  OBVIOUS
<1>4. f = Sums(sizes)
  BY DEF f
<1>5. \A i \in 1 .. n : z[i] = pg.slots[i].size /\ z[i] = Size[rows[i].val] /\ z[i] \in Nat \ {0}
  BY <1>1, <1>2, <1>3, SoundType
<1>6. sizes \in Seq(Nat) /\ Len(sizes) = n
  <2>1. sizes = [i \in 1 .. n |-> pg.slots[i].size]
    BY <1>2
  <2>2. \A i \in 1 .. n : pg.slots[i].size \in Nat
    BY <1>5
  <2> HIDE DEF sizes
  <2> QED
    BY <1>2, <2>1, <2>2
<1> HIDE DEF sizes
<1>7. /\ f[0] = 0
      /\ \A i \in 0 .. n : f[i] \in Nat
      /\ \A i \in 1 .. n : f[i] = f[i - 1] + z[i]
      /\ \A i \in 0 .. n : \A j \in i .. n : f[i] <= f[j]
  BY <1>3, <1>4, <1>6, SumsAre, SumsGrow
<1>8. Taken(rows) = SLOT_SIZE * n + f[n] /\ Taken(rows) \in Nat /\ SLOT_SIZE * n \in Nat
  <2>1. /\ Costs(rows) \in Seq(Nat) /\ Len(Costs(rows)) = n
        /\ \A i \in 1 .. n : Costs(rows)[i] = SLOT_SIZE + z[i]
    BY <1>1, <1>2, <1>5, CostsType, ZenonT(40) DEF Cost
  <2>2. \A i \in 1 .. n : Costs(rows)[i] = SLOT_SIZE + sizes[i]
    BY <1>3, <2>1
  <2>3. Sums(Costs(rows))[n] = SLOT_SIZE * n + Sums(sizes)[n]
    <3>1. /\ Len(Costs(rows)) = Len(sizes)
          /\ \A i \in 1 .. Len(sizes) : Costs(rows)[i] = SLOT_SIZE + sizes[i]
      BY <1>6, <2>1, <2>2
    <3>2. Sums(Costs(rows))[Len(Costs(rows))] = SLOT_SIZE * Len(sizes) + Sums(sizes)[Len(sizes)]
      BY <1>6, <2>1, <3>1, Sizes, SumsShift
    <3> QED
      BY <1>6, <2>1, <3>2
  <2>4. SLOT_SIZE * n \in Nat
    BY <1>2, Sizes
  <2> QED
    BY <1>2, <1>4, <2>1, <2>3, <2>4, TakenIs
<1>9. PICK to : to = [i \in 0 .. n |-> PAGE_SIZE - f[i]]
  OBVIOUS
<1>10. /\ \A i \in 0 .. n : to[i] = PAGE_SIZE - f[i]
       /\ \A i \in 1 .. n : /\ to[n] <= to[i] /\ to[i] + z[i] <= PAGE_SIZE
                            /\ to[i] \in Nat /\ HEADER_SIZE <= to[i]
       /\ to[n] \in Nat /\ HEADER_SIZE <= to[n] /\ to[n] <= PAGE_SIZE
  <2>1. \A i \in 0 .. n : to[i] = PAGE_SIZE - f[i]
    BY <1>9
  <2>2. n \in 0 .. n /\ f[n] \in Nat /\ f[n] <= NODE_SPACE
    BY <1>2, <1>7, <1>8, Sizes, SMTT(30)
  <2>3. ASSUME NEW i \in 1 .. n
        PROVE  f[i] <= f[n] /\ z[i] <= f[i] /\ f[i] \in Nat /\ z[i] \in Nat
    <3>1. i - 1 \in 0 .. n /\ i \in 0 .. n /\ n \in i .. n
      BY <1>2
    <3>2. f[i - 1] \in Nat /\ f[i] \in Nat /\ z[i] \in Nat /\ f[i] = f[i - 1] + z[i] /\ f[i] <= f[n]
      BY <1>5, <1>7, <3>1
    <3> QED
      BY <3>2
  <2>4. ASSUME NEW i \in 1 .. n
        PROVE  /\ to[n] <= to[i] /\ to[i] + z[i] <= PAGE_SIZE
               /\ to[i] \in Nat /\ HEADER_SIZE <= to[i]
    <3>1. i \in 0 .. n
      OBVIOUS
    <3> QED
      BY <2>1, <2>2, <2>3, <3>1, Sizes
  <2> QED
    BY <2>1, <2>2, <2>4, Sizes
<1>11. PICK q : q = Defragmented(pg)
  OBVIOUS
<1>12. slots \in Seq(Slot) /\ Len(slots) = n
       /\ \A i \in 1 .. n : slots[i].offset = to[i] /\ slots[i].size = z[i]
  <2>1. \A i \in 1 .. n : slots[i] = [pg.slots[i] EXCEPT !.offset = to[i]]
    BY <1>2, <1>10 DEF slots
  <2>2. \A i \in 1 .. n : pg.slots[i] \in Slot /\ to[i] \in Nat
    BY <1>1, <1>2, <1>10, SoundType, PageType
  <2>3. \A i \in 1 .. n : slots[i] \in Slot /\ slots[i].offset = to[i]
                          /\ slots[i].size = pg.slots[i].size
    BY <2>1, <2>2 DEF Slot
  <2>4. slots = [i \in 1 .. n |-> slots[i]]
    BY <1>2 DEF slots
  <2>5. slots \in Seq(Slot) /\ Len(slots) = n
    BY <1>2, <2>3, <2>4
  <2> QED
    BY <1>5, <2>3, <2>5
<1>13. ASSUME NEW i \in 1 .. n, NEW b \in to[i] .. to[i] + z[i] - 1
       PROVE  b \in Places /\ Into(b) = {i}
  <2>1. i \in 0 .. n /\ to[i] = PAGE_SIZE - f[i]
    BY <1>10
  <2>2. b \in Places
    BY <1>5, <1>10, <1>13, Sizes DEF Places
  <2>3. i \in Into(b)
    BY <1>2, <1>5, <1>13, <2>1
  <2>4. ASSUME NEW j \in Into(b) PROVE j = i
    <3>1. j \in 1 .. n /\ b \in PAGE_SIZE - f[j] .. PAGE_SIZE - f[j] + z[j] - 1
      BY <1>2, <1>5, <2>4
    <3>2. b \in PAGE_SIZE - f[i] .. PAGE_SIZE - f[i] + z[i] - 1
      BY <1>13, <2>1
    <3>3. Adding(n, z, f)
      BY <1>5, <1>7 DEF Adding
    <3>4. Apart(n, z, f, PAGE_SIZE)
      BY <1>2, <3>3, Sizes, PackedApart
    <3> QED
      BY <3>1, <3>2, <3>4 DEF Apart
  <2> HIDE DEF Into
  <2> QED
    BY <2>2, <2>3, <2>4
<1>14. ASSUME NEW i \in 1 .. n, NEW b \in to[i] .. to[i] + z[i] - 1
       PROVE  data[b] = [row |-> rows[i], place |-> b - to[i]]
  <2>1. b \in DOMAIN pg.data /\ Into(b) = {i}
    BY <1>2, <1>13, PageType
  <2>2. data[b] = pg.data[pg.slots[i].offset + b - (PAGE_SIZE - f[i])]
    <3>1. (CHOOSE j \in Into(b) : TRUE) = i
      BY <2>1
    <3> HIDE DEF Into
    <3> QED
      BY <2>1, <3>1 DEF data
  <2>3. PICK o, t : o = pg.slots[i].offset /\ t = to[i]
    OBVIOUS
  <2>4. o \in Nat /\ t \in Nat /\ z[i] \in Nat /\ b \in t .. t + z[i] - 1 /\ t = PAGE_SIZE - f[i]
    BY <1>1, <1>5, <1>10, <2>3, SoundType
  <2>5. o + b - t \in o .. o + z[i] - 1 /\ (o + b - t) - o = b - t
    BY <2>4
  <2>6. \A a \in o .. o + z[i] - 1 : pg.data[a] = [row |-> rows[i], place |-> a - o]
    BY <1>1, <1>5, <2>3 DEF Sound, RecordAt
  <2>7. pg.data[o + b - t] = [row |-> rows[i], place |-> b - t]
    BY <2>5, <2>6
  <2> QED
    BY <2>2, <2>3, <2>4, <2>7
<1>15. data \in [Places -> Byte]
  <2>1. ASSUME NEW b \in Places PROVE data[b] \in Byte
    <3>1. CASE Into(b) = {}
      BY <1>2, <3>1, PageType, ZenonT(40) DEF data
    <3>2. CASE Into(b) # {}
      <4>1. PICK i \in 1 .. n : b \in PAGE_SIZE - f[i] .. PAGE_SIZE - f[i] + z[i] - 1
        BY <1>2, <1>5, <3>2
      <4>2. i \in 0 .. n /\ to[i] \in Nat /\ to[i] = PAGE_SIZE - f[i]
        BY <1>10
      <4>3. data[b] = [row |-> rows[i], place |-> b - to[i]] /\ b - to[i] \in Nat
        BY <1>5, <1>14, <4>1, <4>2
      <4> QED
        BY <1>1, <4>3, SoundType DEF Byte
    <3> QED
      BY <3>1, <3>2
  <2>2. data = [b \in Places |-> data[b]]
    <3> HIDE DEF Into
    <3>1. DOMAIN pg.data = Places
      BY <1>2, PageType
    <3>2. data = [b \in DOMAIN pg.data |-> data[b]]
      BY DEF data
    <3> QED
      BY <3>1, <3>2
  <2> QED
    BY <2>1, <2>2
<1>16. /\ q \in Page /\ q.slots = slots /\ q.data = data /\ q.upper_offset = to[n]
       /\ q.lower_offset = pg.lower_offset /\ q.garbage_cnt = 0
  <2>1. PAGE_SIZE - f[Len(pg.slots)] = to[n]
    BY <1>1, <1>2, <1>10, SoundType
  <2>2. IsPacked(q, pg, slots, to[n], data)
    BY <1>0, <1>11, <2>1 DEF IsPacked
  <2>3. to[n] \in Int
    BY <1>10
  <2>4. PICK s, u, d : s = slots /\ u = to[n] /\ d = data
    OBVIOUS
  <2>5. pg \in Page /\ s \in Seq(Slot) /\ u \in Int /\ d \in [Places -> Byte]
    BY <1>2, <1>12, <1>15, <2>3, <2>4, Zenon
  <2>6. IsPacked(q, pg, s, u, d)
    BY <2>2, <2>4, Zenon
  <2>7. /\ q \in Page /\ q.slots = s /\ q.data = d /\ q.upper_offset = u
        /\ q.lower_offset = pg.lower_offset /\ q.garbage_cnt = 0
    BY <2>5, <2>6, PagePacked
  <2> QED
    BY <2>4, <2>7, Zenon
<1>17. \A i \in 1 .. n : RecordAt(data, slots[i], rows[i])
  BY <1>5, <1>10, <1>12, <1>14, SMTT(30) DEF RecordAt
<1>18. Sound(q, rows)
  BY <1>1, <1>2, <1>10, <1>12, <1>16, <1>17, SoundType DEF Sound
<1>19. to[n] + Taken(rows) = PAGE_SIZE + SLOT_SIZE * Len(rows)
  <2>1. PICK a, t, m, u : a = Taken(rows) /\ t = to[n] /\ m = SLOT_SIZE * n /\ u = f[n]
    OBVIOUS
  <2>2. t = PAGE_SIZE - u /\ a = m + u /\ u \in Nat /\ m \in Nat
    BY <1>2, <1>7, <1>8, <1>10, <2>1
  <2>3. t + a = PAGE_SIZE + m
    BY <2>2, Sizes
  <2> QED
    BY <1>1, <2>1, <2>3, Zenon
<1> QED
  BY <1>11, <1>16, <1>18, <1>19

\* insert_record and update_record pack the records if the free space is short.
WithRoom(pg, need) == IF Free(pg) < need THEN Defragmented(pg) ELSE pg

LEMMA RoomMade ==
  ASSUME NEW pg, NEW rows, Sound(pg, rows), Accounted(pg, rows),
         NEW need \in Nat, Free(pg) + pg.garbage_cnt >= need
  PROVE  /\ Sound(WithRoom(pg, need), rows) /\ Accounted(WithRoom(pg, need), rows)
         /\ need <= Free(WithRoom(pg, need))
<1>1. CASE Free(pg) < need
  <2>1. PICK q : q = Defragmented(pg) /\ q = WithRoom(pg, need)
    BY <1>1 DEF WithRoom
  <2>2. PICK a, m : a = Taken(rows) /\ m = SLOT_SIZE * Len(rows)
    OBVIOUS
  <2>3. /\ a \in Nat /\ m \in Nat /\ pg.lower_offset = HEADER_SIZE + m
        /\ pg.upper_offset \in Nat /\ pg.garbage_cnt \in Nat
        /\ a + (pg.upper_offset - pg.lower_offset) + pg.garbage_cnt = NODE_SPACE
        /\ pg.lower_offset <= pg.upper_offset
        /\ (pg.upper_offset - pg.lower_offset) + pg.garbage_cnt >= need
    <3>1. a \in Nat /\ m \in Nat
      BY <2>2, Sizes, SoundType, TakenIs
    <3> QED
      BY <2>2, <3>1, SoundType DEF Accounted, Free
  <2>4. a <= NODE_SPACE
    BY <2>3, Sizes
  <2>5. /\ Sound(q, rows) /\ q.lower_offset = pg.lower_offset
        /\ q.upper_offset + a = PAGE_SIZE + m /\ q.garbage_cnt = 0
    BY <2>1, <2>2, <2>4, PackedSound
  <2>6. q.upper_offset \in Nat
    BY <2>5, SoundType
  <2>7. /\ a + (q.upper_offset - q.lower_offset) + 0 = NODE_SPACE
        /\ q.lower_offset <= q.upper_offset /\ need <= q.upper_offset - q.lower_offset
    BY <2>3, <2>4, <2>5, <2>6, Sizes
  <2>8. Accounted(q, rows)
    BY <2>2, <2>3, <2>5, <2>7 DEF Accounted, Free
  <2> QED
    BY <2>1, <2>5, <2>7, <2>8 DEF Free
<1>2. CASE ~(Free(pg) < need)
  <2>1. WithRoom(pg, need) = pg
    BY <1>2 DEF WithRoom
  <2>2. Free(pg) \in Int
    BY SoundType, PageType DEF Free
  <2> QED
    BY <1>2, <2>1, <2>2
<1> QED
  BY <1>1, <1>2

\* The page pg with other slots and counts.
Slotted(q, pg, s, l, g, u) ==
  q = [pg EXCEPT !.slots = s, !.lower_offset = l, !.garbage_cnt = g, !.upper_offset = u]

LEMMA PageSlotted ==
  ASSUME NEW pg \in Page, NEW s \in Seq(Slot), NEW l \in Int, NEW g \in Int, NEW u \in Int,
         NEW q, Slotted(q, pg, s, l, g, u)
  PROVE  /\ q \in Page /\ q.slots = s /\ q.lower_offset = l /\ q.garbage_cnt = g
         /\ q.upper_offset = u /\ q.data = pg.data
<1>1. q \in Page
  BY DEF Page, Slotted
<1> QED
  BY <1>1 DEF Page, Slotted

\* insert_record, where there is room.
Filed(pg, i, row) ==
  LET t == Written(pg, row)
  IN [t EXCEPT !.slots = InsertAt(@, i, [offset |-> t.upper_offset, size |-> Size[row.val]]),
               !.lower_offset = @ + SLOT_SIZE]

LEMMA InsertedSound ==
  ASSUME NEW pg, NEW rows, Sound(pg, rows), Accounted(pg, rows),
         NEW row \in Rows, ~Holds(rows, row.key), Size[row.val] + SLOT_SIZE <= Free(pg)
  PROVE  LET i == SlotOf(rows, row.key)
         IN /\ Sound(Filed(pg, i, row), InsertAt(rows, i, row))
            /\ Accounted(Filed(pg, i, row), InsertAt(rows, i, row))
<1>0. PICK i, t, d, q : /\ i = SlotOf(rows, row.key) /\ t = Written(pg, row)
                        /\ d = InsertAt(rows, i, row) /\ q = Filed(pg, i, row)
  OBVIOUS
<1>1. /\ pg \in Page /\ rows \in Seq(Rows) /\ InOrder(rows) /\ Len(rows) \in Nat
      /\ pg.upper_offset \in Nat /\ row.key \in Nat /\ Size[row.val] \in Nat \ {0}
      /\ pg.lower_offset \in Nat /\ HEADER_SIZE <= pg.lower_offset
      /\ Size[row.val] + SLOT_SIZE <= pg.upper_offset - pg.lower_offset
  <2>1. pg \in Page /\ rows \in Seq(Rows) /\ InOrder(rows) /\ Len(rows) \in Nat
        /\ pg.upper_offset \in Nat /\ row.key \in Nat /\ Size[row.val] \in Nat \ {0}
    BY SoundType, CostType
  <2>2. pg.lower_offset = HEADER_SIZE + SLOT_SIZE * Len(rows) /\ SLOT_SIZE * Len(rows) \in Nat
    BY <2>1, Sizes, SMTT(30) DEF Accounted
  <2>3. pg.lower_offset \in Nat /\ HEADER_SIZE <= pg.lower_offset
    BY <2>2, Sizes
  <2> QED
    BY <2>1, <2>3 DEF Free
<1>2. HEADER_SIZE <= pg.upper_offset - Size[row.val]
  BY <1>1, Sizes, SMTT(30)
<1>3. /\ Sound(t, rows) /\ t.slots = pg.slots /\ t.lower_offset = pg.lower_offset
      /\ t.upper_offset = pg.upper_offset - Size[row.val] /\ t.garbage_cnt = pg.garbage_cnt
      /\ RecordAt(t.data, [offset |-> t.upper_offset, size |-> Size[row.val]], row)
  BY <1>0, <1>2, WrittenSound
<1>4. PICK e : e = [offset |-> t.upper_offset, size |-> Size[row.val]]
  OBVIOUS
<1>5. t \in Page /\ t.slots \in Seq(Slot) /\ Len(t.slots) = Len(rows) /\ t.upper_offset \in Nat
      /\ HEADER_SIZE <= t.upper_offset /\ t.upper_offset <= PAGE_SIZE
  BY <1>3, SoundType, PageType
<1>6. e \in Slot /\ e.offset = t.upper_offset /\ RecordAt(t.data, e, row)
  BY <1>1, <1>3, <1>4, <1>5 DEF Slot
<1>7. i \in 1 .. Len(rows) + 1
  BY <1>0, <1>1, SlotOfParts DEF Parts
<1>8. PICK s : s = InsertAt(t.slots, i, e)
  OBVIOUS
<1>9. s \in Seq(Slot) /\ IsInsertion(s, t.slots, i, e)
  BY <1>5, <1>6, <1>7, <1>8, InsertAtEffect
<1>10. d \in Seq(Rows) /\ IsInsertion(d, rows, i, row)
  BY <1>0, <1>1, <1>7, InsertAtEffect
<1>11. InOrder(d)
  BY <1>0, <1>1, <1>10, InsertedInOrder
<1>12. /\ q \in Page /\ q.slots = s /\ q.lower_offset = pg.lower_offset + SLOT_SIZE
       /\ q.upper_offset = t.upper_offset /\ q.garbage_cnt = t.garbage_cnt /\ q.data = t.data
  <2>1. PICK l : l = pg.lower_offset + SLOT_SIZE
    OBVIOUS
  <2>2. q = [t EXCEPT !.slots = s, !.lower_offset = l]
    BY <1>0, <1>3, <1>4, <1>8, <2>1 DEF Filed
  <2>3. PICK g, u : g = t.garbage_cnt /\ u = t.upper_offset
    OBVIOUS
  <2>4. t \in Page /\ s \in Seq(Slot) /\ l \in Int /\ g \in Int /\ u \in Int
    BY <1>1, <1>5, <1>9, <2>1, <2>3, Sizes, PageType
  <2>5. Slotted(q, t, s, l, g, u)
    BY <1>5, <2>2, <2>3 DEF Page, Slotted
  <2>6. /\ q \in Page /\ q.slots = s /\ q.lower_offset = l /\ q.garbage_cnt = g
        /\ q.upper_offset = u /\ q.data = t.data
    BY <2>4, <2>5, PageSlotted
  <2> QED
    BY <2>1, <2>3, <2>6, Zenon
<1>13. Len(d) = Len(rows) + 1 /\ Len(s) = Len(rows) + 1
  BY <1>5, <1>9, <1>10 DEF IsInsertion
<1>14. ASSUME NEW x \in 1 .. Len(d)
       PROVE  q.upper_offset <= s[x].offset /\ RecordAt(q.data, s[x], d[x])
  <2>1. /\ s[x] = IF x < i THEN t.slots[x] ELSE IF x = i THEN e ELSE t.slots[x - 1]
        /\ d[x] = IF x < i THEN rows[x] ELSE IF x = i THEN row ELSE rows[x - 1]
    BY <1>5, <1>9, <1>10, <1>13 DEF IsInsertion
  <2>2. \A y \in 1 .. Len(rows) : t.upper_offset <= t.slots[y].offset /\ RecordAt(t.data, t.slots[y], rows[y])
    BY <1>3 DEF Sound
  <2>3. CASE x < i
    BY <1>1, <1>7, <1>12, <1>13, <2>1, <2>2, <2>3
  <2>4. CASE x = i
    BY <1>5, <1>6, <1>12, <2>1, <2>4
  <2>5. CASE x > i
    <3>1. x - 1 \in 1 .. Len(rows) /\ ~(x < i) /\ x # i
      BY <1>1, <1>7, <1>13, <2>5
    <3> QED
      BY <1>12, <2>1, <2>2, <3>1
  <2> QED
    BY <1>7, <2>3, <2>4, <2>5
<1>15. Sound(q, d)
  BY <1>5, <1>10, <1>11, <1>12, <1>13, <1>14 DEF Sound
<1>16. Accounted(q, d)
  <2>1. PICK a, c, z, m, l, u : /\ a = Taken(rows) /\ c = Taken(d) /\ z = Size[row.val]
                                /\ m = SLOT_SIZE * Len(rows) /\ l = pg.lower_offset
                                /\ u = pg.upper_offset
    OBVIOUS
  <2>2. /\ a \in Nat /\ z \in Nat /\ m \in Nat /\ l \in Nat /\ u \in Nat
        /\ pg.garbage_cnt \in Nat /\ l = HEADER_SIZE + m
        /\ a + (u - l) + pg.garbage_cnt = NODE_SPACE /\ z + SLOT_SIZE <= u - l
    <3>1. a \in Nat /\ m \in Nat
      BY <1>1, <2>1, Sizes, TakenIs
    <3> QED
      BY <1>1, <2>1, <3>1 DEF Accounted, Free
  <2>3. c = a + (SLOT_SIZE + z)
    BY <1>1, <1>7, <1>10, <2>1, TakenInserted DEF Cost
  <2>4. SLOT_SIZE * Len(d) = m + SLOT_SIZE
    BY <1>1, <1>13, <2>1, Sizes
  <2>5. q.lower_offset = l + SLOT_SIZE /\ q.upper_offset = u - z /\ q.garbage_cnt = pg.garbage_cnt
    BY <1>3, <1>12, <2>1
  <2>6. /\ l + SLOT_SIZE = HEADER_SIZE + (m + SLOT_SIZE) /\ l + SLOT_SIZE <= u - z
        /\ c + ((u - z) - (l + SLOT_SIZE)) + pg.garbage_cnt = NODE_SPACE
    BY <2>2, <2>3, Sizes
  <2> QED
    BY <2>1, <2>2, <2>4, <2>5, <2>6 DEF Accounted, Free
<1> QED
  BY <1>0, <1>15, <1>16

\* remove_record: the bytes stay, and count as garbage.
Gone(pg, i) ==
  [pg EXCEPT !.garbage_cnt = @ + pg.slots[i].size,
             !.slots = RemoveAt(@, i),
             !.lower_offset = @ - SLOT_SIZE]

LEMMA RemovedSound ==
  ASSUME NEW pg, NEW rows, Sound(pg, rows), Accounted(pg, rows), NEW i \in 1 .. Len(rows)
  PROVE  Sound(Gone(pg, i), RemoveAt(rows, i)) /\ Accounted(Gone(pg, i), RemoveAt(rows, i))
<1>0. PICK d, q, s : d = RemoveAt(rows, i) /\ q = Gone(pg, i) /\ s = RemoveAt(pg.slots, i)
  OBVIOUS
<1>1. PICK n, z : n = Len(rows) /\ z = pg.slots[i].size
  OBVIOUS
<1>2. /\ pg \in Page /\ rows \in Seq(Rows) /\ InOrder(rows) /\ n \in Nat \ {0} /\ i \in 1 .. n
      /\ pg.slots \in Seq(Slot) /\ Len(pg.slots) = n /\ pg.upper_offset \in Nat
      /\ z \in Nat \ {0} /\ z = Size[rows[i].val] /\ rows[i] \in Rows
      /\ HEADER_SIZE <= pg.upper_offset /\ pg.upper_offset <= PAGE_SIZE
  BY <1>1, SoundType, PageType
<1>3. s \in Seq(Slot) /\ IsRemoval(s, pg.slots, i)
  BY <1>0, <1>2, RemoveAtEffect, RemovalEffect
<1>4. d \in Seq(Rows) /\ IsRemoval(d, rows, i)
  BY <1>0, <1>1, <1>2, RemoveAtEffect, RemovalEffect
<1>5. InOrder(d)
  BY <1>2, <1>4, RemovedInOrder
<1>6. PICK l, g, u : /\ l = pg.lower_offset - SLOT_SIZE /\ g = pg.garbage_cnt + z
                     /\ u = pg.upper_offset
  OBVIOUS
<1>7. /\ q \in Page /\ q.slots = s /\ q.lower_offset = l /\ q.garbage_cnt = g
      /\ q.upper_offset = u /\ q.data = pg.data
  <2>1. q = [pg EXCEPT !.garbage_cnt = g, !.slots = s, !.lower_offset = l]
    BY <1>0, <1>1, <1>6 DEF Gone
  <2>2. Slotted(q, pg, s, l, g, u)
    BY <1>2, <1>6, <2>1 DEF Page, Slotted
  <2>3. l \in Int /\ g \in Int /\ u \in Int
    BY <1>2, <1>6, Sizes, PageType, SMTT(30)
  <2> QED
    BY <1>2, <1>3, <2>2, <2>3, PageSlotted
<1>8. Len(d) = n - 1 /\ Len(s) = n - 1
  BY <1>1, <1>2, <1>3, <1>4 DEF IsRemoval
<1>9. ASSUME NEW x \in 1 .. Len(d)
      PROVE  u <= s[x].offset /\ RecordAt(q.data, s[x], d[x])
  <2>1. PICK y \in 1 .. Len(rows) : s[x] = pg.slots[y] /\ d[x] = rows[y]
    <3>1. /\ s[x] = IF x < i THEN pg.slots[x] ELSE pg.slots[x + 1]
          /\ d[x] = IF x < i THEN rows[x] ELSE rows[x + 1]
      BY <1>1, <1>2, <1>3, <1>4, <1>8 DEF IsRemoval
    <3>2. x \in 1 .. Len(rows) /\ x + 1 \in 1 .. Len(rows)
      BY <1>1, <1>2, <1>8
    <3> QED
      BY <3>1, <3>2
  <2> QED
    BY <1>6, <1>7, <2>1 DEF Sound
<1>10. Sound(q, d)
  BY <1>2, <1>4, <1>5, <1>6, <1>7, <1>8, <1>9 DEF Sound
<1>11. Accounted(q, d)
  <2>1. PICK a, c, m, w : /\ a = Taken(rows) /\ c = Taken(d) /\ m = SLOT_SIZE * (n - 1)
                          /\ w = pg.garbage_cnt
    OBVIOUS
  <2>2. /\ pg.lower_offset = HEADER_SIZE + (m + SLOT_SIZE) /\ m \in Nat /\ w \in Nat
        /\ pg.lower_offset <= u /\ a + (u - pg.lower_offset) + w = NODE_SPACE /\ u \in Nat
    <3>1. SLOT_SIZE * n = SLOT_SIZE * (n - 1) + SLOT_SIZE /\ SLOT_SIZE * (n - 1) \in Nat
      BY <1>2, Sizes, SMTT(30)
    <3> QED
      BY <1>1, <1>2, <1>6, <2>1, <3>1 DEF Accounted, Free
  <2>3. a = c + (SLOT_SIZE + z) /\ c \in Nat
    BY <1>1, <1>2, <1>4, <2>1, TakenRemoved, TakenIs DEF Cost
  <2>4. /\ l = HEADER_SIZE + m /\ l <= u /\ g \in Nat
        /\ c + (u - l) + g = NODE_SPACE
    <3>1. PICK h : h = pg.lower_offset
      OBVIOUS
    <3>2. h = HEADER_SIZE + (m + SLOT_SIZE) /\ h <= u /\ a + (u - h) + w = NODE_SPACE
          /\ l = h - SLOT_SIZE /\ g = w + z
      BY <1>6, <2>1, <2>2, <3>1
    <3>3. z \in Nat /\ u \in Nat /\ w \in Nat /\ m \in Nat /\ c \in Nat /\ a = c + (SLOT_SIZE + z)
      BY <1>2, <2>2, <2>3
    <3> QED
      BY <3>2, <3>3, Sizes
  <2> QED
    BY <1>7, <1>8, <2>1, <2>4 DEF Accounted, Free
<1> QED
  BY <1>0, <1>10, <1>11

\* A row with another value: the same ids in the same order.
NewRow(rows, i, v) == [key |-> rows[i].key, val |-> v]
NewRows(rows, i, v) == [rows EXCEPT ![i].val = v]

LEMMA RowReplaced ==
  ASSUME NEW rows \in Seq(Rows), InOrder(rows), NEW i \in 1 .. Len(rows), NEW v \in Values,
         NEW row, row = NewRow(rows, i, v), NEW d, d = NewRows(rows, i, v)
  PROVE  /\ row \in Rows /\ row.val = v /\ d \in Seq(Rows) /\ Len(d) = Len(rows)
         /\ InOrder(d)
         /\ \A x \in 1 .. Len(rows) : d[x] = IF x = i THEN row ELSE rows[x]
         /\ Taken(d) + Size[rows[i].val] = Taken(rows) + Size[v]
<1>1. Len(rows) \in Nat /\ DOMAIN rows = 1 .. Len(rows) /\ rows[i] \in Rows
  BY CostsType
<1>2. [rows[i] EXCEPT !.val = v] = row /\ row \in Rows /\ row.val = v /\ row.key = rows[i].key
  BY <1>1 DEF Rows, NewRow
<1>3. d \in Seq(Rows) /\ Taken(d) + Size[rows[i].val] = Taken(rows) + Size[v]
  BY TakenUpdated DEF NewRows
<1>4. Len(d) = Len(rows) /\ \A x \in 1 .. Len(rows) : d[x] = IF x = i THEN row ELSE rows[x]
  BY <1>1, <1>2 DEF NewRows
<1>5. \A x \in 1 .. Len(d) : d[x].key = rows[x].key
  BY <1>2, <1>4
<1>6. InOrder(d)
  <2>1. Len(d) <= Len(rows)
    BY <1>1, <1>4
  <2> QED
    BY <1>3, <1>5, <2>1, SameKeysInOrder, Zenon
<1> QED
  BY <1>2, <1>3, <1>4, <1>6

LEMMA SlotReplaced ==
  ASSUME NEW s \in Seq(Slot), NEW i \in 1 .. Len(s), NEW e \in Slot, NEW r, r = [s EXCEPT ![i] = e]
  PROVE  /\ r \in Seq(Slot) /\ Len(r) = Len(s)
         /\ \A x \in 1 .. Len(s) : r[x] = IF x = i THEN e ELSE s[x]
OBVIOUS

LEMMA Recounted ==
  ASSUME NEW a \in Nat, NEW c \in Nat, NEW p \in Nat, NEW z \in Nat, NEW h \in Nat,
         NEW w \in Nat, NEW old \in Nat, NEW u, u = p - z, NEW g, g = w + old,
         c + old = a + z, a + (p - h) + w = NODE_SPACE, z <= p - h
  PROVE  h <= u /\ g \in Nat /\ c + (u - h) + g = NODE_SPACE
OBVIOUS

\* update_record, when the row moves and there is room.
Moved(pg, i, row, old) ==
  LET t == Written(pg, row)
  IN [t EXCEPT !.garbage_cnt = @ + old,
               !.slots[i] = [offset |-> t.upper_offset, size |-> Size[row.val]]]

LEMMA MovedSound ==
  ASSUME NEW pg, NEW rows, Sound(pg, rows), Accounted(pg, rows), NEW i \in 1 .. Len(rows),
         NEW v \in Values, Size[v] <= Free(pg)
  PROVE  LET q == Moved(pg, i, NewRow(rows, i, v), Size[rows[i].val])
         IN Sound(q, NewRows(rows, i, v)) /\ Accounted(q, NewRows(rows, i, v))
<1>0. PICK d, row, old, q, t : /\ d = NewRows(rows, i, v) /\ row = NewRow(rows, i, v)
                               /\ old = Size[rows[i].val] /\ q = Moved(pg, i, row, old)
                               /\ t = Written(pg, row)
  OBVIOUS
<1>1. PICK n, z, h, w : /\ n = Len(rows) /\ z = Size[v]
                        /\ h = pg.lower_offset /\ w = pg.garbage_cnt
  OBVIOUS
<1>2. /\ pg \in Page /\ rows \in Seq(Rows) /\ InOrder(rows) /\ n \in Nat /\ i \in 1 .. n
      /\ pg.slots \in Seq(Slot) /\ Len(pg.slots) = n /\ pg.upper_offset \in Nat
      /\ HEADER_SIZE <= pg.upper_offset /\ pg.upper_offset <= PAGE_SIZE
      /\ old \in Nat /\ z \in Nat /\ w \in Nat
  <2>1. rows[i] \in Rows
    BY SoundType
  <2>2. old \in Nat /\ z \in Nat
    BY <1>0, <1>1, <2>1, CostType, SizeAssumption
  <2> QED
    BY <1>1, <2>2, SoundType, PageType DEF Accounted
<1>3. /\ row \in Rows /\ row.val = v /\ d \in Seq(Rows) /\ Len(d) = n /\ InOrder(d)
      /\ \A x \in 1 .. n : d[x] = IF x = i THEN row ELSE rows[x]
      /\ Taken(d) + old = Taken(rows) + z
  <2>1. /\ row \in Rows /\ row.val = v /\ d \in Seq(Rows) /\ Len(d) = Len(rows)
        /\ InOrder(d)
        /\ \A x \in 1 .. Len(rows) : d[x] = IF x = i THEN row ELSE rows[x]
        /\ Taken(d) + Size[rows[i].val] = Taken(rows) + Size[v]
    BY <1>0, <1>2, RowReplaced
  <2> QED
    BY <1>0, <1>1, <2>1, Zenon
<1>4. /\ h = HEADER_SIZE + SLOT_SIZE * n /\ SLOT_SIZE * n \in Nat /\ h \in Nat
      /\ z <= pg.upper_offset - h
      /\ Taken(rows) + (pg.upper_offset - h) + w = NODE_SPACE
  <2>1. SLOT_SIZE * n \in Nat /\ h = HEADER_SIZE + SLOT_SIZE * n
    BY <1>1, <1>2, Sizes DEF Accounted
  <2> QED
    BY <1>1, <2>1, Sizes DEF Accounted, Free
<1>5. HEADER_SIZE <= pg.upper_offset - Size[row.val]
  <2>1. PICK u, m : u = pg.upper_offset /\ m = SLOT_SIZE * n
    OBVIOUS
  <2>2. /\ u \in Nat /\ m \in Nat /\ z \in Nat /\ h \in Nat
        /\ z <= u - h /\ h = HEADER_SIZE + m
    BY <1>2, <1>4, <2>1
  <2>3. HEADER_SIZE <= u - z
    BY <2>2, Sizes
  <2> QED
    BY <1>1, <1>3, <2>1, <2>3, Zenon
<1>6. PICK u, g, e : /\ u = pg.upper_offset - z /\ g = w + old
                     /\ e = [offset |-> u, size |-> z]
  OBVIOUS
<1>7. /\ Sound(t, rows) /\ t.slots = pg.slots /\ t.lower_offset = h
      /\ t.upper_offset = u /\ t.garbage_cnt = w /\ RecordAt(t.data, e, row)
  BY <1>0, <1>1, <1>3, <1>5, <1>6, WrittenSound
<1>8. t \in Page /\ u \in Nat /\ HEADER_SIZE <= u /\ u <= PAGE_SIZE
  BY <1>7, SoundType
<1>9. PICK s : s = [pg.slots EXCEPT ![i] = e]
  OBVIOUS
<1>10. e \in Slot /\ e.offset = u
  BY <1>2, <1>6, <1>8 DEF Slot
<1>11. /\ s \in Seq(Slot) /\ Len(s) = n
       /\ \A x \in 1 .. n : s[x] = IF x = i THEN e ELSE pg.slots[x]
  BY <1>2, <1>9, <1>10, SlotReplaced
<1>12. /\ q \in Page /\ q.slots = s /\ q.lower_offset = h /\ q.garbage_cnt = g
       /\ q.upper_offset = u /\ q.data = t.data
  <2>1. q = [t EXCEPT !.garbage_cnt = g, !.slots = s]
    BY <1>0, <1>1, <1>3, <1>6, <1>7, <1>9 DEF Moved
  <2>2. Slotted(q, t, s, h, g, u)
    BY <1>7, <1>8, <2>1 DEF Page, Slotted
  <2>3. h \in Int /\ g \in Int /\ u \in Int
    BY <1>2, <1>4, <1>6, <1>8
  <2> QED
    BY <1>8, <1>11, <2>2, <2>3, PageSlotted
<1>13. ASSUME NEW x \in 1 .. n PROVE u <= s[x].offset /\ RecordAt(t.data, s[x], d[x])
  <2>1. CASE x = i
    BY <1>3, <1>7, <1>8, <1>10, <1>11, <2>1
  <2>2. CASE x # i
    <3>1. s[x] = t.slots[x] /\ d[x] = rows[x]
      BY <1>3, <1>7, <1>11, <2>2
    <3> QED
      BY <1>1, <1>7, <3>1 DEF Sound
  <2> QED
    BY <2>1, <2>2
<1>14. Sound(q, d)
  BY <1>3, <1>8, <1>11, <1>12, <1>13 DEF Sound
<1>15. Accounted(q, d)
  <2>1. PICK a, c, m, p : /\ a = Taken(rows) /\ c = Taken(d) /\ m = SLOT_SIZE * n
                          /\ p = pg.upper_offset
    OBVIOUS
  <2>2. /\ a \in Nat /\ c \in Nat /\ m \in Nat /\ p \in Nat /\ u = p - z /\ g = w + old
        /\ c + old = a + z /\ a + (p - h) + w = NODE_SPACE /\ z <= p - h /\ h = HEADER_SIZE + m
    BY <1>2, <1>3, <1>4, <1>6, <2>1, TakenIs
  <2>3. h \in Nat /\ z \in Nat /\ old \in Nat /\ w \in Nat /\ u \in Nat
    BY <1>2, <1>4, <1>8
  <2>4. h <= u /\ g \in Nat /\ c + (u - h) + g = NODE_SPACE
    BY <2>2, <2>3, Recounted, SMTT(30)
  <2> QED
    BY <1>3, <1>12, <2>1, <2>2, <2>4 DEF Accounted, Free
<1> QED
  BY <1>0, <1>14, <1>15

\* update_record in place.
Overwritten(pg, i, row) ==
  LET slot == pg.slots[i]
      t == Written([pg EXCEPT !.upper_offset = slot.offset + Size[row.val]], row)
  IN [t EXCEPT !.upper_offset = pg.upper_offset,
               !.garbage_cnt = @ + slot.size - Size[row.val],
               !.slots[i].size = Size[row.val]]

\* Bytes of one record are not those of another.
LEMMA RecordsApart ==
  ASSUME NEW pg, NEW rows, Sound(pg, rows), NEW i \in 1 .. Len(rows), NEW j \in 1 .. Len(rows),
         NEW b, b \in pg.slots[i].offset .. pg.slots[i].offset + pg.slots[i].size - 1,
         b \in pg.slots[j].offset .. pg.slots[j].offset + pg.slots[j].size - 1
  PROVE  i = j
<1>1. /\ pg.data[b] = [row |-> rows[i], place |-> b - pg.slots[i].offset]
      /\ pg.data[b] = [row |-> rows[j], place |-> b - pg.slots[j].offset]
  BY DEF Sound, RecordAt
<1>2. rows[i] = rows[j]
  BY <1>1
<1>3. rows[i].key \in Nat /\ i \in Nat /\ j \in Nat /\ Len(rows) \in Nat
  BY SoundType, CostType
<1>4. ~(i < j) /\ ~(j < i)
  BY <1>2, <1>3 DEF Sound, InOrder
<1> QED
  BY <1>3, <1>4

LEMMA OverwrittenSound ==
  ASSUME NEW pg, NEW rows, Sound(pg, rows), Accounted(pg, rows), NEW i \in 1 .. Len(rows),
         NEW v \in Values, Size[v] <= pg.slots[i].size
  PROVE  LET q == Overwritten(pg, i, NewRow(rows, i, v))
         IN Sound(q, NewRows(rows, i, v)) /\ Accounted(q, NewRows(rows, i, v))
<1>0. PICK d, row, q : /\ d = NewRows(rows, i, v) /\ row = NewRow(rows, i, v)
                       /\ q = Overwritten(pg, i, row)
  OBVIOUS
<1>1. PICK n, z, old, o, u : /\ n = Len(rows) /\ z = Size[v] /\ old = pg.slots[i].size
                             /\ o = pg.slots[i].offset /\ u = pg.upper_offset
  OBVIOUS
<1>2. /\ pg \in Page /\ rows \in Seq(Rows) /\ InOrder(rows) /\ n \in Nat /\ i \in 1 .. n
      /\ pg.slots \in Seq(Slot) /\ Len(pg.slots) = n /\ u \in Nat
      /\ HEADER_SIZE <= u /\ u <= PAGE_SIZE
      /\ old = Size[rows[i].val] /\ old \in Nat /\ z \in Nat /\ z <= old
      /\ o \in Nat /\ u <= o /\ o + old <= PAGE_SIZE /\ pg.slots[i] \in Slot
      /\ pg.garbage_cnt \in Nat
  <2>1. z \in Nat
    BY <1>1, SizeAssumption
  <2> QED
    BY <1>1, <2>1, SoundType, PageType DEF Accounted
<1>3. /\ row \in Rows /\ row.val = v /\ d \in Seq(Rows) /\ Len(d) = n /\ InOrder(d)
      /\ \A x \in 1 .. n : d[x] = IF x = i THEN row ELSE rows[x]
      /\ Taken(d) + old = Taken(rows) + z
  <2>1. /\ row \in Rows /\ row.val = v /\ d \in Seq(Rows) /\ Len(d) = Len(rows)
        /\ InOrder(d)
        /\ \A x \in 1 .. Len(rows) : d[x] = IF x = i THEN row ELSE rows[x]
        /\ Taken(d) + Size[rows[i].val] = Taken(rows) + Size[v]
    BY <1>0, <1>2, RowReplaced, SMTT(30)
  <2> QED
    BY <1>1, <1>2, <2>1, Zenon
<1>4. PICK to : to = o + z
  OBVIOUS
<1>5. PICK p, t : p = [pg EXCEPT !.upper_offset = to] /\ t = Written(p, row)
  OBVIOUS
<1>6. to \in Nat /\ to <= PAGE_SIZE /\ to - z = o /\ HEADER_SIZE <= o
  <2>1. /\ to = o + z /\ o \in Nat /\ z \in Nat /\ old \in Nat /\ u \in Nat /\ z <= old
        /\ o + old <= PAGE_SIZE /\ HEADER_SIZE <= u /\ u <= o
    BY <1>2, <1>4
  <2> QED
    BY <2>1, Sizes
<1>7. /\ p \in Page /\ p.upper_offset = to /\ p.slots = pg.slots /\ p.data = pg.data
      /\ p.lower_offset = pg.lower_offset /\ p.garbage_cnt = pg.garbage_cnt
  <2>1. PICK l, g, s : l = pg.lower_offset /\ g = pg.garbage_cnt /\ s = pg.slots
    OBVIOUS
  <2>2. Slotted(p, pg, s, l, g, to)
    BY <1>2, <1>5, <2>1 DEF Page, Slotted
  <2>3. l \in Int /\ g \in Int /\ to \in Int /\ s \in Seq(Slot)
    BY <1>2, <1>6, <2>1, PageType
  <2> QED
    BY <1>2, <2>1, <2>2, <2>3, PageSlotted, SMTT(30)
<1>8. /\ t \in Page /\ t.slots = pg.slots
      /\ t.lower_offset = pg.lower_offset /\ t.garbage_cnt = pg.garbage_cnt
      /\ \A b \in Places : t.data[b] = IF b \in o .. to - 1
                                       THEN [row |-> row, place |-> b - o] ELSE pg.data[b]
  <2>1. p.upper_offset <= PAGE_SIZE /\ HEADER_SIZE <= p.upper_offset - Size[row.val]
    BY <1>1, <1>3, <1>6, <1>7
  <2>2. /\ t \in Page /\ t.slots = p.slots
        /\ t.lower_offset = p.lower_offset /\ t.garbage_cnt = p.garbage_cnt
        /\ \A b \in Places :
             t.data[b] =
               IF b \in p.upper_offset - Size[row.val] .. p.upper_offset - 1
               THEN [row |-> row, place |-> b - (p.upper_offset - Size[row.val])]
               ELSE p.data[b]
    BY <1>3, <1>5, <1>7, <2>1, WrittenEffect
  <2>3. p.upper_offset - Size[row.val] = o
    BY <1>1, <1>3, <1>6, <1>7
  <2> QED
    BY <1>7, <2>2, <2>3
<1>9. PICK e, s, l, g : /\ e = [pg.slots[i] EXCEPT !.size = z] /\ s = [pg.slots EXCEPT ![i] = e]
                        /\ l = pg.lower_offset /\ g = pg.garbage_cnt + old - z
  OBVIOUS
<1>10. e \in Slot /\ e.offset = o /\ e.size = z
  BY <1>1, <1>2, <1>9 DEF Slot
<1>11. /\ s \in Seq(Slot) /\ Len(s) = n
       /\ \A x \in 1 .. n : s[x] = IF x = i THEN e ELSE pg.slots[x]
  BY <1>2, <1>9, <1>10, SlotReplaced
<1>12. /\ q \in Page /\ q.slots = s /\ q.lower_offset = l /\ q.garbage_cnt = g
       /\ q.upper_offset = u /\ q.data = t.data
  <2>1. q = [t EXCEPT !.upper_offset = u, !.garbage_cnt = g, !.slots = s]
    BY <1>0, <1>1, <1>3, <1>4, <1>5, <1>8, <1>9, ZenonT(40) DEF Overwritten
  <2>2. Slotted(q, t, s, l, g, u)
    BY <1>8, <1>9, <2>1 DEF Page, Slotted
  <2>3. l \in Int /\ g \in Int /\ u \in Int
    BY <1>2, <1>9, PageType, SMTT(30)
  <2> QED
    BY <1>8, <1>11, <2>2, <2>3, PageSlotted
<1>13. RecordAt(t.data, e, row)
  <2>1. \A b \in o .. o + z - 1 : b \in Places /\ b \in o .. to - 1
    BY <1>2, <1>4, <1>6, Sizes DEF Places
  <2>2. \A b \in o .. o + z - 1 : t.data[b] = [row |-> row, place |-> b - o]
    BY <1>8, <2>1
  <2>3. e.size = Size[row.val] /\ e.offset + e.size <= PAGE_SIZE
    BY <1>1, <1>3, <1>4, <1>6, <1>10
  <2> QED
    BY <1>10, <2>2, <2>3 DEF RecordAt
<1>14. ASSUME NEW x \in 1 .. n, x # i PROVE RecordAt(t.data, pg.slots[x], rows[x])
  <2>1. RecordAt(pg.data, pg.slots[x], rows[x])
    BY <1>1 DEF Sound
  <2>2. PICK a, y : a = pg.slots[x].offset /\ y = pg.slots[x].size
    OBVIOUS
  <2>3. a \in Nat /\ y \in Nat /\ u <= a /\ a + y <= PAGE_SIZE
    BY <1>1, <2>2, SoundType
  <2>4. ASSUME NEW b \in a .. a + y - 1 PROVE t.data[b] = pg.data[b]
    <3>1. b \in Places
      BY <1>2, <2>3, <2>4, Sizes DEF Places
    <3>2. ASSUME b \in o .. to - 1 PROVE FALSE
      <4>1. b \in o .. o + old - 1
        BY <1>2, <1>4, <3>2, SMTT(30)
      <4>2. x = i
        BY <1>1, <2>2, <4>1, RecordsApart
      <4> QED
        BY <1>14, <4>2
    <3> QED
      BY <1>8, <3>1, <3>2
  <2> QED
    BY <2>1, <2>2, <2>4 DEF RecordAt
<1>15. ASSUME NEW x \in 1 .. n PROVE u <= s[x].offset /\ RecordAt(t.data, s[x], d[x])
  <2>1. CASE x = i
    BY <1>2, <1>3, <1>10, <1>11, <1>13, <2>1
  <2>2. CASE x # i
    <3>1. s[x] = pg.slots[x] /\ d[x] = rows[x]
      BY <1>3, <1>11, <2>2
    <3>2. u <= pg.slots[x].offset
      BY <1>1, SoundType
    <3> QED
      BY <1>14, <2>2, <3>1, <3>2
  <2> QED
    BY <2>1, <2>2
<1>16. Sound(q, d)
  BY <1>2, <1>3, <1>11, <1>12, <1>15 DEF Sound
<1>17. Accounted(q, d)
  <2>1. PICK a, c, w : a = Taken(rows) /\ c = Taken(d) /\ w = pg.garbage_cnt
    OBVIOUS
  <2>2. /\ l = HEADER_SIZE + SLOT_SIZE * n /\ l <= u /\ a + (u - l) + w = NODE_SPACE
        /\ l \in Int /\ w \in Nat
    BY <1>1, <1>2, <1>9, <2>1, PageType DEF Accounted, Free
  <2>3. c + old = a + z /\ a \in Nat /\ c \in Nat /\ g = w + old - z /\ old \in Nat
        /\ z \in Nat /\ z <= old /\ u \in Nat
    BY <1>2, <1>3, <1>9, <2>1, TakenIs
  <2>4. g \in Nat /\ c + (u - l) + g = NODE_SPACE
    <3>1. /\ a \in Nat /\ c \in Nat /\ u \in Nat /\ l \in Int /\ z \in Nat /\ w \in Nat
          /\ old \in Nat /\ g = w + old - z /\ c + old = a + z
          /\ a + (u - l) + w = NODE_SPACE /\ z <= old
      BY <2>2, <2>3
    <3> QED
      BY <3>1
  <2> QED
    BY <1>3, <1>12, <2>1, <2>2, <2>4 DEF Accounted, Free
<1> QED
  BY <1>0, <1>16, <1>17

\* split_leaf_node keeps the first half of the slots, and packs their records.
Halved(pg) ==
  LET half == Len(pg.slots) \div 2
  IN Defragmented([pg EXCEPT !.slots = SubSeq(@, 1, half),
                             !.lower_offset = HEADER_SIZE + SLOT_SIZE * half])

LEMMA HalvedSound ==
  ASSUME NEW pg, NEW rows, Sound(pg, rows), Accounted(pg, rows)
  PROVE  LET d == SubSeq(rows, 1, Len(rows) \div 2)
         IN Sound(Halved(pg), d) /\ Accounted(Halved(pg), d)
<1>0. PICK n, half : n = Len(rows) /\ half = n \div 2
  OBVIOUS
<1>1. /\ pg \in Page /\ rows \in Seq(Rows) /\ InOrder(rows) /\ n \in Nat
      /\ pg.slots \in Seq(Slot) /\ Len(pg.slots) = n /\ pg.upper_offset \in Nat
      /\ HEADER_SIZE <= pg.upper_offset /\ pg.upper_offset <= PAGE_SIZE
  BY <1>0, SoundType, PageType
<1>2. half \in 0 .. n /\ half \in Nat
  BY <1>0, <1>1
<1>3. PICK d, s, m : /\ d = SubSeq(rows, 1, half) /\ s = SubSeq(pg.slots, 1, half)
                     /\ m = SLOT_SIZE * half
  OBVIOUS
<1>4. /\ d \in Seq(Rows) /\ Len(d) = half /\ \A x \in 1 .. half : d[x] = rows[x]
      /\ s \in Seq(Slot) /\ Len(s) = half /\ \A x \in 1 .. half : s[x] = pg.slots[x]
  BY <1>0, <1>1, <1>2, <1>3
<1>5. InOrder(d)
  <2>1. Len(d) <= Len(rows) /\ \A x \in 1 .. Len(d) : d[x].key = rows[x].key
    BY <1>0, <1>1, <1>2, <1>4
  <2> QED
    BY <1>1, <1>4, <2>1, SameKeysInOrder
<1>6. m \in Nat
  BY <1>2, <1>3, Sizes
<1>7. PICK p, l, g, u : /\ p = [pg EXCEPT !.slots = s, !.lower_offset = l]
                        /\ l = HEADER_SIZE + m /\ g = pg.garbage_cnt /\ u = pg.upper_offset
  BY ZenonT(40)
<1>8. /\ p \in Page /\ p.slots = s /\ p.lower_offset = l /\ p.garbage_cnt = g
      /\ p.upper_offset = u /\ p.data = pg.data
  <2>1. Slotted(p, pg, s, l, g, u)
    BY <1>1, <1>7 DEF Page, Slotted
  <2>2. l \in Int /\ g \in Int /\ u \in Int
    BY <1>1, <1>6, <1>7, Sizes, PageType
  <2> QED
    BY <1>1, <1>4, <2>1, <2>2, PageSlotted
<1>9. Sound(p, d)
  <2>1. ASSUME NEW x \in 1 .. half PROVE u <= s[x].offset /\ RecordAt(p.data, s[x], d[x])
    <3>1. x \in 1 .. Len(rows)
      BY <1>0, <1>1, <1>2
    <3> QED
      BY <1>4, <1>7, <1>8, <3>1 DEF Sound
  <2> QED
    BY <1>1, <1>4, <1>5, <1>7, <1>8, <2>1 DEF Sound
<1>10. PICK a, c, q : a = Taken(rows) /\ c = Taken(d) /\ q = Defragmented(p)
  OBVIOUS
<1>11. c \in Nat /\ c <= NODE_SPACE
  <2>1. c <= a
    BY <1>0, <1>1, <1>2, <1>3, <1>10, TakenPrefix
  <2>2. a + (u - pg.lower_offset) + g = NODE_SPACE /\ pg.lower_offset <= u /\ g \in Nat
    BY <1>7, <1>10 DEF Accounted, Free
  <2>3. c \in Nat /\ a \in Nat /\ u \in Nat /\ pg.lower_offset \in Int
    BY <1>1, <1>4, <1>7, <1>10, TakenIs, PageType
  <2> QED
    BY <2>1, <2>2, <2>3, Sizes
<1>12. /\ Sound(q, d) /\ q.lower_offset = l /\ q.upper_offset + c = PAGE_SIZE + m
       /\ q.garbage_cnt = 0
  <2>1. Taken(d) <= NODE_SPACE
    BY <1>10, <1>11
  <2>2. /\ Sound(q, d) /\ q.lower_offset = p.lower_offset
        /\ q.upper_offset + Taken(d) = PAGE_SIZE + SLOT_SIZE * Len(d) /\ q.garbage_cnt = 0
    BY <1>9, <1>10, <2>1, PackedSound
  <2> QED
    BY <1>3, <1>4, <1>8, <1>10, <2>2
<1>13. Accounted(q, d)
  <2>1. PICK w : w = q.upper_offset
    OBVIOUS
  <2>2. w \in Nat /\ w + c = PAGE_SIZE + m
    BY <1>12, <2>1, SoundType
  <2>3. l <= w /\ c + (w - l) + 0 = NODE_SPACE
    BY <1>6, <1>7, <1>11, <2>2, Sizes
  <2> QED
    BY <1>3, <1>4, <1>7, <1>10, <1>12, <2>1, <2>3 DEF Accounted, Free
<1>14. q = Halved(pg)
  BY <1>0, <1>1, <1>3, <1>7, <1>10 DEF Halved
<1> QED
  BY <1>0, <1>3, <1>12, <1>13, <1>14

LEMMA EmptiedSound ==
  ASSUME NEW pg \in Page
  PROVE  Sound(Emptied(pg), <<>>) /\ Accounted(Emptied(pg), <<>>)
<1>1. PICK q, s, l, u : /\ q = Emptied(pg) /\ s = <<>> /\ l = HEADER_SIZE /\ u = PAGE_SIZE
  OBVIOUS
<1> DEFINE g == 0
<1>2. s \in Seq(Slot) /\ Len(s) = 0 /\ l \in Nat /\ u \in Nat /\ l <= u /\ g \in Nat
  BY <1>1, Sizes
<1>3. Slotted(q, pg, s, l, g, u)
  BY <1>1 DEF Page, Slotted, Emptied
<1>4. /\ q \in Page /\ q.slots = s /\ q.lower_offset = l /\ q.garbage_cnt = 0
      /\ q.upper_offset = u
  <2>1. g = 0
    OBVIOUS
  <2> HIDE DEF g
  <2>2. s \in Seq(Slot) /\ l \in Int /\ g \in Int /\ u \in Int
    BY <1>2
  <2>3. q \in Page /\ q.slots = s /\ q.lower_offset = l /\ q.garbage_cnt = g
        /\ q.upper_offset = u
    BY <1>3, <2>2, PageSlotted
  <2> QED
    BY <2>1, <2>3
<1>5. s \in Seq(Rows) /\ InOrder(s) /\ Taken(s) = 0
  <2>1. s \in Seq(Rows)
    BY <1>1
  <2>2. Costs(s) \in Seq(Nat) /\ Len(Costs(s)) = 0
    BY <1>2, <2>1, CostsType
  <2>3. Taken(s) = 0
    BY <2>1, <2>2, TakenIs, SumsAre
  <2> QED
    BY <1>2, <2>1, <2>3 DEF InOrder
<1>6. Sound(q, s)
  BY <1>1, <1>2, <1>4, <1>5, Sizes DEF Sound
<1>7. Accounted(q, s)
  <2>1. SLOT_SIZE * 0 = 0
    BY Sizes
  <2> QED
    BY <1>1, <1>2, <1>4, <1>5, <2>1, Sizes DEF Accounted, Free
<1> QED
  BY <1>1, <1>6, <1>7

-----------------------------------------------------------------------------
(* The operations *)

\* A sound page is what the next state is, swept.
LEMMA AfterSweep ==
  ASSUME NEW q, NEW d, Sound(q, d), Accounted(q, d), page' = Swept(q)
  PROVE  IInv' /\ Stored' = d
<1>1. PICK r : r = Swept(q)
  OBVIOUS
<1>2. /\ Sound(r, d) /\ r.lower_offset = q.lower_offset
      /\ r.upper_offset = q.upper_offset /\ r.garbage_cnt = q.garbage_cnt
  BY <1>1, SweptSound
<1>3. Accounted(r, d)
  BY <1>2 DEF Accounted, Free
<1>4. page' = r
  BY <1>1
<1>5. Stored' = RowsOf(r)
  BY <1>4 DEF Stored, Row, RowsOf
<1>6. Stored' = d
  BY <1>2, <1>5, RowsRead
<1>7. IInv' <=> Sound(page', Stored') /\ Accounted(page', Stored')
  BY DEF IInv
<1> QED
  BY <1>2, <1>3, <1>4, <1>6, <1>7

LEMMA StoredType ==
  ASSUME IInv
  PROVE  /\ Stored \in Seq(Rows) /\ InOrder(Stored) /\ page \in Page
         /\ Len(Stored) \in Nat /\ Len(page.slots) = Len(Stored)
         /\ Taken(Stored) \in Nat /\ Free(page) \in Int /\ page.garbage_cnt \in Nat
         /\ Taken(Stored) + Free(page) + page.garbage_cnt = NODE_SPACE
<1>1. Sound(page, Stored) /\ Accounted(page, Stored)
  BY DEF IInv
<1>2. /\ Stored \in Seq(Rows) /\ InOrder(Stored) /\ page \in Page
      /\ Len(Stored) \in Nat /\ Len(page.slots) = Len(Stored)
  BY <1>1, SoundType
<1>3. Taken(Stored) \in Nat
  BY <1>2, TakenIs
<1>4. Free(page) \in Int
  BY <1>2, PageType DEF Free
<1> QED
  BY <1>1, <1>2, <1>3, <1>4 DEF Accounted

\* The instance of LeafRows has the operators of BTreeNode that are here too.
LEMMA SameOperators ==
  ASSUME NEW rows, NEW row, NEW k, NEW v, NEW i
  PROVE  /\ Leaf!Holds(rows, k) <=> Holds(rows, k)
         /\ Leaf!SlotOf(rows, k) = SlotOf(rows, k)
         /\ Leaf!UpdateFits(rows, i, v) <=> UpdateFits(rows, i, v)
         /\ Leaf!Inserted(rows, i, row) = Inserted(rows, i, row)
         /\ Leaf!RemoveAt(rows, i) = RemoveAt(rows, i)
<1>1. Leaf!Holds(rows, k) <=> Holds(rows, k)
  BY DEF Leaf!Holds, Holds
<1>2. Leaf!SlotOf(rows, k) = SlotOf(rows, k)
  BY DEF Leaf!SlotOf, SlotOf, Leaf!Cardinality, Cardinality
<1>3. Leaf!Cost(row) = Cost(row)
  BY DEF Leaf!Cost, Cost
<1>4. Leaf!Taken(rows) = Taken(rows)
  BY DEF Leaf!Taken, Taken, Leaf!Sums, Sums, Leaf!Cost, Cost
<1>5. Leaf!UpdateFits(rows, i, v) <=> UpdateFits(rows, i, v)
  BY <1>4 DEF Leaf!UpdateFits, UpdateFits
<1>6. Leaf!InsertAt(rows, i, row) = InsertAt(rows, i, row)
  BY DEF Leaf!InsertAt, InsertAt
<1>7. Leaf!Inserted(rows, i, row) = Inserted(rows, i, row)
  BY <1>3, <1>4, <1>6 DEF Leaf!Inserted, Inserted, Leaf!Fits, Fits
<1>8. Leaf!RemoveAt(rows, i) = RemoveAt(rows, i)
  BY DEF Leaf!RemoveAt, RemoveAt
<1> QED
  BY <1>1, <1>2, <1>5, <1>7, <1>8

LEMMA InsertStep ==
  ASSUME IInv, NEW row \in Rows, InsertRecord(row)
  PROVE  IInv' /\ Leaf!Insert(row)
<1> DEFINE need == Size[row.val] + SLOT_SIZE
           i == SlotOf(Stored, row.key)
           r == WithRoom(page, need)
<1>1. /\ ~Holds(Stored, row.key) /\ Free(page) + page.garbage_cnt >= need
      /\ page' = Swept(Filed(r, i, row))
  BY DEF InsertRecord, Filed, WithRoom
<1>2. need \in Nat
  BY CostType, Sizes
<1>3. Sound(r, Stored) /\ Accounted(r, Stored) /\ need <= Free(r)
  <2> HIDE DEF need
  <2> QED
    BY <1>1, <1>2, RoomMade DEF IInv
<1>4. Sound(Filed(r, i, row), InsertAt(Stored, i, row))
      /\ Accounted(Filed(r, i, row), InsertAt(Stored, i, row))
  <2> HIDE DEF r
  <2> QED
    BY <1>1, <1>3, InsertedSound
<1>5. IInv' /\ Stored' = InsertAt(Stored, i, row)
  <2> HIDE DEF r, i
  <2> QED
    BY <1>1, <1>4, AfterSweep
<1>6. Fits(Stored, row)
  <2>1. PICK a, f, g : a = Taken(Stored) /\ f = Free(page) /\ g = page.garbage_cnt
    OBVIOUS
  <2>2. a \in Nat /\ f \in Int /\ g \in Nat /\ a + f + g = NODE_SPACE /\ f + g >= need
    BY <1>1, <2>1, StoredType
  <2>3. a + need <= NODE_SPACE
    <3> HIDE DEF need
    <3> QED
      BY <1>2, <2>2, Sizes
  <2>4. Cost(row) = need
    BY CostType, Sizes DEF Cost
  <2> QED
    BY <2>1, <2>3, <2>4 DEF Fits
<1> QED
  BY <1>1, <1>5, <1>6, SameOperators DEF Leaf!Insert, Inserted

LEMMA RemoveStep ==
  ASSUME IInv, NEW k \in Nat, RemoveRecord(k)
  PROVE  IInv' /\ Leaf!Delete(k)
<1> DEFINE i == SlotOf(Stored, k)
<1>1. Holds(Stored, k) /\ page' = Swept(Gone(page, i))
  BY DEF RemoveRecord, Gone
<1>2. i \in 1 .. Len(Stored)
  BY <1>1, StoredType, SlotHolds
<1> HIDE DEF i
<1>3. Sound(Gone(page, i), RemoveAt(Stored, i)) /\ Accounted(Gone(page, i), RemoveAt(Stored, i))
  BY <1>2, RemovedSound DEF IInv
<1>4. IInv' /\ Stored' = RemoveAt(Stored, i)
  BY <1>1, <1>3, AfterSweep
<1> QED
  BY <1>1, <1>4, SameOperators DEF i, Leaf!Delete

LEMMA UpdateInPlaceStep ==
  ASSUME IInv, NEW k \in Nat, NEW v \in Values, UpdateInPlace(k, v)
  PROVE  IInv' /\ Leaf!Update(k, v)
<1> DEFINE i == SlotOf(Stored, k)
           row == [key |-> k, val |-> v]
<1>1. Holds(Stored, k) /\ page.slots[i].size >= Size[v] /\ page' = Swept(Overwritten(page, i, row))
  BY DEF UpdateInPlace, Overwritten
<1>2. i \in 1 .. Len(Stored) /\ Stored[i].key = k
  BY <1>1, StoredType, SlotHolds
<1>3. row = NewRow(Stored, i, v)
  BY <1>2 DEF NewRow
<1> HIDE DEF i, row
<1>4. Size[v] <= page.slots[i].size /\ page.slots[i].size = Size[Stored[i].val]
  BY <1>1, <1>2, SoundType, SizeAssumption DEF IInv
<1>5. /\ Sound(Overwritten(page, i, row), NewRows(Stored, i, v))
      /\ Accounted(Overwritten(page, i, row), NewRows(Stored, i, v))
  BY <1>2, <1>3, <1>4, OverwrittenSound DEF IInv
<1>6. IInv' /\ Stored' = NewRows(Stored, i, v)
  BY <1>1, <1>5, AfterSweep
<1>7. UpdateFits(Stored, i, v)
  BY <1>1, <1>4 DEF UpdateFits
<1> QED
  BY <1>1, <1>6, <1>7, SameOperators DEF i, NewRows, Leaf!Update

LEMMA UpdateMovesStep ==
  ASSUME IInv, NEW k \in Nat, NEW v \in Values, UpdateMoves(k, v)
  PROVE  IInv' /\ Leaf!Update(k, v)
<1> DEFINE i == SlotOf(Stored, k)
           row == [key |-> k, val |-> v]
           old == page.slots[i].size
           r == WithRoom(page, Size[v])
<1>1. Holds(Stored, k) /\ page.garbage_cnt + Free(page) >= Size[v]
      /\ page' = Swept(Moved(r, i, row, old))
  BY DEF UpdateMoves, Moved, WithRoom
<1>2. i \in 1 .. Len(Stored) /\ Stored[i].key = k
  BY <1>1, StoredType, SlotHolds
<1>3. row = NewRow(Stored, i, v)
  BY <1>2 DEF NewRow
<1>4. old = Size[Stored[i].val]
  BY <1>2, SoundType DEF IInv
<1> HIDE DEF i, row, old
<1>5. Size[v] \in Nat /\ Free(page) + page.garbage_cnt >= Size[v]
  BY <1>1, StoredType, SizeAssumption
<1>6. Sound(r, Stored) /\ Accounted(r, Stored) /\ Size[v] <= Free(r)
  BY <1>5, RoomMade DEF IInv
<1> HIDE DEF r
<1>7. /\ Sound(Moved(r, i, row, old), NewRows(Stored, i, v))
      /\ Accounted(Moved(r, i, row, old), NewRows(Stored, i, v))
  BY <1>2, <1>3, <1>4, <1>6, MovedSound
<1>8. IInv' /\ Stored' = NewRows(Stored, i, v)
  BY <1>1, <1>7, AfterSweep
<1>9. UpdateFits(Stored, i, v)
  <2>1. PICK a, f, g, z : /\ a = Taken(Stored) /\ f = Free(page) /\ g = page.garbage_cnt
                          /\ z = Size[v]
    OBVIOUS
  <2>2. a \in Nat /\ f \in Int /\ g \in Nat /\ z \in Nat /\ a + f + g = NODE_SPACE /\ f + g >= z
    BY <1>5, <2>1, StoredType
  <2>3. a + z <= NODE_SPACE
    BY <2>2, Sizes
  <2> QED
    BY <2>1, <2>3 DEF UpdateFits
<1> QED
  BY <1>1, <1>8, <1>9, SameOperators DEF i, NewRows, Leaf!Update

LEMMA HalveStep ==
  ASSUME IInv, Halve
  PROVE  IInv' /\ Leaf!Halve
<1>1. page' = Swept(Halved(page))
  BY DEF Halve, Halved
<1>2. /\ Sound(Halved(page), SubSeq(Stored, 1, Len(Stored) \div 2))
      /\ Accounted(Halved(page), SubSeq(Stored, 1, Len(Stored) \div 2))
  BY HalvedSound DEF IInv
<1>3. IInv' /\ Stored' = SubSeq(Stored, 1, Len(Stored) \div 2)
  BY <1>1, <1>2, AfterSweep
<1> QED
  BY <1>3 DEF Leaf!Halve

LEMMA ReuseStep ==
  ASSUME IInv, Reuse
  PROVE  IInv' /\ Leaf!Reuse
<1>1. page' = Swept(Emptied(page)) /\ page \in Page
  BY StoredType DEF Reuse
<1>2. Sound(Emptied(page), <<>>) /\ Accounted(Emptied(page), <<>>)
  BY <1>1, EmptiedSound
<1>3. IInv' /\ Stored' = <<>>
  BY <1>1, <1>2, AfterSweep
<1> QED
  BY <1>3 DEF Leaf!Reuse

LEMMA LeafStep ==
  ASSUME IInv, [Next]_page
  PROVE  IInv' /\ [Leaf!Next]_Stored
<1>1. ASSUME NEW k \in Keys, NEW v \in Values, InsertRecord([key |-> k, val |-> v])
      PROVE  IInv' /\ Leaf!Next
  <2>1. [key |-> k, val |-> v] \in Rows
    BY KeysAssumption DEF Rows
  <2>2. IInv' /\ Leaf!Insert([key |-> k, val |-> v])
    BY <1>1, <2>1, InsertStep
  <2> QED
    BY <2>2 DEF Leaf!Next
<1>2. ASSUME NEW k \in Keys, RemoveRecord(k) PROVE IInv' /\ Leaf!Next
  <2>1. k \in Nat
    BY KeysAssumption
  <2> QED
    BY <1>2, <2>1, RemoveStep DEF Leaf!Next
<1>3. ASSUME NEW k \in Keys, NEW v \in Values, UpdateInPlace(k, v) \/ UpdateMoves(k, v)
      PROVE  IInv' /\ Leaf!Next
  <2>1. k \in Nat
    BY KeysAssumption
  <2>2. IInv' /\ Leaf!Update(k, v)
    BY <1>3, <2>1, UpdateInPlaceStep, UpdateMovesStep
  <2> QED
    BY <2>2 DEF Leaf!Next
<1>4. ASSUME Halve PROVE IInv' /\ Leaf!Next
  BY <1>4, HalveStep DEF Leaf!Next
<1>5. ASSUME Reuse PROVE IInv' /\ Leaf!Next
  BY <1>5, ReuseStep DEF Leaf!Next
<1>6. ASSUME UNCHANGED page PROVE IInv' /\ Stored' = Stored
  <2>1. Stored' = Stored
    BY <1>6 DEF Stored, Row
  <2> QED
    BY <1>6, <2>1 DEF IInv
<1> QED
  BY <1>1, <1>2, <1>3, <1>4, <1>5, <1>6 DEF Next

-----------------------------------------------------------------------------
(* The theorems *)

LEMMA LeafInit ==
  ASSUME Init
  PROVE  IInv /\ Leaf!Init
<1> DEFINE fresh == [slots |-> <<>>, lower_offset |-> 0, upper_offset |-> 0, garbage_cnt |-> 0,
                     data |-> [b \in HEADER_SIZE .. PAGE_SIZE - 1 |-> NoByte]]
<1>1. fresh \in Page
  <2>1. [b \in HEADER_SIZE .. PAGE_SIZE - 1 |-> NoByte] \in [Places -> Byte]
    BY DEF Places, Byte
  <2>2. <<>> \in Seq(Slot) /\ 0 \in Int
    OBVIOUS
  <2> QED
    BY <2>1, <2>2 DEF Page
<1>2. page = Emptied(fresh)
  BY DEF Init
<1> HIDE DEF fresh
<1>3. Sound(page, <<>>) /\ Accounted(page, <<>>)
  BY <1>1, <1>2, EmptiedSound
<1>4. Stored = <<>>
  <2>1. RowsOf(page) = <<>>
    BY <1>3, RowsRead
  <2> QED
    BY <2>1 DEF RowsOf, Stored, Row
<1> QED
  BY <1>3, <1>4 DEF IInv, Leaf!Init

\* The inductive invariant: the bytes are those of rows in order, and the
\* header's counts are right for them (src/page.cpp:28-202).
THEOREM Invariance == Spec => []IInv
BY LeafInit, LeafStep, PTL DEF Spec

LEMMA RowIs ==
  ASSUME NEW i \in DOMAIN page.slots
  PROVE  Row(i) = Stored[i]
BY DEF Stored

\* Every slot leads into the page, and the counts of the header stay within it,
\* whatever insert_record, update_record, remove_record and defragment do.
THEOREM TypeCorrect == Spec => []TypeOK
<1>1. ASSUME IInv PROVE TypeOK
  <2>1. PICK n, l, u, g, a : /\ n = Len(Stored) /\ l = page.lower_offset /\ u = page.upper_offset
                             /\ g = page.garbage_cnt /\ a = Taken(Stored)
    OBVIOUS
  <2>2. /\ n \in Nat /\ Len(page.slots) = n /\ page.slots \in Seq(Slot)
        /\ l \in Int /\ u \in Nat /\ g \in Nat /\ a \in Nat
        /\ HEADER_SIZE <= u /\ u <= PAGE_SIZE /\ l <= u
        /\ a + (u - l) + g = NODE_SPACE
    BY <1>1, <2>1, StoredType, SoundType, PageType DEF IInv, Accounted, Free
  <2>3. l \in HEADER_SIZE .. PAGE_SIZE
    <3>1. PICK m : m = SLOT_SIZE * n
      OBVIOUS
    <3>2. m \in Nat /\ l = HEADER_SIZE + m
      BY <1>1, <2>1, <2>2, <3>1, Sizes DEF IInv, Accounted
    <3> QED
      BY <2>2, <3>2, Sizes
  <2>4. u \in HEADER_SIZE .. PAGE_SIZE /\ g \in 0 .. NODE_SPACE
    BY <2>2, Sizes
  <2>5. ASSUME NEW i \in 1 .. n
        PROVE  page.slots[i] \in [offset : HEADER_SIZE .. PAGE_SIZE - 1,
                                  size : {Size[v] : v \in Values}]
    <3>1. PICK o, z : o = page.slots[i].offset /\ z = page.slots[i].size
      OBVIOUS
    <3>2. /\ o \in Nat /\ z \in Nat \ {0} /\ u <= o /\ o + z <= PAGE_SIZE
          /\ Stored[i] \in Rows /\ z = Size[Stored[i].val]
      BY <1>1, <2>1, <3>1, SoundType DEF IInv
    <3>3. o \in HEADER_SIZE .. PAGE_SIZE - 1
      BY <2>2, <3>2, Sizes
    <3>4. z \in {Size[v] : v \in Values}
      BY <3>2, CostType
    <3>5. page.slots[i] \in Slot
      BY <2>2
    <3>6. page.slots[i] = [offset |-> o, size |-> z]
      BY <3>1, <3>5 DEF Slot
    <3> QED
      BY <3>3, <3>4, <3>6
  <2>6. page.slots \in Seq([offset : HEADER_SIZE .. PAGE_SIZE - 1, size : {Size[v] : v \in Values}])
    <3> DEFINE S == [offset : HEADER_SIZE .. PAGE_SIZE - 1, size : {Size[v] : v \in Values}]
    <3>1. page.slots = [i \in 1 .. n |-> page.slots[i]]
      BY <2>2
    <3>2. \A i \in 1 .. n : page.slots[i] \in S
      BY <2>5
    <3> HIDE DEF S
    <3>3. page.slots \in Seq(S)
      BY <2>2, <3>1, <3>2
    <3> QED
      BY <3>3 DEF S
  <2> QED
    BY <2>1, <2>3, <2>4, <2>6 DEF TypeOK
<1> QED
  BY <1>1, Invariance, PTL

\* A record's bytes are those of its row however often records around it were
\* removed, moved, made shorter or packed (defragment, page.cpp:121).
THEOREM RecordsCorrect == Spec => []RecordsIntact
<1>1. ASSUME IInv PROVE RecordsIntact
  <2>1. /\ DOMAIN page.slots = 1 .. Len(Stored) /\ Len(page.slots) = Len(Stored)
        /\ page.lower_offset = HEADER_SIZE + SLOT_SIZE * Len(Stored)
        /\ page.lower_offset <= page.upper_offset
    BY <1>1, StoredType, PageType DEF IInv, Accounted
  <2>2. ASSUME NEW i \in 1 .. Len(Stored)
        PROVE  /\ page.slots[i].offset >= page.upper_offset
               /\ page.slots[i].size = Size[Stored[i].val]
               /\ \A b \in 0 .. page.slots[i].size - 1 :
                    page.data[page.slots[i].offset + b] = [row |-> Stored[i], place |-> b]
    <3>1. PICK o, z, u : /\ o = page.slots[i].offset /\ z = page.slots[i].size
                         /\ u = page.upper_offset
      OBVIOUS
    <3>2. o \in Nat /\ z \in Nat /\ u <= o /\ z = Size[Stored[i].val] /\ u \in Nat
      BY <1>1, <3>1, SoundType DEF IInv
    <3>3. \A c \in o .. o + z - 1 : page.data[c] = [row |-> Stored[i], place |-> c - o]
      BY <1>1, <3>1 DEF IInv, Sound, RecordAt
    <3>4. ASSUME NEW b \in 0 .. z - 1 PROVE page.data[o + b] = [row |-> Stored[i], place |-> b]
      <4>1. o + b \in o .. o + z - 1 /\ (o + b) - o = b
        BY <3>2
      <4> QED
        BY <3>3, <4>1
    <3> QED
      BY <3>1, <3>2, <3>4
  <2> QED
    BY <2>1, <2>2, RowIs DEF RecordsIntact
<1> QED
  BY <1>1, Invariance, PTL

\* The binary search of Leaf::find (btree.cpp:496) has sorted rows to search.
THEOREM OrderCorrect == Spec => []RowsInOrder
<1>1. ASSUME IInv PROVE RowsInOrder
  <2>1. DOMAIN page.slots = 1 .. Len(Stored)
    BY <1>1, StoredType, PageType
  <2>2. InOrder(Stored)
    BY <1>1, StoredType
  <2> QED
    BY <2>1, <2>2, RowIs DEF RowsInOrder, InOrder
<1> QED
  BY <1>1, Invariance, PTL

\* The header's counts are exact: no byte is leaked or counted twice
\* (page.cpp:67, page.cpp:103).
THEOREM SpaceCorrect == Spec => []SpaceAccounted
<1>1. IInv => SpaceAccounted
  BY DEF IInv, Accounted, SpaceAccounted
<1> QED
  BY <1>1, Invariance, PTL

\* The page is, step for step, the sequence of rows that the tree takes it for:
\* a row is added or made longer exactly when there is space for it.
THEOREM LeafImplemented == Spec => ImplementsLeafRows
<1>1. IInv /\ [Next]_page => [Leaf!Next]_Stored
  BY LeafStep
<1>2. Init => Leaf!Init
  BY LeafInit
<1> QED
  BY <1>1, <1>2, Invariance, PTL DEF Spec, ImplementsLeafRows, Leaf!Spec
=============================================================================
