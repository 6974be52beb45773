---------------------------- MODULE SlottedPage ----------------------------
(***************************************************************************)
(* A leaf's bytes (src/page.cpp): slots grow up from the header, records   *)
(* grow down from the end, and the bytes of records that are gone are only *)
(* counted until defragment packs the others.                              *)
(***************************************************************************)
EXTENDS BTreeNode

CONSTANTS
  Keys,        \* the ids a row may have
  HEADER_SIZE  \* sizeof(PageHeader), 29 in the code

VARIABLE
  page  \* slots: the offset and size in each Slot; lower_offset,
        \* upper_offset, garbage_cnt; data: the byte of a record, its row and
        \* place in the row, that was last written to each place

ASSUME KeysAssumption == Keys \subseteq Nat
ASSUME HeaderAssumption == HEADER_SIZE \in Nat

PAGE_SIZE == HEADER_SIZE + NODE_SPACE

NoByte == [row |-> [key |-> 0, val |-> CHOOSE v \in Values : TRUE], place |-> PAGE_SIZE]

-----------------------------------------------------------------------------
(* Bytes *)

Free(pg) == pg.upper_offset - pg.lower_offset

\* memcpy of a row's bytes to upper_offset, which moves down by their number.
Written(pg, row) ==
  LET to == pg.upper_offset - Size[row.val]
  IN [pg EXCEPT
        !.upper_offset = to,
        !.data = [b \in DOMAIN @ |-> IF b \in to .. to + Size[row.val] - 1
                                     THEN [row |-> row, place |-> b - to] ELSE @[b]]]

\* defragment: record by record in the order of slots, temp_upper moves down by
\* the record's size and the record is copied there from where the page has it.
Packed(pg) ==
  LET sums == Sums([i \in DOMAIN pg.slots |-> pg.slots[i].size])
      to(i) == PAGE_SIZE - sums[i]
      Into(b) == {i \in DOMAIN pg.slots : b \in to(i) .. to(i) + pg.slots[i].size - 1}
  IN [pg EXCEPT
        !.slots = [i \in DOMAIN @ |-> [@[i] EXCEPT !.offset = to(i)]],
        !.upper_offset = to(Len(pg.slots)),
        !.data = [b \in DOMAIN @ |->
                    IF Into(b) = {} THEN @[b]
                    ELSE LET i == CHOOSE i \in Into(b) : TRUE
                         IN @[pg.slots[i].offset + b - to(i)]]]
Defragmented_KeepsCount(pg) == Packed(pg)
Defragmented(pg) == [Packed(pg) EXCEPT !.garbage_cnt = 0]

\* init_new_page, which leaves the bytes there are.
Emptied(pg) ==
  [pg EXCEPT !.slots = <<>>, !.lower_offset = HEADER_SIZE,
             !.upper_offset = PAGE_SIZE, !.garbage_cnt = 0]

\* The bytes that no slot leads to are forgotten: nothing reads them.
Swept(pg) ==
  LET live == UNION {pg.slots[i].offset .. pg.slots[i].offset + pg.slots[i].size - 1 :
                       i \in DOMAIN pg.slots}
  IN [pg EXCEPT !.data = [b \in DOMAIN @ |-> IF b \in live THEN @[b] ELSE NoByte]]

\* The row that get_record reads from slot i.
Row(i) == page.data[page.slots[i].offset].row
Stored == [i \in DOMAIN page.slots |-> Row(i)]

-----------------------------------------------------------------------------
(* Operations *)

Init ==
  page = Emptied([slots |-> <<>>, lower_offset |-> 0, upper_offset |-> 0, garbage_cnt |-> 0,
                  data |-> [b \in HEADER_SIZE .. PAGE_SIZE - 1 |-> NoByte]])

\* insert_record, at the slot where find says the row belongs.
InsertRecord_AtEnd(row) ==
  LET need == Size[row.val] + SLOT_SIZE
      i == Len(page.slots) + 1
      t == Written(IF Free(page) < need THEN Defragmented(page) ELSE page, row)
  IN /\ ~Holds(Stored, row.key)
     /\ Free(page) + page.garbage_cnt >= need
     /\ page' = Swept([t EXCEPT
                   !.slots = InsertAt(@, i, [offset |-> t.upper_offset, size |-> Size[row.val]]),
                   !.lower_offset = @ + SLOT_SIZE])
InsertRecord(row) ==
  LET need == Size[row.val] + SLOT_SIZE
      i == SlotOf(Stored, row.key)
      t == Written(IF Free(page) < need THEN Defragmented(page) ELSE page, row)
  IN /\ ~Holds(Stored, row.key)
     /\ Free(page) + page.garbage_cnt >= need
     /\ page' = Swept([t EXCEPT
                   !.slots = InsertAt(@, i, [offset |-> t.upper_offset, size |-> Size[row.val]]),
                   !.lower_offset = @ + SLOT_SIZE])

\* remove_record
RemoveRecord_Uncounted(k) ==
  LET i == SlotOf(Stored, k)
  IN /\ Holds(Stored, k)
     /\ page' = Swept([page EXCEPT !.slots = RemoveAt(@, i), !.lower_offset = @ - SLOT_SIZE])
RemoveRecord(k) ==
  LET i == SlotOf(Stored, k)
  IN /\ Holds(Stored, k)
     /\ page' = Swept([page EXCEPT !.garbage_cnt = @ + page.slots[i].size,
                             !.slots = RemoveAt(@, i),
                             !.lower_offset = @ - SLOT_SIZE])

\* update_record, in place when the new row is not longer than the old one.
UpdateInPlace(k, v) ==
  LET i == SlotOf(Stored, k)
      slot == page.slots[i]
      t == Written([page EXCEPT !.upper_offset = slot.offset + Size[v]], [key |-> k, val |-> v])
  IN /\ Holds(Stored, k)
     /\ slot.size >= Size[v]
     /\ page' = Swept([t EXCEPT !.upper_offset = page.upper_offset,
                          !.garbage_cnt = @ + slot.size - Size[v],
                          !.slots[i].size = Size[v]])

\* update_record otherwise: its old bytes count as garbage once it has moved.
UpdateMoves_StaleSlot(k, v) ==
  LET i == SlotOf(Stored, k)
      old == page.slots[i].size
      t == Written(IF Free(page) < Size[v] THEN Defragmented(page) ELSE page,
                   [key |-> k, val |-> v])
  IN /\ Holds(Stored, k)
     /\ old < Size[v]
     /\ page.garbage_cnt + Free(page) >= Size[v]
     /\ page' = Swept([t EXCEPT !.garbage_cnt = @ + old, !.slots[i].size = Size[v]])
UpdateMoves(k, v) ==
  LET i == SlotOf(Stored, k)
      old == page.slots[i].size
      t == Written(IF Free(page) < Size[v] THEN Defragmented(page) ELSE page,
                   [key |-> k, val |-> v])
  IN /\ Holds(Stored, k)
     /\ old < Size[v]
     /\ page.garbage_cnt + Free(page) >= Size[v]
     /\ page' = Swept([t EXCEPT !.garbage_cnt = @ + old,
                          !.slots[i] = [offset |-> t.upper_offset, size |-> Size[v]]])

\* The half of split_leaf_node that concerns the page split.
Halve ==
  LET half == Len(page.slots) \div 2
  IN page' = Swept(Defragmented([page EXCEPT !.slots = SubSeq(@, 1, half),
                                       !.lower_offset = HEADER_SIZE + SLOT_SIZE * half]))

\* The page is freed and allocated again.
Reuse == page' = Swept(Emptied(page))

Next ==
  \/ \E k \in Keys, v \in Values : InsertRecord([key |-> k, val |-> v])
  \/ \E k \in Keys : RemoveRecord(k)
  \/ \E k \in Keys, v \in Values : UpdateInPlace(k, v) \/ UpdateMoves(k, v)
  \/ Halve
  \/ Reuse

Spec == Init /\ [][Next]_page

-----------------------------------------------------------------------------
(* Properties *)

\* The offsets are those of places in the page, and every slot is in it.
TypeOK ==
  /\ page.slots \in Seq([offset : HEADER_SIZE .. PAGE_SIZE - 1, size : {Size[v] : v \in Values}])
  /\ page.lower_offset \in HEADER_SIZE .. PAGE_SIZE
  /\ page.upper_offset \in HEADER_SIZE .. PAGE_SIZE
  /\ page.garbage_cnt \in 0 .. NODE_SPACE

\* Records overlap neither each other nor the slots, however often they were
\* moved: each slot's bytes are those of one row, from its first to its last.
RecordsIntact ==
  /\ page.lower_offset = HEADER_SIZE + SLOT_SIZE * Len(page.slots)
  /\ page.lower_offset <= page.upper_offset
  /\ \A i \in DOMAIN page.slots :
       LET slot == page.slots[i]
       IN /\ slot.offset >= page.upper_offset
          /\ slot.size = Size[Row(i).val]
          /\ \A b \in 0 .. slot.size - 1 :
               page.data[slot.offset + b] = [row |-> Row(i), place |-> b]

\* The slots are in the order of the rows' ids, one row to an id: the binary
\* search of find goes by it, and so does SlotOf, which stands for it here.
RowsInOrder ==
  \A i, j \in DOMAIN page.slots : i < j => Row(i).key < Row(j).key

\* No byte is leaked or counted twice: what the records and slots take and
\* what the page has left, its garbage included, are the page.  The test
\* whether a page is underflowed and whether a row fits rest on this.
SpaceAccounted ==
  Taken(Stored) + Free(page) + page.garbage_cnt = NODE_SPACE

\* The page is the sequence of rows the tree takes it for.
Leaf == INSTANCE LeafRows WITH rows <- Stored
ImplementsLeafRows == Leaf!Spec
=============================================================================
