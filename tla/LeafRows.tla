------------------------------ MODULE LeafRows ------------------------------
(***************************************************************************)
(* What a leaf promises to the tree: a sequence of rows, to which a row is *)
(* added, or in which one is changed, exactly when there is space for it.  *)
(* BTree is written on this promise; SlottedPage keeps it.                 *)
(***************************************************************************)
EXTENDS BTreeNode

CONSTANT Keys   \* the ids a row may have

VARIABLE rows

Init == rows = <<>>

Insert(row) ==
  /\ ~Holds(rows, row.key)
  /\ rows' = Inserted(rows, SlotOf(rows, row.key), row)

Update(k, v) ==
  /\ Holds(rows, k)
  /\ UpdateFits(rows, SlotOf(rows, k), v)
  /\ rows' = [rows EXCEPT ![SlotOf(rows, k)].val = v]

Delete(k) ==
  /\ Holds(rows, k)
  /\ rows' = RemoveAt(rows, SlotOf(rows, k))

\* A split leaves the first half.
Halve == rows' = SubSeq(rows, 1, Len(rows) \div 2)

Reuse == rows' = <<>>

Next ==
  \/ \E k \in Keys, v \in Values : Insert([key |-> k, val |-> v])
  \/ \E k \in Keys, v \in Values : Update(k, v)
  \/ \E k \in Keys : Delete(k)
  \/ Halve
  \/ Reuse

Spec == Init /\ [][Next]_rows
=============================================================================
