------------------------------ MODULE MCBTree ------------------------------
(***************************************************************************)
(* Instances of BTree for TLC.  Slots and cells have the code's sizes and  *)
(* a page the smallest for which nodes behave as those of 8192 bytes: it   *)
(* holds 4 cells and underflows below 2, where the code's node holds 1020  *)
(* and underflows below 511.                                               *)
(***************************************************************************)
EXTENDS BTree

\* Every row takes half a page: a leaf underflows when it is empty.
HalfPage == [v \in Values |-> 12]

\* A small row takes a quarter of a page, a big one half.
Mixed == [v \in Values |-> IF v = "small" THEN 4 ELSE 12]

\* A big row takes more than half a page.
Huge == [v \in Values |-> IF v = "small" THEN 3 ELSE 16]

\* Rows are inserted with one value, and one of them at a time has been given the other.
FewNext ==
  \/ Insert("v")
  \/ \E k \in Ids : Delete(k)
  \/ \E k \in Ids : /\ \A row \in Found : row.val = "v"
                    /\ Update(k, "w")
FewSpec == Init /\ [][FewNext]_db

\* The table first grows to MAX_ROWS small rows; the other calls come then.
GrownNext ==
  \/ Insert("small")
  \/ /\ db.next_row = MAX_ROWS
     /\ \/ \E k \in Ids, v \in Values : Update(k, v)
        \/ \E k \in Ids : Delete(k)
GrownSpec == Init /\ [][GrownNext]_db
=============================================================================
