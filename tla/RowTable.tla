------------------------------ MODULE RowTable ------------------------------
(***************************************************************************)
(* What the B+tree promises to the executors: a set of rows with distinct  *)
(* ids, each of which is there until it is deleted.  Ids are given out in  *)
(* increasing order and never again.                                       *)
(***************************************************************************)
EXTENDS Naturals

CONSTANTS
  Values,    \* what a row may hold
  MAX_ROWS   \* bound on the row ids

VARIABLES
  rows,      \* the rows: [key, val]
  next_row   \* the next id

vars == <<rows, next_row>>

Init == rows = {} /\ next_row = 0

\* The rows with a new one of value v, with row k changed to v if there is one, and
\* without row k.
With(v) == rows \cup {[key |-> next_row, val |-> v]}
Changed(k, v) == {IF row.key = k THEN [row EXCEPT !.val = v] ELSE row : row \in rows}
Without(k) == {row \in rows : row.key # k}

Insert(v) ==
  /\ next_row < MAX_ROWS
  /\ next_row' = next_row + 1
  /\ rows' = With(v)

Update(k, v) ==
  /\ next_row' = next_row
  /\ rows' = Changed(k, v)

Delete(k) ==
  /\ next_row' = next_row
  /\ rows' = Without(k)

Next ==
  \/ \E v \in Values : Insert(v)
  \/ \E k \in 0 .. MAX_ROWS - 1 : Delete(k) \/ \E v \in Values : Update(k, v)

Spec == Init /\ [][Next]_vars
=============================================================================
