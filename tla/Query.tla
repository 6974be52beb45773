------------------------------- MODULE Query -------------------------------
(***************************************************************************)
(* Statements over the B+tree: the lines of module Compiler, the scan of   *)
(* src/cursor.cpp and the executors of src/executor.  A statement runs a pipeline over a cursor:  *)
(* scan, then its clauses, then the update or deletion of what comes out.  *)
(* Nothing runs beside it, but an update or a deletion changes the tree    *)
(* under the cursor of the statement itself, one row at a time.            *)
(***************************************************************************)
EXTENDS BTree, Compiler

CONSTANTS
  Lines,  \* the lines that are issued
  SLOTS   \* values of the cursor's uint16_t slot_index, 2^16

ASSUME SlotAssumption == SLOTS \in Nat \ {0}

\* Lines are words, numerals are numbers, and Values has the rows that the lines insert or
\* bring.
ASSUME LineAssumption ==
  /\ \A word \in Numerals : ValueOf(word) \in Nat
  /\ \A line \in Lines :
       LET prepared == Prepare(line)
       IN /\ line \in Seq(STRING)
          /\ prepared.result = "success" /\ prepared.statement.type \in {"insert", "update_all"}
               => prepared.statement.val \in Values

VARIABLE
  run  \* the statement that runs, or Idle:
       \* its fields; counts: LimitExecutor::cnt of each clause; pull: the
       \* clauses the next row is asked through; cursor; out: the rows returned;
       \* before: the rows of each leaf when it began, for the properties alone

vars == <<db, run>>

Idle == [type |-> "idle"]

QueryInit == Init /\ run = Idle

-----------------------------------------------------------------------------
(* The cursor *)

RowsAt(c) == db.page[c.page].rows

\* Cursor::end_of_table
EndOfTable(c) ==
  IF c.page = 0 THEN TRUE
  ELSE Len(RowsAt(c)) <= c.slot /\ db.page[c.page].next = 0

\* A turn of the loop of Cursor::advance, which tests the next leaf for the end
\* of the table at the old slot_index.
AtRow(c) == c.slot < Len(RowsAt(c))
OnNextLeaf(c) ==
  LET next == [c EXCEPT !.page = db.page[c.page].next]
  IN IF EndOfTable(next) THEN next ELSE [next EXCEPT !.slot = 0]

\* The loop, from a slot_index that is past the row read: it ends at a row or at
\* the end of the table, and has no more turns than there are pages.
Settled_StaysOnLeaf(cursor) == IF AtRow(cursor) THEN cursor ELSE [cursor EXCEPT !.page = 0]
Settled(cursor) ==
  LET moved[turns \in 1 .. Len(db.page)] ==
        IF turns = 1 THEN OnNextLeaf(cursor)
        ELSE LET c == moved[turns - 1]
             IN IF EndOfTable(c) \/ AtRow(c) THEN c ELSE OnNextLeaf(c)
  IN IF AtRow(cursor) THEN cursor ELSE moved[Len(db.page)]
Advanced_StaysAtRow(c) == Settled(c)
Advanced_StaysOnPage(c) == [c EXCEPT !.slot = (c.slot + 1) % SLOTS]
Advanced(c) == Settled([c EXCEPT !.slot = (c.slot + 1) % SLOTS])

\* ScanExecutor::decrement_cursor
Decremented(c) == [c EXCEPT !.slot = (c.slot + SLOTS - 1) % SLOTS]

-----------------------------------------------------------------------------
(* The pipeline *)

Matches(where, k) ==
  CASE where.op = "="  -> k = where.value
    [] where.op = "!=" -> k # where.value
    [] where.op = ">"  -> k > where.value
    [] where.op = ">=" -> k >= where.value
    [] where.op = "<"  -> k < where.value
    [] where.op = "<=" -> k <= where.value

\* A limit among the clauses asked has been reached.
LimitReached_OneMore(r) ==
  \E j \in 1 .. r.pull : r.clauses[j].kind = "limit" /\ r.counts[j] > r.clauses[j].cnt
LimitReached(r) ==
  \E j \in 1 .. r.pull : r.clauses[j].kind = "limit" /\ r.counts[j] >= r.clauses[j].cnt

Counted(r) == [j \in DOMAIN r.counts |-> r.counts[j] + IF j <= r.pull THEN 1 ELSE 0]

\* The clauses that keep row k from the one above them.
Rejecting(r, k) ==
  {j \in DOMAIN r.clauses : r.clauses[j].kind = "where" /\ ~Matches(r.clauses[j], k)}

\* build_pipeline puts an executor that changes rows on top of a statement with
\* "*" alone, and nothing looks at target_id.
Updates(r) == r.type = "update_all"
Deletes(r) == r.type = "delete_all"

-----------------------------------------------------------------------------
(* Execution *)

\* An INSERT is a single call of the tree.
InsertRow(v) ==
  /\ Insert(v)
  /\ UNCHANGED run

\* The rows of the table, leaf by leaf.
RowsByLeaf == LET leaves == Leaves IN [i \in DOMAIN leaves |-> db.page[leaves[i]].rows]

\* build_pipeline and init: begin places the cursor, or the database is empty.
Start(st) ==
  /\ ~db.fault
  /\ run' = IF ~Begin THEN Idle
            ELSE [type |-> st.type, target_id |-> st.target_id, val |-> st.val,
                  clauses |-> st.clauses,
                  counts |-> [j \in DOMAIN st.clauses |-> 0],
                  pull |-> Len(st.clauses),
                  cursor |-> [page |-> FirstLeaf, slot |-> 0],
                  out |-> <<>>,
                  before |-> RowsByLeaf]
  /\ UNCHANGED db

\* A line that is no statement does nothing.
Execute(line) ==
  LET prepared == Prepare(line)
  IN /\ run = Idle
     /\ prepared.result = "success"
     /\ IF prepared.statement.type = "insert" THEN InsertRow(prepared.statement.val)
        ELSE Start(prepared.statement)

Finish ==
  /\ run # Idle
  /\ LimitReached(run) \/ EndOfTable(run.cursor)
  /\ run' = Idle
  /\ UNCHANGED db

\* The scan is asked for a row.
Asks ==
  /\ run # Idle
  /\ ~LimitReached(run)
  /\ ~EndOfTable(run.cursor)

\* The slot the cursor is at holds no row: what is read is anyone's guess.
ReadStale ==
  /\ Asks
  /\ run.cursor.slot >= Len(RowsAt(run.cursor))
  /\ db' = Fault(db)
  /\ run' = Idle

Scanned == RowsAt(run.cursor)[run.cursor.slot + 1]
Scans == Asks /\ run.cursor.slot < Len(RowsAt(run.cursor))

\* A WHERE turns the row down and asks for another one itself.
Skip_Stays ==
  LET at == Rejecting(run, Scanned.key)
  IN /\ Scans
     /\ at # {}
     /\ run' = [run EXCEPT !.pull = (CHOOSE j \in at : \A i \in at : j <= i) - 1]
     /\ UNCHANGED db
Skip ==
  LET at == Rejecting(run, Scanned.key)
  IN /\ Scans
     /\ at # {}
     /\ run' = [run EXCEPT !.cursor = Advanced(@),
                           !.counts = Counted(run),
                           !.pull = (CHOOSE j \in at : \A i \in at : j <= i) - 1]
     /\ UNCHANGED db

\* The row comes out of the clauses; the scan has moved on before it is changed.
Returned(cursor) ==
  [run EXCEPT !.cursor = cursor,
              !.counts = Counted(run),
              !.pull = Len(run.clauses),
              !.out = Append(@, Scanned)]
Emits == Scans /\ Rejecting(run, Scanned.key) = {}

Select ==
  /\ Emits
  /\ ~Updates(run) /\ ~Deletes(run)
  /\ run' = Returned(Advanced(run.cursor))
  /\ UNCHANGED db

UpdateRow ==
  /\ Emits
  /\ Updates(run)
  /\ Update(Scanned.key, run.val)
  /\ run' = Returned(Advanced(run.cursor))

DeleteRow_NoStepBack ==
  /\ Emits
  /\ Deletes(run)
  /\ Delete(Scanned.key)
  /\ run' = Returned(Advanced(run.cursor))
DeleteRow ==
  /\ Emits
  /\ Deletes(run)
  /\ Delete(Scanned.key)
  /\ run' = Returned(Decremented(Advanced(run.cursor)))

Work == Finish \/ ReadStale \/ Skip \/ Select \/ UpdateRow \/ DeleteRow
QueryNext ==
  \/ \E line \in Lines : Execute(line)
  \/ Work

QuerySpec == QueryInit /\ [][QueryNext]_vars

-----------------------------------------------------------------------------
(* What a statement is to do *)

Kept(rows, clause) ==
  IF clause.kind = "where" THEN SelectSeq(rows, LAMBDA row : Matches(clause, row.key))
  ELSE SubSeq(rows, 1, IF clause.cnt < Len(rows) THEN clause.cnt ELSE Len(rows))
\* The rows that come out of the clauses, one clause after the other.
Answer(clauses, rows) == FoldLeft(Kept, rows, clauses)

\* The rows of a table whose scan ends before its last leaf when that holds
\* no more rows than the one before it.
ReachedBy(leaves) ==
  LET n == Len(leaves)
  IN FlattenSeq(IF n > 1 /\ Len(leaves[n]) <= Len(leaves[n - 1])
                THEN Front(leaves) ELSE leaves)
Before == FlattenSeq(run.before)

\* A statement answers with rows there were, in the order of their ids and never
\* the same one twice, even while its own deletions move rows under its cursor.
AnswersInOrder ==
  run # Idle =>
    /\ \A i, j \in DOMAIN run.out : i < j => run.out[i].key < run.out[j].key
    /\ \A i \in DOMAIN run.out : run.out[i] \in ToSet(Before)

\* A statement answers with no row that one of its WHEREs excludes, and never with more
\* rows than one of its LIMITs allows, whichever executor of the pipeline asks again.
ClausesObeyed ==
  run # Idle =>
    /\ \A i \in DOMAIN run.out : Rejecting(run, run.out[i].key) = {}
    /\ \A i \in DOMAIN run.clauses :
         run.clauses[i].kind = "limit" => Len(run.out) <= run.clauses[i].cnt

\* The rows there are when a statement begins are as long as the one it brings.
SameLength == \A row \in ToSet(Before) : Size[row.val] = Size[run.val]

\* What a SELECT * answers, or an UPDATE * of equally long rows, is what its clauses
\* leave, one after the other, of the rows the scan reaches.
ScanAnswersExactly ==
  [][Finish /\ (run.type = "select_all" \/ (Updates(run) /\ SameLength))
       => run.out = Answer(run.clauses, ReachedBy(run.before))]_vars

\* When a statement over all rows ("*") ends, the rows it answered with are changed or
\* gone, as it asked, and every other row is what it was, even if its updates
\* split the leaf under the scan.  (A statement of one id: see UpdateOfOneRow.)
ChangesWhatItAnswers ==
  [][Finish =>
       /\ run.type = "select_all" => Found = ToSet(Before)
       /\ Updates(run) =>
            Found = {IF row \in ToSet(run.out) THEN [row EXCEPT !.val = run.val] ELSE row :
                       row \in ToSet(Before)}
       /\ Deletes(run) => Found = ToSet(Before) \ ToSet(run.out)]_vars

\* No row with its slot takes more than a quarter of a page, and every leaf has more than one,
\* unless it is the only one.
ShortRows ==
  \A rows \in ToSet(run.before) :
    /\ \A row \in ToSet(rows) : 4 * Cost(row) <= NODE_SPACE
    /\ Len(rows) > 1 \/ Len(run.before) = 1

\* A DELETE without clauses stays on the first leaf, into which the others are
\* merged, and leaves no row, if it finds short rows.  (From a leaf of one row the scan moves on
\* to its neighbour before the row is deleted and the neighbour's rows come to the leaf: then
\* rows are left behind, as in DeleteComplete.  Long rows lead there, and an
\* UPDATE to shorter ones, which balances nothing.)
DeleteAllLeavesNone ==
  [][Finish /\ Deletes(run) /\ run.clauses = <<>> /\ ShortRows => Found = {}]_vars

\* src/main.cpp:81, "SELECT * (gets all records)": what it gets is what its
\* clauses leave of all the rows.
SelectComplete ==
  [][Finish /\ run.type = "select_all"
       => run.out = Answer(run.clauses, Before)]_vars

\* src/main.cpp:84 and 86, "DELETE *" with "WHERE": it deletes what its clauses
\* leave of all the rows.
DeleteComplete ==
  [][Finish /\ Deletes(run) => run.out = Answer(run.clauses, Before)]_vars

\* src/main.cpp:83, "UPDATE * / <id> <name> <email>": after an UPDATE of one id, the row
\* with that id, if there is one, has the name and email of such a line.
UpdateOfOneRow ==
  [][Finish /\ run.type = "update" =>
       \A row \in Found :
         row.key = run.target_id =>
           \E line \in Lines : /\ TypeSaid(line) = "update"
                              /\ ValueOf(line[2]) = run.target_id
                              /\ row.val = SubSeq(line, 3, 4)]_vars

\* While a statement runs that changes no row, or none in its length, the
\* cursor is at the end of the table or at a row: advance leaves it nowhere else.
\* (A deletion, or an update that splits the leaf, may: see ReadStale.)
CursorAtRow ==
  /\ run # Idle
  /\ ~Deletes(run)
  /\ Updates(run) => SameLength
  => EndOfTable(run.cursor) \/ run.cursor.slot < Len(RowsAt(run.cursor))
=============================================================================
