---------------------------- MODULE QueryProofs ----------------------------
(***************************************************************************)
(* What the executors give out, for every line, every table and every      *)
(* number of clauses.  What a WHERE lets through is a matter of the row at *)
(* hand; what a LIMIT lets through is one of counting, since a WHERE above *)
(* it asks again for a row that is turned down: a limit's count is never   *)
(* less than the rows that have come out.                                  *)
(***************************************************************************)
EXTENDS Query, BTreeProofs

-----------------------------------------------------------------------------
(* The clauses of a line *)

Clause == [kind : {"where"}, op : Comparisons, value : Nat] \cup [kind : {"limit"}, cnt : Nat]
Streams == [words : Seq(STRING), failed : BOOLEAN]
\* A statement as st, with any clauses, and the states of the loop that reads them.
Statements(st) ==
  [type : {st.type}, target_id : {st.target_id}, val : {st.val}, clauses : Seq(Clause)]
Loops(st) ==
  [result : {"more", "success", "syntax_error"}, statement : Statements(st), stream : Streams]

\* What is left of a line.
LEMMA TailIs ==
  ASSUME NEW S, NEW w \in Seq(S), w # <<>>
  PROVE  Tail(w) \in Seq(S)
OBVIOUS

\* operator>> gives a word of the stream and what comes after it, for a number too.
LEMMA ReadIs ==
  ASSUME NEW s \in Streams
  PROVE  /\ Read(s) \in Streams
         /\ IsNumber(s) => Word(s) \in Numerals
<1>1. s.words \in Seq(STRING) /\ s.failed \in BOOLEAN
  BY DEF Streams
<1>2. CASE Has(s)
  <2>1. Tail(s.words) \in Seq(STRING)
    BY <1>1, <1>2, TailIs DEF Has
  <2>2. [s EXCEPT !.words = Tail(@)] \in Streams
    BY <2>1 DEF Streams
  <2> QED
    BY <1>2, <2>2 DEF Read, IsNumber, Word
<1>3. CASE ~Has(s)
  <2>1. [s EXCEPT !.failed = TRUE] \in Streams
    BY DEF Streams
  <2> QED
    BY <1>3, <2>1 DEF Read, IsNumber
<1> QED
  BY <1>2, <1>3

\* The loop with one clause more.
LEMMA WithClause ==
  ASSUME NEW st, NEW x \in Loops(st), NEW c \in Clause, NEW s \in Streams
  PROVE  [x EXCEPT !.statement.clauses = Append(@, c), !.stream = s] \in Loops(st)
<1>1. x.statement \in Statements(st) /\ x.statement.clauses \in Seq(Clause)
  BY DEF Loops, Statements
<1>2. Append(x.statement.clauses, c) \in Seq(Clause)
  BY <1>1
<1>3. PICK t \in Statements(st) : t = [x.statement EXCEPT !.clauses = Append(@, c)]
  BY <1>1, <1>2 DEF Statements
<1>4. [x EXCEPT !.statement = t, !.stream = s] \in Loops(st)
  BY <1>3 DEF Loops
<1>5. [x EXCEPT !.statement.clauses = Append(@, c), !.stream = s]
      = [x EXCEPT !.statement = t, !.stream = s]
  BY <1>3 DEF Loops
<1> QED
  BY <1>4, <1>5

\* A turn of the loop, whatever it read.
LEMMA TurnIn ==
  ASSUME NEW st, NEW x \in Loops(st)
  PROVE  Turn(x) \in Loops(st)
<1> DEFINE clause == Upper(Word(x.stream))
           operand == Read(x.stream)
           value == IF clause = "WHERE" THEN Read(operand) ELSE operand
           where == [kind |-> "where", op |-> Word(operand), value |-> ValueOf(Word(value))]
           limit == [kind |-> "limit", cnt |-> ValueOf(Word(value))]
           With(c) == [x EXCEPT !.statement.clauses = Append(@, c), !.stream = Read(value)]
<1>1. x.stream \in Streams /\ operand \in Streams /\ value \in Streams /\ Read(value) \in Streams
  BY ReadIs DEF Loops
<1>2. IsNumber(value) => ValueOf(Word(value)) \in Nat
  BY <1>1, ReadIs, LineAssumption
<1>3. Word(operand) \in Comparisons /\ IsNumber(value) => where \in Clause
  BY <1>2 DEF Clause
<1>4. IsNumber(value) => limit \in Clause
  BY <1>2 DEF Clause
<1>5. \A c \in Clause : With(c) \in Loops(st)
  BY <1>1, WithClause
<1>6. [x EXCEPT !.result = "success"] \in Loops(st) /\ [x EXCEPT !.result = "syntax_error"] \in Loops(st)
  BY DEF Loops
<1>7. [x EXCEPT !.stream = operand] \in Loops(st)
  BY <1>1 DEF Loops
<1>8. Turn(x) =
        IF x.result # "more" THEN x
        ELSE IF operand.failed THEN [x EXCEPT !.result = "success"]
        ELSE IF clause = "WHERE"
             THEN IF Word(operand) \in Comparisons /\ IsNumber(value) THEN With(where)
                  ELSE [x EXCEPT !.result = "syntax_error"]
        ELSE IF clause = "LIMIT"
             THEN IF IsNumber(value) THEN With(limit) ELSE [x EXCEPT !.result = "syntax_error"]
        ELSE [x EXCEPT !.stream = operand]
  BY DEF Turn
<1> HIDE DEF clause, operand, value, where, limit, With
<1> QED
  BY <1>3, <1>4, <1>5, <1>6, <1>7, <1>8

\* The loop over the clauses gives the statement clauses of the two kinds, with numbers in them.
LEMMA ClausesAre ==
  ASSUME NEW st, st \in Statements(st), NEW s \in Streams
  PROVE  WithClauses(st, s) \in Loops(st)
<1>1. PICK n \in Nat : n = Len(s.words) + 1
  BY DEF Streams
<1> DEFINE z == [result |-> "more", statement |-> st, stream |-> s]
           X == [i \in 0 .. n |-> Loops(st)]
           G == [i \in 1 .. n |-> [x \in Loops(st) |-> Turn(x)]]
<1>2. z \in X[0]
  BY DEF Loops
<1>3. \A i \in 1 .. n : \A x \in Loops(st) : X[i - 1] = Loops(st) /\ X[i] = Loops(st) /\ G[i][x] = Turn(x)
  OBVIOUS
<1>4. X[n] = Loops(st) /\ X[0] = Loops(st)
  OBVIOUS
<1> HIDE DEF z, X, G
<1>5. Closed(n, X, G)
  <2>1. ASSUME NEW i \in 1 .. n, NEW x \in X[i - 1] PROVE G[i][x] \in X[i]
    <3>1. X[i - 1] = Loops(st) /\ X[i] = Loops(st)
      BY DEF X
    <3> QED
      BY <1>3, <3>1, TurnIn
  <2> QED
    BY <2>1 DEF Closed
<1>6. \E f : f = [i \in 0 .. n |-> IF i = 0 THEN z ELSE Turn(f[i - 1])]
  <2>1. PICK f : IsRun(f, n, X, G, z)
    BY <1>2, <1>5, Recursion
  <2>2. ASSUME NEW i \in 0 .. n PROVE f[i] = IF i = 0 THEN z ELSE Turn(f[i - 1])
    <3>1. f[i] = IF i = 0 THEN z ELSE G[i][f[i - 1]]
      BY <2>1 DEF IsRun
    <3>2. i # 0 => i \in 1 .. n /\ i - 1 \in 0 .. n /\ f[i - 1] \in X[i - 1]
      BY <2>1 DEF IsRun
    <3>3. i # 0 => X[i - 1] = Loops(st)
      BY <1>2, <1>3, <1>4, <3>2
    <3> QED
      BY <1>3, <3>1, <3>2, <3>3
  <2>3. f = [i \in 0 .. n |-> f[i]]
    BY <2>1 DEF IsRun
  <2> QED
    BY <2>2, <2>3
<1> DEFINE loop == CHOOSE f : f = [i \in 0 .. n |-> IF i = 0 THEN z ELSE Turn(f[i - 1])]
<1>7. loop = [i \in 0 .. n |-> IF i = 0 THEN z ELSE Turn(loop[i - 1])]
  BY <1>6
<1>8. WithClauses(st, s) = loop[n]
  BY <1>1 DEF WithClauses, z
<1> HIDE DEF loop
<1> DEFINE P == {i \in 0 .. n : loop[i] \in Loops(st)}
<1>9. 0 \in P
  BY <1>2, <1>4, <1>7
<1>10. ASSUME NEW i \in 1 .. n, i - 1 \in P PROVE i \in P
  <2>1. loop[i] = Turn(loop[i - 1]) /\ loop[i - 1] \in Loops(st)
    BY <1>7, <1>10
  <2> QED
    BY <2>1, TurnIn
<1> HIDE DEF P
<1>11. n \in P
  BY <1>9, <1>10, UpTo
<1> QED
  BY <1>8, <1>11 DEF P

\* The statement of a line, whatever its type.
LEMMA CompiledIs ==
  ASSUME NEW type, NEW id, NEW s \in Streams, NEW p, p = Compiled(type, id, s), p.result = "success"
  PROVE  p.statement.clauses \in Seq(Clause) /\ p.statement.type = type
<1> DEFINE rest == IF type \in TakesRow THEN Read(Read(s)) ELSE s
           row == IF type \in TakesRow THEN <<Word(s), Word(Read(s))>> ELSE <<"", "">>
           st == [type |-> type, target_id |-> id, val |-> row, clauses |-> <<>>]
<1>1. rest \in Streams
  BY ReadIs
<1>2. st \in Statements(st) /\ st.type = type
  BY DEF Statements
<1>3. Compiled(type, id, s) = IF rest.failed THEN SyntaxError ELSE WithClauses(st, rest)
  BY DEF Compiled
<1> HIDE DEF rest, row, st
<1>4. p = WithClauses(st, rest)
  BY <1>3 DEF SyntaxError
<1>5. p \in Loops(st)
  BY <1>1, <1>2, <1>4, ClausesAre
<1> QED
  BY <1>2, <1>5 DEF Loops, Statements

StatementTypes == {"insert", "select", "select_all", "update", "update_all", "delete", "delete_all"}
\* What prepare_statement makes of a line has clauses that can be asked.
LEMMA PreparedIs ==
  ASSUME NEW line \in Lines, NEW p, p = Prepare(line), p.result = "success"
  PROVE  p.statement.clauses \in Seq(Clause) /\ p.statement.type \in StatementTypes
<1>1. Stream(line) \in Streams
  <2>1. line \in Seq(STRING)
    BY LineAssumption
  <2> QED
    BY <2>1 DEF Stream, Streams
<1>2. PICK s \in Streams : s = Read(Stream(line))
  BY <1>1, ReadIs
<1>3. Read(s) \in Streams
  BY ReadIs
<1>4. ASSUME NEW all \in StatementTypes, NEW one \in StatementTypes, p = Targeted(all, one, s)
      PROVE  p.statement.clauses \in Seq(Clause) /\ p.statement.type \in StatementTypes
  <2>1. \/ p = Compiled(all, 0, Read(s))
        \/ \E id : p = Compiled(one, id, Read(s))
    BY <1>4 DEF Targeted, SyntaxError
  <2> QED
    BY <1>3, <2>1, CompiledIs
<1>5. \/ p = Compiled("insert", 0, s)
      \/ \E all, one \in StatementTypes : p = Targeted(all, one, s)
  BY <1>2 DEF Prepare, Unrecognized, StatementTypes
<1>6. "insert" \in StatementTypes
  BY DEF StatementTypes
<1> QED
  BY <1>4, <1>5, <1>6, CompiledIs
-----------------------------------------------------------------------------
(* What the clauses let through *)

Fields == {"type", "target_id", "val", "clauses", "counts", "pull", "cursor", "out", "before"}

\* A row that is kept from the clauses above has been counted once more by those that
\* are not asked for the next one.
Tally(r, j) == Len(r.out) + IF j <= r.pull THEN 0 ELSE 1
TallyInv(r) ==
  /\ DOMAIN r = Fields
  /\ r.clauses \in Seq(Clause)
  /\ r.counts \in [1 .. Len(r.clauses) -> Nat]
  /\ r.pull \in 0 .. Len(r.clauses)
  /\ \E S : r.out \in Seq(S)
  /\ \A i \in 1 .. Len(r.out) : Rejecting(r, r.out[i].key) = {}
  /\ \A j \in 1 .. Len(r.clauses) :
       /\ Tally(r, j) <= r.counts[j]
       /\ r.clauses[j].kind = "limit" => r.counts[j] <= r.clauses[j].cnt
RunInv == run # Idle => TallyInv(run)

\* The rows that have come out, and the one a clause has let through.
LEMMA TallyIs ==
  ASSUME NEW r, NEW j, NEW m \in Nat, Len(r.out) = m
  PROVE  Tally(r, j) = IF j <= r.pull THEN m ELSE m + 1
BY DEF Tally

\* Counting right is enough.
LEMMA TallyObeys == RunInv => ClausesObeyed
<1>1. SUFFICES ASSUME RunInv, run # Idle
      PROVE  /\ \A i \in DOMAIN run.out : Rejecting(run, run.out[i].key) = {}
             /\ \A i \in DOMAIN run.clauses :
                  run.clauses[i].kind = "limit" => Len(run.out) <= run.clauses[i].cnt
  BY DEF ClausesObeyed
<1>2. TallyInv(run)
  BY <1>1 DEF RunInv
<1>3. PICK n \in Nat : n = Len(run.out) /\ DOMAIN run.out = 1 .. n
  BY <1>2 DEF TallyInv
<1>4. DOMAIN run.clauses = 1 .. Len(run.clauses)
  BY <1>2 DEF TallyInv
<1>5. ASSUME NEW i \in 1 .. Len(run.clauses), run.clauses[i].kind = "limit"
      PROVE  n <= run.clauses[i].cnt
  <2>1. Tally(run, i) <= run.counts[i] /\ run.counts[i] <= run.clauses[i].cnt /\ run.counts[i] \in Nat
    BY <1>2, <1>5 DEF TallyInv
  <2>2. run.clauses[i].cnt \in Nat
    <3>1. run.clauses[i] \in Clause
      BY <1>2 DEF TallyInv
    <3> QED
      BY <1>5, <3>1 DEF Clause
  <2>3. Tally(run, i) = n \/ Tally(run, i) = n + 1
    BY <1>3, TallyIs
  <2>4. PICK c, d \in Nat : c = run.counts[i] /\ d = run.clauses[i].cnt
    BY <2>1, <2>2
  <2> QED
    BY <2>1, <2>3, <2>4
<1> QED
  BY <1>2, <1>3, <1>4, <1>5 DEF TallyInv

\* The statement as it begins.
LEMMA StartTallies ==
  ASSUME NEW line \in Lines, NEW st, st = Prepare(line).statement, Prepare(line).result = "success",
         Start(st)
  PROVE  run' # Idle => TallyInv(run')
<1>1. SUFFICES ASSUME run' # Idle PROVE TallyInv(run')
  OBVIOUS
<1>2. st.clauses \in Seq(Clause)
  BY PreparedIs
<1>3. run' = [type |-> st.type, target_id |-> st.target_id, val |-> st.val,
              clauses |-> st.clauses,
              counts |-> [j \in DOMAIN st.clauses |-> 0],
              pull |-> Len(st.clauses),
              cursor |-> [page |-> FirstLeaf, slot |-> 0],
              out |-> <<>>,
              before |-> RowsByLeaf]
  BY <1>1 DEF Start
<1>4. PICK n \in Nat : n = Len(st.clauses) /\ DOMAIN st.clauses = 1 .. n
  BY <1>2
<1>5. DOMAIN run' = Fields
  BY <1>3 DEF Fields
<1>6. /\ run'.clauses = st.clauses /\ run'.counts = [j \in 1 .. n |-> 0] /\ run'.pull = n
      /\ run'.out = <<>>
  BY <1>3, <1>4
<1>7. ASSUME NEW j \in 1 .. n
      PROVE  /\ Tally(run', j) = 0 /\ run'.counts[j] = 0
             /\ run'.clauses[j].kind = "limit" => 0 <= run'.clauses[j].cnt
  <2>1. run'.clauses[j] \in Clause
    BY <1>2, <1>4, <1>6
  <2> QED
    BY <1>6, <2>1 DEF Tally, Clause
<1>8. <<>> \in Seq({}) /\ Len(<<>>) = 0
  OBVIOUS
<1>9. run'.counts \in [1 .. n -> Nat] /\ n \in 0 .. n
  BY <1>6
<1> QED
  BY <1>2, <1>4, <1>5, <1>6, <1>7, <1>8, <1>9 DEF TallyInv

\* Every clause that is asked counts.
LEMMA CountedIs ==
  ASSUME TallyInv(run), ~LimitReached(run)
  PROVE  /\ Counted(run) \in [1 .. Len(run.clauses) -> Nat]
         /\ \A j \in 1 .. Len(run.clauses) :
              /\ Len(run.out) + 1 <= Counted(run)[j]
              /\ run.clauses[j].kind = "limit" => Counted(run)[j] <= run.clauses[j].cnt
<1>1. PICK n \in Nat, m \in Nat : n = Len(run.clauses) /\ m = Len(run.out)
  BY DEF TallyInv
<1>2. DOMAIN run.counts = 1 .. n /\ run.pull \in 0 .. n /\ \A j \in 1 .. n : run.counts[j] \in Nat
  BY <1>1 DEF TallyInv
<1>3. Counted(run) = [j \in 1 .. n |-> run.counts[j] + IF j <= run.pull THEN 1 ELSE 0]
  BY <1>2 DEF Counted
<1>4. Counted(run) \in [1 .. n -> Nat]
  BY <1>2, <1>3
<1>5. ASSUME NEW j \in 1 .. n
      PROVE  /\ m + 1 <= Counted(run)[j]
             /\ run.clauses[j].kind = "limit" => Counted(run)[j] <= run.clauses[j].cnt
  <2>1. /\ Tally(run, j) <= run.counts[j]
        /\ run.clauses[j].kind = "limit" => run.counts[j] <= run.clauses[j].cnt
    BY <1>1 DEF TallyInv
  <2>2. run.clauses[j].kind = "limit" => run.clauses[j].cnt \in Nat
    <3>1. run.clauses[j] \in Clause
      BY <1>1 DEF TallyInv
    <3> QED
      BY <3>1 DEF Clause
  <2>3. CASE j <= run.pull
    <3>1. j \in 1 .. run.pull
      BY <1>2, <2>3
    <3>2. ~(run.clauses[j].kind = "limit" /\ run.counts[j] >= run.clauses[j].cnt)
      BY <3>1 DEF LimitReached
    <3>3. Counted(run)[j] = run.counts[j] + 1 /\ Tally(run, j) = m
      BY <1>1, <1>2, <1>3, <2>3 DEF Tally
    <3> QED
      BY <1>2, <2>1, <2>2, <3>2, <3>3
  <2>4. CASE ~(j <= run.pull)
    <3>1. Counted(run)[j] = run.counts[j] /\ Tally(run, j) = m + 1
      BY <1>1, <1>2, <1>3, <2>4 DEF Tally
    <3> QED
      BY <2>1, <3>1
  <2> QED
    BY <2>3, <2>4
<1> QED
  BY <1>1, <1>4, <1>5

\* A WHERE that turns a row down asks again, through the clauses below it.
LEMMA SkipTallies ==
  ASSUME TallyInv(run), Skip
  PROVE  TallyInv(run')
<1> DEFINE R == Rejecting(run, Scanned.key)
           first == CHOOSE j \in R : \A i \in R : j <= i
<1>1. PICK n \in Nat, m \in Nat : n = Len(run.clauses) /\ m = Len(run.out)
  BY DEF TallyInv
<1>2. ~LimitReached(run)
  BY DEF Skip, Scans, Asks
<1>3. R # {} /\ R \in SUBSET (1 .. n)
  BY <1>1 DEF Skip, Rejecting, TallyInv
<1>4. first \in 1 .. n
  <2>1. R \in SUBSET Nat
    BY <1>3
  <2>2. \E j \in R : \A i \in R : j <= i
    BY <1>3, <2>1, LeastNat
  <2>3. first \in R
    BY <2>2
  <2> QED
    BY <1>3, <2>3
<1> HIDE DEF R
<1>5. run' = [run EXCEPT !.cursor = Advanced(@), !.counts = Counted(run), !.pull = first - 1]
  BY DEF Skip, R
<1> HIDE DEF first
<1>6. /\ DOMAIN run' = Fields /\ run'.clauses = run.clauses /\ run'.out = run.out
      /\ run'.counts = Counted(run) /\ run'.pull = first - 1
  BY <1>5 DEF TallyInv, Fields
<1>7. first - 1 \in 0 .. n
  BY <1>4
<1>8. \A k : Rejecting(run', k) = Rejecting(run, k)
  BY <1>6 DEF Rejecting
<1>9. ASSUME NEW j \in 1 .. n
      PROVE  /\ Tally(run', j) <= run'.counts[j]
             /\ run'.clauses[j].kind = "limit" => run'.counts[j] <= run'.clauses[j].cnt
  <2>1. /\ m + 1 <= Counted(run)[j] /\ Counted(run)[j] \in Nat
        /\ run.clauses[j].kind = "limit" => Counted(run)[j] <= run.clauses[j].cnt
    BY <1>1, <1>2, CountedIs
  <2>2. Tally(run', j) = m \/ Tally(run', j) = m + 1
    BY <1>1, <1>6, TallyIs
  <2> QED
    BY <1>6, <2>1, <2>2
<1>10. run'.counts \in [1 .. n -> Nat]
  BY <1>1, <1>2, <1>6, CountedIs
<1> QED
  BY <1>1, <1>6, <1>7, <1>8, <1>9, <1>10 DEF TallyInv

\* A row comes out when no WHERE turns it down.
LEMMA ReturnTallies ==
  ASSUME TallyInv(run), Emits, NEW c, run' = Returned(c)
  PROVE  TallyInv(run')
<1>1. PICK n \in Nat, m \in Nat : n = Len(run.clauses) /\ m = Len(run.out)
  BY DEF TallyInv
<1>2. ~LimitReached(run) /\ Rejecting(run, Scanned.key) = {}
  BY DEF Emits, Scans, Asks
<1>3. /\ DOMAIN run' = Fields /\ run'.clauses = run.clauses /\ run'.out = Append(run.out, Scanned)
      /\ run'.counts = Counted(run) /\ run'.pull = n
  BY <1>1 DEF TallyInv, Fields, Returned
<1>4. PICK S : run.out \in Seq(S)
  BY DEF TallyInv
<1>5. PICK T : T = S \cup {Scanned}
  OBVIOUS
<1>6. /\ run'.out \in Seq(T) /\ Len(run'.out) = m + 1
      /\ \A i \in 1 .. m + 1 : run'.out[i] = IF i <= m THEN run.out[i] ELSE Scanned
  <2>1. run.out \in Seq(T) /\ Scanned \in T
    <3>1. \A i \in 1 .. m : run.out[i] \in T
      BY <1>1, <1>4, <1>5
    <3> QED
      BY <1>1, <1>4, <1>5, <3>1
  <2> HIDE DEF Scanned
  <2> QED
    BY <1>1, <1>3, <2>1
<1>7. \A k : Rejecting(run', k) = Rejecting(run, k)
  BY <1>3 DEF Rejecting
<1>8. ASSUME NEW i \in 1 .. m + 1 PROVE Rejecting(run', run'.out[i].key) = {}
  <2>1. CASE i <= m
    <3>1. i \in 1 .. Len(run.out) /\ run'.out[i] = run.out[i]
      BY <1>1, <1>6, <2>1
    <3> QED
      BY <1>7, <3>1 DEF TallyInv
  <2>2. CASE ~(i <= m)
    BY <1>2, <1>6, <1>7, <2>2
  <2> QED
    BY <2>1, <2>2
<1>9. ASSUME NEW j \in 1 .. n
      PROVE  /\ Tally(run', j) <= run'.counts[j]
             /\ run'.clauses[j].kind = "limit" => run'.counts[j] <= run'.clauses[j].cnt
  <2>1. /\ m + 1 <= Counted(run)[j] /\ Counted(run)[j] \in Nat
        /\ run.clauses[j].kind = "limit" => Counted(run)[j] <= run.clauses[j].cnt
    BY <1>1, <1>2, CountedIs
  <2>2. Tally(run', j) = m + 1
    <3>1. j <= run'.pull
      BY <1>3
    <3>2. Len(run'.out) = m + 1 /\ m + 1 \in Nat
      BY <1>1, <1>6
    <3> QED
      BY <3>1, <3>2, TallyIs
  <2> QED
    BY <1>3, <2>1, <2>2
<1>10. run'.counts \in [1 .. n -> Nat]
  BY <1>1, <1>2, <1>3, CountedIs
<1>11. n \in 0 .. n
  OBVIOUS
<1> QED
  BY <1>1, <1>3, <1>6, <1>8, <1>9, <1>10, <1>11 DEF TallyInv

\* Every step keeps the counts.
LEMMA TallyStep ==
  ASSUME RunInv, QueryNext
  PROVE  RunInv'
<1>1. ASSUME NEW line \in Lines, Execute(line) PROVE RunInv'
  <2>1. PICK p : p = Prepare(line)
    OBVIOUS
  <2>2. /\ run = Idle /\ p.result = "success"
        /\ IF p.statement.type = "insert" THEN InsertRow(p.statement.val) ELSE Start(p.statement)
    BY <1>1, <2>1 DEF Execute
  <2>3. CASE InsertRow(p.statement.val)
    BY <2>2, <2>3 DEF InsertRow, RunInv
  <2>4. CASE Start(p.statement)
    BY <2>1, <2>2, <2>4, StartTallies DEF RunInv
  <2> QED
    BY <2>2, <2>3, <2>4
<1>2. ASSUME Work PROVE RunInv'
  <2>1. CASE Finish \/ ReadStale
    BY <2>1 DEF Finish, ReadStale, RunInv
  <2>2. CASE Skip
    <3>1. run # Idle
      BY <2>2 DEF Skip, Scans, Asks
    <3> QED
      BY <2>2, <3>1, SkipTallies DEF RunInv
  <2>3. CASE Select \/ UpdateRow \/ DeleteRow
    <3>1. run # Idle /\ Emits /\ \E c : run' = Returned(c)
      BY <2>3 DEF Select, UpdateRow, DeleteRow, Emits, Scans, Asks
    <3> QED
      BY <3>1, ReturnTallies DEF RunInv
  <2> QED
    BY <1>2, <2>1, <2>2, <2>3 DEF Work
<1> QED
  BY <1>1, <1>2 DEF QueryNext

\* Whatever executor of the pipeline asks again, and however often, no row comes out that a
\* WHERE excludes, and no more rows than a LIMIT allows: for every line there is, with
\* any number of clauses, and every table.
THEOREM ClausesCorrect == QuerySpec => []ClausesObeyed
<1>1. QueryInit => RunInv
  BY DEF QueryInit, RunInv
<1>2. RunInv /\ [QueryNext]_vars => RunInv'
  <2>1. ASSUME RunInv, UNCHANGED vars PROVE RunInv'
    BY <2>1 DEF vars, RunInv, TallyInv, Tally, Rejecting
  <2> QED
    BY <2>1, TallyStep
<1>3. RunInv => ClausesObeyed
  BY TallyObeys
<1> QED
  BY <1>1, <1>2, <1>3, PTL DEF QuerySpec

=============================================================================
