------------------------------ MODULE Compiler ------------------------------
(***************************************************************************)
(* What prepare_statement (src/compiler.cpp) makes of a line.              *)
(*                                                                         *)
(* A line is the sequence of its words, as an istringstream gives them     *)
(* out; a number is a word of digits.  The stream is the words not read    *)
(* yet and its failbit, which stays set once a read found nothing it could *)
(* use.                                                                    *)
(***************************************************************************)
EXTENDS Naturals, Sequences, FiniteSets

CONSTANTS
  Numerals,    \* the words that are numbers
  ValueOf(_),  \* what number a numeral is
  Upper(_),    \* toupper of a word
  UINT32,      \* values of a uint32_t, 2^32
  ULONG        \* values of the unsigned long of stoul, 2^64 or 2^32

Comparisons == {"=", "!=", ">", ">=", "<", "<="}
SyntaxError == [result |-> "syntax_error"]
Unrecognized == [result |-> "unrecognized_statement"]

-----------------------------------------------------------------------------
(* The stream *)

Stream(line) == [words |-> line, failed |-> FALSE]
Has(s) == ~s.failed /\ s.words # <<>>

\* iss >> word: a failed read leaves the string as it was, which is empty.
Word(s) == IF Has(s) THEN Head(s.words) ELSE ""
Read(s) == IF Has(s) THEN [s EXCEPT !.words = Tail(@)] ELSE [s EXCEPT !.failed = TRUE]

\* iss >> number, of a uint32_t: what does not fit sets failbit.
IsNumber_AnySize(s) == Has(s) /\ Head(s.words) \in Numerals
IsNumber(s) == Has(s) /\ Head(s.words) \in Numerals /\ ValueOf(Head(s.words)) < UINT32

-----------------------------------------------------------------------------
(* The statement *)

\* target_id = stoul(target): throws, or keeps the lower 32 bits.
IsTarget(word) == word \in Numerals /\ ValueOf(word) < ULONG
TargetId(word) == ValueOf(word) % UINT32

\* A turn of the loop over the clauses, as long as it has not ended: the statement
\* with the clause that was read.
Turn(loop) ==
  LET s == loop.stream
      clause == Upper(Word(s))
      operand == Read(s)
      value == IF clause = "WHERE" THEN Read(operand) ELSE operand
      With(c) == [loop EXCEPT !.statement.clauses = Append(@, c), !.stream = Read(value)]
      Ends(result) == [loop EXCEPT !.result = result]
  IN IF loop.result # "more" THEN loop
     ELSE IF operand.failed THEN Ends("success")
     ELSE CASE clause = "WHERE" ->
                 IF Word(operand) \in Comparisons /\ IsNumber(value)
                 THEN With([kind |-> "where", op |-> Word(operand),
                            value |-> ValueOf(Word(value))])
                 ELSE Ends("syntax_error")
            [] clause = "LIMIT" ->
                 IF IsNumber(value)
                 THEN With([kind |-> "limit", cnt |-> ValueOf(Word(value))])
                 ELSE Ends("syntax_error")
            [] OTHER -> [loop EXCEPT !.stream = operand]

\* The loop over the clauses.  It ends where the line ends, and passes over
\* every word that begins no clause; each turn takes a word, and the last none.
WithClauses(st, s) ==
  LET loop[i \in 0 .. Len(s.words) + 1] ==
        IF i = 0 THEN [result |-> "more", statement |-> st, stream |-> s]
        ELSE Turn(loop[i - 1])
  IN loop[Len(s.words) + 1]

\* The statements whose username and email are read, both left empty in others.
\* An UPDATE of one id has none, and a DELETE of one id has.
TakesRow == {"insert", "update_all", "delete"}

\* The clauses are read if no read failed before them.
Compiled(type, id, s) ==
  LET rest == IF type \in TakesRow THEN Read(Read(s)) ELSE s
      row == IF type \in TakesRow THEN <<Word(s), Word(Read(s))>> ELSE <<"", "">>
  IN IF rest.failed THEN SyntaxError
     ELSE WithClauses([type |-> type, target_id |-> id, val |-> row, clauses |-> <<>>], rest)

\* "*", or the id of a row.
Targeted(all, one, s) ==
  LET target == Word(s)
  IN IF target = "*" THEN Compiled(all, 0, Read(s))
     ELSE IF IsTarget(target) THEN Compiled(one, TargetId(target), Read(s))
     ELSE SyntaxError

Prepare(line) ==
  LET s == Stream(line)
      statement == Upper(Word(s))
  IN CASE statement = "INSERT" -> Compiled("insert", 0, Read(s))
       [] statement = "SELECT" -> Targeted("select_all", "select", Read(s))
       [] statement = "UPDATE" -> Targeted("update_all", "update", Read(s))
       [] statement = "DELETE" -> Targeted("delete_all", "delete", Read(s))
       [] OTHER -> Unrecognized

-----------------------------------------------------------------------------
(* What a line says, by the help text (src/main.cpp:80-87) *)

\* INSERT <name> <email>, SELECT * / <id>, UPDATE * / <id> <name> <email> and
\* DELETE * / <id>: how many words stand before the clauses.
HeadLength(line) ==
  CASE Upper(line[1]) = "INSERT" -> 3
    [] Upper(line[1]) = "SELECT" -> 2
    [] Upper(line[1]) = "UPDATE" -> 4
    [] Upper(line[1]) = "DELETE" -> 2
HeadComplete(line) ==
  /\ line # <<>>
  /\ Upper(line[1]) \in {"INSERT", "SELECT", "UPDATE", "DELETE"}
  /\ Len(line) >= HeadLength(line)
  /\ Upper(line[1]) # "INSERT" => line[2] \in {"*"} \cup Numerals

NumberAt(line, i) == i <= Len(line) /\ line[i] \in Numerals /\ ValueOf(line[i]) < UINT32
SaysId(line) == Upper(line[1]) # "INSERT" /\ NumberAt(line, 2)

\* WHERE >/</>=/<=/=/!= <id> and LIMIT <count>: the places behind the head where
\* one begins, how many words it has, and what it is.
ClausePlaces(line) ==
  {i \in HeadLength(line) + 1 .. Len(line) : Upper(line[i]) \in {"WHERE", "LIMIT"}}
ClauseLength(line, i) == IF Upper(line[i]) = "LIMIT" THEN 2 ELSE 3
Complete(line, i) ==
  /\ NumberAt(line, i + ClauseLength(line, i) - 1)
  /\ Upper(line[i]) = "WHERE" => line[i + 1] \in Comparisons
ClauseAt(line, i) ==
  IF Upper(line[i]) = "LIMIT" THEN [kind |-> "limit", cnt |-> ValueOf(line[i + 1])]
  ELSE [kind |-> "where", op |-> line[i + 1], value |-> ValueOf(line[i + 2])]

\* A line the help text offers: nothing but a head and its clauses.
Offered(line) ==
  /\ HeadComplete(line)
  /\ Upper(line[1]) # "INSERT" => line[2] = "*" \/ SaysId(line)
  /\ \A i \in ClausePlaces(line) : Complete(line, i)
  /\ \A j \in HeadLength(line) + 1 .. Len(line) :
       \E i \in ClausePlaces(line) : j \in i .. i + ClauseLength(line, i) - 1

TypeSaid(line) ==
  CASE Upper(line[1]) = "INSERT" -> "insert"
    [] Upper(line[1]) = "SELECT" -> IF line[2] = "*" THEN "select_all" ELSE "select"
    [] Upper(line[1]) = "UPDATE" -> IF line[2] = "*" THEN "update_all" ELSE "update"
    [] Upper(line[1]) = "DELETE" -> IF line[2] = "*" THEN "delete_all" ELSE "delete"

\* Statement st has the kind, the id, the name and email, and the clauses of the line,
\* each clause once and in its order.
IsSaid(st, line) ==
  LET places == ClausePlaces(line)
  IN /\ st.type = TypeSaid(line)
     /\ SaysId(line) => st.target_id = ValueOf(line[2])
     /\ st.type \in {"insert", "update_all", "update"} =>
          st.val = SubSeq(line, HeadLength(line) - 1, HeadLength(line))
     /\ Len(st.clauses) = Cardinality(places)
     /\ \A i \in places : st.clauses[Cardinality({j \in places : j <= i})] = ClauseAt(line, i)

\* The lines that the code reads otherwise than the help text has them: it takes no name
\* and email for an UPDATE of one id, and wants them for a DELETE of one.
ChangesOne(line) ==
  Len(line) > 1 /\ Upper(line[1]) \in {"UPDATE", "DELETE"} /\ line[2] # "*"

\* Of any other line: one that the help text offers is accepted, and one that is accepted has
\* the head of a statement, each WHERE and LIMIT behind it is complete, with a
\* number that fits, and the statement is the one the line says.  More may be accepted than
\* is offered: words that begin no clause are passed over, and an id of a SELECT
\* may be too big, of which TargetId keeps a part.  prepare_statement finds all this out
\* in one pass over a stream whose failure it asks for here and there.
ReadsWhatIsSaid(line) ==
  LET p == Prepare(line)
  IN \/ ChangesOne(line)
     \/ /\ Offered(line) => p.result = "success"
        /\ p.result = "success" =>
             /\ HeadComplete(line)
             /\ \A i \in ClausePlaces(line) : Complete(line, i)
             /\ IsSaid(p.statement, line)
=============================================================================
