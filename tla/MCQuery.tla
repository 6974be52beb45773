------------------------------ MODULE MCQuery ------------------------------
(***************************************************************************)
(* Instances of Query for TLC: pages as in MCBTree, lines that put every   *)
(* executor to use, and lines typed word by word for the compiler alone.   *)
(***************************************************************************)
EXTENDS Query

\* Rows that differ in their username.
Users == {<<"a", "m">>, <<"b", "m">>, <<"long", "m">>}

\* Four short rows fill a page, or two long ones; below half of it a leaf underflows.
ShortAndLong == [v \in Values |-> IF v[1] = "long" THEN 12 ELSE 4]

\* Two numbers too big: 17 for a uint32_t of 16 values, 99 for an unsigned long
\* of 64.
NumberOf(word) ==
  CASE word = "0" -> 0 [] word = "1" -> 1 [] word = "2" -> 2
    [] word = "3" -> 3 [] word = "4" -> 4 [] word = "5" -> 5
    [] word = "17" -> 17 [] word = "99" -> 99
Capital(word) == IF word = "select" THEN "SELECT"
                 ELSE IF word = "limit" THEN "LIMIT" ELSE word

\* The rows are inserted with the same username; an UPDATE brings another, which is as
\* long or splits the leaf the scan is in.
InsertLine == <<"INSERT", "a", "m">>
SomeLines ==
  {InsertLine,
   <<"select", "*">>,
   <<"SELECT", "*", "WHERE", ">=", "1", "LIMIT", "3", "WHERE", "!=", "2">>,
   <<"UPDATE", "*", "b", "m", "WHERE", "<", "5", "WHERE", ">", "1">>,
   <<"UPDATE", "*", "long", "m", "WHERE", "<=", "4", "LIMIT", "2">>,
   <<"DELETE", "*">>,
   <<"DELETE", "*", "WHERE", "=", "1">>,
   <<"DELETE", "*", "WHERE", ">", "2", "LIMIT", "2">>}

\* Lines for what the help text says.
SelectAll == {InsertLine, <<"SELECT", "*">>, <<"DELETE", "*", "WHERE", "=", "0">>}
DeleteSome == {InsertLine, <<"DELETE", "*", "WHERE", ">", "2">>}
UpdateOne == {InsertLine, <<"UPDATE", "1", "b", "m">>, <<"DELETE", "*">>}

\* The words of a line that is typed: first one of a statement, which means nothing
\* further on, then any of the others.
FirstWords == {"INSERT", "select", "UPDATE", "DELETE"}
Words == {"*", "1", "17", "99", "WHERE", "limit", "="}
MAX_WORDS == 7

\* Every line that can be typed is accepted or refused, and read, as
\* src/compiler.cpp is to.  It reads nothing but the line, so that one state
\* will do to ask for all of them: the program before the first line.
LineIsRead ==
  run = Idle /\ db.next_row = 0 =>
    \A first \in FirstWords, n \in 0 .. MAX_WORDS - 1 :
      \A rest \in [1 .. n -> Words] : ReadsWhatIsSaid(<<first>> \o rest)
=============================================================================
