----------------------------- MODULE MCSession -----------------------------
(***************************************************************************)
(* Sessions for TLC: every kind of line, few rows.                         *)
(***************************************************************************)
EXTENDS Session

Users == {<<"a", "m">>, <<"long", "m">>}

\* Four short rows fill a page, or a long one and a short one.
ShortAndLong == [v \in Values |-> IF v[1] = "a" THEN 4 ELSE 12]

NumberOf(word) == 1
SameWord(word) == word

\* ".tables" stands for what begins with a dot and is no command.
SessionLines ==
  {<<>>, <<".exit">>, <<".save">>, <<".tables">>,
   <<"INSERT", "a", "m">>,
   <<"SELECT", "*", "LIMIT", "1">>,
   <<"UPDATE", "*", "long", "m">>,
   <<"DELETE", "*", "WHERE", "=", "1">>,
   <<"DELETE", "1">>}
=============================================================================
