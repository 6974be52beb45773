--------------------------- MODULE MCSlottedPage ---------------------------
(***************************************************************************)
(* An instance of SlottedPage for TLC: rows of three lengths in a page     *)
(* that holds up to four of the shortest.                                  *)
(***************************************************************************)
EXTENDS SlottedPage

ThreeSizes == [v \in Values |-> CASE v = "a" -> 1 [] v = "b" -> 2 [] v = "c" -> 4]
=============================================================================
