---------------------------- MODULE MCBufferPool ----------------------------
(***************************************************************************)
(* Constants for the runs of BufferPool.                                   *)
(***************************************************************************)
EXTENDS BufferPool, TLC

\* Guards are interchangeable.
GuardSymmetry == Permutations(Guards)
=============================================================================
