--------------------------- MODULE MCSearchStack ---------------------------
(***************************************************************************)
(* SearchStack for TLC: two inline slots, so that a stack of four frames   *)
(* spills and goes on in the heap.                                         *)
(***************************************************************************)
EXTENDS SearchStack
=============================================================================
