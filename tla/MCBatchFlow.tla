----------------------------- MODULE MCBatchFlow -----------------------------
(* A small instance of BatchFlow, and of Gateway with it: two requests under way
   at a time, two lists of payments. *)
EXTENDS BatchFlow, TLC

CONSTANTS b1, b2

Symm == Permutations(Bodies)
=============================================================================
