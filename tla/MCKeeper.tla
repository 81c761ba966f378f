------------------------------ MODULE MCKeeper ------------------------------
(* A small instance of Keeper: two holders, two schedules, windows of one.  *)
EXTENDS Keeper

CONSTANTS r1, r2
=============================================================================
