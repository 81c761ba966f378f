---------------------------- MODULE MCVestingAdmin ----------------------------
(***************************************************************************)
(* Small instances of VestingAdmin: two accounts, one hash to upgrade to,  *)
(* timelocks below, at and above the minimum, a negative fee to refuse.    *)
(***************************************************************************)
EXTENDS VestingAdmin

CONSTANTS ann, bob, v1, v2, xlm, usdc

MCFees == {-1, 0, 1}
=============================================================================
