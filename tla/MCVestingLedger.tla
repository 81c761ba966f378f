--------------------------- MODULE MCVestingLedger ---------------------------
(***************************************************************************)
(* Small instance of VestingLedger: two schedules of 4 tokens from the old *)
(* layout, one unclaimed and one partly claimed, and a new one of 1 or 5   *)
(* tokens, two accounts that may each deposit and receive, one step        *)
(* schedule with its cliff inside, one continuous, one all-at-the-end.     *)
(***************************************************************************)
EXTENDS VestingLedger, TLC

CONSTANTS alice, bob

MCIds == 1 .. 3
MCAmounts == {1, 5}
Win(s, e, c, st) == [start |-> s, end |-> e, cliff |-> c, step |-> st]
MCWindows == {Win(0, 4, 1, 2), Win(1, 4, 1, 1), Win(0, 3, 2, 0)}
MCLegacy ==
    LET Old(released) == [owner |-> alice, sender |-> bob, total |-> 4, released |-> released,
                          win |-> Win(0, 3, 0, 0)]
    IN  1 :> Old(0) @@ 2 :> Old(1)
=============================================================================
