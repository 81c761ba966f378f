-------------------------- MODULE MCVestingContract --------------------------
(***************************************************************************)
(* Small instances of VestingContract: two recipients, two senders, a list *)
(* cap of 2, deposits and revocations of up to two entries, one recipient  *)
(* with an old-layout entry, unclaimed or partly claimed.                  *)
(***************************************************************************)
EXTENDS VestingContract

CONSTANTS r1, r2, s1, s2, tokA, tokB

Win(s, e, c, st) == [start |-> s, end |-> e, cliff |-> c, step |-> st]
StepWindows == {Win(0, 4, 1, 2), Win(0, 2, 1, 0)}
OneWindow == {Win(0, 3, 1, 1)}
Old(id, tok, released) ==
    [id |-> id, total |-> 2, released |-> released, win |-> Win(0, 2, 0, 1), sender |-> s1,
     batch |-> 0, token |-> tok]
OnlyOld(v) == [r \in Recipients |-> IF r = r1 THEN <<v>> ELSE <<>>]
OneOldEntry == OnlyOld(Old(1, tokA, 0))
PartlyClaimed == OnlyOld(Old(1, tokA, 1))
NoOldEntry == [r \in Recipients |-> <<>>]
=============================================================================
