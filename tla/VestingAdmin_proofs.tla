------------------------- MODULE VestingAdmin_proofs -------------------------
(***************************************************************************)
(* Proofs about VestingAdmin, for any accounts, hashes, timelocks, fees    *)
(* and minimum review period.                                              *)
(***************************************************************************)
EXTENDS VestingAdmin, TLAPS

\* A stored configuration respects the minimum review period, and a pending
\* upgrade cannot be executed before that period has gone by since its proposal.
ReviewInv ==
    /\ config # None => config.timelock >= MinUpgradeTimelock
    /\ proposal # None => proposal.executeAt >= proposedAt + MinUpgradeTimelock

\* The inductive invariant.
AdminInv == TypeOK /\ NeverFrozen /\ NominationIsCurrent /\ ReviewInv

-----------------------------------------------------------------------------
(* The invariant *)

LEMMA AdminInit ==
  ASSUME Init
  PROVE  AdminInv
BY AdminAssumption
DEF Init, AdminInv, TypeOK, NeverFrozen, NominationIsCurrent, ReviewInv, Paused, Ops

\* Every operation of the admin, and an accepted nomination, keep the invariant.
LEMMA AdminStep ==
  ASSUME AdminInv, [Next]_vars
  PROVE  AdminInv'
<1> USE AdminAssumption
        DEF AdminInv, TypeOK, NeverFrozen, NominationIsCurrent, ReviewInv,
            roleVars, pauseVars, feeVars, upgradeVars
<1>1. CASE Tick
  BY <1>1 DEF Tick, Paused
<1>2. ASSUME NEW caller \in Accounts, NEW new \in Accounts, ProposeAdmin(caller, new)
      PROVE  AdminInv'
  BY <1>2 DEF ProposeAdmin, Paused
<1>3. ASSUME NEW caller \in Accounts, AcceptAdmin(caller)
      PROVE  AdminInv'
  BY <1>3 DEF AcceptAdmin, Paused
<1>4. ASSUME NEW caller \in Accounts, RenounceAdmin(caller)
      PROVE  AdminInv'
  BY <1>4 DEF RenounceAdmin, Paused
<1>5. ASSUME NEW caller \in Accounts, NEW mask \in SUBSET Ops, TogglePause(caller, mask)
      PROVE  AdminInv'
  BY <1>5 DEF TogglePause, Paused
<1>6. ASSUME NEW caller \in Accounts, NEW timelock \in Timelocks, NEW asset \in Tokens,
             SetConfig(caller, timelock, asset)
      PROVE  AdminInv'
  BY <1>6 DEF SetConfig, Paused
<1>7. ASSUME NEW caller \in Accounts, NEW fee \in Fees, SetFeeConfig(caller, fee)
      PROVE  AdminInv'
  <2>1. fee \in Nat
    BY <1>7 DEF SetFeeConfig
  <2>2. TypeOK'
    BY <1>7, <2>1 DEF SetFeeConfig
  <2> QED
    BY <1>7, <2>2 DEF SetFeeConfig, Paused
<1>8. ASSUME NEW caller \in Accounts, NEW hash \in Hashes, ProposeUpgrade(caller, hash)
      PROVE  AdminInv'
  BY <1>8 DEF ProposeUpgrade, Paused
<1>9. ASSUME NEW caller \in Accounts, ExecuteUpgrade(caller)
       PROVE  AdminInv'
  BY <1>9 DEF ExecuteUpgrade, Paused
<1>10. CASE UNCHANGED vars
  BY <1>10 DEF vars, Paused
<1> QED
  BY <1>1, <1>2, <1>3, <1>4, <1>5, <1>6, <1>7, <1>8, <1>9, <1>10 DEF Next

\* The inductive invariant holds in every reachable state.
LEMMA AdminInvariant == Spec => []AdminInv
<1>1. Init => AdminInv
  BY AdminInit
<1>2. AdminInv /\ [Next]_vars => AdminInv'
  BY AdminStep
<1> QED
  BY <1>1, <1>2, PTL DEF Spec

-----------------------------------------------------------------------------
(* The theorems *)

\* Every storage key keeps its type (lib.rs:720-860, 1289-1330).
THEOREM AdminTypeOK == Spec => []TypeOK
<1>1. AdminInv => TypeOK
  BY DEF AdminInv
<1> QED
  BY <1>1, AdminInvariant, PTL

\* Once the admin role has been given up, no operation is paused: nothing can
\* be frozen for ever by renounce_admin.
THEOREM AdminNeverFrozen == Spec => []NeverFrozen
<1>1. AdminInv => NeverFrozen
  BY DEF AdminInv
<1> QED
  BY <1>1, AdminInvariant, PTL

\* Only the current admin's own nomination can be accepted.
THEOREM AdminNominationIsCurrent == Spec => []NominationIsCurrent
<1>1. AdminInv => NominationIsCurrent
  BY DEF AdminInv
<1> QED
  BY <1>1, AdminInvariant, PTL

\* Renouncing is final: no step from a state without admin appoints one.
THEOREM AdminRenouncedForGood == Spec => RenouncedForGood
<1>1. AdminInv /\ [Next]_vars => [admin = None => admin' = None]_vars
  <2> SUFFICES ASSUME AdminInv, [Next]_vars, admin = None
               PROVE  admin' = None
    OBVIOUS
  <2>1. CASE Next
    BY <2>1, AdminAssumption
    DEF Next, Tick, ProposeAdmin, AcceptAdmin, RenounceAdmin, TogglePause,
        SetConfig, SetFeeConfig, ProposeUpgrade, ExecuteUpgrade, roleVars
  <2>2. CASE UNCHANGED vars
    BY <2>2 DEF vars, roleVars
  <2> QED
    BY <2>1, <2>2
<1> QED
  BY <1>1, AdminInvariant, PTL DEF Spec, RenouncedForGood

\* The contract's code changes only to what has been under review for at least
\* MIN_UPGRADE_TIMELOCK, for every configuration the admin may have stored.
THEOREM AdminUpgradesAreReviewed == Spec => UpgradesAreReviewed
<1> DEFINE Reviewed == /\ proposal # None /\ code' = proposal.hash
                       /\ now >= proposedAt + MinUpgradeTimelock
<1>1. AdminInv /\ [Next]_vars => [code' # code => Reviewed]_vars
  <2> SUFFICES ASSUME AdminInv, [Next]_vars, code' # code
               PROVE  Reviewed
    OBVIOUS
  <2>1. PICK caller \in Accounts : ExecuteUpgrade(caller)
    BY DEF Next, Tick, ProposeAdmin, AcceptAdmin, RenounceAdmin, TogglePause,
           SetConfig, SetFeeConfig, ProposeUpgrade, vars, upgradeVars
  <2> QED
    BY <2>1, AdminAssumption DEF ExecuteUpgrade, AdminInv, TypeOK, ReviewInv
<1> QED
  BY <1>1, AdminInvariant, PTL DEF Spec, UpgradesAreReviewed
=============================================================================
