---------------------------- MODULE VestingAdmin ----------------------------
(***************************************************************************)
(* The administration of contracts/batch-vesting: two-step handover of the *)
(* admin role and its renouncement, granular pausing with the old Paused   *)
(* flag still honoured, configuration, fees and timelocked code upgrades.  *)
(*                                                                         *)
(* An optional storage key is None when absent.  Every operation may be    *)
(* tried by every account in every state: the guards are the contract's    *)
(* own checks.  Schedules and their money are in VestingContract.          *)
(***************************************************************************)
EXTENDS Integers

CONSTANTS
    Accounts,            \* addresses that can sign
    None,                \* an absent storage key
    Hashes,              \* wasm hashes that may be proposed
    Deployed,            \* the hash the contract starts with
    Tokens,              \* tokens a configuration may name as the fee asset
    Timelocks,           \* upgrade_timelock values an admin may ask for
    MinUpgradeTimelock,  \* MIN_UPGRADE_TIMELOCK
    Fees,                \* fee_per_recipient values an admin may ask for
    MaxTime              \* bound on the ledger clock

ASSUME AdminAssumption ==
    /\ None \notin Accounts
    /\ Timelocks \subseteq Nat
    /\ MinUpgradeTimelock \in Nat
    /\ Fees \subseteq Int
    /\ MaxTime \in Nat

Ops == {"deposit", "claim", "revoke"}

VARIABLES
    now,           \* env.ledger().timestamp()
    admin,         \* DataKey::Admin
    pendingAdmin,  \* DataKey::PendingAdmin
    pauseMask,     \* DataKey::PauseMask, its three meaningful bits
    legacyPaused,  \* DataKey::Paused, the flag of the old layout
    config,        \* DataKey::Config: [timelock, feeAsset]
    feeConfig,     \* DataKey::FeeConfig: the fee per recipient
    proposal,      \* DataKey::UpgradeProposal: [hash, executeAt]
    code,          \* the wasm the contract runs
    nominatedBy,   \* history: who nominated the pending admin
    proposedAt     \* history: when the pending upgrade was proposed

roleVars == <<admin, pendingAdmin, nominatedBy>>
pauseVars == <<pauseMask, legacyPaused>>
feeVars == <<config, feeConfig>>
upgradeVars == <<proposal, code, proposedAt>>
vars == <<now, roleVars, pauseVars, feeVars, upgradeVars>>

\* The constructor binds the admin at deployment; a contract upgraded from the
\* old layout may still carry the old Paused flag.
Init ==
    /\ now = 0
    /\ admin \in Accounts
    /\ pendingAdmin = None
    /\ pauseMask = {}
    /\ legacyPaused \in BOOLEAN
    /\ config = None
    /\ feeConfig = None
    /\ proposal = None
    /\ code = Deployed
    /\ nominatedBy = None
    /\ proposedAt = 0

\* get_pause_mask: the old flag pauses everything.
Paused == IF legacyPaused THEN Ops ELSE pauseMask

Tick ==
    /\ now < MaxTime
    /\ now' = now + 1
    /\ UNCHANGED <<roleVars, pauseVars, feeVars, upgradeVars>>

\* propose_admin: any operation paused blocks it; a new nomination replaces
\* the previous one.
ProposeAdmin(caller, new) ==
    /\ Paused = {}
    /\ caller = admin
    /\ pendingAdmin' = new
    /\ nominatedBy' = caller
    /\ UNCHANGED <<now, admin, pauseVars, feeVars, upgradeVars>>

\* Mutant: a missing nomination passes for the caller's own.
AcceptUnnominated(caller) ==
    /\ pendingAdmin \in {None, caller}
    /\ admin' = caller
    /\ pendingAdmin' = None
    /\ nominatedBy' = None
    /\ UNCHANGED <<now, pauseVars, feeVars, upgradeVars>>

\* Mutant: the accepted nomination is not cleared.
AcceptKeepingNomination(caller) ==
    /\ pendingAdmin # None /\ caller = pendingAdmin
    /\ admin # None
    /\ admin' = caller
    /\ UNCHANGED <<now, pendingAdmin, nominatedBy, pauseVars, feeVars, upgradeVars>>

\* accept_admin: not blocked by a pause.
AcceptAdmin(caller) ==
    /\ pendingAdmin # None /\ caller = pendingAdmin
    /\ admin # None
    /\ admin' = caller
    /\ pendingAdmin' = None
    /\ nominatedBy' = None
    /\ UNCHANGED <<now, pauseVars, feeVars, upgradeVars>>

\* Mutant: the pause check misses the old flag.
RenounceCheckingMaskOnly(caller) ==
    /\ pauseMask = {}
    /\ caller = admin
    /\ admin' = None
    /\ pendingAdmin' = None
    /\ nominatedBy' = None
    /\ UNCHANGED <<now, pauseVars, feeVars, upgradeVars>>

RenounceAdmin(caller) ==
    /\ Paused = {}
    /\ caller = admin
    /\ admin' = None
    /\ pendingAdmin' = None
    /\ nominatedBy' = None
    /\ UNCHANGED <<now, pauseVars, feeVars, upgradeVars>>

\* toggle_pause sets the whole mask and drops the old flag.
TogglePause(caller, mask) ==
    /\ caller = admin
    /\ pauseMask' = mask
    /\ legacyPaused' = FALSE
    /\ UNCHANGED <<now, roleVars, feeVars, upgradeVars>>

SetConfig(caller, timelock, asset) ==
    /\ caller = admin
    /\ timelock >= MinUpgradeTimelock
    /\ config' = [timelock |-> timelock, feeAsset |-> asset]
    /\ UNCHANGED <<now, roleVars, pauseVars, feeConfig, upgradeVars>>

\* Mutant: a negative fee is accepted.
SetAnyFee(caller, fee) ==
    /\ caller = admin
    /\ config # None
    /\ feeConfig' = fee
    /\ UNCHANGED <<now, roleVars, pauseVars, config, upgradeVars>>

\* set_fee_config reads the configuration for its event, so it needs one.
SetFeeConfig(caller, fee) ==
    /\ caller = admin
    /\ fee >= 0
    /\ config # None
    /\ feeConfig' = fee
    /\ UNCHANGED <<now, roleVars, pauseVars, config, upgradeVars>>

\* Mutant: replacing a proposal keeps the clock of the one it replaces.
ProposeKeepingClock(caller, hash) ==
    /\ caller = admin
    /\ config # None
    /\ proposal' = [hash |-> hash,
                    executeAt |-> IF proposal # None THEN proposal.executeAt
                                  ELSE now + config.timelock]
    /\ proposedAt' = now
    /\ UNCHANGED <<now, roleVars, pauseVars, feeVars, code>>

\* propose_upgrade: the review period is fixed here, from the configuration of
\* this moment; a new proposal replaces the previous one.
ProposeUpgrade(caller, hash) ==
    /\ caller = admin
    /\ config # None
    /\ proposal' = [hash |-> hash, executeAt |-> now + config.timelock]
    /\ proposedAt' = now
    /\ UNCHANGED <<now, roleVars, pauseVars, feeVars, code>>

ExecuteUpgrade(caller) ==
    /\ caller = admin
    /\ proposal # None /\ now >= proposal.executeAt
    /\ code' = proposal.hash
    /\ proposal' = None
    /\ UNCHANGED <<now, roleVars, pauseVars, feeVars, proposedAt>>

Next ==
    \/ Tick
    \/ \E caller \in Accounts :
           \/ \E new \in Accounts : ProposeAdmin(caller, new)
           \/ AcceptAdmin(caller)
           \/ RenounceAdmin(caller)
           \/ \E mask \in SUBSET Ops : TogglePause(caller, mask)
           \/ \E timelock \in Timelocks, asset \in Tokens : SetConfig(caller, timelock, asset)
           \/ \E fee \in Fees : SetFeeConfig(caller, fee)
           \/ \E hash \in Hashes : ProposeUpgrade(caller, hash)
           \/ ExecuteUpgrade(caller)

Spec == Init /\ [][Next]_vars

(***************************************************************************)
(* Properties                                                              *)
(***************************************************************************)

\* Storage keys hold values of their types, absent ones None.
TypeOK ==
    /\ now \in Nat
    /\ admin \in Accounts \cup {None}
    /\ pendingAdmin \in Accounts \cup {None}
    /\ nominatedBy \in Accounts \cup {None}
    /\ pauseMask \subseteq Ops /\ legacyPaused \in BOOLEAN
    /\ config # None => config \in [timelock : Nat, feeAsset : Tokens]
    /\ feeConfig # None => feeConfig \in Nat
    /\ proposal # None => proposal \in [hash : Hashes, executeAt : Nat]
    /\ code \in Hashes \cup {Deployed}
    /\ proposedAt \in Nat

\* Nothing is frozen for ever: once nobody is left who could unpause, nothing
\* is paused (renounce_admin refuses while any operation is paused, through the
\* mask or the old flag, and nobody can pause afterwards).
NeverFrozen ==
    admin = None => Paused = {}

\* A nomination is the current admin's own: one made by an admin who has since
\* handed over or renounced cannot be accepted (accept_admin and renounce_admin
\* both clear PendingAdmin).
NominationIsCurrent ==
    pendingAdmin # None => admin # None /\ nominatedBy = admin

\* Renouncing is final: no pending nomination, and no later call, brings an
\* admin back (#195).
RenouncedForGood ==
    [][admin = None => admin' = None]_vars

\* Code changes only to what was proposed at least the minimum review period
\* before, whatever happened to the configuration or to the admin in between
\* (#699: "preventing immediate WASM swaps").
UpgradesAreReviewed ==
    [][code' # code =>
          /\ proposal # None /\ code' = proposal.hash
          /\ now >= proposedAt + MinUpgradeTimelock]_vars
=============================================================================
