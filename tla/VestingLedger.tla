---------------------------- MODULE VestingLedger ----------------------------
(***************************************************************************)
(* What the vesting contract promises, with its storage layout abstracted  *)
(* away: a ledger of schedules, each under an id of its own, and for every *)
(* id what was deposited for it and what the contract has paid out for it. *)
(* Indices, swap-with-last removal, batch ordering, caps, pauses and lazy  *)
(* migration belong to VestingContract, which implements this module.      *)
(***************************************************************************)
EXTENDS VestingSchedule

CONSTANTS
    Ids,        \* identities of schedules, one per accepted deposit entry
    Accounts,   \* senders and recipients
    Amounts,    \* amounts a deposit may carry
    Windows,    \* vesting windows a deposit may carry
    Legacy,     \* schedules inherited from the old layout, as migrated
    MaxTime     \* bound on the ledger clock

VARIABLES
    now,          \* env.ledger().timestamp()
    sched,        \* open schedules: a function on the open ids
    funded,       \* per id: tokens taken into custody for it
    toRecipient,  \* per id: tokens paid to whoever held the vesting rights
    toSender      \* per id: tokens returned to the depositor

vars == <<now, sched, funded, toRecipient, toSender>>

Schedule ==
    [owner : Accounts, sender : Accounts, total : Nat, released : Nat, win : Window]

ASSUME LedgerAssumption ==
    /\ Amounts \subseteq Nat \ {0}
    /\ Windows \subseteq Window
    /\ MaxTime \in Nat
    /\ DOMAIN Legacy \subseteq Ids
    /\ Legacy \in [DOMAIN Legacy -> Schedule]
    /\ \A id \in DOMAIN Legacy :
           Legacy[id].total > 0 /\ Legacy[id].released <= Legacy[id].total

Open == DOMAIN sched
Fresh == {id \in Ids : funded[id] = 0}

VestedOf(id) == Vested(sched[id].total, sched[id].win, now)

\* Mutant: whatever is left may be claimed, vested or not.
ClaimableLeft(id) == sched[id].total - sched[id].released

Claimable(id) == VestedOf(id) - sched[id].released

Init ==
    /\ now = 0
    /\ sched = Legacy
    /\ funded = [id \in Ids |-> IF id \in DOMAIN Legacy THEN Legacy[id].total ELSE 0]
    /\ toRecipient = [id \in Ids |-> IF id \in DOMAIN Legacy THEN Legacy[id].released ELSE 0]
    /\ toSender = [id \in Ids |-> 0]

Tick ==
    /\ now < MaxTime
    /\ now' = now + 1
    /\ UNCHANGED <<sched, funded, toRecipient, toSender>>

\* deposit(): one sender opens schedules with one shared window.
Deposit(sender, w, S) ==
    /\ w.end > now
    /\ UNCHANGED <<now, toRecipient, toSender>>
    /\ \E owner \in [S -> Accounts], amount \in [S -> Amounts] :
        /\ funded' = [id \in Ids |-> IF id \in S THEN amount[id] ELSE funded[id]]
        /\ sched' = [id \in Open \cup S |->
               IF id \in S
               THEN [owner |-> owner[id], sender |-> sender, total |-> amount[id],
                     released |-> 0, win |-> w]
               ELSE sched[id]]

\* Paying pay[id] of every id of S to its owner; a schedule whose whole total
\* has been released is closed.
Release(S, pay) ==
    LET done == {id \in S : sched[id].released + pay[id] >= sched[id].total}
    IN  /\ sched' = [id \in Open \ done |->
               IF id \in S THEN [sched[id] EXCEPT !.released = @ + pay[id]]
                           ELSE sched[id]]
        /\ toRecipient' = [id \in Ids |->
               IF id \in S THEN toRecipient[id] + pay[id] ELSE toRecipient[id]]
        /\ UNCHANGED <<now, funded, toSender>>

\* claim(): up to what is claimable on one schedule.
Claim(id, amount) ==
    /\ amount \in 1 .. Claimable(id)
    /\ Release({id}, [i \in {id} |-> amount])

\* claim_all(): everything claimable on every schedule of one owner.
ClaimAll(owner) ==
    LET S == {id \in Open : sched[id].owner = owner /\ Claimable(id) > 0}
    IN  S # {} /\ Release(S, [id \in S |-> Claimable(id)])

\* The sender of every schedule of S asks, and none of them is past its end.
RevocableAll(caller, S) ==
    S # {} /\ \A id \in S : sched[id].sender = caller /\ now < sched[id].win.end
Closed(S) == [id \in Open \ S |-> sched[id]]

\* Mutant: the vested, unclaimed part is neither paid out nor returned.
RevokeForgettingVested(caller, S) ==
    /\ RevocableAll(caller, S)
    /\ sched' = Closed(S)
    /\ toSender' = [id \in Ids |->
           IF id \in S THEN toSender[id] + (sched[id].total - VestedOf(id))
                       ELSE toSender[id]]
    /\ UNCHANGED <<now, funded, toRecipient>>

\* Mutant: the vested, unclaimed part goes back to the sender.
RevokeReturningVested(caller, S) ==
    /\ RevocableAll(caller, S)
    /\ sched' = Closed(S)
    /\ toSender' = [id \in Ids |->
           IF id \in S THEN toSender[id] + (sched[id].total - sched[id].released)
                       ELSE toSender[id]]
    /\ UNCHANGED <<now, funded, toRecipient>>

\* Mutant: what was released is subtracted from the sender's part as well.
RevokeSubtractingReleased(caller, S) ==
    /\ RevocableAll(caller, S)
    /\ sched' = Closed(S)
    /\ toSender' = [id \in Ids |->
           IF id \in S
           THEN toSender[id] + (sched[id].total - VestedOf(id) - sched[id].released)
           ELSE toSender[id]]
    /\ toRecipient' = [id \in Ids |->
           IF id \in S THEN toRecipient[id] + Claimable(id) ELSE toRecipient[id]]
    /\ UNCHANGED <<now, funded>>

\* revoke(), batch_revoke(), revoke_batch(): the sender closes unfinished
\* schedules; the unvested part goes back, the vested unclaimed part goes out.
Revoke(caller, S) ==
    /\ RevocableAll(caller, S)
    /\ sched' = Closed(S)
    /\ toSender' = [id \in Ids |->
           IF id \in S THEN toSender[id] + (sched[id].total - VestedOf(id))
                       ELSE toSender[id]]
    /\ toRecipient' = [id \in Ids |->
           IF id \in S /\ Claimable(id) > 0 THEN toRecipient[id] + Claimable(id)
                                            ELSE toRecipient[id]]
    /\ UNCHANGED <<now, funded>>

\* Mutant: the total stays what it was.
RevokePartialKeepingTotal(caller, id, amount) ==
    /\ sched[id].sender = caller
    /\ now < sched[id].win.end
    /\ amount \in 1 .. (sched[id].total - VestedOf(id))
    /\ toSender' = [toSender EXCEPT ![id] = @ + amount]
    /\ UNCHANGED <<now, sched, funded, toRecipient>>

\* revoke_partial(): the sender takes back part of what is neither vested nor
\* released; the total shrinks and the schedule goes on.
RevokePartial(caller, id, amount) ==
    LET protected == IF VestedOf(id) > sched[id].released
                     THEN VestedOf(id) ELSE sched[id].released
    IN  /\ sched[id].sender = caller
        /\ now < sched[id].win.end
        /\ amount \in 1 .. (sched[id].total - protected)
        /\ sched' = [sched EXCEPT ![id].total = @ - amount]
        /\ toSender' = [toSender EXCEPT ![id] = @ + amount]
        /\ UNCHANGED <<now, funded, toRecipient>>

\* transfer_vesting_rights(): the owner hands one schedule to a new address.
TransferRights(id, new) ==
    /\ sched' = [sched EXCEPT ![id].owner = new]
    /\ UNCHANGED <<now, funded, toRecipient, toSender>>

Next ==
    \/ Tick
    \/ \E sender \in Accounts, w \in Windows, S \in SUBSET Fresh : Deposit(sender, w, S)
    \/ \E id \in Open : \E amount \in 1 .. Claimable(id) : Claim(id, amount)
    \/ \E owner \in Accounts : ClaimAll(owner)
    \/ \E caller \in Accounts, S \in SUBSET Open : Revoke(caller, S)
    \/ \E id \in Open, new \in Accounts : TransferRights(id, new)
    \/ \E caller \in Accounts, id \in Open : \E amount \in 1 .. sched[id].total :
           RevokePartial(caller, id, amount)

Spec == Init /\ [][Next]_vars

\* The inherited schedules on which something had been claimed.  Migration keeps
\* what was released and lets nothing vest before the end, so they start ahead.
ClaimedBefore == {id \in DOMAIN Legacy : Legacy[id].released > 0}

(***************************************************************************)
(* Properties                                                              *)
(***************************************************************************)

\* The clock, the open schedules and the three per-id accounts have their types.
TypeOK ==
    /\ now \in Nat
    /\ Open \subseteq Ids
    /\ sched \in [Open -> Schedule]
    /\ funded \in [Ids -> Nat]
    /\ toRecipient \in [Ids -> Nat]
    /\ toSender \in [Ids -> Nat]

\* Storage and money agree: what a stored schedule says was released is what
\* its holders were paid, what its total lost since the deposit is what its
\* sender got back, and it never records more released than its total.  Claims,
\* revocations and partial revocations each move both sides (lib.rs claim,
\* claim_all, revoke_partial).
BooksBalance ==
    /\ \A id \in Open :
           /\ toRecipient[id] = sched[id].released
           /\ toSender[id] + sched[id].total = funded[id]
           /\ sched[id].released <= sched[id].total
           /\ funded[id] > 0
    /\ \A id \in Fresh : toRecipient[id] = 0 /\ toSender[id] = 0

\* No deposit is trapped: a schedule that left storage was paid out in full,
\* to its recipients and its sender together (remove_vesting after claim,
\* claim_all and the three revocations).
NothingTrapped ==
    \A id \in Ids \ Open : toRecipient[id] + toSender[id] >= funded[id]

\* What has been released was vested: no holder is ahead of the schedule, unless
\* its sender has revoked part of it (revoke_partial shrinks the total that the
\* vested share is taken of) or it was inherited with something already claimed.
NeverAhead ==
    \A id \in Open \ ClaimedBefore :
        toSender[id] = 0 => sched[id].released <= VestedOf(id)

\* Whoever holds the rights when a schedule closes, its holders have then been
\* paid exactly what had vested and its sender exactly the rest, whether a claim
\* or a revocation closed it: nothing comes out of another schedule's tokens
\* (README.md:227 "recipients receive what they've earned"; README.md:178 "Funds
\* remain locked in the contract").  Not so after a partial revocation, nor when
\* an inherited schedule with something already claimed is revoked before its end.
EarnedIsPaid ==
    [][\A id \in Open \ Open' :
          toSender[id] = 0 /\ (id \in ClaimedBefore => sched[id].win.end <= now) =>
              /\ toRecipient'[id] = VestedOf(id)
              /\ toRecipient'[id] + toSender'[id] = funded[id]]_vars
=============================================================================
