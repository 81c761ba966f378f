--------------------------- MODULE VestingContract ---------------------------
(***************************************************************************)
(* The schedules of contracts/batch-vesting as the contract stores them: a *)
(* list per recipient with swap-with-last removal, batch metadata that     *)
(* names the depositor, the old storage layout migrated on first touch,    *)
(* pause bits, the schedule cap and the token balances in custody.         *)
(*                                                                         *)
(* An invocation is one atomic Soroban transaction: it computes a record   *)
(* of everything it would write (a "tx") and either commits it or, when a  *)
(* panic set ok to FALSE, leaves no trace.  Time-to-live bookkeeping,      *)
(* events and the deposit fee (paid by the sender straight to the          *)
(* treasury, never entering custody) are left out; the administrator's own *)
(* operations are in VestingAdmin.                                         *)
(***************************************************************************)
EXTENDS VestingSchedule, FiniteSets, Sequences, SequencesExt

CONSTANTS
    Recipients, Senders, Tokens,
    Ids,               \* 1 .. n: identities given to schedules, for the history
    Amounts, Windows,  \* what deposits may carry
    Indices,           \* indices, from 1, that requests may carry
    Parts,             \* amounts a claim or a partial revocation may ask for
    LegacyLists,       \* old Vec<VestingData> entries per recipient, at the start
    MaxBatchSize, MaxSchedulesPerRecipient,
    Masks,             \* pause masks the administrator sets
    MaxTime            \* bound on the ledger clock

ASSUME ContractAssumption ==
    /\ Amounts \subseteq Nat \ {0} /\ Parts \subseteq Nat \ {0}
    /\ Windows \subseteq Window
    /\ Indices \subseteq Nat \ {0}
    /\ Masks \subseteq SUBSET {"deposit", "claim", "revoke"}
    /\ IsFiniteSet(Ids) /\ Ids = 1 .. Cardinality(Ids)
    /\ {MaxBatchSize, MaxSchedulesPerRecipient, MaxTime} \subseteq Nat

Schedule ==
    [id : Ids, total : Nat, released : Nat, win : Window, sender : Senders,
     batch : Nat, token : Tokens]

\* Old entries are schedules of their own, numbered from 1, with something
\* deposited and no more released than that.
LegacyEntries(r) == ToSet(LegacyLists[r])
AllLegacy == UNION {LegacyEntries(r) : r \in Recipients}
LegacyIds == {v.id : v \in AllLegacy}

ASSUME LegacyAssumption ==
    /\ LegacyLists \in [Recipients -> Seq(Schedule)]
    /\ \A v \in AllLegacy : v.total > 0 /\ v.released <= v.total
    /\ \A r, s \in Recipients : \A i \in DOMAIN LegacyLists[r], j \in DOMAIN LegacyLists[s] :
           LegacyLists[r][i].id = LegacyLists[s][j].id => r = s /\ i = j
    /\ LegacyIds = 1 .. Cardinality(LegacyIds)

Ops == {"deposit", "claim", "revoke"}

VARIABLES
    now,
    paused,        \* PauseMask: subset of {"deposit", "claim", "revoke"}
    vestings,      \* VestingEntry/VestingCount: per recipient, its list
    legacy,        \* DEPRECATED Vesting(recipient): per recipient, the old list
    batchInfo,     \* BatchInfo/BatchCounter: the sender of each batch, in order
    custody,       \* per token: balance of the contract's address
    funded, toRecipient, toSender   \* history, per schedule id

vars == <<now, paused, vestings, legacy, batchInfo, custody,
          funded, toRecipient, toSender>>

Fresh == {id \in Ids : funded[id] = 0}
NextId == Cardinality(Ids \ Fresh) + 1

\* What schedule id, if in S, still owes in a token; and all schedules of S.
LeftOn(S, id, tok) ==
    IF \E v \in S : v.id = id /\ v.token = tok
    THEN LET v == CHOOSE x \in S : x.id = id /\ x.token = tok IN v.total - v.released
    ELSE 0

SumOver(g) ==
    LET upTo[n \in 0 .. Cardinality(Ids)] ==
            IF n = 0 THEN 0 ELSE upTo[n - 1] + g[n]
    IN  upTo[Cardinality(Ids)]

TotalOf(S, tok) == SumOver([id \in Ids |-> LeftOn(S, id, tok)])

Init ==
    /\ now = 0
    /\ paused = {}
    /\ vestings = [r \in Recipients |-> <<>>]
    /\ legacy = LegacyLists
    /\ batchInfo = <<>>
    /\ custody = [tok \in Tokens |-> TotalOf(AllLegacy, tok)]
    /\ funded = [id \in Ids |->
           LET L == {v \in AllLegacy : v.id = id}
           IN  IF L = {} THEN 0 ELSE (CHOOSE v \in L : TRUE).total]
    /\ toRecipient = [id \in Ids |->
           LET L == {v \in AllLegacy : v.id = id}
           IN  IF L = {} THEN 0 ELSE (CHOOSE v \in L : TRUE).released]
    /\ toSender = [id \in Ids |-> 0]

-----------------------------------------------------------------------------
(* Transactions *)

Begin == [ok |-> TRUE, vestings |-> vestings, legacy |-> legacy, batchInfo |-> batchInfo,
          custody |-> custody, funded |-> funded,
          toRecipient |-> toRecipient, toSender |-> toSender]

Panic(tx) == [tx EXCEPT !.ok = FALSE]

Commit(tx) ==
    /\ tx.ok
    /\ vestings' = tx.vestings
    /\ legacy' = tx.legacy
    /\ batchInfo' = tx.batchInfo
    /\ custody' = tx.custody
    /\ funded' = tx.funded
    /\ toRecipient' = tx.toRecipient
    /\ toSender' = tx.toSender
    /\ UNCHANGED <<now, paused>>

\* Mutant: the batch of a migrated entry names its recipient.
MigrateNamingRecipient(tx, r) ==
    LET old == tx.legacy[r]
        n == Len(tx.batchInfo)
    IN  [tx EXCEPT !.vestings[r] = @ \o [k \in DOMAIN old |->
                       [old[k] EXCEPT !.batch = n + k, !.win = MigratedWindow(@)]],
                   !.batchInfo = @ \o [k \in DOMAIN old |-> r],
                   !.legacy[r] = <<>>]

\* migrate_if_needed: the old list becomes the new one, each entry under a
\* batch of its own that names its sender; the old key goes.
Migrate(tx, r) ==
    LET old == tx.legacy[r]
        n == Len(tx.batchInfo)
    IN  [tx EXCEPT !.vestings[r] = @ \o [k \in DOMAIN old |->
                       [old[k] EXCEPT !.batch = n + k, !.win = MigratedWindow(@)]],
                   !.batchInfo = @ \o [k \in DOMAIN old |-> old[k].sender],
                   !.legacy[r] = <<>>]

\* remove_vesting: the last entry takes the removed slot.
SwapRemove(list, i) == Front([list EXCEPT ![i] = Last(list)])

\* token transfers out of custody; the token contract fails them when the
\* balance is short, and the whole invocation with them.
PayRecipient(tx, v, amount) ==
    IF amount <= 0 THEN tx
    ELSE IF amount > tx.custody[v.token] THEN Panic(tx)
    ELSE [tx EXCEPT !.custody[v.token] = @ - amount, !.toRecipient[v.id] = @ + amount]

PaySender(tx, v, amount) ==
    IF amount <= 0 THEN tx
    ELSE IF amount > tx.custody[v.token] THEN Panic(tx)
    ELSE [tx EXCEPT !.custody[v.token] = @ - amount, !.toSender[v.id] = @ + amount]

VestedNow(v) == Vested(v.total, v.win, now)
OverflowsNow(v) == VestedOverflows(v.total, v.win, now)

-----------------------------------------------------------------------------
(* Operations *)

Tick ==
    /\ now < MaxTime
    /\ now' = now + 1
    /\ UNCHANGED <<paused, vestings, legacy, batchInfo, custody,
                   funded, toRecipient, toSender>>

\* toggle_pause, called by the administrator.
TogglePause(mask) ==
    /\ paused' = mask
    /\ UNCHANGED <<now, vestings, legacy, batchInfo, custody,
                   funded, toRecipient, toSender>>

\* Mutant: the entry refers to the batch before its own.
DepositInPreviousBatch(tx, sender, w, id, entry) ==
    LET t == Migrate(tx, entry.recipient)
        v == [id |-> id, total |-> entry.amount, released |-> 0, win |-> w,
              sender |-> sender, batch |-> Len(batchInfo), token |-> entry.token]
    IN  IF Len(t.vestings[entry.recipient]) >= MaxSchedulesPerRecipient THEN Panic(t)
        ELSE [t EXCEPT !.vestings[entry.recipient] = Append(@, v),
                       !.custody[entry.token] = @ + entry.amount,
                       !.funded[id] = entry.amount]

\* One entry of a deposit: cap check, then push_vesting.
DepositEntry(tx, sender, w, id, entry) ==
    LET t == Migrate(tx, entry.recipient)
        v == [id |-> id, total |-> entry.amount, released |-> 0, win |-> w,
              sender |-> sender, batch |-> Len(batchInfo) + 1, token |-> entry.token]
    IN  IF Len(t.vestings[entry.recipient]) >= MaxSchedulesPerRecipient THEN Panic(t)
        ELSE [t EXCEPT !.vestings[entry.recipient] = Append(@, v),
                       !.custody[entry.token] = @ + entry.amount,
                       !.funded[id] = entry.amount]

DepositTx(sender, w, entries) ==
    LET upTo[n \in 0 .. Len(entries)] ==
            IF n = 0 THEN [Begin EXCEPT !.batchInfo = Append(@, sender)]
            ELSE DepositEntry(upTo[n - 1], sender, w, NextId + n - 1, entries[n])
    IN  upTo[Len(entries)]

Deposit(sender, w, entries) ==
    /\ "deposit" \notin paused
    /\ Len(entries) <= MaxBatchSize
    /\ w.end > now
    /\ Commit(DepositTx(sender, w, entries))

\* Mutant: an entry released to the last token stays.
ReleaseKeepingEmpty(tx, r, i, amount) ==
    LET v == tx.vestings[r][i]
        t == PayRecipient(tx, v, amount)
    IN  IF v.released + amount > v.total
        THEN [t EXCEPT !.vestings[r] = SwapRemove(@, i)]
        ELSE [t EXCEPT !.vestings[r][i].released = @ + amount]

\* Pays amount of entry i of r and stores or removes the entry.
ReleaseTx(tx, r, i, amount) ==
    LET v == tx.vestings[r][i]
        t == PayRecipient(tx, v, amount)
    IN  IF v.released + amount >= v.total
        THEN [t EXCEPT !.vestings[r] = SwapRemove(@, i)]
        ELSE [t EXCEPT !.vestings[r][i].released = @ + amount]

\* claim: at most the claimable part of one entry.
Claim(r, i, amount) ==
    LET tx == Migrate(Begin, r)
    IN  /\ "claim" \notin paused
        /\ i \in DOMAIN tx.vestings[r]
        /\ LET v == tx.vestings[r][i]
               claimable == VestedNow(v) - v.released
           IN  /\ now >= v.win.cliff
               /\ ~OverflowsNow(v)
               /\ claimable > 0
               /\ Commit(ReleaseTx(tx, r, i, IF amount < claimable THEN amount ELSE claimable))

\* One turn of the loop of claim_all.
ClaimEntry(tx, r, i) ==
    LET v == tx.vestings[r][i]
        claimable == VestedNow(v) - v.released
    IN  IF now < v.win.cliff THEN tx
        ELSE IF OverflowsNow(v) THEN Panic(tx)
        ELSE IF claimable > 0 THEN ReleaseTx(tx, r, i, claimable)
        ELSE tx

\* Mutant: from the first entry up.
ClaimAllAscending(r) ==
    LET tx == Migrate(Begin, r)
        last == Len(tx.vestings[r])
        upTo[n \in 0 .. last] ==
            IF n = 0 THEN tx
            ELSE IF n \in DOMAIN upTo[n - 1].vestings[r] THEN ClaimEntry(upTo[n - 1], r, n)
            ELSE upTo[n - 1]
    IN  upTo[last]

\* claim_all: from the last entry down to the first, so that what swaps into a
\* freed slot has been visited; fails when nothing at all was claimable.
ClaimAllTx(r) ==
    LET tx == Migrate(Begin, r)
        last == Len(tx.vestings[r])
        upTo[n \in 0 .. last] ==
            IF n = 0 THEN tx ELSE ClaimEntry(upTo[n - 1], r, last + 1 - n)
    IN  upTo[last]

ClaimAll(r) ==
    /\ "claim" \notin paused
    /\ \E id \in Ids : ClaimAllTx(r).toRecipient[id] > toRecipient[id]
    /\ Commit(ClaimAllTx(r))

\* The checks a revocation makes on an entry: it exists, it is not fully
\* vested, and its batch names the caller as the depositor.
Revocable(tx, caller, q) ==
    /\ q.index \in DOMAIN tx.vestings[q.recipient]
    /\ LET v == tx.vestings[q.recipient][q.index]
       IN  now < v.win.end /\ tx.batchInfo[v.batch] = caller

\* Mutant: the vested part not yet claimed goes back to the sender.
RevokeReturningVested(tx, q) ==
    LET v == tx.vestings[q.recipient][q.index]
        removed == [tx EXCEPT !.vestings[q.recipient] = SwapRemove(@, q.index)]
    IN  IF OverflowsNow(v) THEN Panic(tx) ELSE PaySender(removed, v, v.total - v.released)

\* The effect of a revocation: the entry goes, the unvested part goes back to
\* the sender, the vested part not yet claimed goes out to the recipient.
RevokeEntry(tx, q) ==
    LET v == tx.vestings[q.recipient][q.index]
        removed == [tx EXCEPT !.vestings[q.recipient] = SwapRemove(@, q.index)]
    IN  IF OverflowsNow(v) THEN Panic(tx)
        ELSE PayRecipient(PaySender(removed, v, v.total - VestedNow(v)),
                          v, VestedNow(v) - v.released)

Revoke(caller, q) ==
    LET tx == Migrate(Begin, q.recipient)
    IN  /\ "revoke" \notin paused
        /\ Revocable(tx, caller, q)
        /\ Commit(RevokeEntry(tx, q))

\* Mutant: the smaller total is not written back.
RevokePartialUnstored(caller, q, amount) ==
    LET tx == Migrate(Begin, q.recipient)
    IN  /\ "revoke" \notin paused
        /\ amount > 0
        /\ Revocable(tx, caller, q)
        /\ LET v == tx.vestings[q.recipient][q.index]
               protected == IF VestedNow(v) > v.released THEN VestedNow(v) ELSE v.released
           IN  /\ ~OverflowsNow(v)
               /\ amount <= v.total - protected
               /\ Commit(PaySender(tx, v, amount))

\* revoke_partial: reduces the total by an amount not above total minus the
\* larger of what was released and what has vested.
RevokePartial(caller, q, amount) ==
    LET tx == Migrate(Begin, q.recipient)
    IN  /\ "revoke" \notin paused
        /\ amount > 0
        /\ Revocable(tx, caller, q)
        /\ LET v == tx.vestings[q.recipient][q.index]
               protected == IF VestedNow(v) > v.released THEN VestedNow(v) ELSE v.released
           IN  /\ ~OverflowsNow(v)
               /\ amount <= v.total - protected
               /\ Commit(PaySender(
                      [tx EXCEPT !.vestings[q.recipient][q.index].total = @ - amount],
                      v, amount))

\* Mutant: the same index may come twice.
DescendingWeakly(reqs) ==
    \A i, j \in DOMAIN reqs :
        i < j /\ reqs[i].recipient = reqs[j].recipient => reqs[i].index >= reqs[j].index

\* Requests must come with strictly descending indices per recipient, compared
\* with the latest earlier request for the same recipient.
Descending(reqs) ==
    \A i, j \in DOMAIN reqs :
        i < j /\ reqs[i].recipient = reqs[j].recipient => reqs[i].index > reqs[j].index

\* batch_revoke: entries that cannot be revoked are skipped.
RevokeIfAllowed(tx, caller, q) ==
    LET t == Migrate(tx, q.recipient)
    IN  IF Revocable(t, caller, q) THEN RevokeEntry(t, q) ELSE t

BatchRevokeTx(caller, reqs) ==
    LET upTo[n \in 0 .. Len(reqs)] ==
            IF n = 0 THEN Begin ELSE RevokeIfAllowed(upTo[n - 1], caller, reqs[n])
    IN  upTo[Len(reqs)]

BatchRevoke(caller, reqs) ==
    /\ "revoke" \notin paused
    /\ Len(reqs) <= MaxBatchSize
    /\ Descending(reqs)
    /\ Commit(BatchRevokeTx(caller, reqs))

\* revoke_batch: one entry that cannot be revoked fails them all.
RevokeOrPanic(tx, caller, q) ==
    LET t == Migrate(tx, q.recipient)
    IN  IF Revocable(t, caller, q) THEN RevokeEntry(t, q) ELSE Panic(t)

RevokeBatchTx(caller, reqs) ==
    LET upTo[n \in 0 .. Len(reqs)] ==
            IF n = 0 THEN Begin ELSE RevokeOrPanic(upTo[n - 1], caller, reqs[n])
    IN  upTo[Len(reqs)]

RevokeBatch(caller, reqs) ==
    /\ "revoke" \notin paused
    /\ Len(reqs) <= MaxBatchSize
    /\ Descending(reqs)
    /\ Commit(RevokeBatchTx(caller, reqs))

\* transfer_vesting_rights: the new address must be below its cap, counted
\* before the entry leaves the old one.
TransferVestingRights(r, i, new) ==
    LET tx == Migrate(Migrate(Begin, r), new)
    IN  /\ i \in DOMAIN tx.vestings[r]
        /\ Len(tx.vestings[new]) < MaxSchedulesPerRecipient
        /\ LET v == tx.vestings[r][i]
               removed == [tx EXCEPT !.vestings[r] = SwapRemove(@, i)]
           IN  Commit([removed EXCEPT !.vestings[new] = Append(@, v)])

\* maintenance and get_vestings, sent as a transaction: only the migration of
\* the recipient's old entries changes what is modelled.
Touch(r) ==
    /\ legacy[r] # <<>>
    /\ Commit(Migrate(Begin, r))

-----------------------------------------------------------------------------
(* The specification *)

Entry == [recipient : Recipients, token : Tokens, amount : Amounts]
Request == [recipient : Recipients, index : Indices]
Batches(S) == UNION {[1 .. n -> S] : n \in 1 .. MaxBatchSize}
Deposits == {entries \in Batches(Entry) : Len(entries) <= Cardinality(Fresh)}

Next ==
    \/ Tick
    \/ \E mask \in Masks : TogglePause(mask)
    \/ \E s \in Senders, w \in Windows : \E entries \in Deposits : Deposit(s, w, entries)
    \/ \E r \in Recipients, i \in Indices, a \in Parts : Claim(r, i, a)
    \/ \E r \in Recipients : ClaimAll(r) \/ Touch(r)
    \/ \E s \in Senders, q \in Request : Revoke(s, q)
    \/ \E s \in Senders, reqs \in Batches(Request) : BatchRevoke(s, reqs) \/ RevokeBatch(s, reqs)
    \/ \E r, new \in Recipients, i \in Indices : TransferVestingRights(r, i, new)
    \/ \E s \in Senders, q \in Request, a \in Parts : RevokePartial(s, q, a)

Spec == Init /\ [][Next]_vars

-----------------------------------------------------------------------------
(* Properties *)

\* Every stored schedule with its holder, old entries as migration will leave
\* them (their batch aside).
InNewLists == UNION {{<<r, v>> : v \in ToSet(vestings[r])} : r \in Recipients}
InOldLists ==
    UNION {{<<r, [v EXCEPT !.win = MigratedWindow(@)]>> : v \in ToSet(legacy[r])} :
               r \in Recipients}
Stored == InNewLists \cup InOldLists

StoredIds == {p[2].id : p \in Stored}
EntryOf(id) == CHOOSE p \in Stored : p[2].id = id

\* Storage, balances and the per-id history have their types.
TypeOK ==
    /\ now \in 0 .. MaxTime
    /\ paused \subseteq Ops
    /\ \A lists \in {vestings, legacy} : lists \in [Recipients -> Seq(Schedule)]
    /\ batchInfo \in Seq(Senders)
    /\ custody \in [Tokens -> Nat]
    /\ \A h \in {funded, toRecipient, toSender} : h \in [Ids -> Nat]

\* The batch a stored schedule refers to names its own depositor, so a
\* revocation pays back, and is authorised by, whoever funded it; migrated
\* entries get batches of their own (#209, #328).
BatchNamesDepositor ==
    \A r \in Recipients : \A i \in DOMAIN vestings[r] :
        LET v == vestings[r][i]
        IN  v.batch \in DOMAIN batchInfo /\ batchInfo[v.batch] = v.sender

\* What is still owed on the stored schedules in a token.
Owed(tok) == TotalOf({p[2] : p \in Stored}, tok)

Overpaid == {id \in Ids : toRecipient[id] + toSender[id] > funded[id]}

\* Unless some schedule was paid out beyond its deposit, the contract's balance
\* of every token is exactly what is still owed in that token: deposits, claims,
\* revocations and migration of several tokens move the balance and the stored
\* schedules together (#194, #210).
CustodyIsExact ==
    Overpaid = {} => \A tok \in Tokens : custody[tok] = Owed(tok)

\* The contract can always pay what it owes (README.md:178 "Funds remain locked
\* in the contract until unlock time is reached."; README.md:195 "Contract
\* escrow until unlock").
Solvent ==
    \A tok \in Tokens : custody[tok] >= Owed(tok)

\* No old entry had been claimed to its end.
LegacyHoldsValue == \A v \in AllLegacy : v.released < v.total

\* A stored schedule of which no part was revoked still holds value: none lingers
\* empty in its recipient's list, using up the schedule cap.
StoredHoldsValue ==
    \A p \in Stored : toSender[p[2].id] = 0 => p[2].released < p[2].total

\* What the caller of reqs sees: old entries of the recipients named are listed.
SeenTx(reqs) ==
    LET upTo[n \in 0 .. Len(reqs)] ==
            IF n = 0 THEN Begin ELSE Migrate(upTo[n - 1], reqs[n].recipient)
    IN  upTo[Len(reqs)]

IdsIn(tx) ==
    {v.id : v \in UNION {ToSet(tx.vestings[r]) \cup ToSet(tx.legacy[r]) : r \in Recipients}}

\* Validated requests always reach the entries the caller named, whatever
\* swap-with-last removal does between them (#198, #308, #505): batch_revoke
\* closes exactly the requested entries that are revocable in the state the
\* caller saw.
BatchRevokeHitsTargets ==
    \A s \in Senders, reqs \in Batches(Request) :
        Descending(reqs) =>
            LET tx == BatchRevokeTx(s, reqs)
                seen == SeenTx(reqs)
                named == {seen.vestings[q.recipient][q.index].id :
                             q \in {x \in ToSet(reqs) : Revocable(seen, s, x)}}
            IN  tx.ok => StoredIds \ IdsIn(tx) = named

\* claim_all visits every entry once: afterwards nothing more is claimable by
\* the recipient, and each schedule was paid exactly what was claimable on it
\* before, although removals shuffle the list under the loop.
ClaimAllIsComplete ==
    \A r \in Recipients :
        LET tx == ClaimAllTx(r)
            due(id) == IF id \notin StoredIds \/ EntryOf(id)[1] # r THEN 0
                       ELSE LET v == EntryOf(id)[2]
                                c == VestedNow(v) - v.released
                            IN  IF c > 0 THEN c ELSE 0
        IN  tx.ok => \A id \in Ids : tx.toRecipient[id] - toRecipient[id] = due(id)

(***************************************************************************)
(* The stored schedules, seen through their ids, are a VestingLedger: this *)
(* module implements it.                                                   *)
(***************************************************************************)
LedgerEntry(r, v) ==
    [owner |-> r, sender |-> v.sender, total |-> v.total,
     released |-> v.released, win |-> v.win]

LedgerSched ==
    LET S == Stored
        entry(id) == CHOOSE p \in S : p[2].id = id
    IN  [id \in {p[2].id : p \in S} |-> LET p == entry(id) IN LedgerEntry(p[1], p[2])]

LegacySched ==
    [id \in LegacyIds |->
        LET r == CHOOSE x \in Recipients : \E v \in LegacyEntries(x) : v.id = id
            v == CHOOSE x \in LegacyEntries(r) : x.id = id
        IN  LedgerEntry(r, [v EXCEPT !.win = MigratedWindow(@)])]

Ledger == INSTANCE VestingLedger
    WITH Accounts <- Recipients \cup Senders, Legacy <- LegacySched, sched <- LedgerSched

\* Every invocation of the contract is one step of the ledger, or none: the
\* list layout, the order of requests and lazy migration never show.
ImplementsLedger == Ledger!Spec
=============================================================================
