# Stellar BatchPay: specification and proofs

TLA+ modules of the parts of this repository that move money: the vesting
contract (`contracts/batch-vesting`, Rust on Soroban), the batch-payment
pipeline of the web application (`lib/stellar`, `lib/backends`, `app/api`), and
what stands around the two: the keeper bot, the browser's reentrancy guard, the
rate limiter and the page that submits and follows a job.
TLC checks them on small instances; TLAPS proves the main safety properties for
every instance. `PROJECT.json` maps each definition to the lines it translates.

    tlc -workers 2 -config MCVestingLedger.cfg MCVestingLedger
    tlapm VestingLedger_proofs.tla

## 1. Inventory

| component | state | operations | interacts with | what is hard |
|---|---|---|---|---|
| Vesting schedules and custody (`contracts/batch-vesting/src/lib.rs`) | per recipient an indexed list of schedules and its count, batch metadata, the old `Vec` layout, token balances | `deposit`, `claim`, `claim_all`, `revoke`, `revoke_partial`, `batch_revoke`, `revoke_batch`, `transfer_vesting_rights`, `maintenance`, `get_vestings` | token contracts, administration (pause) | removal reorders the list while requests are served; lazy migration inside any call; deposit, claims and revocations of one schedule by different parties in any order; rounding, cliffs, checked overflow |
| Vesting administration (same file) | admin, pending admin, pause mask, old pause flag, configuration, fee, upgrade proposal | `propose_admin`, `accept_admin`, `renounce_admin`, `toggle_pause`, `set_config`, `set_fee_config`, `propose_upgrade`, `execute_upgrade` | deposits (fee, pause) | long sequences: nominations that outlive the nominator, renouncing under a pause, replaced proposals |
| Storage time-to-live (same file) | ledger lifetimes | `bump_*`, `maintenance` window | keeper | entries beyond the cursor |
| Batch worker (`lib/stellar/batch-worker.ts`) | a loop over batches with results in memory | claim, begin, per batch submit / reconcile / count, finish, catch | job store, Horizon, webhooks | several workers per job, crashes between steps, lost answers |
| Job store (`lib/backends/job-store-*.ts`) | rows of `jobs`, `idempotency_keys`, `webhook_deliveries` | create, claim, increment, update, list, prune | worker, routes | leases without fencing, optimistic updates, key races |
| Job routes (`app/api/batch-submit`, `batch-retry`) | none | submit, replay, retry | job store, worker | replays of live jobs, retries of undecided rows |
| Submission service (`lib/stellar/server.ts`, `reconciliation.ts`) | account and sequence number in memory | `submitSingleBatch`, `submitBatch`, bad-sequence and fee retries, reconciliation | Horizon | transactions that land after they were given up |
| Batcher (`lib/stellar/batcher.ts`) | none | `createBatches` | worker, `batch-build` | limits on count and size |
| Webhooks (`lib/webhooks.ts`) | registrations, delivery log | `triggerWebhooksWithRetry` | worker | retries lost by a crash, only the last outcome logged |
| Keeper (`scripts/keeper.ts`, `lib/keeper`) | a file of cursors | discovery, maintenance window, confirmation | contract | schedules that move while the bot sweeps, cursors saved once per run, transactions that land late |
| Reentrancy guard (`lib/stellar/reentrancy-guard.ts`) | lock records in memory, local storage, Web Locks | acquire, release, broadcast | vesting client | tabs, expiry while held, nested release |
| Rate limits (`lib/backends/rate-limit-*.ts`) | buckets in SQLite, Redis or Postgres | `consumeRateLimit` | routes | first requests that race, windows that turn over |
| Wallet sessions (`lib/wallet-auth.ts`) | consumed challenges in memory | challenge, verify | routes | several nodes, restarts |
| Job progress in the browser (`hooks/use-batch-polling.ts`, `contexts/BatchFlowContext.tsx`, `app/api/batch-events`) | stream or polling | follow a job | job store | broken streams, overlapping ticks |
| Everything else (parsing, validation, history, dashboards, receipts, secrets, UI, CLI) | none that a protocol depends on | pure functions, queries, presentation | | not modelled |

What makes each of the modelled parts correct:

- *Schedules*: deposits are conserved per schedule and per token; nobody gets
  more than vested, a closing schedule pays exactly what vested; lists and
  batches stay consistent under removal, transfer and migration; batched
  requests reach what the caller named.
- *Administration*: no state in which funds are frozen with nobody to unfreeze
  them, no admin through a stale nomination, no unreviewed code.
- *Jobs*: no payment twice, reports that agree with the ledger, one worker per
  job under its lease, retries of what really failed, every job settled.
- *Keeper*: nothing is archived because the bot skipped it.
- *Guard*: one tab at a time, for the whole of a flow, and no lock left behind.
- *Gateway and page*: one job per idempotency key, answers about the caller's own
  payments, no window over its limit, a page that shows what happened and does
  not block for nothing.

## 2. Modules

| module | what it is | extends / instantiates |
|---|---|---|
| `VestingSchedule` | arithmetic of one schedule: windows accepted by `deposit`, `calculate_vested_amount`, its overflow, the window of a migrated entry | |
| `VestingLedger` | abstract: schedules under ids, and per id what was deposited, paid to holders, returned to the depositor | `VestingSchedule` |
| `VestingContract` | detailed: the contract's storage and balances; implements `VestingLedger` | `VestingSchedule`; `VestingLedger` as `Ledger` |
| `VestingAdmin` | administration | |
| `BatchJobs` | job store, workers, routes and network | |
| `Gateway` | rate limiter and idempotent creation of jobs, for both deployments | |
| `BatchFlow` | the new-batch page and its polling, composed with the gateway | extends `Gateway` |
| `Keeper` | keeper bot, network, and the lifetimes of the contract's slots | |
| `ReentrancyGuard` | the guard under the vesting page, in several tabs | |
| `*_proofs` | theorems of the module they are named after | that module, `TLAPS` |
| `MC*` | small instances for TLC | |

### VestingContract and the code

An invocation is one Soroban transaction, hence one atomic action. It is
written as a pure function from a record of everything it may write (a "tx",
`Begin`) to a record, and `Commit` installs the result unless a panic set
`ok = FALSE`; a loop of the code is a fold over its requests, written as a
recursive function `upTo[n]` (the transaction after n requests).

| code | model |
|---|---|
| `VestingEntry(r, i)`, `VestingCount(r)` | `vestings[r]`, a sequence (indices from 1) |
| old `Vesting(r)` | `legacy[r]`, emptied by `Migrate` |
| `BatchInfo(id)`, `BatchCounter` | `batchInfo`, a sequence of depositors |
| balance of the contract's address | `custody[token]` |
| `PauseMask` | `paused` |
| `remove_vesting` | `SwapRemove` |
| `migrate_if_needed` | `Migrate`, called by every operation that calls it |
| a failed token transfer | `Panic` when the balance is short |
| `env.ledger().timestamp()` | `now`, advanced by `Tick` |

A schedule carries an `id` the code does not have: history for the properties
and for the refinement, never read by an operation. `funded`, `toRecipient` and
`toSender` are per-id history. The deposit fee goes from the sender straight to
the treasury and never touches custody, and is left out, as are lifetimes,
events, memos, authentication (every account may try everything; the
guards are the checks on identity), and deposits with no entries, which only
add a batch nobody refers to.

`VestingLedger` forgets indices, lists, batches, caps, pauses, tokens and
migration. `ImplementsLedger` says that each invocation is one of its steps or
a stutter, with `sched` the stored schedules by id (old entries as migration
will leave them).

### VestingAdmin and the code

One variable per storage key, `None` when absent. `Paused` is
`get_pause_mask`: the old flag, when set, pauses everything. `nominatedBy` and
`proposedAt` are history.

### BatchJobs and the code

A worker is one call of `processJobInBackground`. JavaScript switches tasks at
`await` only, so every action ends at one; several server processes are just
more workers. `pc` names the place:

    claim -> begin -> (load ->) send -> await -> tally -> ... -> finish
                                  \-> load (bad sequence)  \-> send (fee)
    store error -> abort;  crash -> idle

| code | model |
|---|---|
| row of `jobs` | `jobs[j]`: status, rows, total/completed batches, result |
| `updatedAt` older than the lease | `jobs[j].stale`, set by `Expire`, cleared by every write |
| `signedTransactions` of the row | `jobs[j].presigned`; the worker starts in that mode |
| whether the paying account is the server's or a wallet | `ServerAccount` |
| the row a retry was built from | `jobs[k].from`, history |
| results in the worker's memory | `workers[w].out` |
| source account's sequence number and history | `ledger` |
| transactions Horizon or the network holds | `pool` |
| a client-signed envelope | `Envelope`: fixed sequence number `base + i` |
| `submitTransaction` fails in transport, `reconcileTransaction` | `Reconcile`: found, not found (failed), unreachable (unknown) |

`Submit` creates a job of either signing mode, on the server's account also one the
client signed. `Retry` takes any job of the server's account, whoever signed it, and any
number of times: the idempotency key is the client's (`batch-retry/route.ts:78-80`), so
it is a key never used before, and under a used one the request changes nothing. A retry
can itself be retried. Jobs are named in advance, so the number of names is the bound.

One batch is one `Payment`, since an envelope pays all its recipients or none
and their rows agree. The network (`Land`, `Foreign`, loss in `Send`) is
external: a transaction applies only with the account's next sequence number,
uses it up even when its operations fail, and may stay undecided for as long as
its time bounds allow, or never land. The store is SQLite's, where each
call is one step; `StoreError` covers a busy database and the "modified
concurrently" error of `updateJob`.

### Gateway, BatchFlow and the code

A request is a record of `reqs` with a program counter; each `await` of
`batch-submit` that another process can come between is a step.

| code | model |
|---|---|
| `JOB_STORE_BACKEND`, `RATE_LIMIT_BACKEND` | `store`: `"sqlite"`, everything in SQLite, or `"postgres"`, jobs in Postgres and buckets in Redis |
| row of `rate_buckets`, `resetAt` in the future | `bucket`, its `live` |
| row of `idempotency_keys` | `keys[k]`: hash of the body, job |
| `Idempotency-Key` header, or the hash of the body | `Keys`, `KeysFor` |
| `expiresAt` passes and the key is pruned | `Lapse(k)`; `lapses` counts the lifetimes of a key |
| SELECT, INSERTs, COMMIT of `createIdempotentJob` in Postgres | `Lookup`, `InsertKey` (blocks on an uncommitted insert of the same key), `Commit` |
| `jobId`, `jobStatus`, `isSubmitting`, `pollErrorCountRef`, the interval | fields of `page` |
| requests of the interval not yet answered; the one `AbortController` | `polls`; the poll marked `current` |
| the connection is lost, the page reloaded | `Disconnected`, `Reload`: the request goes on |

`Settle` is all that is left of `BatchJobs` here; it ends jobs in either store, which
is more than Postgres allows (section 3) and costs the safety properties nothing. `troubled` is history: it says
that two polls were under way at once or that the page gave up polling.

### Keeper and the code

| code | model |
|---|---|
| storage slot `VestingEntry(r, i)`, its live-until ledger | `slots[r][i]`, `left` in periods of the schedule |
| `push_vesting`, `remove_vesting`, `maintenance` | `Pushed`, `Removed`, `Maintain` |
| `nextMaintenanceIndex` in `KEEPER_STATE_PATH` | `disk`, read by `Start`, written by `Save` |
| `fetchActiveRecipients` | `announced`: who is named in events (a transfer names the old holder) |
| simulate, sign, send; thirty polls | `Send`, then `Apply`, `Reject` or `GiveUp` |
| `determineMaintenanceState` | `Advance`, `Hold`, `GiveUp`, `NoWork` |
| exception or killed job | `Crash`: the whole run's cursors are lost |

`cover`, `known` and `reach` are history: whether maintenance was applied to a
slot, whether the bot could have known its holder from the start, and how far
applied maintenance went.

### ReentrancyGuard and the code

| code | model |
|---|---|
| record in `localStorage`, `memoryLockStore`, `localRefCounts`, `webLockReleases` | `storage`, `memory[t]`, `refs[t]`, `releaser[t]` |
| `navigator.locks`, and whether it exists | `mutex`, `webLocks` |
| storage works (private windows) | `durable` |
| `BroadcastChannel` and storage events | `news[t]`, in order |
| `getActiveLock`, `acquireGuard`, `releaseGuard` | `Look`; `Acquire`, `Granted`/`Denied`, `Recheck`, `Write`; `Release` |
| a click of the page: guard, builder with its own guard, signature, polling, release | `Click`, `CallBuilder`, `Built`, `Finish` |
| `isProcessing`, which disables buttons once React has rendered | `busy`, `Render` |

## 3. Runs

Runs that pass:

| run | question | instance |
|---|---|---|
| `vesting_ledger` | who is paid what, and whether books and payments agree, under every operation | a new schedule and two old ones, one of them partly claimed; amounts 1 and 5 (one that rounds, one that does not), stepped, continuous and all-at-end windows, cliffs inside, clock to 5; 389,151 states |
| `vesting_storage` | storage layout, balances per token; batched requests and `claim_all` tried in every reachable storage | 2 recipients, 2 senders, 2 tokens, 3 schedules one of them in the old layout, batches of 2, cap 2, `MaxI128` small enough that the checked product overflows; 184,163 states |
| `vesting_refines` | `VestingContract` implements `VestingLedger` | 1 sender, 1 token, claims paused and resumed, an old entry partly claimed; 22,902 states |
| `vesting_admin` | administration | 2 accounts, timelocks below, at, above the minimum, a negative fee; 16,473 states |
| `jobs_signed` | a client's own account, and whether every job settles | 1 job of 2 batches, the second one unparseable, 2 workers, 2 crashes or store errors, foreign transactions; 559,449 states |
| `jobs_retry` | the server's account: jobs of either signing mode, signing again, and retries of failed rows | 1 submitted job of 2 batches, 2 jobs for retries (a retry of a retry, or two of the same job), 1 worker, 1 bad-sequence and 1 fee retry, lost answers, no crash; 3.3 million states |
| `keeper` | whether the bot skips a slot, which slots it lets lapse, and whether every schedule gets its first maintenance | 2 holders, 2 schedules, windows of one, lifetimes of three periods, 1 fault of any kind; 545,896 states |
| `guard` | mutual exclusion of tabs, and what an expiry leaves behind | 2 tabs of 2 clicks, 2 records, 1 reload, with and without Web Locks and `localStorage`; 2,914,175 states |
| `batch_flow` | the new-batch page and other clients against limiter and job creation, single node and highly available | 2 requests sent, both under way, 2 bodies (4 keys), limit 2, callers with no or one earlier request, 1 expiry of a key, give-up after 2 failed polls, 2 polls under way; 499,106 states |

Three properties of schedules are stated for the schedules no part of which was
revoked (`toSender[id] = 0`): `NeverAhead`, `EarnedIsPaid` and
`StoredHoldsValue`; `CustodyIsExact` holds until a schedule is paid out
beyond its deposit (`Overpaid`). There are two exceptions. One is `revoke_partial`, and
`vesting_solvency` is what it leads to. The other is an entry of the old layout on which
something had been claimed (`ClaimedBefore`): migration keeps what was released
(`lib.rs:334`) and lets nothing vest before the end, so the entry starts ahead of its
schedule, and revoked before its end it sends its whole total to the sender on top of
what was released (`lib.rs:944`). `NeverAhead` leaves such entries out, and
`EarnedIsPaid` holds for them when they close after their end.

Runs that show where the code and what is said of it part:

| run | what TLC shows |
|---|---|
| `vesting_solvency` | claim, then `revoke_partial`, then `revoke`: `revoke_partial` lowers `total_amount`, the base of the vested share, so the released amount exceeds the vested one; the sender gets `total - vested` in full, the schedule has paid out more than was deposited, and the balance no longer covers the other schedules (README.md:178, README.md:195) |
| `jobs_double_pay` | the lease of a live worker runs out, a replay claims the job, both pay (server-signed jobs; `batch-submit/route.ts:20-22`) |
| `jobs_report` | Horizon answers 404 for a transaction that lands later and its row says failed; or a transaction found by hash counts as success although its operations failed (README.md:40, `batch-retry/route.ts:207-208`) |

Seen while reading or modelling, and not the subject of a run:

- *Contract.* Step 0 unlocks everything at the end while `lib.rs:45` calls 0 and
  1 both continuous; `set_config` may change the fee asset (`lib.rs:799-800`).
- *Jobs.* `page.tsx:108` (`app/dashboard/history/[jobId]`) says that the key of a retry
  prevents duplicate retry jobs on a double click, but line 109 makes a new random one
  per click; the button is disabled only while a request is under way, and the route
  takes the client's key for what tells retries apart. A second retry of the same failed
  rows is therefore an ordinary sequence, and pays them again: `RetryIsJustified` and
  `PaidTwiceHasCause` hold of any number of retries and do not rule it out. Progress is
  exact until a job is reclaimed; afterwards the old worker's increments are added to
  the new one's. One success among failures makes a job `completed`, and a `failed` job
  may still be completed by another worker (`docs/batch-worker-webhooks.md:11`,
  `:55`). A job made by `batch-retry` has no request to replay: when its worker
  dies it stays `queued` or `processing`.
- *Keeper.* The sweep never returns to the first slot. Its cursor is reset by a
  failing simulation, and the contract's `maintenance` accepts any start index,
  so an unaided bot goes past the end and stays there, and whatever is behind it
  lapses; `DEPLOYMENT.md:254-255` and `scripts/keeper.ts:232-234` promise a fresh
  sweep. Conversely any simulation error resets the cursor. The event of a
  transfer names the old holder only, so a new holder without events of their own
  is never visited. `getEvents` is called without a start ledger and without
  filters; a server that refuses such a query makes every run one that discovers
  nobody.
- *Guard.* `ExclusiveAcrossTabs` is about different tabs. Within one tab the guard is
  nested: a second click before React has disabled the button shares the holder of the
  first, raises the reference count and passes, although the header of
  `reentrancy-guard.ts` (lines 5-6) names rapid clicks among what the guard is for. When a
  record expires under its flow, `releaseGuard` finds none and
  keeps the Web Lock (`reentrancy-guard.ts:325`): no tab can start this operation
  until the one that holds the lock is closed, which the expiry was to prevent
  (`reentrancy-guard.ts:11`). Without Web Locks two tabs may both pass.
- *Page.* Polls that overlap can show one job's outcome for another. After three
  failed polls in a row `isSubmitting` stays set and the page is blocked until it
  is reloaded. A reload never restores the saved flow: the effect that saves runs
  before the one that restores.
- *Postgres.* Columns are created and selected unquoted, so rows come back with
  lower-case names and the code's camelCase fields are undefined: every replay
  answers 409 for want of a `requestHash`, and jobs come back without `jobId`,
  `publicKey`, batch counts and signed envelopes. The worker's last update leaves
  the counts as the row has them, hence writes NULL into NOT NULL columns, and so
  does the one of its catch block: the payments are made and the job stays
  `processing`. The loser of a race for a key gets a 500 and not
  the winner's job. The Postgres limiter passes two values to a statement with
  one placeholder, and always fails.

Why the bounds are enough. Two recipients, two senders and lists of two (three
with migration) contain every case of swap-with-last: the removed entry is the
last, or another entry moves. Two entries per request let one request disturb
the next. Two workers are what an interleaving needs, since a job has at most
one claimant per lease; a second lease on top of a first one repeats the first
one's situation. `MaxFaults`, `MaxLedger` and `MaxPool` bound crashes,
transactions applied and transactions under way; the passing runs reach all of
them. `jobs_retry` has no crash (`MaxFaults` is 0), since `jobs_signed` has two and a
third job costs what a crash would: a retry job whose worker dies is not replayed, and
simply stops. With two retry jobs a job is retried
twice, or a retry retried. `BadSeqLimit` and `FeeRetryLimit` are one where the code's default is three:
a second retry starts from the same kind of state as the first.

In `keeper`, two holders and two schedules let a removal, a transfer and a new
deposit meet a window that is under way, already passed or still ahead;
lifetimes of three periods make a slot survive the sweep ahead of the cursor and
lapse behind it. In `guard` the third click or tab would find what the second
finds: a record that is there or not. Two records are the flow that expired and
the one that took its place. In `batch_flow` two requests are a race, one earlier
request makes the second one exceed the limit, and the page can submit a second
list after the first job ended.

All cfg files but that of `keeper` turn deadlock checking off, because every
other model has a bounded clock, ledger, or supply of ids or requests at which it
stops.

Fairness of jobs (`JobSettles`, in `jobs_signed`). `WF(Work(w))`: a running
worker's promises resolve, every HTTP call has a timeout; `WF(Expire(j))`: the
clock runs; and
`WF(Replay(j))`: the client sends its submission again while the job is
stranded, which is what `batch-submit` documents as the way to resume (#502).
No fairness is assumed of the network: answers may be lost for ever. Nothing in
the server replays by itself, so without the client's fairness `JobSettles`
does not hold.

Fairness of the keeper (`FirstSweepReachesAll`, in `keeper`). `WF(Bot)`: the
workflow starts a run every six hours, ends it after thirty minutes at most, and
restores the state file of the last one (`.github/workflows/keeper.yml`);
`WF(Apply \/ Reject)`: a transaction that was sent is applied or refused, unless
the bot gives it up. Crashes, refusals and give-ups are bounded by `MaxFaults`, the
others are not: lifetimes run out, schedules come, go and change hands for ever.
`LapsesOnlyBehindCursor` also uses that the clock waits for the period's run
(`Tick` needs `ran`), which a crash counts as.

## 4. Proofs

| module | theorem | for |
|---|---|---|
| `VestingSchedule_proofs` | `VestedBounds`, `VestedMonotonic` | every total, window and time |
| `VestingLedger_proofs` | `LedgerTypeOK`, `LedgerBooksBalance`, `LedgerNothingTrapped` | every operation |
| | `LedgerNeverAhead`, `LedgerEarnedIsPaid` | every operation and any old schedules, for schedules no part of which was revoked; of an old one partly claimed, only what the end pays |
| `VestingContract_proofs` | `ContractTypes`, `ContractNamesDepositor`, `ContractCustodyIsExact`, `ContractBatchRevokeHitsTargets`, `ContractClaimAllIsComplete`, `ContractImplementsLedger` | any recipients, senders, tokens, schedules, batches, caps, old lists |
| | `ContractStoredHoldsValue` | the same, where no old entry was claimed to its end (`LegacyHoldsValue`) |
| `VestingAdmin_proofs` | `AdminTypeOK`, `AdminNeverFrozen`, `AdminNominationIsCurrent`, `AdminRenouncedForGood`, `AdminUpgradesAreReviewed` | every operation |
| `BatchJobs_proofs` | `JobsTypes`, `JobsClaimIsExclusive`, `JobsProgressIsExact`, `JobsSuccessIsOnLedger`, `JobsRetryIsJustified` | any jobs of either signing mode, finitely many workers, any payments, retries, faults |
| | `JobsPaidTwiceHasCause` | the same, requested payments all different (`DistinctRequests`) |
| | `SignedPaidOnce` | a client's own account (`~ServerAccount`), requested payments all different |
| `BatchFlow_proofs` | `FlowTypes`, `FlowOneJobPerKey`, `FlowAnswerFitsRequest`, `GatewayPromises`, `FlowLimitHolds`, `FlowShownIsReached`, `FlowBlockIsWatched` | any number of requests, bodies, expiries, polls; both stores |
| `Keeper_proofs` | `KeeperTypeOK`, `KeeperCoveredBehindCursor` | any holders, schedules, window, lifetimes, faults |
| | `KeeperLapsesOnlyBehindCursor` | the same, where a first lifetime is long enough (`Timely`) |
| `ReentrancyGuard_proofs` | `GuardInvariant`, `Types`, `Exclusive`, `Covered`, `MutexOutlives`, `PutDown` | any tabs, clicks, records, reloads; with and without Web Locks and storage |

*Schedules.* `VestedBounds` and `VestedMonotonic` are arithmetic: a product
divided by the number of steps stays below the total while fewer steps have
passed than there are, and grows with them. `BooksBalance` is inductive together
with the types: each operation moves a stored number and a payment together.
`NothingTrapped` needs it, because a schedule closes with whatever its record
says is left. For `EarnedIsPaid` the strengthening is `NeverAhead`: only when
released never exceeds vested do the two parts of a revocation add up to the
deposit. `NeverAhead` is what `revoke_partial` breaks, which is why both are
about schedules no part of which was revoked and why the run
`vesting_solvency` exists. Nothing is assumed of what was claimed in the old layout. An
old entry with something claimed (`ClaimedBefore`) starts ahead, since nothing of it vests
before its end, and the properties name it: from its end on everything has vested, so
`NeverAhead` is back and it closes with what it should.

*Storage.* The invariant `Inv` of `VestingContract` says that some *book* accounts for
everything. A book is a function from the ids of the open schedules to what is known of
each (owner, sender, amounts, token, window). `Sound(b, tx)` says of a book and a
transaction that the lists, old and new, hold exactly one entry for each schedule of the
book and show it truthfully (`Describes`); that every batch named by an entry is its
sender's (`Named`); and that what each schedule was paid, got back and still is worth
matches its record, that custody is the sum of what the book owes unless a schedule was
paid beyond its deposit, and that ids are given out in order (`Money`). Stated of the state alone this would not do: batches go through many
intermediate transactions, so every lemma is about an arbitrary `tx`, and the state is
the case `Begin`.

Each helper of the code then has one lemma that says what it makes of the book: migration
leaves it as it is (`MigrateIs`), a release raises or closes one schedule
(`ReleaseSound`), a revocation closes one (`RevokeSound`), a transfer changes one owner
(`HandOverSound`), a deposit opens the next id (`DepositSound`). The loops are recursive
functions; `Recursion` shows that they exist and take their turns, `Upwards` is the
induction. After n turns of `claim_all` the schedules in the last n slots were paid
(`Visited`): removals fill a freed slot from above it, where everything was visited. After
n turns of a batch revocation some schedules of the caller's are closed and paid out in
full (`SomeRevoked`). That these are the schedules *named* compares the loop with a second
one that only migrates (`SeenTx`, what the caller saw): below every index already
requested of a recipient the two agree (`Agree`), and since requests descend per
recipient, the next index is below them all (`RequestAgrees`). A list migrated in the
middle of the loop had no request before, so it is still whole (`AgreeMigrated`).

`ContractImplementsLedger` needs nothing new. What the ledger sees of the storage is the
book (`AlwaysFaithful`), so each operation's step of the book (`*Step`) is a step of
`VestingLedger` (`*Seen`), and a migration, a pause or a revocation of nothing is a
stutter. The ledger's own assumption about old entries is proved of `LegacySched`
(`LedgerAssumptionHolds`), so the theorems about `VestingLedger` speak of the contract
too: its books balance, nothing is trapped, and the rest under the conditions stated
there. That last inference is substitution, made here and not by the prover, which cannot
cite a theorem through an INSTANCE.

Assumed are `ContractAssumption` (amounts and requested parts positive, windows that
`deposit` accepts, ids numbered from 1) and `LegacyAssumption` (old entries are schedules
of their own with something deposited and no more released than that). Numbering the ids
from 1 names them and restricts nothing, since no operation reads an id.

*Administration.* The invariant relates four keys: no admin means no pause, no
nomination; a nomination is the present admin's; a configured timelock is at
least the minimum, and a proposal's date is at least its time of proposal plus
the minimum.

*Claims.* `ClaimInv` adds to the two properties only shapes, and that the job of a
busy worker is stored and no longer queued once claimed. A worker comes to share a
job through a claim, which needs the job queued (then nobody has it) or its lease
over (then `reclaimed` says so); a job nobody reclaimed has one worker past its
claim, whose position in the loop is the progress stored. Each action is shown to
change one worker, one row, or both, in one of a few ways, and each way keeps the
invariant (`WorkerStep`, `RowStep`, `TouchStep`).

*Types and steps of workers.* `TypeInv` adds to `TypeOK` that the pool is finite, so
that a newly signed transaction differs from all others (`SignedTyped`: among more
numbers than known transactions one is free), that a busy worker's job is stored,
and that what a worker awaits carries the payment of the batch it is at. Each of the
worker's thirteen actions and its two faults is proved once to keep `TypeInv` and to
be a `WorkStep`: it changes one worker and at most that worker's own row, replaces a
result only when it ends, records at most the outcome of the batch it is at, and
moves through the batches in one of a few ways. The later invariants need no action
of the worker but that one.

*Results and retries.* `ResultInv`: a success stored or in a worker's hands is on the
ledger; results are about the job's own rows; a job whose first claim is still at
work has no result yet; a retried job that was never reclaimed had a failure
(`RetriesFailed`), hence had ended, hence nobody rewrites its result any more, and the
second retry is for the same rows as the first. The last step is what makes a
retry final, and it needs `ClaimInv`: with two workers on a job the second one's
result may contradict the retry. That a retry takes over exactly the failed rows is a
fact about the recursive function `FailedRows` for lists of every length
(`FailedRowsAre`).

*Paid twice only for a cause.* First where a payment may stand (`RowsInv`): in its
submitted job, the only one by `DistinctRequests`, and in jobs that retry one with it.
So a payment none of whose jobs was retried (`Original`) has one row of one job. Such a
payment is paid once for one of two reasons.

If the client signed the job (`Firm`), the sequence number does it. `SealInv` says that
the n-th applied transaction carries sequence number n, and that every transaction with a
firm payment is its job's envelope, whose number is fixed; two applications of it
would share a position. No lease and no claim is needed, which is why this
survives a reclaim.

If the job was not reclaimed (`Clean`), `PayInv` says that at most one transaction with
the payment was ever received, and once there is one its job is claimed and every
worker on it is past that batch, or awaits that very transaction. A worker sends its
transaction once per visit of a batch; it comes back to a batch only after the network
refused the transaction it held (`BadSeq`, `FeeRetry`), which leaves none.

What is left are the causes named in `PaidTwiceHasCause`. On a client's own account the
server signs nothing and `Retry` is refused, so none of them occurs, and `SignedPaidOnce`
follows.

*Gateway.* `GatewayInv`: a job of the present lifetime of a key has the key's row
standing; a row names a job for the body it was hashed from; a Postgres
transaction about to commit is alone with its key and nobody has it yet. The last
conjunct is what the primary key of `idempotency_keys` is for, and `Lapse` needs that no transaction is
open for a day. The page sends and receives requests like anybody else, so its steps
refine the gateway's, and the same invariant serves `GatewaySpec` and `Spec`.
`LimitInv` adds that what the window admitted and what the bucket has left add up
to the limit. It holds through the gap between SQLite's check and its count because
the count looks at `remaining` again.

*Page.* `PageInv` adds four things to the gateway's invariant. A poll that was answered
with an end tells the truth for good, since a job that ended stays so (`PollsAgree`).
Until the first mishap (`troubled`: two polls under way, or a request given up) there
is at most one poll, it is about the job the interval is for, and that is the job
shown (`InPhase`); from these two follows what the page shows. A page that is blocked
and has not given up waits for an answer, for a session, or on an interval. The page's
steps are the gateway's for the tables, so each is proved to keep the gateway's
invariant first (`FlowStep`), and to leave ended jobs ended (`Grown`).

*Guard.* `GInv` (theorem `GuardInvariant`) ties the three places a lock lives in: the
record, the reference counts of the tabs, and the Web Lock. With Web Locks whoever is
past the guard holds the lock, so there is one; the tab's count is the number of guards
its clicks hold, nested ones counted apart (`HeldBy`); and a record found to be one's
own is that of a guard still held. A record on its way to other tabs is never addressed
to its holder, which is why no late message replaces a holder's own record. A Web Lock
nobody needs was left by a record that expired (`Left`).

*Keeper.* Two indices meet: no slot below `reach` is uncovered (`Covered`), and no
cursor, on disk, in the run or in a transaction in doubt, is ahead of `reach`
(`Earned`). Swap-with-last only moves contents into covered slots, and a window
that is applied late starts behind `reach`, so it moves `reach` across no gap.
`LapsesOnlyBehindCursor` is a race between a lifetime and the cursor: `Pace(c, l)` says
that a cursor at `c` that advances a window a period is past the longest list within
`l` periods. `OnTime` holds it for every slot of an attended list, one period tighter
once the period's run is over. The network refuses a window only for an archived
slot, and while `OnTime` holds there is none ahead of the cursor, so the cursor does
advance. The theorem assumes `Timely`, a relation of three settings:
`MaxEntries <= (Extended(NewTtl) - 1) * Limit`. The period taken off is the one a slot
is made in, possibly after that period's run. The instance of the run `keeper`
satisfies it with equality, and with a lifetime one period shorter TLC refutes
the property. With the deployment's cap and window of ten entries each one run is
enough.

Only model-checked: `JobSettles` and `FirstSweepReachesAll` (liveness under fairness,
out of the prover's reach). Every invariant and action property that a passing run checks
is proved. Library theorems that take an operator as a parameter cannot be used here.
Where a recursive definition had to be reasoned about (`FailedRows`, the loops and sums of
`VestingContract`), it is a recursive function on an interval of numbers, and its
induction goes through the well-foundedness of the natural numbers stated with sets
(`Least`, `Upwards`, `Recursion` in `BatchJobs_proofs` and `VestingContract_proofs`).

## 5. Not modelled, and why

- *Webhooks.* Deliveries are fired and forgotten, kept in memory between attempts,
  and no state of a job depends on them. A crash loses them without a log entry.
- *Batcher.* `createBatches` is a function of a list, without state. That the
  worker slices payments by a hundred, whatever the envelopes hold, matters only
  for envelopes split by size; `BatchJobs` gives every envelope one payment.
- *Worker.* The source-mismatch branch, which no job can enter that `batch-submit`
  creates; results lost when the store fails after payouts (no property
  of stored rows can see them); liveness of retry jobs, which does not hold.
- *Submission service.* `submitBatch`, a sequential loop with the retries of
  `submitSingleBatch`, called by the library and the command line.
- *Postgres beyond idempotent creation.* With rows that lack most fields (section 3)
  no job ends, and what `BatchJobs` says of jobs has no subject there.
- *Keeper.* Prioritisation (`main` passes no lifetimes, and the order of a list of
  unknowns is kept), paging of the event log, `bump_instance_ttl` and the balance
  alert, which touch no cursor; the lifetimes of the instance, of counts and of the
  administration's keys.
- *Guard.* `clearAllGuards`, which only tests call, and holders and lifetimes that
  callers could choose and do not.
- *Page.* The event stream and `use-batch-polling`, which another page uses and which
  makes no attempt to go on after a broken stream; keys made at random where the
  browser lacks `crypto.subtle`.
- *Wallet sessions.* Verifying and consuming a challenge is one synchronous step of one
  process. That another node or a restart accepts it again is a matter of who may
  ask.
- *Everything else.* Parsing, validation and formatting of text; history,
  dashboard and receipt queries; configuration, secrets and health checks; the
  user interface and the command line. They keep no state a protocol depends on.
