------------------------------ MODULE BatchJobs ------------------------------
(***************************************************************************)
(* The batch-payment pipeline of the web application: jobs in the durable  *)
(* job store, the fire-and-forget workers that claim them under a lease    *)
(* and submit one Stellar transaction per batch, the routes that submit,   *)
(* replay and retry them, and the network the transactions travel.         *)
(*                                                                         *)
(* A worker is one invocation of processJobInBackground; it loses the CPU  *)
(* at every await, so each action below ends at one.  A batch is one       *)
(* Payment here: the envelope either pays all its recipients or none, and  *)
(* their result rows agree.  All payments come from one account.  A job    *)
(* presigned by the client has one envelope for every payment; otherwise   *)
(* the worker signs a new one each time it sends, which only the server's  *)
(* own account allows.  A row is "unknown" when its status or, for a       *)
(* client's envelope, its UNRECONCILED error says so.  A job's age is      *)
(* abstracted to whether its lease has run out.                            *)
(***************************************************************************)
EXTENDS Integers, FiniteSets, Sequences, Functions

CONSTANTS
    Payments,
    Jobs, Workers,
    Requests,       \* the jobs clients submit, each a sequence of payments
    ServerAccount,  \* the account is the server's, or a client's wallet
    Malformed,      \* <<job, payment>>: fails validation or parsing in the worker
    None,
    BadSeqLimit,    \* BAD_SEQUENCE_RETRY_LIMIT
    FeeRetryLimit,  \* FEE_RETRY_LIMIT
    MaxFaults,      \* bound on crashes and store errors together
    MaxLedger,      \* bound on the transactions the network applies
    MaxPool         \* bound on the transactions in flight

ASSUME JobsAssumption ==
    /\ None \notin Payments /\ None \notin Jobs
    /\ IsFiniteSet(Workers)
    /\ DOMAIN Requests \subseteq Jobs
    /\ \A j \in DOMAIN Requests : Requests[j] \in Seq(Payments)
    /\ ServerAccount \in BOOLEAN
    /\ {BadSeqLimit, FeeRetryLimit, MaxFaults, MaxLedger, MaxPool} \subseteq Nat

VARIABLES
    jobs,     \* rows of the jobs table
    workers,  \* the local state of each running worker
    ledger,   \* the source account's applied transactions, by sequence number
    pool,     \* transactions the network has received and not decided
    faults,   \* crashes and store errors so far
    reclaimed \* history: jobs claimed again while processing, their lease run out

vars == <<jobs, workers, ledger, pool, faults, reclaimed>>

Terminal == {"completed", "failed"}
NoRows == [p \in Payments |-> "none"]

Absent ==
    [status |-> "absent", rows |-> <<>>, presigned |-> FALSE, base |-> 0, total |-> 0,
     completed |-> 0, stale |-> FALSE, result |-> NoRows,
     from |-> None]   \* history: the job this one retries

Idle ==
    [pc |-> "idle", job |-> None, i |-> 0, tx |-> None, tries |-> 0, fees |-> 0,
     out |-> NoRows]

Init ==
    /\ jobs = [j \in Jobs |-> Absent]
    /\ workers = [w \in Workers |-> Idle]
    /\ ledger = <<>>
    /\ pool = {}
    /\ faults = 0
    /\ reclaimed = {}

-----------------------------------------------------------------------------
(* The job store.  Every write refreshes updatedAt. *)

Touched(j, row) == jobs' = [jobs EXCEPT ![j] = [row EXCEPT !.stale = FALSE]]

\* insertJob
Queued(rows, presigned) ==
    [Absent EXCEPT !.status = "queued", !.rows = rows, !.presigned = presigned,
                   !.base = IF presigned THEN Len(ledger) ELSE 0]

\* A queued job has no lease, yet its age too decides whether it is stranded.  The
\* age of a retry job decides nothing: it has one worker and is never replayed.
Expire(j) ==
    /\ jobs[j].status \in {"queued", "processing"} /\ ~jobs[j].stale
    /\ jobs' = [jobs EXCEPT ![j].stale = TRUE]
    /\ UNCHANGED <<workers, ledger, pool, faults, reclaimed>>

-----------------------------------------------------------------------------
(* The routes *)

Spawn(w, j) ==
    /\ workers[w].pc = "idle"
    /\ workers' = [workers EXCEPT ![w] = [Idle EXCEPT !.pc = "claim", !.job = j]]

\* POST batch-submit: the job, with its idempotency key, then a worker.  The
\* server signs for its own account only.
Submit(j, w) ==
    /\ jobs[j].status = "absent"
    /\ \E presigned \in BOOLEAN :
           /\ presigned \/ ServerAccount
           /\ Touched(j, Queued(Requests[j], presigned))
    /\ Spawn(w, j)
    /\ UNCHANGED <<ledger, pool, faults, reclaimed>>

\* Mutant: only a job no worker ever claimed is resumed.
ReplayQueued(j, w) ==
    /\ jobs[j].status = "queued" /\ jobs[j].stale
    /\ Spawn(w, j)
    /\ UNCHANGED <<jobs, ledger, pool, faults, reclaimed>>

\* POST batch-submit replayed: a stranded job gets another worker.
Replay(j, w) ==
    /\ jobs[j].status \in {"queued", "processing"} /\ jobs[j].stale
    /\ Spawn(w, j)
    /\ UNCHANGED <<jobs, ledger, pool, faults, reclaimed>>

\* The rows of j that failed, in their order.
FailedRows(j) ==
    LET rows == jobs[j].rows
        upTo[n \in 0 .. Len(rows)] ==
            IF n = 0 THEN <<>>
            ELSE IF jobs[j].result[rows[n]] = "failed" THEN Append(upTo[n - 1], rows[n])
            ELSE upTo[n - 1]
    IN  upTo[Len(rows)]

\* Mutant: rows still unknown do not hold a retry back.
RetryDespiteUnknown(j, k, w) ==
    /\ ServerAccount
    /\ jobs[j].status # "absent"
    /\ FailedRows(j) # <<>>
    /\ jobs[k].status = "absent"
    /\ jobs' = [jobs EXCEPT ![k] = [Queued(FailedRows(j), FALSE) EXCEPT !.from = j]]
    /\ Spawn(w, k)
    /\ UNCHANGED <<ledger, pool, faults, reclaimed>>

\* POST batch-retry under a new key, whoever signed j: a server-signed job of its
\* failed rows; refused while a row is unknown, and for any account but the
\* server's.  The key is the client's choice, so one job may be retried several
\* times; under a key already used the request changes nothing.
Retry(j, k, w) ==
    /\ ServerAccount
    /\ jobs[j].status # "absent"
    /\ \A p \in Payments : jobs[j].result[p] # "unknown"
    /\ FailedRows(j) # <<>>
    /\ jobs[k].status = "absent"
    /\ jobs' = [jobs EXCEPT ![k] = [Queued(FailedRows(j), FALSE) EXCEPT !.from = j]]
    /\ Spawn(w, k)
    /\ UNCHANGED <<ledger, pool, faults, reclaimed>>

-----------------------------------------------------------------------------
(* The worker *)

Job(w) == jobs[workers[w].job]
Payment(w) == Job(w).rows[workers[w].i]
Goto(w, pc) == workers' = [workers EXCEPT ![w].pc = pc]

\* What precedes the submission of a batch in each mode.
BatchStart(w) == IF Job(w).presigned THEN "send" ELSE "load"

\* The loop's turn for batch i, or what follows the loop.
NextBatch(w, i) ==
    workers' = [workers EXCEPT ![w] = [@ EXCEPT
        !.i = i, !.tx = None, !.tries = 0, !.fees = 0,
        !.pc = IF i <= Len(Job(w).rows) THEN BatchStart(w) ELSE "finish"]]

\* The result of the current batch.
Record(w, outcome) ==
    workers' = [workers EXCEPT ![w] = [@ EXCEPT
        !.out[Payment(w)] = outcome, !.tx = None, !.tries = 0, !.fees = 0, !.pc = "tally"]]

\* Mutant: the status read at the start decides, as before the atomic claim.
ClaimUnchecked(w) ==
    /\ workers[w].pc = "claim"
    /\ Touched(workers[w].job, [Job(w) EXCEPT !.status = "processing"])
    /\ Goto(w, "begin")
    /\ UNCHANGED <<ledger, pool, faults, reclaimed>>

\* claimJobForProcessing: one conditional UPDATE.
Claim(w) ==
    /\ workers[w].pc = "claim"
    /\ IF Job(w).status = "queued" \/ (Job(w).status = "processing" /\ Job(w).stale)
       THEN /\ Touched(workers[w].job, [Job(w) EXCEPT !.status = "processing"])
            /\ Goto(w, "begin")
            /\ reclaimed' = IF Job(w).status = "queued" THEN reclaimed
                            ELSE reclaimed \cup {workers[w].job}
       ELSE /\ workers' = [workers EXCEPT ![w] = Idle]
            /\ UNCHANGED <<jobs, reclaimed>>
    /\ UNCHANGED <<ledger, pool, faults>>

\* updateJob: processing, the number of batches, none completed.
Begin(w) ==
    /\ workers[w].pc = "begin"
    /\ Touched(workers[w].job, [Job(w) EXCEPT
           !.status = "processing", !.total = Len(Job(w).rows), !.completed = 0])
    /\ NextBatch(w, 1)
    /\ UNCHANGED <<ledger, pool, faults, reclaimed>>

Unusable(w) == <<workers[w].job, Payment(w)>> \in Malformed

\* An unparseable envelope, or an invalid payment: failed without being sent.
Skip(w) ==
    /\ workers[w].pc # "idle" /\ workers[w].pc = BatchStart(w)
    /\ Unusable(w)
    /\ Record(w, "failed")
    /\ UNCHANGED <<jobs, ledger, pool, faults, reclaimed>>

\* A transaction that differs from every other one, clients' envelopes included
\* (their nonce is 0).
Known ==
    pool \cup {workers[v].tx : v \in Workers} \cup {ledger[n].tx : n \in DOMAIN ledger}
Signed(p, seq) ==
    [pay |-> p, seq |-> seq,
     nonce |-> CHOOSE n \in 1 .. Cardinality(Known) + 1 :
                   /\ [pay |-> p, seq |-> seq, nonce |-> n] \notin Known
                   /\ \A m \in 1 .. n - 1 : [pay |-> p, seq |-> seq, nonce |-> m] \in Known]

\* loadAccount, build and sign with the next sequence number; an account that
\* cannot be loaded fails the batch.
Load(w) ==
    /\ workers[w].pc = "load" /\ ~Unusable(w)
    /\ \/ workers' = [workers EXCEPT ![w] = [@ EXCEPT
              !.pc = "send", !.tx = Signed(Payment(w), Len(ledger) + 1)]]
       \/ Record(w, "failed")
    /\ UNCHANGED <<jobs, ledger, pool, faults, reclaimed>>

\* Mutant: the envelope is rebuilt on the account's present sequence number.
EnvelopeRebuilt(w) ==
    IF Job(w).presigned
    THEN [pay |-> Payment(w), seq |-> Len(ledger) + 1, nonce |-> 0]
    ELSE workers[w].tx

Envelope(w) ==
    IF Job(w).presigned
    THEN [pay |-> Payment(w), seq |-> Job(w).base + workers[w].i, nonce |-> 0]
    ELSE workers[w].tx

\* submitTransaction: the network receives the transaction, or it is lost.
Send(w) ==
    /\ workers[w].pc = "send" /\ ~Unusable(w)
    /\ \/ /\ Cardinality(pool) < MaxPool
          /\ pool' = pool \cup {Envelope(w)}
       \/ UNCHANGED pool
    /\ workers' = [workers EXCEPT ![w] = [@ EXCEPT !.pc = "await", !.tx = Envelope(w)]]
    /\ UNCHANGED <<jobs, ledger, faults, reclaimed>>

Applied(tx) == \E s \in DOMAIN ledger : ledger[s].tx = tx
Paid(tx) == \E s \in DOMAIN ledger : ledger[s].tx = tx /\ ledger[s].ok

\* The call returns what became of the transaction.
Confirmed(w) ==
    /\ workers[w].pc = "await" /\ Applied(workers[w].tx)
    /\ Record(w, IF Paid(workers[w].tx) THEN "success" ELSE "failed")
    /\ UNCHANGED <<jobs, ledger, pool, faults, reclaimed>>

\* tx_bad_seq: the server signs again with a reloaded sequence number, at most
\* BadSeqLimit times; the client's envelope cannot be signed again.
BadSeq(w) ==
    /\ workers[w].pc = "await"
    /\ workers[w].tx.seq # Len(ledger) + 1
    /\ Job(w).presigned \/ ~Applied(workers[w].tx)
    /\ pool' = pool \ {workers[w].tx}
    /\ IF ~Job(w).presigned /\ workers[w].tries < BadSeqLimit
       THEN workers' = [workers EXCEPT ![w] = [@ EXCEPT
                !.pc = "load", !.tx = None, !.tries = workers[w].tries + 1]]
       ELSE Record(w, "failed")
    /\ UNCHANGED <<jobs, ledger, faults, reclaimed>>

\* tx_insufficient_fee: the server signs again at a higher fee, at most
\* FeeRetryLimit times, on the account it holds, whose sequence number the
\* refused transaction has used up.
FeeRetry(w) ==
    /\ workers[w].pc = "await" /\ ~Applied(workers[w].tx)
    /\ ~Job(w).presigned /\ workers[w].fees < FeeRetryLimit
    /\ pool' = pool \ {workers[w].tx}
    /\ workers' = [workers EXCEPT ![w] = [@ EXCEPT
           !.pc = "send", !.tx = Signed(Payment(w), workers[w].tx.seq + 1),
           !.fees = workers[w].fees + 1]]
    /\ UNCHANGED <<jobs, ledger, faults, reclaimed>>

\* Refused for its form, or its fee for the last time; another worker's copy
\* of a client's envelope may be under way all the same.
Refused(w) ==
    /\ workers[w].pc = "await" /\ ~Applied(workers[w].tx)
    /\ \/ pool' = pool \ {workers[w].tx}
       \/ Job(w).presigned /\ UNCHANGED pool
    /\ Record(w, "failed")
    /\ UNCHANGED <<jobs, ledger, faults, reclaimed>>

\* Mutant: an unresolved submission is taken for a success.
ReconcileHopefully(w) ==
    /\ workers[w].pc = "await"
    /\ Record(w, "success")
    /\ UNCHANGED <<jobs, ledger, pool, faults, reclaimed>>

\* Mutant: a transaction not found is signed again and sent again.
ReconcileResending(w) ==
    /\ workers[w].pc = "await"
    /\ IF Applied(workers[w].tx) THEN Record(w, "success") ELSE Goto(w, "load")
    /\ UNCHANGED <<jobs, ledger, pool, faults, reclaimed>>

\* Mutant: a submission nobody could look up keeps a status of its own.
ReconcilePending(w) ==
    /\ workers[w].pc = "await"
    /\ Record(w, IF Applied(workers[w].tx) THEN "success" ELSE "pending")
    /\ UNCHANGED <<jobs, ledger, pool, faults, reclaimed>>

\* A transport error, then reconcileTransaction: found means success, not
\* found means failed at once, out of reach means unknown.  Nothing is written
\* between the error and the last look at Horizon.
Reconcile(w) ==
    /\ workers[w].pc = "await"
    /\ \/ Record(w, IF Applied(workers[w].tx) THEN "success" ELSE "failed")
       \/ Record(w, "unknown")
    /\ UNCHANGED <<jobs, ledger, pool, faults, reclaimed>>

\* Mutant: a failed batch is not counted.
TallySuccesses(w) ==
    /\ workers[w].pc = "tally"
    /\ Touched(workers[w].job, [Job(w) EXCEPT
           !.completed = IF workers[w].out[Payment(w)] = "success" THEN @ + 1 ELSE @])
    /\ NextBatch(w, workers[w].i + 1)
    /\ UNCHANGED <<ledger, pool, faults, reclaimed>>

\* incrementCompletedBatches, then the next batch.
Tally(w) ==
    /\ workers[w].pc = "tally"
    /\ Touched(workers[w].job, [Job(w) EXCEPT !.completed = @ + 1])
    /\ NextBatch(w, workers[w].i + 1)
    /\ UNCHANGED <<ledger, pool, faults, reclaimed>>

\* The final updateJob.
Finish(w) ==
    /\ workers[w].pc = "finish"
    /\ Touched(workers[w].job, [Job(w) EXCEPT
           !.status = IF \E p \in Payments : workers[w].out[p] = "success"
                      THEN "completed" ELSE "failed",
           !.result = workers[w].out])
    /\ workers' = [workers EXCEPT ![w] = Idle]
    /\ UNCHANGED <<ledger, pool, faults, reclaimed>>

\* The catch block: failed, whatever result is stored stays.
Abort(w) ==
    /\ workers[w].pc = "abort"
    /\ Touched(workers[w].job, [Job(w) EXCEPT !.status = "failed"])
    /\ workers' = [workers EXCEPT ![w] = Idle]
    /\ UNCHANGED <<ledger, pool, faults, reclaimed>>

\* A store call throws (concurrent modification, busy database), the one that
\* claims included.
StoreError(w) ==
    /\ workers[w].pc \in {"claim", "begin", "tally", "finish"} /\ faults < MaxFaults
    /\ faults' = faults + 1
    /\ Goto(w, "abort")
    /\ UNCHANGED <<jobs, ledger, pool, reclaimed>>

\* The process dies; what it sent stays on the network.
Crash(w) ==
    /\ workers[w].pc # "idle" /\ faults < MaxFaults
    /\ faults' = faults + 1
    /\ workers' = [workers EXCEPT ![w] = Idle]
    /\ UNCHANGED <<jobs, ledger, pool, reclaimed>>

Work(w) ==
    \/ Claim(w) \/ Begin(w) \/ Skip(w) \/ Load(w) \/ Send(w) \/ Confirmed(w)
    \/ BadSeq(w) \/ FeeRetry(w) \/ Refused(w) \/ Reconcile(w)
    \/ Tally(w) \/ Finish(w) \/ Abort(w)

-----------------------------------------------------------------------------
(* The network *)

\* A transaction applies only with the account's next sequence number, which
\* it uses up whether its payments succeed or not; the ones with that number
\* can never apply any more.  One whose time bounds run out never lands.
Apply(tx, ok) ==
    /\ Len(ledger) < MaxLedger
    /\ ledger' = Append(ledger, [tx |-> tx, ok |-> ok])
    /\ pool' = {t \in pool : t.seq > Len(ledger) + 1}
    /\ UNCHANGED <<jobs, workers, faults, reclaimed>>

Land(tx, ok) ==
    /\ tx.seq = Len(ledger) + 1
    /\ Apply(tx, ok)

\* The account is used from elsewhere.
Foreign == Apply([pay |-> None, seq |-> Len(ledger) + 1, nonce |-> 0], TRUE)

Next ==
    \/ \E j \in DOMAIN Requests, w \in Workers : Submit(j, w) \/ Replay(j, w)
    \/ \E j, k \in Jobs, w \in Workers : k \notin DOMAIN Requests /\ Retry(j, k, w)
    \/ \E j \in DOMAIN Requests : Expire(j)
    \/ \E w \in Workers : Work(w) \/ StoreError(w) \/ Crash(w)
    \/ \E tx \in pool, ok \in BOOLEAN : Land(tx, ok)
    \/ Foreign

Spec == Init /\ [][Next]_vars

\* Workers run on, the clock runs on, and clients replay what is stranded.
Fairness ==
    /\ \A w \in Workers : WF_vars(Work(w))
    /\ \A j \in DOMAIN Requests : WF_vars(Expire(j))
    /\ \A j \in DOMAIN Requests : WF_vars(\E w \in Workers : Replay(j, w))

FairSpec == Spec /\ Fairness

(***************************************************************************)
(* Properties                                                              *)
(***************************************************************************)

Outcomes == {"none", "success", "failed", "unknown"}
Tx == [pay : Payments \cup {None}, seq : Nat, nonce : Nat]
JobRow ==
    [status : {"absent", "queued", "processing"} \cup Terminal,
     rows : Seq(Payments), presigned : BOOLEAN, base : Nat, total : Nat,
     completed : Nat, stale : BOOLEAN, result : [Payments -> Outcomes],
     from : Jobs \cup {None}]
Worker ==
    [pc : {"idle", "claim", "begin", "load", "send", "await",
           "tally", "finish", "abort"},
     job : Jobs \cup {None}, i : Nat, tx : Tx \cup {None}, tries : Nat, fees : Nat,
     out : [Payments -> Outcomes]]

\* Job rows, workers and transactions have their types, and a busy worker that
\* has entered its loop is at one of its job's batches or past the last.
TypeOK ==
    /\ jobs \in [Jobs -> JobRow]
    /\ workers \in [Workers -> Worker]
    /\ ledger \in Seq([tx : Tx, ok : BOOLEAN])
    /\ pool \subseteq Tx
    /\ faults \in Nat
    /\ reclaimed \subseteq Jobs
    /\ \A w \in Workers : workers[w].pc # "idle" =>
           /\ workers[w].job \in Jobs
           /\ workers[w].i \in 0 .. Len(Job(w).rows) + 1

\* Nobody is paid twice for one payment, however often its job is replayed,
\* reclaimed or restarted (batch-submit/route.ts:20-22: "Terminal jobs
\* (completed/failed) are never re-processed, so a replay can never trigger a
\* double payout").
PaidOnce ==
    \A s, t \in DOMAIN ledger :
        ledger[s].ok /\ ledger[t].ok /\ ledger[s].tx.pay = ledger[t].tx.pay
            /\ ledger[s].tx.pay # None => s = t

\* A stored success is backed by the ledger: a transaction carrying that very
\* payment was applied, whichever worker wrote the result and whatever its
\* calls returned.
SuccessIsOnLedger ==
    \A j \in Jobs, p \in Payments : jobs[j].result[p] = "success" =>
        \E s \in DOMAIN ledger : ledger[s].tx.pay = p

Claimed(w) == workers[w].pc \notin {"idle", "claim", "abort"}

\* docs/atomic-job-claiming.md: two workers process one job at a time only if
\* its lease ran out while it was processing; several workers started for one
\* queued job never get there.
ClaimIsExclusive ==
    \A v, w \in Workers :
        v # w /\ Claimed(v) /\ Claimed(w) /\ workers[v].job = workers[w].job
            => workers[v].job \in reclaimed

\* Until a job is reclaimed the stored progress is the worker's own: as many
\* batches completed as it has left behind, and all of them when it finishes.
ProgressIsExact ==
    \A w \in Workers :
        Claimed(w) /\ workers[w].pc # "begin" /\ workers[w].job \notin reclaimed
            => /\ Job(w).completed = workers[w].i - 1
               /\ Job(w).total = Len(Job(w).rows)

Retried(j) == \E k \in Jobs : jobs[k].from = j

\* A payment is paid twice only if its job was retried, or reclaimed while the
\* server signs for it: neither bad-sequence retries nor timeouts nor
\* reconciliation inside one worker's run ever pay again, and no reclaim pays a
\* client's envelope again.
PaidTwiceHasCause ==
    \A s, t \in DOMAIN ledger :
        s # t /\ ledger[s].tx.pay = ledger[t].tx.pay /\ ledger[s].tx.pay # None
          /\ ledger[s].ok /\ ledger[t].ok
            => \E j \in Jobs : /\ Retried(j) \/ (j \in reclaimed /\ ~jobs[j].presigned)
                               /\ ledger[s].tx.pay \in Range(jobs[j].rows)

\* However often a job is retried, each retry is for just those payments that
\* its original still reports as failed: nothing that succeeded, nothing still
\* unknown, unless the original was reclaimed and a second worker rewrote its
\* result (#697, #397).
RetryIsJustified ==
    \A j, k \in Jobs : jobs[k].from = j /\ j \notin reclaimed =>
        \A p \in Payments :
            /\ jobs[j].result[p] # "unknown"
            /\ p \in Range(jobs[k].rows) <=> jobs[j].result[p] = "failed"

\* README.md:40: "You get a detailed report showing exactly what succeeded and
\* what failed": a payment reported as a success was made, one reported as a
\* failure was not, however late the network decides (#697: "Only rows with
\* status=failed are safe to retry").
ReportIsExact ==
    \A j \in Jobs, p \in Payments :
        LET made == \E s \in DOMAIN ledger : ledger[s].tx.pay = p /\ ledger[s].ok
        IN  /\ jobs[j].result[p] = "success" => made
            /\ jobs[j].result[p] = "failed" => ~made

\* A submitted job reaches a terminal status although workers crash, stores
\* fail and nobody answers, as long as its client replays the submission when
\* it is stranded (#502).
JobSettles ==
    \A j \in DOMAIN Requests :
        jobs[j].status # "absent" ~> jobs[j].status \in Terminal
=============================================================================
