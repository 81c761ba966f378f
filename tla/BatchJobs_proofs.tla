--------------------------- MODULE BatchJobs_proofs ---------------------------
(***************************************************************************)
(* Proofs about BatchJobs, whoever signs and whatever the network does,    *)
(* for any payments, jobs, workers, requests and bounds.                   *)
(*   Claims: two workers share a job only after its lease ran out, and the *)
(*     progress stored with a job that was never reclaimed is exact.       *)
(*   Types: rows, workers and transactions keep theirs, and the step of a  *)
(*     worker has one shape, WorkStep, which the later invariants use.     *)
(*   Results: a stored success is on the ledger, and a retry pays what its *)
(*     original reports as failed.                                         *)
(*   Payments: whatever the interleaving, crashes, reclaims and replays, a *)
(*     payment is paid twice only if its job was retried, or reclaimed     *)
(*     while the server signs for it; from a client's own account nobody   *)
(*     is paid twice at all.                                               *)
(***************************************************************************)
EXTENDS BatchJobs, TLAPS, FiniteSetTheorems

\* Workers and rows are records, whatever is in their fields.
IsWorker(x) ==
    /\ DOMAIN x = {"pc", "job", "i", "tx", "tries", "fees", "out"}
    /\ x = [f \in DOMAIN x |-> x[f]]
IsRow(x) ==
    /\ DOMAIN x = {"status", "rows", "presigned", "base", "total", "completed", "stale",
                 "result", "from"}
    /\ x = [f \in DOMAIN x |-> x[f]]

Shapes ==
    /\ workers = [w \in Workers |-> workers[w]]
    /\ \A w \in Workers : IsWorker(workers[w]) /\ workers[w].i \in Nat
    /\ jobs = [j \in Jobs |-> jobs[j]]
    /\ \A j \in Jobs : IsRow(jobs[j])

\* A busy worker's job is stored, and no longer queued once it is claimed.
Stored ==
    \A w \in Workers :
        /\ workers[w].pc # "idle" => workers[w].job \in Jobs /\ Job(w).status # "absent"
        /\ Claimed(w) => Job(w).status # "queued"

\* The inductive invariant.
ClaimInv == Shapes /\ Stored /\ ClaimIsExclusive /\ ProgressIsExact

-----------------------------------------------------------------------------
LEMMA IdleWorker == IsWorker(Idle) /\ Idle.i \in Nat /\ Idle.pc = "idle"
BY DEF IsWorker, Idle

LEMMA AbsentRow == IsRow(Absent)
BY DEF IsRow, Absent

LEMMA ClaimInit == Init => ClaimInv
<1> SUFFICES ASSUME Init PROVE ClaimInv
  OBVIOUS
<1>1. IsWorker(Idle) /\ Idle.i \in Nat /\ Idle.pc = "idle" /\ IsRow(Absent)
  BY IdleWorker, AbsentRow
<1>2. /\ workers = [w \in Workers |-> Idle]
      /\ jobs = [j \in Jobs |-> Absent]
  BY DEF Init
<1>3. Shapes
  BY <1>1, <1>2 DEF Shapes
<1>4. \A w \in Workers : workers[w].pc = "idle"
  BY <1>1, <1>2
<1> QED
  BY <1>3, <1>4 DEF ClaimInv, Stored, ClaimIsExclusive, ProgressIsExact, Claimed

\* A step of one worker that leaves the rows alone: on with its batch, or out of
\* its loop.
LEMMA WorkerStep ==
  ASSUME ClaimInv, NEW w \in Workers, NEW new, IsWorker(new), new.i \in Nat,
         workers' = [workers EXCEPT ![w] = new], UNCHANGED <<jobs, reclaimed>>,
         workers[w].pc # "idle",
         \/ new.pc = "idle"
         \/ new.pc = "abort" /\ new.job = workers[w].job
         \/ /\ Claimed(w) /\ workers[w].pc # "begin" /\ new.pc # "begin"
            /\ new.job = workers[w].job /\ new.i = workers[w].i
  PROVE  ClaimInv'
<1>1. \A v \in Workers : workers'[v] = IF v = w THEN new ELSE workers[v]
  BY DEF ClaimInv, Shapes
<1>2. Shapes'
  BY <1>1 DEF ClaimInv, Shapes
<1>3. Stored'
  BY <1>1 DEF ClaimInv, Stored, Claimed, Job
<1>4. ClaimIsExclusive'
  BY <1>1 DEF ClaimInv, ClaimIsExclusive, Claimed
<1>5. ProgressIsExact'
  BY <1>1 DEF ClaimInv, ProgressIsExact, Claimed, Job
<1> QED
  BY <1>2, <1>3, <1>4, <1>5 DEF ClaimInv

\* A new worker, on a job that is stored by now.  The rows of jobs that have
\* workers keep what counts.
LEMMA SpawnStep ==
  ASSUME ClaimInv, NEW w \in Workers, NEW j \in Jobs, Spawn(w, j),
         jobs' = [k \in Jobs |-> jobs'[k]], \A k \in Jobs : IsRow(jobs'[k]),
         jobs'[j].status # "absent",
         \A k \in Jobs : jobs[k].status # "absent" =>
             /\ jobs'[k].status = jobs[k].status /\ jobs'[k].rows = jobs[k].rows
             /\ jobs'[k].total = jobs[k].total /\ jobs'[k].completed = jobs[k].completed,
         UNCHANGED reclaimed
  PROVE  ClaimInv'
<1> DEFINE new == [Idle EXCEPT !.pc = "claim", !.job = j]
<1>1. IsWorker(new) /\ new.i \in Nat /\ new.pc = "claim" /\ new.job = j
  BY IdleWorker DEF IsWorker
<1>2. workers' = [workers EXCEPT ![w] = new]
  BY DEF Spawn
<1> HIDE DEF new
<1>3. \A v \in Workers : workers'[v] = IF v = w THEN new ELSE workers[v]
  BY <1>2 DEF ClaimInv, Shapes
<1>4. Shapes'
  BY <1>1, <1>2, <1>3 DEF ClaimInv, Shapes
<1>5. Stored'
  BY <1>1, <1>3 DEF ClaimInv, Stored, Claimed, Job
<1>6. ClaimIsExclusive'
  BY <1>1, <1>3 DEF ClaimInv, ClaimIsExclusive, Claimed
<1>7. ProgressIsExact'
  <2> SUFFICES ASSUME NEW v \in Workers, Claimed(v)', workers'[v].pc # "begin",
                      workers'[v].job \notin reclaimed
               PROVE  /\ Job(v)'.completed = workers'[v].i - 1
                      /\ Job(v)'.total = Len(Job(v)'.rows)
    BY DEF ProgressIsExact
  <2>1. v # w /\ workers'[v] = workers[v]
    BY <1>1, <1>3 DEF Claimed
  <2>2. Claimed(v) /\ Job(v).status # "absent" /\ workers[v].job \in Jobs
    BY <2>1 DEF Claimed, ClaimInv, Stored
  <2> QED
    BY <2>1, <2>2 DEF ClaimInv, ProgressIsExact, Job
<1> QED
  BY <1>4, <1>5, <1>6, <1>7 DEF ClaimInv

\* A step of one worker that writes its job's row.
LEMMA RowStep ==
  ASSUME ClaimInv, NEW w \in Workers, NEW new, IsWorker(new), new.i \in Nat,
         NEW row, IsRow(row), workers[w].pc # "idle",
         workers' = [workers EXCEPT ![w] = new],
         jobs' = [jobs EXCEPT ![workers[w].job] = row],
         reclaimed \subseteq reclaimed',
         row.rows = Job(w).rows, row.status # "absent", row.status # "queued",
         \/ new.pc = "idle"
         \/ new.job = workers[w].job /\ new.pc # "claim" /\ new.pc # "abort",
         \/ new.pc = "idle" \/ Claimed(w) \/ Job(w).status = "queued"
         \/ workers[w].job \in reclaimed',
         \/ new.pc = "idle" \/ new.pc = "begin" \/ workers[w].job \in reclaimed'
         \/ row.completed = new.i - 1 /\ row.total = Len(row.rows),
         \/ Claimed(w)
         \/ row.completed = Job(w).completed /\ row.total = Job(w).total
  PROVE  ClaimInv'
<1> DEFINE j == workers[w].job
<1>1. \A v \in Workers : workers'[v] = IF v = w THEN new ELSE workers[v]
  BY DEF ClaimInv, Shapes
<1>2. j \in Jobs
  BY DEF ClaimInv, Stored
<1>3. \A k \in Jobs : jobs'[k] = IF k = j THEN row ELSE jobs[k]
  BY <1>2 DEF ClaimInv, Shapes
<1> HIDE DEF j
<1>4. Shapes'
  <2>1. /\ workers' = [v \in Workers |-> workers'[v]]
        /\ \A v \in Workers : IsWorker(workers'[v]) /\ workers'[v].i \in Nat
    BY <1>1 DEF ClaimInv, Shapes
  <2>2. /\ jobs' = [k \in Jobs |-> jobs'[k]]
        /\ \A k \in Jobs : IsRow(jobs'[k])
    BY <1>3 DEF ClaimInv, Shapes
  <2> QED
    BY <2>1, <2>2 DEF Shapes, IsWorker, IsRow
<1>5. Stored'
  BY <1>1, <1>2, <1>3 DEF ClaimInv, Stored, Claimed, Job, j
<1>6. ClaimIsExclusive'
  BY <1>1 DEF ClaimInv, Stored, ClaimIsExclusive, Claimed, Job, j
<1>7. ProgressIsExact'
  <2> SUFFICES ASSUME NEW v \in Workers, Claimed(v)', workers'[v].pc # "begin",
                      workers'[v].job \notin reclaimed'
               PROVE  /\ Job(v)'.completed = workers'[v].i - 1
                      /\ Job(v)'.total = Len(Job(v)'.rows)
    BY DEF ProgressIsExact
  <2>1. CASE v = w
    BY <2>1, <1>1, <1>2, <1>3 DEF Claimed, Job, j
  <2>2. CASE v # w
    <3>1. /\ workers'[v] = workers[v] /\ Claimed(v) /\ workers[v].job \in Jobs
          /\ Job(v).completed = workers[v].i - 1 /\ Job(v).total = Len(Job(v).rows)
      BY <2>2, <1>1 DEF ClaimInv, Stored, ProgressIsExact, Claimed
    <3>2. CASE workers[v].job # j
      BY <3>1, <3>2, <1>3 DEF Job
    <3>3. CASE workers[v].job = j
      <4>1. ~Claimed(w)
        BY <2>2, <3>1, <3>3 DEF ClaimInv, ClaimIsExclusive, j
      <4> QED
        BY <3>1, <3>3, <4>1, <1>3 DEF Job, j
    <3> QED
      BY <3>2, <3>3
  <2> QED
    BY <2>1, <2>2
<1> QED
  BY <1>4, <1>5, <1>6, <1>7 DEF ClaimInv

\* The same, for a row written with its updatedAt.
LEMMA TouchStep ==
  ASSUME ClaimInv, NEW w \in Workers, NEW new, IsWorker(new), new.i \in Nat,
         NEW row, IsRow(row), workers[w].pc # "idle",
         workers' = [workers EXCEPT ![w] = new], Touched(workers[w].job, row),
         reclaimed \subseteq reclaimed',
         row.rows = Job(w).rows, row.status # "absent", row.status # "queued",
         \/ new.pc = "idle"
         \/ new.job = workers[w].job /\ new.pc # "claim" /\ new.pc # "abort",
         \/ new.pc = "idle" \/ Claimed(w) \/ Job(w).status = "queued"
         \/ workers[w].job \in reclaimed',
         \/ new.pc = "idle" \/ new.pc = "begin" \/ workers[w].job \in reclaimed'
         \/ row.completed = new.i - 1 /\ row.total = Len(row.rows),
         \/ Claimed(w)
         \/ row.completed = Job(w).completed /\ row.total = Job(w).total
  PROVE  ClaimInv'
<1> DEFINE stored == [row EXCEPT !.stale = FALSE]
<1>1. /\ IsRow(stored) /\ stored.rows = row.rows /\ stored.status = row.status
      /\ stored.completed = row.completed /\ stored.total = row.total
  BY DEF IsRow
<1>2. jobs' = [jobs EXCEPT ![workers[w].job] = stored]
  BY DEF Touched
<1> HIDE DEF stored
<1> QED
  BY <1>1, <1>2, RowStep

\* What is in the worker's hands, and in its job's row.
LEMMA BusyWorker ==
  ASSUME ClaimInv, NEW w \in Workers, workers[w].pc # "idle"
  PROVE  /\ IsWorker(workers[w]) /\ workers[w].i \in Nat
         /\ workers[w].job \in Jobs /\ IsRow(Job(w)) /\ Job(w).status # "absent"
BY DEF ClaimInv, Shapes, Stored, Job

LEMMA SubmitClaim ==
  ASSUME ClaimInv, NEW j \in Jobs, NEW w \in Workers, Submit(j, w)
  PROVE  ClaimInv'
<1>0. PICK presigned \in BOOLEAN : Touched(j, Queued(Requests[j], presigned))
  BY DEF Submit
<1> DEFINE base == IF presigned THEN Len(ledger) ELSE 0
           row == [Queued(Requests[j], presigned) EXCEPT !.stale = FALSE]
<1>1. IsRow(row) /\ row.status = "queued"
  <2>1. Queued(Requests[j], presigned)
            = [Absent EXCEPT !.status = "queued", !.rows = Requests[j],
                             !.presigned = presigned, !.base = base]
    BY DEF Queued
  <2> HIDE DEF base
  <2> QED
    BY <2>1, AbsentRow DEF IsRow
<1>2. /\ jobs[j].status = "absent" /\ jobs' = [jobs EXCEPT ![j] = row]
      /\ Spawn(w, j) /\ UNCHANGED reclaimed
  BY <1>0 DEF Submit, Touched
<1> HIDE DEF row
<1>3. \A k \in Jobs : jobs'[k] = IF k = j THEN row ELSE jobs[k]
  BY <1>2 DEF ClaimInv, Shapes
<1>4. jobs' = [k \in Jobs |-> jobs'[k]] /\ \A k \in Jobs : IsRow(jobs'[k])
  BY <1>1, <1>2, <1>3 DEF ClaimInv, Shapes
<1> QED
  BY <1>1, <1>2, <1>3, <1>4, SpawnStep

LEMMA ReplayClaim ==
  ASSUME ClaimInv, NEW j \in Jobs, NEW w \in Workers, Replay(j, w)
  PROVE  ClaimInv'
<1>1. /\ Spawn(w, j) /\ UNCHANGED <<jobs, reclaimed>>
      /\ jobs[j].status = "queued" \/ jobs[j].status = "processing"
  BY DEF Replay
<1>2. jobs = [k \in Jobs |-> jobs[k]] /\ \A k \in Jobs : IsRow(jobs[k])
  BY DEF ClaimInv, Shapes
<1>3. jobs' = [k \in Jobs |-> jobs'[k]] /\ \A k \in Jobs : IsRow(jobs'[k])
  BY <1>1, <1>2
<1> QED
  BY <1>1, <1>3, SpawnStep

LEMMA RetryClaim ==
  ASSUME ClaimInv, NEW j \in Jobs, NEW k \in Jobs, NEW w \in Workers, Retry(j, k, w)
  PROVE  ClaimInv'
<1> DEFINE row == [Queued(FailedRows(j), FALSE) EXCEPT !.from = j]
<1>1. IsRow(row) /\ row.status = "queued"
  BY AbsentRow DEF IsRow, Queued
<1>2. /\ jobs[k].status = "absent" /\ jobs' = [jobs EXCEPT ![k] = row]
      /\ Spawn(w, k) /\ UNCHANGED reclaimed
  BY DEF Retry
<1> HIDE DEF row
<1>3. \A n \in Jobs : jobs'[n] = IF n = k THEN row ELSE jobs[n]
  BY <1>2 DEF ClaimInv, Shapes
<1>4. jobs' = [n \in Jobs |-> jobs'[n]] /\ \A n \in Jobs : IsRow(jobs'[n])
  BY <1>1, <1>2, <1>3 DEF ClaimInv, Shapes
<1> QED
  BY <1>1, <1>2, <1>3, <1>4, SpawnStep

LEMMA ExpireClaim ==
  ASSUME ClaimInv, NEW j \in Jobs, Expire(j)
  PROVE  ClaimInv'
<1> DEFINE row == [jobs[j] EXCEPT !.stale = TRUE]
<1>1. /\ IsRow(row) /\ row.status = jobs[j].status /\ row.rows = jobs[j].rows
      /\ row.completed = jobs[j].completed /\ row.total = jobs[j].total
  BY DEF IsRow, ClaimInv, Shapes
<1>2. jobs' = [jobs EXCEPT ![j] = row] /\ UNCHANGED <<workers, reclaimed>>
  BY DEF Expire
<1> HIDE DEF row
<1>3. \A k \in Jobs : jobs'[k] = IF k = j THEN row ELSE jobs[k]
  BY <1>2 DEF ClaimInv, Shapes
<1>4. Shapes'
  BY <1>1, <1>2, <1>3 DEF ClaimInv, Shapes
<1>5. Stored'
  BY <1>1, <1>2, <1>3 DEF ClaimInv, Stored, Claimed, Job
<1>6. ClaimIsExclusive'
  BY <1>2 DEF ClaimInv, ClaimIsExclusive, Claimed
<1>7. ProgressIsExact'
  BY <1>1, <1>2, <1>3 DEF ClaimInv, Stored, ProgressIsExact, Claimed, Job
<1> QED
  BY <1>4, <1>5, <1>6, <1>7 DEF ClaimInv

LEMMA ClaimClaim ==
  ASSUME ClaimInv, NEW w \in Workers, Claim(w)
  PROVE  ClaimInv'
<1> DEFINE free == Job(w).status = "queued" \/ (Job(w).status = "processing" /\ Job(w).stale)
<1>1. workers[w].pc = "claim"
  BY DEF Claim
<1>2. CASE free
  <2> DEFINE row == [Job(w) EXCEPT !.status = "processing"]
             new == [workers[w] EXCEPT !.pc = "begin"]
  <2>1. /\ IsRow(row) /\ row.status = "processing" /\ row.rows = Job(w).rows
        /\ row.completed = Job(w).completed /\ row.total = Job(w).total
    BY <1>1, BusyWorker DEF IsRow
  <2>2. IsWorker(new) /\ new.i \in Nat /\ new.pc = "begin" /\ new.job = workers[w].job
    BY <1>1, BusyWorker DEF IsWorker
  <2>3. Touched(workers[w].job, row) /\ workers' = [workers EXCEPT ![w] = new]
    BY <1>2 DEF Claim, Goto
  <2>4. /\ reclaimed \subseteq reclaimed'
        /\ Job(w).status = "queued" \/ workers[w].job \in reclaimed'
    BY <1>2 DEF Claim
  <2> HIDE DEF row, new
  <2> QED
    BY <1>1, <2>1, <2>2, <2>3, <2>4, TouchStep
<1>3. CASE ~free
  <2>1. workers' = [workers EXCEPT ![w] = Idle] /\ UNCHANGED <<jobs, reclaimed>>
    BY <1>3 DEF Claim
  <2>2. workers[w].pc # "idle"
    BY <1>1
  <2> QED
    BY <2>1, <2>2, IdleWorker, WorkerStep
<1> QED
  BY <1>2, <1>3

\* The worker at the next turn of its loop.
LEMMA NextTurn ==
  ASSUME ClaimInv, NEW w \in Workers, workers[w].pc # "idle", NEW i \in Nat, NextBatch(w, i)
  PROVE  \E new :
             /\ IsWorker(new) /\ new.i = i /\ new.job = workers[w].job
             /\ new.pc # "claim" /\ new.pc # "abort" /\ new.pc # "idle"
             /\ workers' = [workers EXCEPT ![w] = new]
<1> DEFINE pc == IF i <= Len(Job(w).rows) THEN BatchStart(w) ELSE "finish"
           new == [workers[w] EXCEPT !.i = i, !.tx = None, !.tries = 0, !.fees = 0, !.pc = pc]
<1>1. pc # "claim" /\ pc # "abort" /\ pc # "idle"
  BY DEF BatchStart
<1>2. workers' = [workers EXCEPT ![w] = new]
  BY DEF NextBatch
<1> HIDE DEF pc
<1>3. IsWorker(new) /\ new.i = i /\ new.job = workers[w].job /\ new.pc = pc
  BY BusyWorker DEF IsWorker
<1> HIDE DEF new
<1> QED
  BY <1>1, <1>2, <1>3

LEMMA BeginClaim ==
  ASSUME ClaimInv, NEW w \in Workers, Begin(w)
  PROVE  ClaimInv'
<1> DEFINE total == Len(Job(w).rows)
           row == [Job(w) EXCEPT !.status = "processing", !.total = total, !.completed = 0]
<1>1. workers[w].pc = "begin" /\ Claimed(w)
  BY DEF Begin, Claimed
<1>2. Touched(workers[w].job, row) /\ NextBatch(w, 1) /\ UNCHANGED reclaimed
  BY DEF Begin
<1>3. row.rows = Job(w).rows /\ IsRow(row) /\ row.status = "processing"
      /\ row.completed = 0 /\ row.total = total
  <2> HIDE DEF total
  <2> QED
    BY <1>1, BusyWorker DEF IsRow
<1>4. row.total = Len(row.rows)
  BY <1>3
<1>5. PICK new :
          /\ IsWorker(new) /\ new.i = 1 /\ new.job = workers[w].job
          /\ new.pc # "claim" /\ new.pc # "abort" /\ new.pc # "idle"
          /\ workers' = [workers EXCEPT ![w] = new]
  BY <1>1, <1>2, NextTurn
<1> HIDE DEF row, total
<1>6. /\ row.status # "absent" /\ row.status # "queued" /\ reclaimed \subseteq reclaimed'
      /\ new.i \in Nat /\ row.completed = new.i - 1 /\ workers[w].pc # "idle"
  BY <1>1, <1>2, <1>3, <1>5
<1> QED
  BY <1>1, <1>2, <1>3, <1>4, <1>5, <1>6, TouchStep

LEMMA TallyClaim ==
  ASSUME ClaimInv, NEW w \in Workers, Tally(w)
  PROVE  ClaimInv'
<1> DEFINE row == [Job(w) EXCEPT !.completed = @ + 1]
<1>1. workers[w].pc = "tally" /\ Claimed(w)
  BY DEF Tally, Claimed
<1>2. Touched(workers[w].job, row) /\ NextBatch(w, workers[w].i + 1) /\ UNCHANGED reclaimed
  BY DEF Tally
<1>3. /\ row.rows = Job(w).rows /\ IsRow(row) /\ row.status = Job(w).status
      /\ row.completed = Job(w).completed + 1 /\ row.total = Job(w).total
  BY <1>1, BusyWorker DEF IsRow
<1>4. PICK new :
          /\ IsWorker(new) /\ new.i = workers[w].i + 1 /\ new.job = workers[w].job
          /\ new.pc # "claim" /\ new.pc # "abort" /\ new.pc # "idle"
          /\ workers' = [workers EXCEPT ![w] = new]
  BY <1>1, <1>2, BusyWorker, NextTurn
<1>5. Job(w).status # "queued" /\ Job(w).status # "absent" /\ new.i \in Nat
  BY <1>1, <1>4, BusyWorker DEF ClaimInv, Stored
<1>6. workers[w].job \notin reclaimed =>
          row.completed = new.i - 1 /\ row.total = Len(row.rows)
  BY <1>1, <1>3, <1>4, BusyWorker DEF ClaimInv, ProgressIsExact
<1> HIDE DEF row
<1> QED
  BY <1>1, <1>2, <1>3, <1>4, <1>5, <1>6, TouchStep

LEMMA FinishClaim ==
  ASSUME ClaimInv, NEW w \in Workers, Finish(w)
  PROVE  ClaimInv'
<1> DEFINE status == IF \E p \in Payments : workers[w].out[p] = "success"
                     THEN "completed" ELSE "failed"
           row == [Job(w) EXCEPT !.status = status, !.result = workers[w].out]
<1>1. /\ workers[w].pc = "finish" /\ Touched(workers[w].job, row)
      /\ workers' = [workers EXCEPT ![w] = Idle] /\ UNCHANGED reclaimed
  BY DEF Finish
<1>2. status # "absent" /\ status # "queued"
  OBVIOUS
<1> HIDE DEF status
<1>3. /\ IsRow(row) /\ row.rows = Job(w).rows /\ row.status = status
      /\ row.completed = Job(w).completed /\ row.total = Job(w).total
  BY <1>1, BusyWorker DEF IsRow
<1> HIDE DEF row
<1>4. /\ row.status # "absent" /\ row.status # "queued" /\ reclaimed \subseteq reclaimed'
      /\ workers[w].pc # "idle"
  BY <1>1, <1>2, <1>3
<1> QED
  BY <1>1, <1>3, <1>4, IdleWorker, TouchStep

LEMMA AbortClaim ==
  ASSUME ClaimInv, NEW w \in Workers, Abort(w)
  PROVE  ClaimInv'
<1> DEFINE row == [Job(w) EXCEPT !.status = "failed"]
<1>1. /\ workers[w].pc = "abort" /\ Touched(workers[w].job, row)
      /\ workers' = [workers EXCEPT ![w] = Idle] /\ UNCHANGED reclaimed
  BY DEF Abort
<1>2. /\ IsRow(row) /\ row.rows = Job(w).rows /\ row.status = "failed"
      /\ row.completed = Job(w).completed /\ row.total = Job(w).total
  BY <1>1, BusyWorker DEF IsRow
<1> HIDE DEF row
<1>3. /\ row.status # "absent" /\ row.status # "queued" /\ reclaimed \subseteq reclaimed'
      /\ workers[w].pc # "idle"
  BY <1>1, <1>2
<1> QED
  BY <1>1, <1>2, <1>3, IdleWorker, TouchStep

\* The steps inside a batch: the worker stays at it, and goes to another step.
LEMMA WithinBatch ==
  ASSUME ClaimInv, NEW w \in Workers,
         Skip(w) \/ Load(w) \/ Send(w) \/ Confirmed(w) \/ BadSeq(w) \/ FeeRetry(w)
         \/ Refused(w) \/ Reconcile(w)
  PROVE  ClaimInv'
<1>1. /\ workers[w].pc \in {"load", "send", "await"} /\ UNCHANGED <<jobs, reclaimed>>
      /\ \/ \E outcome : Record(w, outcome)
         \/ \E tx : workers' = [workers EXCEPT ![w] = [@ EXCEPT !.pc = "send", !.tx = tx]]
         \/ \E tx : workers' = [workers EXCEPT ![w] = [@ EXCEPT !.pc = "await", !.tx = tx]]
         \/ \E tries : workers' = [workers EXCEPT ![w] = [@ EXCEPT
                !.pc = "load", !.tx = None, !.tries = tries]]
         \/ \E tx, fees : workers' = [workers EXCEPT ![w] = [@ EXCEPT
                !.pc = "send", !.tx = tx, !.fees = fees]]
  <2>1. CASE Skip(w)
    BY <2>1 DEF Skip, BatchStart
  <2>2. CASE Load(w)
    BY <2>2 DEF Load
  <2>3. CASE Send(w)
    BY <2>3 DEF Send
  <2>4. CASE Confirmed(w)
    BY <2>4 DEF Confirmed
  <2>5. CASE BadSeq(w)
    BY <2>5 DEF BadSeq
  <2>6. CASE FeeRetry(w)
    BY <2>6 DEF FeeRetry
  <2>7. CASE Refused(w)
    BY <2>7 DEF Refused
  <2>8. CASE Reconcile(w)
    BY <2>8 DEF Reconcile
  <2> QED
    BY <2>1, <2>2, <2>3, <2>4, <2>5, <2>6, <2>7, <2>8
<1>2. PICK new :
          /\ IsWorker(new) /\ new.i = workers[w].i /\ new.job = workers[w].job
          /\ new.pc \in {"load", "send", "await", "tally"}
          /\ workers' = [workers EXCEPT ![w] = new]
  <2>1. IsWorker(workers[w])
    BY <1>1, BusyWorker
  <2>2. CASE \E outcome : Record(w, outcome)
    <3>1. PICK outcome : Record(w, outcome)
      BY <2>2
    <3> DEFINE out == [workers[w].out EXCEPT ![Payment(w)] = outcome]
               new == [workers[w] EXCEPT !.out = out, !.tx = None, !.tries = 0, !.fees = 0,
                                         !.pc = "tally"]
    <3>2. workers' = [workers EXCEPT ![w] = new]
      BY <3>1 DEF Record
    <3> HIDE DEF out
    <3>3. /\ IsWorker(new) /\ new.i = workers[w].i /\ new.job = workers[w].job
          /\ new.pc = "tally"
      BY <2>1 DEF IsWorker
    <3> HIDE DEF new
    <3> QED
      BY <3>2, <3>3
  <2>3. CASE \E tx : workers' = [workers EXCEPT ![w] = [@ EXCEPT !.pc = "send", !.tx = tx]]
    <3>1. PICK tx : workers' = [workers EXCEPT ![w] = [@ EXCEPT !.pc = "send", !.tx = tx]]
      BY <2>3
    <3> DEFINE new == [workers[w] EXCEPT !.pc = "send", !.tx = tx]
    <3>2. /\ IsWorker(new) /\ new.i = workers[w].i /\ new.job = workers[w].job
          /\ new.pc = "send" /\ workers' = [workers EXCEPT ![w] = new]
      BY <2>1, <3>1 DEF IsWorker
    <3> HIDE DEF new
    <3> QED
      BY <3>2
  <2>4. CASE \E tx : workers' = [workers EXCEPT ![w] = [@ EXCEPT !.pc = "await", !.tx = tx]]
    <3>1. PICK tx : workers' = [workers EXCEPT ![w] = [@ EXCEPT !.pc = "await", !.tx = tx]]
      BY <2>4
    <3> DEFINE new == [workers[w] EXCEPT !.pc = "await", !.tx = tx]
    <3>2. /\ IsWorker(new) /\ new.i = workers[w].i /\ new.job = workers[w].job
          /\ new.pc = "await" /\ workers' = [workers EXCEPT ![w] = new]
      BY <2>1, <3>1 DEF IsWorker
    <3> HIDE DEF new
    <3> QED
      BY <3>2
  <2>5. CASE \E tries : workers' = [workers EXCEPT ![w] = [@ EXCEPT
                !.pc = "load", !.tx = None, !.tries = tries]]
    <3>1. PICK tries : workers' = [workers EXCEPT ![w] = [@ EXCEPT
                !.pc = "load", !.tx = None, !.tries = tries]]
      BY <2>5
    <3> DEFINE new == [workers[w] EXCEPT !.pc = "load", !.tx = None, !.tries = tries]
    <3>2. /\ IsWorker(new) /\ new.i = workers[w].i /\ new.job = workers[w].job
          /\ new.pc = "load" /\ workers' = [workers EXCEPT ![w] = new]
      BY <2>1, <3>1 DEF IsWorker
    <3> HIDE DEF new
    <3> QED
      BY <3>2
  <2>6. CASE \E tx, fees : workers' = [workers EXCEPT ![w] = [@ EXCEPT
                !.pc = "send", !.tx = tx, !.fees = fees]]
    <3>1. PICK tx, fees : workers' = [workers EXCEPT ![w] = [@ EXCEPT
                !.pc = "send", !.tx = tx, !.fees = fees]]
      BY <2>6
    <3> DEFINE new == [workers[w] EXCEPT !.pc = "send", !.tx = tx, !.fees = fees]
    <3>2. /\ IsWorker(new) /\ new.i = workers[w].i /\ new.job = workers[w].job
          /\ new.pc = "send" /\ workers' = [workers EXCEPT ![w] = new]
      BY <2>1, <3>1 DEF IsWorker
    <3> HIDE DEF new
    <3> QED
      BY <3>2
  <2> QED
    BY <1>1, <2>2, <2>3, <2>4, <2>5, <2>6
<1>3. /\ Claimed(w) /\ workers[w].pc # "idle" /\ workers[w].pc # "begin"
      /\ new.pc # "begin" /\ new.i \in Nat
  BY <1>1, <1>2, BusyWorker DEF Claimed
<1> QED
  BY <1>1, <1>2, <1>3, WorkerStep

\* A store error sends the worker to its catch block, a crash ends it.
LEMMA FaultClaim ==
  ASSUME ClaimInv, NEW w \in Workers, StoreError(w) \/ Crash(w)
  PROVE  ClaimInv'
<1>1. workers[w].pc # "idle" /\ UNCHANGED <<jobs, reclaimed>>
  BY DEF StoreError, Crash
<1>2. CASE StoreError(w)
  <2> DEFINE new == [workers[w] EXCEPT !.pc = "abort"]
  <2>1. /\ IsWorker(new) /\ new.i \in Nat /\ new.pc = "abort" /\ new.job = workers[w].job
        /\ workers' = [workers EXCEPT ![w] = new]
    BY <1>1, <1>2, BusyWorker DEF StoreError, Goto, IsWorker
  <2> HIDE DEF new
  <2> QED
    BY <1>1, <2>1, WorkerStep
<1>3. CASE Crash(w)
  <2>1. workers' = [workers EXCEPT ![w] = Idle]
    BY <1>3 DEF Crash
  <2> QED
    BY <1>1, <2>1, IdleWorker, WorkerStep
<1> QED
  BY <1>2, <1>3

\* Nothing else touches a job, a worker or the history.
LEMMA QuietStep ==
  ASSUME ClaimInv, UNCHANGED <<jobs, workers, reclaimed>>
  PROVE  ClaimInv'
BY DEF ClaimInv, Shapes, Stored, ClaimIsExclusive, ProgressIsExact, Claimed, Job

LEMMA ClaimStep == ClaimInv /\ [Next]_vars => ClaimInv'
<1> SUFFICES ASSUME ClaimInv, [Next]_vars PROVE ClaimInv'
  OBVIOUS
<1>1. CASE \E j \in DOMAIN Requests, w \in Workers : Submit(j, w) \/ Replay(j, w)
  <2>1. PICK j \in Jobs, w \in Workers : Submit(j, w) \/ Replay(j, w)
    BY <1>1, JobsAssumption
  <2> QED
    BY <2>1, SubmitClaim, ReplayClaim
<1>2. CASE \E j, k \in Jobs, w \in Workers : k \notin DOMAIN Requests /\ Retry(j, k, w)
  BY <1>2, RetryClaim
<1>3. CASE \E j \in DOMAIN Requests : Expire(j)
  BY <1>3, ExpireClaim, JobsAssumption
<1>4. ASSUME NEW w \in Workers, Work(w) PROVE ClaimInv'
  BY <1>4, ClaimClaim, BeginClaim, WithinBatch, TallyClaim, FinishClaim, AbortClaim DEF Work
<1>5. ASSUME NEW w \in Workers, StoreError(w) \/ Crash(w) PROVE ClaimInv'
  BY <1>5, FaultClaim
<1>6. CASE \E tx \in pool, ok \in BOOLEAN : Land(tx, ok)
  BY <1>6, QuietStep DEF Land, Apply
<1>7. CASE Foreign
  BY <1>7, QuietStep DEF Foreign, Apply
<1>8. CASE UNCHANGED vars
  BY <1>8, QuietStep DEF vars
<1> QED
  BY <1>1, <1>2, <1>3, <1>4, <1>5, <1>6, <1>7, <1>8 DEF Next

LEMMA ClaimInvariant == Spec => []ClaimInv
<1> QED
  BY ClaimInit, ClaimStep, PTL DEF Spec

-----------------------------------------------------------------------------
\* However many workers are started for a job, two of them process it at one
\* time only if its lease ran out under a worker (claimJobForProcessing).
THEOREM JobsClaimIsExclusive == Spec => []ClaimIsExclusive
<1>1. ClaimInv => ClaimIsExclusive
  BY DEF ClaimInv
<1> QED
  BY <1>1, ClaimInvariant, PTL

\* Until then the stored progress is that worker's own (incrementCompletedBatches).
THEOREM JobsProgressIsExact == Spec => []ProgressIsExact
<1>1. ClaimInv => ProgressIsExact
  BY DEF ClaimInv
<1> QED
  BY <1>1, ClaimInvariant, PTL

-----------------------------------------------------------------------------
(* Recursion on an interval, and the rows a retry takes over *)

\* A set of numbers has a least one.
LEMMA Least ==
  ASSUME NEW S, S \subseteq Nat, S # {}
  PROVE  \E m \in S : \A n \in S : m <= n
<1> DEFINE R == OpToRel(<, Nat)
<1>1. \E m \in S : \A n \in S : ~(<<n, m>> \in R)
  <2>1. IsWellFoundedOn(R, Nat)
    BY NatLessThanWellFounded
  <2> HIDE DEF R
  <2> QED
    BY <2>1, WFMin
<1>2. \A n, m \in Nat : <<n, m>> \in R <=> n < m
  BY DEF OpToRel
<1> HIDE DEF R
<1>3. PICK m \in S : \A n \in S : ~(<<n, m>> \in R)
  BY <1>1
<1>4. ASSUME NEW n \in S PROVE m <= n
  <2>1. ~(<<n, m>> \in R) /\ m \in Nat /\ n \in Nat
    BY <1>3
  <2>2. ~(n < m)
    BY <2>1, <1>2
  <2> QED
    BY <2>1, <2>2
<1> QED
  BY <1>3, <1>4

\* A number in an interval that has the property when its predecessor has it.
LEMMA Upwards ==
  ASSUME NEW N \in Nat, NEW S, 0 \in S,
         \A n \in 1 .. N : n - 1 \in S => n \in S
  PROVE  0 .. N \subseteq S
<1> DEFINE Bad == {n \in 0 .. N : n \notin S}
<1> SUFFICES ASSUME Bad # {} PROVE FALSE
  OBVIOUS
<1>1. Bad \subseteq Nat
  OBVIOUS
<1>2. PICK m \in Bad : \A n \in Bad : m <= n
  <2> HIDE DEF Bad
  <2> QED
    BY <1>1, Least
<1>3. m \in 1 .. N /\ m - 1 \notin Bad /\ m - 1 \in 0 .. N
  BY <1>2
<1> QED
  BY <1>2, <1>3

\* A function on an interval defined from its value before.
Recurs(f, N, T, base, step) ==
    /\ f \in [0 .. N -> T]
    /\ f[0] = base
    /\ \A n \in 1 .. N : f[n] = step[n][f[n - 1]]

LEMMA Recursion ==
  ASSUME NEW N \in Nat, NEW T, NEW base \in T, NEW step \in [1 .. N -> [T -> T]]
  PROVE  \E f : Recurs(f, N, T, base, step)
<1> DEFINE Good(M) == \E f : Recurs(f, M, T, base, step)
           S == {M \in 0 .. N : Good(M)}
<1>1. 0 \in S
  <2> DEFINE f == [n \in 0 .. 0 |-> base]
  <2>1. f \in [0 .. 0 -> T] /\ f[0] = base /\ 1 .. 0 = {}
    OBVIOUS
  <2> HIDE DEF f
  <2>2. Recurs(f, 0, T, base, step)
    BY <2>1 DEF Recurs
  <2> QED
    BY <2>2
<1>2. ASSUME NEW M \in 1 .. N, M - 1 \in S PROVE M \in S
  <2>1. PICK f : Recurs(f, M - 1, T, base, step)
    BY <1>2
  <2> DEFINE g == [n \in 0 .. M |-> IF n = M THEN step[M][f[M - 1]] ELSE f[n]]
  <2>2. f[M - 1] \in T /\ step[M][f[M - 1]] \in T
    BY <2>1 DEF Recurs
  <2>3. g \in [0 .. M -> T]
    BY <2>1, <2>2 DEF Recurs
  <2>4. g[0] = base
    BY <2>1 DEF Recurs
  <2>5. ASSUME NEW n \in 1 .. M PROVE g[n] = step[n][g[n - 1]]
    <3>1. g[n - 1] = f[n - 1] /\ g[n] = IF n = M THEN step[M][f[M - 1]] ELSE f[n]
      OBVIOUS
    <3> HIDE DEF g
    <3>2. CASE n = M
      BY <3>1, <3>2
    <3>3. CASE n # M
      <4>1. n \in 1 .. M - 1 /\ g[n] = f[n]
        BY <3>1, <3>3
      <4> QED
        BY <2>1, <3>1, <4>1 DEF Recurs
    <3> QED
      BY <3>2, <3>3
  <2> HIDE DEF g
  <2>6. Recurs(g, M, T, base, step)
    BY <2>3, <2>4, <2>5 DEF Recurs
  <2> QED
    BY <2>6
<1> HIDE DEF S
<1>3. 0 .. N \subseteq S
  BY <1>1, <1>2, Upwards
<1> QED
  BY <1>3 DEF S

\* The elements of a sequence that belong to a set, gathered from its front.
GatherOf(rows, Good, f) ==
    [n \in 0 .. Len(rows) |->
        IF n = 0 THEN <<>>
        ELSE IF rows[n] \in Good THEN Append(f[n - 1], rows[n]) ELSE f[n - 1]]

LEMMA GatherExists ==
  ASSUME NEW E, NEW Good, NEW rows \in Seq(E)
  PROVE  \E f : f = GatherOf(rows, Good, f)
<1> DEFINE N == Len(rows)
           T == Seq(E)
           empty == <<>>
           next(n, s) == IF rows[n] \in Good THEN Append(s, rows[n]) ELSE s
           step == [n \in 1 .. N |-> [s \in T |-> next(n, s)]]
<1>1. N \in Nat /\ \A n \in 1 .. N : rows[n] \in E
  OBVIOUS
<1>2. empty \in T /\ \A n \in 1 .. N, s \in T : next(n, s) \in T
  BY <1>1
<1> HIDE DEF N, T, empty, next
<1>3. step \in [1 .. N -> [T -> T]] /\ \A n \in 1 .. N, s \in T : step[n][s] = next(n, s)
  BY <1>2
<1> HIDE DEF step
<1>4. PICK f : Recurs(f, N, T, empty, step)
  <2>1. N \in Nat /\ empty \in T /\ step \in [1 .. N -> [T -> T]]
    BY <1>1, <1>2, <1>3
  <2> QED
    BY <2>1, Recursion, Zenon
<1>5. \A n \in 1 .. N : f[n - 1] \in T
  BY <1>1, <1>4 DEF Recurs
<1>6. \A n \in 1 .. N : f[n] = next(n, f[n - 1])
  BY <1>3, <1>4, <1>5 DEF Recurs
<1>7. f = [n \in 0 .. N |-> IF n = 0 THEN empty ELSE next(n, f[n - 1])]
  <2>1. \A n \in 0 .. N : f[n] = IF n = 0 THEN empty ELSE next(n, f[n - 1])
    BY <1>1, <1>4, <1>6 DEF Recurs
  <2> QED
    BY <1>4, <2>1 DEF Recurs
<1>8. f = GatherOf(rows, Good, f)
  BY <1>7 DEF GatherOf, N, empty, next
<1> QED
  BY <1>8

LEMMA Gathered ==
  ASSUME NEW E, NEW Good, NEW rows \in Seq(E), NEW upTo, upTo = GatherOf(rows, Good, upTo)
  PROVE  /\ upTo[Len(rows)] \in Seq(E)
         /\ Range(upTo[Len(rows)]) = Range(rows) \cap Good
<1> DEFINE N == Len(rows)
<1>0. /\ upTo[0] = <<>>
      /\ \A n \in 1 .. N :
             upTo[n] = IF rows[n] \in Good THEN Append(upTo[n - 1], rows[n]) ELSE upTo[n - 1]
  <2> DEFINE g(n) == IF n = 0 THEN <<>>
                     ELSE IF rows[n] \in Good THEN Append(upTo[n - 1], rows[n]) ELSE upTo[n - 1]
  <2>1. upTo = [n \in 0 .. N |-> g(n)]
    BY DEF GatherOf
  <2> HIDE DEF g
  <2>2. \A n \in 0 .. N : upTo[n] = g(n)
    BY <2>1
  <2> QED
    BY <2>2 DEF g
<1> DEFINE Is(n) == /\ upTo[n] \in Seq(E)
                    /\ \A p : (\E m \in DOMAIN upTo[n] : upTo[n][m] = p)
                               <=> p \in Good /\ \E m \in 1 .. n : rows[m] = p
           S == {n \in 0 .. N : Is(n)}
<1>1. 0 \in S
  <2>1. upTo[0] = <<>>
    BY <1>0
  <2>2. upTo[0] \in Seq(E) /\ DOMAIN upTo[0] = {} /\ 1 .. 0 = {}
    BY <2>1
  <2>3. Is(0)
    BY <2>2
  <2> HIDE DEF Is
  <2> QED
    BY <2>3
<1>2. ASSUME NEW n \in 1 .. N, n - 1 \in S PROVE n \in S
  <2>1. upTo[n] = IF rows[n] \in Good THEN Append(upTo[n - 1], rows[n]) ELSE upTo[n - 1]
    BY <1>0
  <2> DEFINE old == upTo[n - 1]
             new == upTo[n]
  <2>2. /\ old \in Seq(E)
        /\ \A p : (\E m \in DOMAIN old : old[m] = p)
                    <=> p \in Good /\ \E m \in 1 .. n - 1 : rows[m] = p
    BY <1>2
  <2>3. new = IF rows[n] \in Good THEN Append(old, rows[n]) ELSE old
    BY <2>1
  <2> HIDE DEF old, new
  <2>4. new \in Seq(E)
    BY <2>2, <2>3
  <2>5. ASSUME NEW p
        PROVE  (\E m \in DOMAIN new : new[m] = p)
               <=> (\E m \in DOMAIN old : old[m] = p) \/ (rows[n] \in Good /\ rows[n] = p)
    <3>1. CASE rows[n] \in Good
      <4>1. /\ DOMAIN new = 1 .. Len(old) + 1 /\ new[Len(old) + 1] = rows[n]
            /\ \A m \in 1 .. Len(old) : new[m] = old[m]
            /\ DOMAIN old = 1 .. Len(old) /\ Len(old) \in Nat
        BY <2>2, <2>3, <3>1
      <4> QED
        BY <3>1, <4>1
    <3>2. CASE rows[n] \notin Good
      BY <2>3, <3>2
    <3> QED
      BY <3>1, <3>2
  <2>6. ASSUME NEW p
        PROVE  (\E m \in 1 .. n : rows[m] = p)
               <=> (\E m \in 1 .. n - 1 : rows[m] = p) \/ rows[n] = p
    OBVIOUS
  <2>7. Is(n)
    BY <2>2, <2>4, <2>5, <2>6 DEF new
  <2> QED
    BY <2>7
<1> HIDE DEF S
<1>3. N \in S
  <2>1. N \in Nat
    OBVIOUS
  <2> HIDE DEF N
  <2>2. 0 .. N \subseteq S
    BY <1>1, <1>2, <2>1, Upwards
  <2> QED
    BY <2>1, <2>2
<1>4. \A p : p \in Range(rows) <=> \E m \in 1 .. N : rows[m] = p
  BY DEF Range
<1>5. Is(N)
  BY <1>3 DEF S
<1> QED
  BY <1>4, <1>5 DEF Range

\* The rows a retry takes: the failed ones.
LEMMA FailedRowsAre ==
  ASSUME NEW j, jobs[j].rows \in Seq(Payments)
  PROVE  /\ FailedRows(j) \in Seq(Payments)
         /\ \A p : p \in Range(FailedRows(j))
                    <=> p \in Range(jobs[j].rows) /\ jobs[j].result[p] = "failed"
<1> DEFINE rows == jobs[j].rows
           Good == {p \in Payments : jobs[j].result[p] = "failed"}
           N == Len(rows)
           upTo == CHOOSE f : f = GatherOf(rows, Good, f)
<1>1. N \in Nat /\ rows \in Seq(Payments) /\ \A n \in 1 .. N : rows[n] \in Payments
  OBVIOUS
<1>2. FailedRows(j) = upTo[N]
  <2>1. ASSUME NEW f
        PROVE  GatherOf(rows, Good, f) =
                   [n \in 0 .. Len(rows) |->
                       IF n = 0 THEN <<>>
                       ELSE IF jobs[j].result[rows[n]] = "failed" THEN Append(f[n - 1], rows[n])
                       ELSE f[n - 1]]
    BY <1>1 DEF GatherOf
  <2> QED
    BY <2>1, Zenon DEF FailedRows
<1>3. upTo = GatherOf(rows, Good, upTo)
  BY <1>1, GatherExists, Zenon
<1> HIDE DEF upTo
<1>4. upTo[N] \in Seq(Payments) /\ Range(upTo[N]) = Range(rows) \cap Good
  <2>1. rows \in Seq(Payments)
    BY <1>1
  <2> HIDE DEF Good, rows
  <2> QED
    BY <1>3, <2>1, Gathered
<1>5. \A p \in Range(rows) : p \in Payments
  BY <1>1 DEF Range
<1> QED
  BY <1>2, <1>4, <1>5

-----------------------------------------------------------------------------
(* Types *)

\* TypeOK, and what keeps it: the pool is finite, so a transaction differs from
\* every other one; a busy worker's job is stored, the worker is at one of its
\* batches, and what it awaits carries that batch's payment.
TypeInv ==
    /\ TypeOK
    /\ IsFiniteSet(pool)
    /\ \A w \in Workers :
           /\ workers[w].pc # "idle" => Job(w).status # "absent"
           /\ workers[w].pc \in {"load", "send", "await", "tally"} =>
                  workers[w].i \in DOMAIN Job(w).rows
           /\ workers[w].pc = "await" \/ (workers[w].pc = "send" /\ ~Job(w).presigned) =>
                  workers[w].tx \in Tx /\ workers[w].tx.pay = Payment(w)

\* What a step of worker w leaves of the rows: only its own job's row changes,
\* and only the worker's end replaces the result.
RowsKept(w) ==
    \A j \in Jobs :
        /\ jobs'[j].rows = jobs[j].rows /\ jobs'[j].base = jobs[j].base
        /\ jobs'[j].presigned = jobs[j].presigned /\ jobs'[j].from = jobs[j].from
        /\ jobs'[j].status = "absent" <=> jobs[j].status = "absent"
        /\ jobs'[j].status = "queued" => jobs[j].status = "queued"
        /\ j # workers[w].job => jobs'[j] = jobs[j]
        /\ \/ jobs'[j].result = jobs[j].result
           \/ /\ j = workers[w].job /\ jobs'[j].result = workers[w].out
              /\ workers[w].pc = "finish" /\ workers'[w].pc = "idle"

\* What it records: at most the outcome of the batch it is at, a success only
\* of a transaction it found applied.
OutKept(w) ==
    \A p \in Payments :
        \/ workers'[w].out[p] = "none"
        \/ workers'[w].out[p] = workers[w].out[p]
        \/ /\ workers[w].pc \in {"load", "send", "await"} /\ p = Payment(w)
           /\ workers'[w].out[p] = "success" =>
                  workers[w].pc = "await" /\ Applied(workers[w].tx)

\* The client's envelope for batch i of job j.
Sealed(j, i) == [pay |-> jobs[j].rows[i], seq |-> jobs[j].base + i, nonce |-> 0]

\* How it moves through the batches, and what becomes of its transaction.
Moves(w) ==
    \/ /\ pool' \subseteq pool
       /\ \/ ~Claimed(w)'
          \/ workers'[w].pc = "begin" /\ workers[w].pc = "claim"
          \/ /\ workers'[w].pc = "tally" /\ workers'[w].i = workers[w].i
             /\ workers[w].pc \in {"load", "send", "await"}
          \/ /\ workers'[w].pc \in {"load", "send", "finish"}
             /\ \/ workers[w].pc = "begin"
                \/ workers[w].pc = "tally" /\ workers'[w].i = workers[w].i + 1
          \/ /\ workers'[w].pc = "send" /\ workers'[w].i = workers[w].i
             /\ workers[w].pc = "load"
    \/ /\ workers[w].pc = "send" /\ workers'[w].pc = "await"
       /\ workers'[w].i = workers[w].i
       /\ pool' \subseteq pool \cup {workers'[w].tx}
       /\ Job(w).presigned => workers'[w].tx = Sealed(workers[w].job, workers[w].i)
    \/ /\ workers[w].pc = "await" /\ workers'[w].pc \in {"load", "send"}
       /\ workers'[w].i = workers[w].i
       /\ ~Applied(workers[w].tx) /\ pool' \subseteq pool \ {workers[w].tx}

\* The claims: of a queued job, or of one that counts as reclaimed.
ClaimKept(w) ==
    /\ reclaimed \subseteq reclaimed'
    /\ Claimed(w)' => \/ Claimed(w)
                      \/ Job(w).status = "queued" \/ workers[w].job \in reclaimed'

\* All a step of worker w may do.
WorkStep(w) ==
    /\ workers[w].pc # "idle" /\ workers[w].job \in Jobs
    /\ \A v \in Workers : v # w => workers'[v] = workers[v]
    /\ workers'[w].pc = "idle" \/ workers'[w].job = workers[w].job
    /\ UNCHANGED ledger
    /\ RowsKept(w) /\ OutKept(w) /\ Moves(w) /\ ClaimKept(w)

LEMMA IdleIsWorker == Idle \in Worker /\ Idle.pc = "idle" /\ Idle.out = NoRows /\ Idle.i = 0
BY DEF Idle, Worker, NoRows, Outcomes

LEMMA TypeInit == Init => TypeInv
<1> SUFFICES ASSUME Init PROVE TypeInv
  OBVIOUS
<1>1. Absent \in JobRow
  BY DEF Absent, JobRow, NoRows, Outcomes
<1>2. /\ jobs \in [Jobs -> JobRow] /\ workers \in [Workers -> Worker]
      /\ \A w \in Workers : workers[w].pc = "idle"
  BY <1>1, IdleIsWorker DEF Init
<1>3. /\ ledger \in Seq([tx : Tx, ok : BOOLEAN]) /\ pool = {} /\ IsFiniteSet(pool)
      /\ faults \in Nat /\ reclaimed = {}
  BY FS_EmptySet DEF Init
<1> QED
  BY <1>2, <1>3 DEF TypeInv, TypeOK

\* What a busy worker has in hand.
LEMMA Busy ==
  ASSUME TypeInv, NEW w \in Workers, workers[w].pc # "idle"
  PROVE  /\ workers[w] \in Worker /\ workers[w].job \in Jobs /\ workers[w].i \in Nat
         /\ Job(w) \in JobRow /\ Job(w).status # "absent"
         /\ Job(w).rows \in Seq(Payments) /\ Len(Job(w).rows) \in Nat
         /\ workers[w].i \in 0 .. Len(Job(w).rows) + 1
         /\ workers[w].out \in [Payments -> Outcomes]
         /\ workers[w].pc \in {"load", "send", "await", "tally"} =>
                workers[w].i \in DOMAIN Job(w).rows /\ Payment(w) \in Payments
<1>1. /\ workers[w] \in Worker /\ workers[w].job \in Jobs
      /\ Job(w) \in JobRow /\ Job(w).status # "absent"
      /\ workers[w].i \in 0 .. Len(Job(w).rows) + 1
      /\ workers[w].pc \in {"load", "send", "await", "tally"} =>
             workers[w].i \in DOMAIN Job(w).rows
  BY DEF TypeInv, TypeOK, Job
<1>2. Job(w).rows \in Seq(Payments)
  BY <1>1 DEF JobRow
<1>3. workers[w].i \in Nat /\ workers[w].out \in [Payments -> Outcomes]
  BY <1>1 DEF Worker
<1> QED
  BY <1>1, <1>2, <1>3 DEF Payment

\* A worker that steps keeps the types if what it becomes is well formed.
LEMMA TypedStep ==
  ASSUME TypeInv, NEW w \in Workers, workers[w].pc # "idle",
         NEW new \in Worker, workers' = [workers EXCEPT ![w] = new],
         \/ new.pc = "idle"
         \/ /\ new.job = workers[w].job
            /\ new.i \in 0 .. Len(Job(w).rows) + 1
            /\ new.pc \in {"load", "send", "await", "tally"} => new.i \in DOMAIN Job(w).rows
            /\ new.pc = "await" \/ (new.pc = "send" /\ ~Job(w).presigned) =>
                   new.tx \in Tx /\ new.tx.pay = Job(w).rows[new.i],
         jobs' \in [Jobs -> JobRow], RowsKept(w),
         UNCHANGED ledger, pool' \subseteq Tx, IsFiniteSet(pool'),
         faults' \in Nat, reclaimed' \subseteq Jobs
  PROVE  /\ TypeInv'
         /\ workers'[w] = new
         /\ \A v \in Workers : v # w => workers'[v] = workers[v]
<1>1. /\ workers'[w] = new
      /\ \A v \in Workers : v # w => workers'[v] = workers[v]
      /\ workers' \in [Workers -> Worker]
  BY DEF TypeInv, TypeOK
<1>2. \A j \in Jobs : /\ jobs'[j].rows = jobs[j].rows
                      /\ jobs'[j].presigned = jobs[j].presigned
                      /\ jobs'[j].status = "absent" <=> jobs[j].status = "absent"
  BY DEF RowsKept
<1>3. \A v \in Workers : workers[v].pc # "idle" => workers[v].job \in Jobs
  BY DEF TypeInv, TypeOK
<1>4. ASSUME NEW v \in Workers, workers'[v].pc # "idle"
      PROVE  /\ workers'[v].job \in Jobs /\ Job(v)'.status # "absent"
             /\ workers'[v].i \in 0 .. Len(Job(v)'.rows) + 1
             /\ workers'[v].pc \in {"load", "send", "await", "tally"} =>
                    workers'[v].i \in DOMAIN Job(v)'.rows
             /\ workers'[v].pc = "await" \/ (workers'[v].pc = "send" /\ ~Job(v)'.presigned) =>
                    workers'[v].tx \in Tx /\ workers'[v].tx.pay = Payment(v)'
  <2>1. CASE v # w
    <3>1. workers'[v] = workers[v] /\ workers[v].job \in Jobs
      BY <1>1, <1>3, <1>4, <2>1
    <3>2. /\ Job(v)'.rows = Job(v).rows /\ Job(v)'.presigned = Job(v).presigned
          /\ Job(v).status # "absent" /\ Job(v)'.status # "absent"
      BY <1>2, <1>4, <3>1 DEF TypeInv, Job
    <3>3. workers[v].i \in 0 .. Len(Job(v).rows) + 1
      BY <1>4, <3>1 DEF TypeInv, TypeOK
    <3> QED
      BY <1>4, <3>1, <3>2, <3>3 DEF TypeInv, Payment
  <2>2. CASE v = w
    <3>1. workers'[v] = new /\ new.job = workers[w].job /\ workers[w].job \in Jobs
      BY <1>1, <1>3, <1>4, <2>2
    <3>2. /\ Job(v)'.rows = Job(w).rows /\ Job(v)'.presigned = Job(w).presigned
          /\ Job(w).status # "absent" /\ Job(v)'.status # "absent"
      BY <1>2, <3>1 DEF TypeInv, Job
    <3> QED
      BY <1>4, <3>1, <3>2 DEF Payment
  <2> QED
    BY <2>1, <2>2
<1>5. TypeOK'
  BY <1>1, <1>4 DEF TypeInv, TypeOK
<1>6. \A v \in Workers :
           /\ workers'[v].pc # "idle" => Job(v)'.status # "absent"
           /\ workers'[v].pc \in {"load", "send", "await", "tally"} =>
                  workers'[v].i \in DOMAIN Job(v)'.rows
           /\ workers'[v].pc = "await" \/ (workers'[v].pc = "send" /\ ~Job(v)'.presigned) =>
                  workers'[v].tx \in Tx /\ workers'[v].tx.pay = Payment(v)'
  BY <1>4
<1> QED
  BY <1>1, <1>5, <1>6 DEF TypeInv

\* A write of the worker's job row.
LEMMA RowWritten ==
  ASSUME TypeInv, NEW w \in Workers, workers[w].pc # "idle",
         NEW row \in JobRow, Touched(workers[w].job, row),
         row.rows = Job(w).rows, row.base = Job(w).base,
         row.presigned = Job(w).presigned, row.from = Job(w).from,
         row.status # "absent", row.status = "queued" => Job(w).status = "queued",
         \/ row.result = Job(w).result
         \/ row.result = workers[w].out /\ workers[w].pc = "finish" /\ workers'[w].pc = "idle"
  PROVE  jobs' \in [Jobs -> JobRow] /\ RowsKept(w)
<1> DEFINE stored == [row EXCEPT !.stale = FALSE]
           j == workers[w].job
<1>1. /\ stored \in JobRow /\ stored.rows = row.rows /\ stored.base = row.base
      /\ stored.presigned = row.presigned /\ stored.from = row.from
      /\ stored.status = row.status /\ stored.result = row.result
  BY DEF JobRow
<1>2. jobs' = [jobs EXCEPT ![j] = stored]
  BY DEF Touched
<1>3. j \in Jobs /\ jobs \in [Jobs -> JobRow] /\ Job(w) = jobs[j] /\ Job(w).status # "absent"
  BY Busy DEF TypeInv, TypeOK, Job
<1> HIDE DEF stored, j
<1>4. jobs' \in [Jobs -> JobRow]
  BY <1>1, <1>2, <1>3
<1>5. \A k \in Jobs : jobs'[k] = IF k = j THEN stored ELSE jobs[k]
  BY <1>2, <1>3
<1> QED
  BY <1>1, <1>3, <1>4, <1>5 DEF RowsKept, j

LEMMA RowsUnchanged ==
  ASSUME TypeInv, NEW w \in Workers, UNCHANGED jobs
  PROVE  jobs' \in [Jobs -> JobRow] /\ RowsKept(w)
BY DEF TypeInv, TypeOK, RowsKept

LEMMA NetworkUnchanged ==
  ASSUME TypeInv, UNCHANGED <<ledger, pool>>
  PROVE  UNCHANGED ledger /\ pool' \subseteq Tx /\ IsFiniteSet(pool') /\ pool' \subseteq pool
BY DEF TypeInv, TypeOK

LEMMA FaultsTyped ==
  ASSUME TypeInv
  PROVE  faults \in Nat /\ faults + 1 \in Nat /\ reclaimed \subseteq Jobs
BY DEF TypeInv, TypeOK

\* A worker that ends, or goes to its catch block.
LEMMA EndStep ==
  ASSUME TypeInv, NEW w \in Workers, workers[w].pc # "idle",
         \/ workers' = [workers EXCEPT ![w] = Idle]
         \/ Goto(w, "abort"),
         jobs' \in [Jobs -> JobRow], RowsKept(w),
         UNCHANGED <<ledger, pool>>, faults' \in Nat, UNCHANGED reclaimed
  PROVE  TypeInv' /\ WorkStep(w)
<1>1. PICK new \in Worker :
          /\ workers' = [workers EXCEPT ![w] = new]
          /\ \/ new.pc = "idle" /\ new.out = NoRows
             \/ /\ new.pc = "abort" /\ new.job = workers[w].job /\ new.i = workers[w].i
                /\ new.out = workers[w].out
  <2>1. CASE workers' = [workers EXCEPT ![w] = Idle]
    BY <2>1, IdleIsWorker
  <2>2. CASE Goto(w, "abort")
    <3> DEFINE new == [workers[w] EXCEPT !.pc = "abort"]
    <3>1. /\ new \in Worker /\ new.pc = "abort" /\ new.job = workers[w].job
          /\ new.i = workers[w].i /\ new.out = workers[w].out
      BY Busy DEF Worker
    <3>2. workers' = [workers EXCEPT ![w] = new]
      BY <2>2 DEF Goto
    <3> HIDE DEF new
    <3> QED
      BY <3>1, <3>2
  <2> QED
    BY <2>1, <2>2
<1>2. workers[w].i \in 0 .. Len(Job(w).rows) + 1
  BY Busy
<1>3. UNCHANGED ledger /\ pool' \subseteq Tx /\ IsFiniteSet(pool') /\ pool' \subseteq pool
  BY NetworkUnchanged
<1>4. reclaimed' \subseteq Jobs
  BY FaultsTyped
<1>5. /\ TypeInv' /\ workers'[w] = new
      /\ \A v \in Workers : v # w => workers'[v] = workers[v]
  BY <1>1, <1>2, <1>3, <1>4, TypedStep
<1>6. OutKept(w)
  BY <1>1, <1>5 DEF OutKept, NoRows
<1>7. ~Claimed(w)'
  BY <1>1, <1>5 DEF Claimed
<1> QED
  BY <1>1, <1>3, <1>5, <1>6, <1>7, Busy DEF WorkStep, Moves, ClaimKept

LEMMA ClaimTypes ==
  ASSUME TypeInv, NEW w \in Workers, Claim(w)
  PROVE  TypeInv' /\ WorkStep(w)
<1> DEFINE free == Job(w).status = "queued" \/ (Job(w).status = "processing" /\ Job(w).stale)
           row == [Job(w) EXCEPT !.status = "processing"]
           new == [workers[w] EXCEPT !.pc = "begin"]
<1>1. workers[w].pc = "claim" /\ UNCHANGED <<ledger, pool, faults>>
  BY DEF Claim
<1>2. CASE free
  <2>1. /\ row \in JobRow /\ row.status = "processing" /\ row.rows = Job(w).rows
        /\ row.base = Job(w).base /\ row.presigned = Job(w).presigned
        /\ row.from = Job(w).from /\ row.result = Job(w).result
    BY <1>1, Busy DEF JobRow
  <2>2. /\ new \in Worker /\ new.pc = "begin" /\ new.job = workers[w].job
        /\ new.i = workers[w].i /\ new.out = workers[w].out
    BY <1>1, Busy DEF Worker
  <2>3. /\ Touched(workers[w].job, row) /\ workers' = [workers EXCEPT ![w] = new]
        /\ reclaimed' = IF Job(w).status = "queued" THEN reclaimed
                        ELSE reclaimed \cup {workers[w].job}
    BY <1>2 DEF Claim, Goto
  <2> HIDE DEF row, new
  <2>4. jobs' \in [Jobs -> JobRow] /\ RowsKept(w)
    BY <1>1, <2>1, <2>3, RowWritten
  <2>5. /\ reclaimed \subseteq reclaimed' /\ reclaimed' \subseteq Jobs /\ faults' \in Nat
        /\ Job(w).status = "queued" \/ workers[w].job \in reclaimed'
    BY <1>1, <2>3, Busy, FaultsTyped
  <2>6. workers[w].i \in 0 .. Len(Job(w).rows) + 1
    BY <1>1, Busy
  <2>7. UNCHANGED ledger /\ pool' \subseteq Tx /\ IsFiniteSet(pool') /\ pool' \subseteq pool
    BY <1>1, NetworkUnchanged
  <2>8. /\ TypeInv' /\ workers'[w] = new
        /\ \A v \in Workers : v # w => workers'[v] = workers[v]
    BY <1>1, <2>2, <2>3, <2>4, <2>5, <2>6, <2>7, TypedStep
  <2>9. OutKept(w)
    BY <2>2, <2>8 DEF OutKept
  <2> QED
    BY <1>1, <2>2, <2>4, <2>5, <2>7, <2>8, <2>9, Busy DEF WorkStep, Moves, ClaimKept
<1>3. CASE ~free
  <2>1. workers' = [workers EXCEPT ![w] = Idle] /\ UNCHANGED <<jobs, reclaimed>>
    BY <1>3 DEF Claim
  <2> QED
    BY <1>1, <2>1, RowsUnchanged, FaultsTyped, EndStep
<1> QED
  BY <1>2, <1>3

\* The next turn of the loop, after a write of the row.
LEMMA TurnStep ==
  ASSUME TypeInv, NEW w \in Workers, Claimed(w), NEW i \in Nat,
         i \in 1 .. Len(Job(w).rows) + 1, NextBatch(w, i),
         \/ workers[w].pc = "begin"
         \/ workers[w].pc = "tally" /\ i = workers[w].i + 1,
         jobs' \in [Jobs -> JobRow], RowsKept(w),
         UNCHANGED <<ledger, pool, faults, reclaimed>>
  PROVE  TypeInv' /\ WorkStep(w)
<1> DEFINE pc == IF i <= Len(Job(w).rows) THEN BatchStart(w) ELSE "finish"
           new == [workers[w] EXCEPT !.i = i, !.tx = None, !.tries = 0, !.fees = 0, !.pc = pc]
<1>0. workers[w].pc # "idle"
  BY DEF Claimed
<1>1. /\ pc \in {"load", "send", "finish"} /\ (pc = "send" => Job(w).presigned)
      /\ pc # "finish" => i \in DOMAIN Job(w).rows
  BY <1>0, Busy DEF BatchStart
<1>2. workers' = [workers EXCEPT ![w] = new]
  BY DEF NextBatch
<1> HIDE DEF pc
<1>3. /\ new \in Worker /\ new.pc = pc /\ new.job = workers[w].job /\ new.i = i
      /\ new.out = workers[w].out
  BY <1>0, <1>1, Busy DEF Worker
<1> HIDE DEF new
<1>4. UNCHANGED ledger /\ pool' \subseteq Tx /\ IsFiniteSet(pool') /\ pool' \subseteq pool
  BY NetworkUnchanged
<1>5. faults' \in Nat /\ reclaimed' \subseteq Jobs
  BY FaultsTyped
<1>6. /\ new.i \in 0 .. Len(Job(w).rows) + 1
      /\ new.pc \in {"load", "send", "await", "tally"} => new.i \in DOMAIN Job(w).rows
      /\ ~(new.pc = "await" \/ (new.pc = "send" /\ ~Job(w).presigned))
  BY <1>1, <1>3
<1>7. /\ TypeInv' /\ workers'[w] = new
      /\ \A v \in Workers : v # w => workers'[v] = workers[v]
  BY <1>0, <1>2, <1>3, <1>4, <1>5, <1>6, TypedStep
<1>8. OutKept(w)
  BY <1>3, <1>7 DEF OutKept
<1>9. Moves(w)
  BY <1>1, <1>3, <1>4, <1>7 DEF Moves
<1> QED
  BY <1>0, <1>3, <1>4, <1>7, <1>8, <1>9, Busy DEF WorkStep, ClaimKept

LEMMA BeginTypes ==
  ASSUME TypeInv, NEW w \in Workers, Begin(w)
  PROVE  TypeInv' /\ WorkStep(w)
<1> DEFINE total == Len(Job(w).rows)
           row == [Job(w) EXCEPT !.status = "processing", !.total = total, !.completed = 0]
<1>1. /\ workers[w].pc = "begin" /\ Claimed(w) /\ Touched(workers[w].job, row)
      /\ NextBatch(w, 1) /\ UNCHANGED <<ledger, pool, faults, reclaimed>>
  BY DEF Begin, Claimed
<1>2. total \in Nat /\ Job(w) \in JobRow /\ 1 \in 1 .. Len(Job(w).rows) + 1
  BY <1>1, Busy
<1> HIDE DEF total
<1>3. /\ row \in JobRow /\ row.status = "processing" /\ row.rows = Job(w).rows
      /\ row.base = Job(w).base /\ row.presigned = Job(w).presigned
      /\ row.from = Job(w).from /\ row.result = Job(w).result
  BY <1>2 DEF JobRow
<1> HIDE DEF row
<1>4. jobs' \in [Jobs -> JobRow] /\ RowsKept(w)
  BY <1>1, <1>3, RowWritten
<1> QED
  BY <1>1, <1>2, <1>4, TurnStep

LEMMA TallyTypes ==
  ASSUME TypeInv, NEW w \in Workers, Tally(w)
  PROVE  TypeInv' /\ WorkStep(w)
<1> DEFINE n == Job(w).completed + 1
           row == [Job(w) EXCEPT !.completed = n]
<1>1. /\ workers[w].pc = "tally" /\ Claimed(w) /\ Touched(workers[w].job, row)
      /\ NextBatch(w, workers[w].i + 1) /\ UNCHANGED <<ledger, pool, faults, reclaimed>>
  BY DEF Tally, Claimed
<1>2. workers[w].i + 1 \in Nat /\ workers[w].i + 1 \in 1 .. Len(Job(w).rows) + 1
  BY <1>1, Busy
<1>0. n \in Nat /\ Job(w) \in JobRow /\ Job(w).status # "absent"
  BY <1>1, Busy DEF JobRow
<1> HIDE DEF n
<1>3. /\ row \in JobRow /\ row.status = Job(w).status /\ row.rows = Job(w).rows
      /\ row.base = Job(w).base /\ row.presigned = Job(w).presigned
      /\ row.from = Job(w).from /\ row.result = Job(w).result
  BY <1>0 DEF JobRow
<1> HIDE DEF row
<1>4. jobs' \in [Jobs -> JobRow] /\ RowsKept(w)
  BY <1>0, <1>1, <1>3, RowWritten
<1> QED
  BY <1>1, <1>2, <1>4, TurnStep

LEMMA FinishTypes ==
  ASSUME TypeInv, NEW w \in Workers, Finish(w)
  PROVE  TypeInv' /\ WorkStep(w)
<1> DEFINE status == IF \E p \in Payments : workers[w].out[p] = "success"
                     THEN "completed" ELSE "failed"
           row == [Job(w) EXCEPT !.status = status, !.result = workers[w].out]
<1>1. /\ workers[w].pc = "finish" /\ Touched(workers[w].job, row)
      /\ workers' = [workers EXCEPT ![w] = Idle]
      /\ UNCHANGED <<ledger, pool, faults, reclaimed>>
  BY DEF Finish
<1>2. status \in {"completed", "failed"}
  OBVIOUS
<1> HIDE DEF status
<1>3. /\ row \in JobRow /\ row.status = status /\ row.rows = Job(w).rows
      /\ row.base = Job(w).base /\ row.presigned = Job(w).presigned
      /\ row.from = Job(w).from /\ row.result = workers[w].out
  BY <1>1, <1>2, Busy DEF JobRow, Terminal
<1> HIDE DEF row
<1>4. workers'[w].pc = "idle"
  BY <1>1, IdleIsWorker DEF TypeInv, TypeOK
<1>5. jobs' \in [Jobs -> JobRow] /\ RowsKept(w)
  BY <1>1, <1>2, <1>3, <1>4, RowWritten
<1> QED
  BY <1>1, <1>5, FaultsTyped, EndStep

LEMMA AbortTypes ==
  ASSUME TypeInv, NEW w \in Workers, Abort(w)
  PROVE  TypeInv' /\ WorkStep(w)
<1> DEFINE row == [Job(w) EXCEPT !.status = "failed"]
<1>1. /\ workers[w].pc = "abort" /\ Touched(workers[w].job, row)
      /\ workers' = [workers EXCEPT ![w] = Idle]
      /\ UNCHANGED <<ledger, pool, faults, reclaimed>>
  BY DEF Abort
<1>2. /\ row \in JobRow /\ row.status = "failed" /\ row.rows = Job(w).rows
      /\ row.base = Job(w).base /\ row.presigned = Job(w).presigned
      /\ row.from = Job(w).from /\ row.result = Job(w).result
  BY <1>1, Busy DEF JobRow, Terminal
<1> HIDE DEF row
<1>3. jobs' \in [Jobs -> JobRow] /\ RowsKept(w)
  BY <1>1, <1>2, RowWritten
<1> QED
  BY <1>1, <1>3, FaultsTyped, EndStep

LEMMA FaultTypes ==
  ASSUME TypeInv, NEW w \in Workers, StoreError(w) \/ Crash(w)
  PROVE  TypeInv' /\ WorkStep(w)
<1>1. /\ workers[w].pc # "idle" /\ UNCHANGED <<jobs, ledger, pool, reclaimed>>
      /\ faults' = faults + 1
      /\ workers' = [workers EXCEPT ![w] = Idle] \/ Goto(w, "abort")
  BY DEF StoreError, Crash
<1> QED
  BY <1>1, RowsUnchanged, FaultsTyped, EndStep

\* A step that records the result of the current batch.
LEMMA RecordTypes ==
  ASSUME TypeInv, NEW w \in Workers, NEW outcome \in Outcomes, Record(w, outcome),
         workers[w].pc \in {"load", "send", "await"},
         outcome = "success" => workers[w].pc = "await" /\ Applied(workers[w].tx),
         UNCHANGED <<jobs, ledger, faults, reclaimed>>, pool' \subseteq pool
  PROVE  TypeInv' /\ WorkStep(w)
<1> DEFINE out == [workers[w].out EXCEPT ![Payment(w)] = outcome]
           new == [workers[w] EXCEPT !.out = out, !.tx = None, !.tries = 0, !.fees = 0,
                                     !.pc = "tally"]
<1>1. workers' = [workers EXCEPT ![w] = new] /\ Claimed(w) /\ workers[w].pc # "idle"
  BY DEF Record, Claimed
<1>2. /\ out \in [Payments -> Outcomes]
      /\ \A p \in Payments : out[p] = IF p = Payment(w) THEN outcome ELSE workers[w].out[p]
  BY <1>1, Busy
<1> HIDE DEF out
<1>3. /\ new \in Worker /\ new.pc = "tally" /\ new.job = workers[w].job
      /\ new.i = workers[w].i /\ new.out = out
  BY <1>1, <1>2, Busy DEF Worker
<1> HIDE DEF new
<1>4. pool' \subseteq Tx /\ IsFiniteSet(pool')
  BY FS_Subset DEF TypeInv, TypeOK
<1>5. jobs' \in [Jobs -> JobRow] /\ RowsKept(w)
  BY RowsUnchanged
<1>6. /\ new.i \in 0 .. Len(Job(w).rows) + 1 /\ new.i \in DOMAIN Job(w).rows
      /\ faults' \in Nat /\ reclaimed' \subseteq Jobs
  BY <1>1, <1>3, Busy, FaultsTyped
<1>7. /\ TypeInv' /\ workers'[w] = new
      /\ \A v \in Workers : v # w => workers'[v] = workers[v]
  BY <1>1, <1>3, <1>4, <1>5, <1>6, TypedStep
<1>8. OutKept(w)
  BY <1>2, <1>3, <1>7 DEF OutKept
<1>9. Moves(w)
  BY <1>3, <1>7 DEF Moves
<1> QED
  BY <1>1, <1>3, <1>5, <1>7, <1>8, <1>9, Busy DEF WorkStep, ClaimKept

\* A function takes finitely many values on a finite set.
LEMMA Values ==
  ASSUME NEW S, IsFiniteSet(S), NEW f, DOMAIN f = S, f = [x \in S |-> f[x]]
  PROVE  IsFiniteSet({f[x] : x \in S})
<1> DEFINE T == {f[x] : x \in S}
<1>1. f \in Surjection(S, T)
  BY DEF Surjection
<1> HIDE DEF T
<1>2. IsFiniteSet(T)
  BY <1>1, FS_Surjection
<1> QED
  BY <1>2 DEF T

LEMMA KnownFinite ==
  ASSUME TypeInv
  PROVE  IsFiniteSet(Known)
<1> DEFINE f == [v \in Workers |-> workers[v].tx]
           g == [n \in DOMAIN ledger |-> ledger[n].tx]
           A == {f[v] : v \in Workers}
           B == {g[n] : n \in DOMAIN ledger}
<1>1. IsFiniteSet(A)
  <2>1. DOMAIN f = Workers /\ f = [v \in Workers |-> f[v]] /\ IsFiniteSet(Workers)
    BY JobsAssumption
  <2> HIDE DEF f
  <2> QED
    BY <2>1, Values
<1>2. IsFiniteSet(B)
  <2>1. IsFiniteSet(DOMAIN ledger)
    <3>1. ledger \in Seq([tx : Tx, ok : BOOLEAN])
      BY DEF TypeInv, TypeOK
    <3>2. DOMAIN ledger = 1 .. Len(ledger) /\ Len(ledger) \in Nat
      BY <3>1
    <3> QED
      BY <3>2, FS_Interval
  <2>2. DOMAIN g = DOMAIN ledger /\ g = [n \in DOMAIN ledger |-> g[n]]
    OBVIOUS
  <2> HIDE DEF g
  <2> QED
    BY <2>1, <2>2, Values
<1>3. Known = (pool \cup A) \cup B
  BY DEF Known
<1> HIDE DEF A, B
<1>4. IsFiniteSet(pool \cup A)
  BY <1>1, FS_Union DEF TypeInv
<1> QED
  BY <1>2, <1>3, <1>4, FS_Union

\* The transaction a worker signs: some nonce is always left for it.
LEMMA SignedTyped ==
  ASSUME TypeInv, NEW p \in Payments, NEW seq \in Nat
  PROVE  Signed(p, seq) \in Tx /\ Signed(p, seq).pay = p
<1> DEFINE tx(n) == [pay |-> p, seq |-> seq, nonce |-> n]
           C == Cardinality(Known)
           Free == {n \in 1 .. C + 1 : tx(n) \notin Known}
<1>1. IsFiniteSet(Known) /\ C \in Nat
  BY KnownFinite, FS_CardinalityType
<1>2. Free # {}
  <2> SUFFICES ASSUME \A n \in 1 .. C + 1 : tx(n) \in Known PROVE FALSE
    OBVIOUS
  <2> DEFINE f == [n \in 1 .. C + 1 |-> tx(n)]
             S == 1 .. C + 1
  <2>1. f \in [S -> Known]
    OBVIOUS
  <2>2. IsFiniteSet(S) /\ Cardinality(S) = C + 1
    <3> HIDE DEF C
    <3>1. 1 \in Int /\ C + 1 \in Int /\ ~(1 > C + 1) /\ (C + 1) - 1 + 1 = C + 1
      BY <1>1
    <3>2. /\ IsFiniteSet(1 .. (C + 1))
          /\ Cardinality(1 .. (C + 1)) = IF 1 > C + 1 THEN 0 ELSE (C + 1) - 1 + 1
      BY <3>1, FS_Interval
    <3> QED
      BY <3>1, <3>2
  <2>3. Cardinality(Known) < Cardinality(S)
    BY <1>1, <2>2
  <2>4. \A x, y \in S : f[x] = f[y] => x = y
    <3> SUFFICES ASSUME NEW x \in S, NEW y \in S, f[x] = f[y] PROVE x = y
      OBVIOUS
    <3>1. tx(x).nonce = tx(y).nonce
      OBVIOUS
    <3> QED
      BY <3>1
  <2> HIDE DEF f, S, C
  <2> QED
    BY <1>1, <2>1, <2>2, <2>3, <2>4, FS_PigeonHole
<1>3. PICK m \in Free : \A n \in Free : m <= n
  <2>1. Free \subseteq Nat
    BY <1>1
  <2> HIDE DEF Free
  <2> QED
    BY <1>2, <2>1, Least
<1>4. \A n \in 1 .. m - 1 : tx(n) \in Known
  BY <1>1, <1>3
<1> DEFINE Is(n) == /\ tx(n) \notin Known
                    /\ \A k \in 1 .. n - 1 : tx(k) \in Known
           nonce == CHOOSE n \in 1 .. C + 1 : Is(n)
<1>5. m \in 1 .. C + 1 /\ Is(m)
  BY <1>3, <1>4
<1>6. nonce \in 1 .. C + 1
  <2> HIDE DEF Is, C
  <2> QED
    BY <1>5
<1>7. Signed(p, seq) = tx(nonce)
  BY DEF Signed
<1> HIDE DEF nonce
<1>8. nonce \in Nat
  BY <1>1, <1>6
<1> QED
  BY <1>7, <1>8 DEF Tx

-----------------------------------------------------------------------------
LEMMA LedgerTyped ==
  ASSUME TypeInv
  PROVE  /\ ledger \in Seq([tx : Tx, ok : BOOLEAN]) /\ Len(ledger) \in Nat
         /\ \A s \in DOMAIN ledger : ledger[s].tx \in Tx
<1> DEFINE Entry == [tx : Tx, ok : BOOLEAN]
<1>1. ledger \in Seq(Entry)
  BY DEF TypeInv, TypeOK
<1>2. \A e \in Entry : e.tx \in Tx
  OBVIOUS
<1> HIDE DEF Entry
<1>3. Len(ledger) \in Nat /\ \A s \in DOMAIN ledger : ledger[s] \in Entry
  BY <1>1
<1> QED
  BY <1>1, <1>2, <1>3 DEF Entry

\* A worker at its batch that changes its transaction, and sends or signs.
LEMMA BatchStep ==
  ASSUME TypeInv, NEW w \in Workers, workers[w].pc \in {"load", "send", "await"},
         NEW new \in Worker, workers' = [workers EXCEPT ![w] = new],
         new.job = workers[w].job, new.i = workers[w].i, new.out = workers[w].out,
         new.pc \in {"load", "send", "await"},
         new.pc = "await" \/ (new.pc = "send" /\ ~Job(w).presigned) =>
             new.tx \in Tx /\ new.tx.pay = Payment(w),
         pool' \subseteq Tx, IsFiniteSet(pool'),
         \/ pool' \subseteq pool /\ workers[w].pc = "load" /\ new.pc = "send"
         \/ /\ workers[w].pc = "send" /\ new.pc = "await"
            /\ pool' \subseteq pool \cup {new.tx}
            /\ Job(w).presigned => new.tx = Sealed(workers[w].job, workers[w].i)
         \/ /\ workers[w].pc = "await" /\ new.pc \in {"load", "send"}
            /\ ~Applied(workers[w].tx) /\ pool' \subseteq pool \ {workers[w].tx},
         UNCHANGED <<jobs, ledger, faults, reclaimed>>
  PROVE  TypeInv' /\ WorkStep(w)
<1>1. workers[w].pc # "idle" /\ Claimed(w)
  BY DEF Claimed
<1>2. jobs' \in [Jobs -> JobRow] /\ RowsKept(w)
  BY RowsUnchanged
<1>3. /\ new.i \in 0 .. Len(Job(w).rows) + 1 /\ new.i \in DOMAIN Job(w).rows
      /\ faults' \in Nat /\ reclaimed' \subseteq Jobs
  BY <1>1, Busy, FaultsTyped
<1>4. new.pc = "await" \/ (new.pc = "send" /\ ~Job(w).presigned) =>
          new.tx \in Tx /\ new.tx.pay = Job(w).rows[new.i]
  BY DEF Payment
<1>5. /\ TypeInv' /\ workers'[w] = new
      /\ \A v \in Workers : v # w => workers'[v] = workers[v]
  BY <1>1, <1>2, <1>3, <1>4, TypedStep
<1>6. OutKept(w)
  BY <1>5 DEF OutKept
<1>7. Moves(w)
  BY <1>5 DEF Moves
<1> QED
  BY <1>1, <1>2, <1>5, <1>6, <1>7, Busy DEF WorkStep, ClaimKept

LEMMA SkipTypes ==
  ASSUME TypeInv, NEW w \in Workers, Skip(w)
  PROVE  TypeInv' /\ WorkStep(w)
<1>1. workers[w].pc \in {"load", "send"} /\ Record(w, "failed") /\ "failed" \in Outcomes
      /\ UNCHANGED <<jobs, ledger, pool, faults, reclaimed>>
  BY DEF Skip, BatchStart, Outcomes
<1> QED
  BY <1>1, RecordTypes

LEMMA LoadTypes ==
  ASSUME TypeInv, NEW w \in Workers, Load(w)
  PROVE  TypeInv' /\ WorkStep(w)
<1> DEFINE tx == Signed(Payment(w), Len(ledger) + 1)
           new == [workers[w] EXCEPT !.pc = "send", !.tx = tx]
<1>1. workers[w].pc = "load" /\ UNCHANGED <<jobs, ledger, pool, faults, reclaimed>>
  BY DEF Load
<1>2. CASE workers' = [workers EXCEPT ![w] = new]
  <2>1. Payment(w) \in Payments /\ Len(ledger) + 1 \in Nat /\ workers[w] \in Worker
    BY <1>1, Busy, LedgerTyped
  <2>2. tx \in Tx /\ tx.pay = Payment(w)
    BY <2>1, SignedTyped
  <2> HIDE DEF tx
  <2>3. /\ new \in Worker /\ new.pc = "send" /\ new.tx = tx /\ new.job = workers[w].job
        /\ new.i = workers[w].i /\ new.out = workers[w].out
    BY <2>1, <2>2 DEF Worker
  <2> HIDE DEF new
  <2>4. pool' \subseteq Tx /\ IsFiniteSet(pool') /\ pool' \subseteq pool
    BY <1>1, NetworkUnchanged
  <2> QED
    BY <1>1, <1>2, <2>2, <2>3, <2>4, BatchStep
<1>3. CASE Record(w, "failed")
  BY <1>1, <1>3, RecordTypes DEF Outcomes
<1> QED
  BY <1>2, <1>3 DEF Load

LEMMA SendTypes ==
  ASSUME TypeInv, NEW w \in Workers, Send(w)
  PROVE  TypeInv' /\ WorkStep(w)
<1> DEFINE tx == Envelope(w)
           new == [workers[w] EXCEPT !.pc = "await", !.tx = tx]
<1>1. /\ workers[w].pc = "send" /\ workers' = [workers EXCEPT ![w] = new]
      /\ pool' = pool \/ pool' = pool \cup {tx}
      /\ UNCHANGED <<jobs, ledger, faults, reclaimed>>
  BY DEF Send
<1>2. /\ Payment(w) \in Payments /\ workers[w] \in Worker /\ workers[w].i \in Nat
      /\ Job(w).base \in Nat
  BY <1>1, Busy DEF JobRow
<1>3. tx \in Tx /\ tx.pay = Payment(w)
  BY <1>1, <1>2 DEF Envelope, Tx, TypeInv
<1>8. Job(w).presigned => tx = Sealed(workers[w].job, workers[w].i)
  BY DEF Envelope, Sealed, Payment, Job
<1> HIDE DEF tx
<1>4. /\ new \in Worker /\ new.pc = "await" /\ new.tx = tx /\ new.job = workers[w].job
      /\ new.i = workers[w].i /\ new.out = workers[w].out
  BY <1>2, <1>3 DEF Worker
<1> HIDE DEF new
<1>5. pool' \subseteq Tx /\ pool' \subseteq pool \cup {new.tx}
  BY <1>1, <1>3, <1>4 DEF TypeInv, TypeOK
<1>6. IsFiniteSet(pool) /\ IsFiniteSet(pool \cup {tx})
  BY FS_AddElement DEF TypeInv
<1>7. IsFiniteSet(pool')
  BY <1>1, <1>6
<1> QED
  BY <1>1, <1>3, <1>4, <1>5, <1>7, <1>8, BatchStep

LEMMA ConfirmedTypes ==
  ASSUME TypeInv, NEW w \in Workers, Confirmed(w)
  PROVE  TypeInv' /\ WorkStep(w)
<1> DEFINE outcome == IF Paid(workers[w].tx) THEN "success" ELSE "failed"
<1>1. /\ workers[w].pc = "await" /\ Applied(workers[w].tx) /\ Record(w, outcome)
      /\ UNCHANGED <<jobs, ledger, pool, faults, reclaimed>>
  BY DEF Confirmed
<1>2. outcome \in Outcomes
  BY DEF Outcomes
<1> HIDE DEF outcome
<1> QED
  BY <1>1, <1>2, RecordTypes

LEMMA BadSeqTypes ==
  ASSUME TypeInv, NEW w \in Workers, BadSeq(w)
  PROVE  TypeInv' /\ WorkStep(w)
<1> DEFINE tries == workers[w].tries + 1
           new == [workers[w] EXCEPT !.pc = "load", !.tx = None, !.tries = tries]
<1>1. /\ workers[w].pc = "await" /\ UNCHANGED <<jobs, ledger, faults, reclaimed>>
      /\ pool' = pool \ {workers[w].tx}
      /\ \/ Record(w, "failed")
         \/ ~Job(w).presigned /\ workers' = [workers EXCEPT ![w] = new]
  BY DEF BadSeq
<1>2. CASE ~Job(w).presigned /\ workers' = [workers EXCEPT ![w] = new]
  <2>1. workers[w] \in Worker /\ tries \in Nat /\ ~Applied(workers[w].tx)
    BY <1>1, <1>2, Busy DEF Worker, BadSeq
  <2> HIDE DEF tries
  <2>2. /\ new \in Worker /\ new.pc = "load" /\ new.job = workers[w].job
        /\ new.i = workers[w].i /\ new.out = workers[w].out
    BY <2>1 DEF Worker
  <2> HIDE DEF new
  <2>3. pool' \subseteq Tx /\ IsFiniteSet(pool')
    BY <1>1, FS_RemoveElement DEF TypeInv, TypeOK
  <2> QED
    BY <1>1, <1>2, <2>1, <2>2, <2>3, BatchStep
<1>3. CASE Record(w, "failed")
  <2>1. pool' \subseteq pool /\ "failed" \in Outcomes
    BY <1>1 DEF Outcomes
  <2> QED
    BY <1>1, <1>3, <2>1, RecordTypes
<1> QED
  BY <1>1, <1>2, <1>3

LEMMA FeeRetryTypes ==
  ASSUME TypeInv, NEW w \in Workers, FeeRetry(w)
  PROVE  TypeInv' /\ WorkStep(w)
<1> DEFINE seq == workers[w].tx.seq + 1
           tx == Signed(Payment(w), seq)
           fees == workers[w].fees + 1
           new == [workers[w] EXCEPT !.pc = "send", !.tx = tx, !.fees = fees]
<1>1. /\ workers[w].pc = "await" /\ UNCHANGED <<jobs, ledger, faults, reclaimed>>
      /\ pool' = pool \ {workers[w].tx} /\ ~Applied(workers[w].tx)
      /\ workers' = [workers EXCEPT ![w] = new]
  BY DEF FeeRetry
<1>2. workers[w] \in Worker /\ Payment(w) \in Payments /\ workers[w].tx \in Tx
  BY <1>1, Busy DEF TypeInv
<1>3. seq \in Nat /\ fees \in Nat
  BY <1>2 DEF Worker, Tx
<1>4. tx \in Tx /\ tx.pay = Payment(w)
  BY <1>2, <1>3, SignedTyped
<1> HIDE DEF tx, fees
<1>5. /\ new \in Worker /\ new.pc = "send" /\ new.tx = tx /\ new.job = workers[w].job
      /\ new.i = workers[w].i /\ new.out = workers[w].out
  BY <1>2, <1>3, <1>4 DEF Worker
<1> HIDE DEF new
<1>6. pool' \subseteq Tx /\ IsFiniteSet(pool')
  BY <1>1, FS_RemoveElement DEF TypeInv, TypeOK
<1> QED
  BY <1>1, <1>4, <1>5, <1>6, BatchStep

LEMMA RefusedTypes ==
  ASSUME TypeInv, NEW w \in Workers, Refused(w)
  PROVE  TypeInv' /\ WorkStep(w)
<1>1. /\ workers[w].pc = "await" /\ Record(w, "failed") /\ "failed" \in Outcomes
      /\ UNCHANGED <<jobs, ledger, faults, reclaimed>> /\ pool' \subseteq pool
  BY DEF Refused, Outcomes
<1> QED
  BY <1>1, RecordTypes

LEMMA ReconcileTypes ==
  ASSUME TypeInv, NEW w \in Workers, Reconcile(w)
  PROVE  TypeInv' /\ WorkStep(w)
<1>1. PICK outcome \in Outcomes :
          /\ Record(w, outcome)
          /\ outcome = "success" => Applied(workers[w].tx)
  <2>1. {"success", "failed", "unknown"} \subseteq Outcomes
    BY DEF Outcomes
  <2> QED
    BY <2>1 DEF Reconcile
<1>2. workers[w].pc = "await" /\ UNCHANGED <<jobs, ledger, pool, faults, reclaimed>>
  BY DEF Reconcile
<1> QED
  BY <1>1, <1>2, RecordTypes

\* Every step of a worker.
LEMMA WorkTypes ==
  ASSUME TypeInv, NEW w \in Workers, Work(w) \/ StoreError(w) \/ Crash(w)
  PROVE  TypeInv' /\ WorkStep(w)
BY ClaimTypes, BeginTypes, SkipTypes, LoadTypes, SendTypes, ConfirmedTypes, BadSeqTypes,
   FeeRetryTypes, RefusedTypes, ReconcileTypes, TallyTypes, FinishTypes, AbortTypes, FaultTypes
DEF Work

\* A new worker, on a job that is stored by now; the rows of the stored jobs stay.
LEMMA SpawnTypes ==
  ASSUME TypeInv, NEW w \in Workers, NEW k \in Jobs, Spawn(w, k),
         jobs' \in [Jobs -> JobRow], jobs'[k].status # "absent",
         \A n \in Jobs : jobs[n].status # "absent" =>
             /\ jobs'[n].status # "absent" /\ jobs'[n].rows = jobs[n].rows
             /\ jobs'[n].presigned = jobs[n].presigned,
         UNCHANGED <<ledger, pool, faults, reclaimed>>
  PROVE  /\ TypeInv'
         /\ workers[w].pc = "idle"
         /\ workers'[w].pc = "claim" /\ workers'[w].job = k /\ workers'[w].out = NoRows
         /\ \A v \in Workers : v # w => workers'[v] = workers[v]
<1> DEFINE new == [Idle EXCEPT !.pc = "claim", !.job = k]
<1>1. /\ new \in Worker /\ new.pc = "claim" /\ new.job = k /\ new.i = 0
      /\ new.out = NoRows
  BY IdleIsWorker DEF Worker, Idle
<1>2. workers[w].pc = "idle" /\ workers' = [workers EXCEPT ![w] = new]
  BY DEF Spawn
<1> HIDE DEF new
<1>3. /\ workers'[w] = new /\ workers' \in [Workers -> Worker]
      /\ \A v \in Workers : v # w => workers'[v] = workers[v]
  BY <1>1, <1>2 DEF TypeInv, TypeOK
<1>4. jobs'[k].rows \in Seq(Payments)
  BY DEF JobRow
<1>5. ASSUME NEW v \in Workers, workers'[v].pc # "idle"
      PROVE  /\ workers'[v].job \in Jobs /\ Job(v)'.status # "absent"
             /\ workers'[v].i \in 0 .. Len(Job(v)'.rows) + 1
             /\ workers'[v].pc \in {"load", "send", "await", "tally"} =>
                    workers'[v].i \in DOMAIN Job(v)'.rows
             /\ workers'[v].pc = "await" \/ (workers'[v].pc = "send" /\ ~Job(v)'.presigned) =>
                    workers'[v].tx \in Tx /\ workers'[v].tx.pay = Payment(v)'
  <2>1. CASE v # w
    <3>1. workers'[v] = workers[v] /\ workers[v].job \in Jobs
          /\ workers[v].i \in 0 .. Len(Job(v).rows) + 1
      BY <1>3, <1>5, <2>1 DEF TypeInv, TypeOK
    <3>2. /\ Job(v)'.rows = Job(v).rows /\ Job(v)'.presigned = Job(v).presigned
          /\ Job(v)'.status # "absent"
      BY <1>5, <3>1 DEF TypeInv, Job
    <3> QED
      BY <1>5, <3>1, <3>2 DEF TypeInv, Payment
  <2>2. CASE v = w
    <3>1. workers'[v] = new /\ Job(v)' = jobs'[k]
      BY <1>1, <1>3, <2>2 DEF Job
    <3>2. 0 \in 0 .. Len(jobs'[k].rows) + 1
      BY <1>4
    <3> QED
      BY <1>1, <3>1, <3>2
  <2> QED
    BY <2>1, <2>2
<1>6. TypeOK'
  BY <1>3, <1>5 DEF TypeInv, TypeOK
<1> QED
  BY <1>1, <1>2, <1>3, <1>5, <1>6 DEF TypeInv

LEMMA QueuedRow ==
  ASSUME TypeInv, NEW rows \in Seq(Payments), NEW presigned \in BOOLEAN
  PROVE  /\ Queued(rows, presigned) \in JobRow
         /\ Queued(rows, presigned).status = "queued"
         /\ Queued(rows, presigned).rows = rows
         /\ Queued(rows, presigned).presigned = presigned
         /\ Queued(rows, presigned).result = NoRows
         /\ Queued(rows, presigned).from = None
<1> DEFINE base == IF presigned THEN Len(ledger) ELSE 0
<1>1. base \in Nat
  BY LedgerTyped
<1>2. Queued(rows, presigned) = [Absent EXCEPT !.status = "queued", !.rows = rows,
                                               !.presigned = presigned, !.base = base]
  BY DEF Queued
<1> HIDE DEF base
<1> DEFINE row == [Absent EXCEPT !.status = "queued", !.rows = rows,
                                 !.presigned = presigned, !.base = base]
<1>3. Absent \in JobRow /\ Absent.result = NoRows /\ Absent.from = None
  BY DEF Absent, JobRow, NoRows, Outcomes
<1>4. /\ row \in JobRow /\ row.status = "queued" /\ row.rows = rows
      /\ row.presigned = presigned /\ row.result = NoRows /\ row.from = None
  BY <1>1, <1>3 DEF JobRow
<1> HIDE DEF row
<1> QED
  BY <1>2, <1>4 DEF row

LEMMA SubmitTypes ==
  ASSUME TypeInv, NEW j \in DOMAIN Requests, NEW w \in Workers, Submit(j, w)
  PROVE  /\ TypeInv' /\ j \in Jobs
         /\ workers[w].pc = "idle"
         /\ workers'[w].pc = "claim" /\ workers'[w].job = j /\ workers'[w].out = NoRows
         /\ \A v \in Workers : v # w => workers'[v] = workers[v]
         /\ jobs[j].status = "absent" /\ jobs'[j].status = "queued"
         /\ jobs'[j].rows = Requests[j]
         /\ jobs'[j].presigned \/ ServerAccount
         /\ jobs'[j].result = NoRows /\ jobs'[j].from = None
         /\ \A n \in Jobs : n # j => jobs'[n] = jobs[n]
         /\ UNCHANGED <<ledger, pool, reclaimed>>
<1>0. PICK presigned \in BOOLEAN :
          (presigned \/ ServerAccount) /\ Touched(j, Queued(Requests[j], presigned))
  BY DEF Submit
<1> DEFINE queued == Queued(Requests[j], presigned)
           row == [queued EXCEPT !.stale = FALSE]
<1>1. j \in Jobs /\ jobs[j].status = "absent" /\ Requests[j] \in Seq(Payments)
  BY JobsAssumption DEF Submit
<1>2. /\ queued \in JobRow /\ queued.status = "queued" /\ queued.rows = Requests[j]
      /\ queued.presigned = presigned /\ queued.result = NoRows /\ queued.from = None
  BY <1>1, QueuedRow
<1>4. /\ jobs' = [jobs EXCEPT ![j] = row] /\ Spawn(w, j)
      /\ UNCHANGED <<ledger, pool, faults, reclaimed>>
  BY <1>0 DEF Submit, Touched
<1> HIDE DEF queued
<1>3. /\ row \in JobRow /\ row.status = "queued" /\ row.rows = Requests[j]
      /\ row.presigned = presigned /\ row.result = NoRows /\ row.from = None
  BY <1>2 DEF JobRow
<1> HIDE DEF row
<1>5. /\ jobs' \in [Jobs -> JobRow] /\ jobs'[j] = row
      /\ \A n \in Jobs : n # j => jobs'[n] = jobs[n]
  BY <1>1, <1>3, <1>4 DEF TypeInv, TypeOK
<1>6. /\ jobs'[j].status # "absent"
      /\ \A n \in Jobs : jobs[n].status # "absent" =>
             /\ jobs'[n].status # "absent" /\ jobs'[n].rows = jobs[n].rows
             /\ jobs'[n].presigned = jobs[n].presigned
  BY <1>1, <1>3, <1>5
<1>7. /\ TypeInv'
      /\ workers[w].pc = "idle"
      /\ workers'[w].pc = "claim" /\ workers'[w].job = j /\ workers'[w].out = NoRows
      /\ \A v \in Workers : v # w => workers'[v] = workers[v]
  BY <1>1, <1>4, <1>5, <1>6, SpawnTypes
<1> QED
  BY <1>0, <1>1, <1>3, <1>4, <1>5, <1>7

LEMMA ReplayTypes ==
  ASSUME TypeInv, NEW j \in DOMAIN Requests, NEW w \in Workers, Replay(j, w)
  PROVE  /\ TypeInv'
         /\ workers[w].pc = "idle"
         /\ workers'[w].pc = "claim" /\ workers'[w].job = j /\ workers'[w].out = NoRows
         /\ \A v \in Workers : v # w => workers'[v] = workers[v]
         /\ UNCHANGED <<jobs, ledger, pool, reclaimed>>
<1>1. /\ j \in Jobs /\ jobs[j].status # "absent" /\ Spawn(w, j)
      /\ UNCHANGED <<jobs, ledger, pool, faults, reclaimed>>
  BY JobsAssumption DEF Replay
<1>2. jobs' \in [Jobs -> JobRow]
  BY <1>1 DEF TypeInv, TypeOK
<1> QED
  BY <1>1, <1>2, SpawnTypes

LEMMA RetryTypes ==
  ASSUME TypeInv, NEW j \in Jobs, NEW k \in Jobs, NEW w \in Workers, Retry(j, k, w)
  PROVE  /\ TypeInv' /\ ServerAccount
         /\ workers[w].pc = "idle"
         /\ workers'[w].pc = "claim" /\ workers'[w].job = k /\ workers'[w].out = NoRows
         /\ \A v \in Workers : v # w => workers'[v] = workers[v]
         /\ jobs[j].status # "absent"
         /\ \A p \in Payments : jobs[j].result[p] # "unknown"
         /\ \E p : p \in Range(jobs[j].rows) /\ jobs[j].result[p] = "failed"
         /\ jobs[k].status = "absent" /\ jobs'[k].status = "queued"
         /\ \A p : p \in Range(jobs'[k].rows)
                   <=> p \in Range(jobs[j].rows) /\ jobs[j].result[p] = "failed"
         /\ jobs'[k].result = NoRows /\ jobs'[k].from = j
         /\ \A n \in Jobs : n # k => jobs'[n] = jobs[n]
         /\ UNCHANGED <<ledger, pool, reclaimed>>
<1> DEFINE rows == FailedRows(j)
           queued == Queued(rows, FALSE)
           row == [queued EXCEPT !.from = j]
<1>1. jobs[j] \in JobRow /\ jobs[j].rows \in Seq(Payments)
  BY DEF TypeInv, TypeOK, JobRow
<1>2. /\ rows \in Seq(Payments)
      /\ \A p : p \in Range(rows)
                <=> p \in Range(jobs[j].rows) /\ jobs[j].result[p] = "failed"
  BY <1>1, FailedRowsAre
<1>3. /\ rows # <<>> /\ jobs[j].status # "absent" /\ jobs[k].status = "absent"
      /\ ServerAccount /\ \A p \in Payments : jobs[j].result[p] # "unknown"
      /\ jobs' = [jobs EXCEPT ![k] = row]
      /\ Spawn(w, k) /\ UNCHANGED <<ledger, pool, faults, reclaimed>>
  BY DEF Retry
<1> HIDE DEF rows
<1>4. \E p : p \in Range(rows)
  <2>1. 1 \in DOMAIN rows
    BY <1>2, <1>3
  <2> QED
    BY <2>1 DEF Range
<1>5. /\ queued \in JobRow /\ queued.status = "queued" /\ queued.rows = rows
      /\ queued.result = NoRows
  BY <1>2, QueuedRow
<1> HIDE DEF queued
<1>6. /\ row \in JobRow /\ row.status = "queued" /\ row.rows = rows
      /\ row.result = NoRows /\ row.from = j
  BY <1>5 DEF JobRow
<1> HIDE DEF row
<1>7. /\ jobs' \in [Jobs -> JobRow] /\ jobs'[k] = row
      /\ \A n \in Jobs : n # k => jobs'[n] = jobs[n]
  BY <1>3, <1>6 DEF TypeInv, TypeOK
<1>8. /\ jobs'[k].status # "absent"
      /\ \A n \in Jobs : jobs[n].status # "absent" =>
             /\ jobs'[n].status # "absent" /\ jobs'[n].rows = jobs[n].rows
             /\ jobs'[n].presigned = jobs[n].presigned
  BY <1>3, <1>6, <1>7
<1>9. /\ TypeInv'
      /\ workers[w].pc = "idle"
      /\ workers'[w].pc = "claim" /\ workers'[w].job = k /\ workers'[w].out = NoRows
      /\ \A v \in Workers : v # w => workers'[v] = workers[v]
  BY <1>3, <1>7, <1>8, SpawnTypes
<1> QED
  BY <1>2, <1>3, <1>4, <1>6, <1>7, <1>9

\* The clock touches the age of a row and nothing else.
LEMMA ExpireTypes ==
  ASSUME TypeInv, NEW j \in Jobs, Expire(j)
  PROVE  /\ TypeInv'
         /\ \A n \in Jobs : /\ jobs'[n].status = jobs[n].status /\ jobs'[n].rows = jobs[n].rows
                            /\ jobs'[n].presigned = jobs[n].presigned
                            /\ jobs'[n].base = jobs[n].base
                            /\ jobs'[n].result = jobs[n].result
                            /\ jobs'[n].from = jobs[n].from
         /\ UNCHANGED <<workers, ledger, pool, reclaimed>>
<1> DEFINE row == [jobs[j] EXCEPT !.stale = TRUE]
<1>1. /\ jobs[j] \in JobRow /\ jobs' = [jobs EXCEPT ![j] = row]
      /\ UNCHANGED <<workers, ledger, pool, faults, reclaimed>>
  BY DEF TypeInv, TypeOK, Expire
<1>2. /\ row \in JobRow /\ row.status = jobs[j].status /\ row.rows = jobs[j].rows
      /\ row.presigned = jobs[j].presigned /\ row.base = jobs[j].base
      /\ row.result = jobs[j].result /\ row.from = jobs[j].from
  BY <1>1 DEF JobRow
<1> HIDE DEF row
<1>3. /\ jobs' \in [Jobs -> JobRow]
      /\ \A n \in Jobs : /\ jobs'[n].status = jobs[n].status /\ jobs'[n].rows = jobs[n].rows
                         /\ jobs'[n].presigned = jobs[n].presigned
                         /\ jobs'[n].base = jobs[n].base
                         /\ jobs'[n].result = jobs[n].result
                         /\ jobs'[n].from = jobs[n].from
  BY <1>1, <1>2 DEF TypeInv, TypeOK
<1>4. ASSUME NEW v \in Workers, workers[v].pc # "idle"
      PROVE  /\ Job(v)'.rows = Job(v).rows /\ Job(v)'.status = Job(v).status
             /\ Job(v)'.presigned = Job(v).presigned
  BY <1>1, <1>3, <1>4, Busy DEF Job
<1>5. TypeOK'
  BY <1>1, <1>3, <1>4 DEF TypeInv, TypeOK
<1>6. TypeInv'
  BY <1>1, <1>4, <1>5 DEF TypeInv, Payment
<1> QED
  BY <1>1, <1>3, <1>6

\* The network applies a transaction with the next sequence number.
LEMMA ApplyTypes ==
  ASSUME TypeInv, NEW tx \in Tx, NEW ok \in BOOLEAN, Apply(tx, ok)
  PROVE  /\ TypeInv'
         /\ Len(ledger) \in Nat /\ DOMAIN ledger = 1 .. Len(ledger)
         /\ DOMAIN ledger' = 1 .. Len(ledger) + 1
         /\ ledger'[Len(ledger) + 1].tx = tx
         /\ \A s \in DOMAIN ledger : s \in DOMAIN ledger' /\ ledger'[s] = ledger[s]
         /\ pool' = {t \in pool : t.seq > Len(ledger) + 1}
         /\ UNCHANGED <<jobs, workers, reclaimed>>
<1> DEFINE Entry == [tx : Tx, ok : BOOLEAN]
           e == [tx |-> tx, ok |-> ok]
<1>1. /\ ledger' = Append(ledger, e) /\ pool' = {t \in pool : t.seq > Len(ledger) + 1}
      /\ UNCHANGED <<jobs, workers, faults, reclaimed>>
  BY DEF Apply
<1>2. ledger \in Seq(Entry) /\ e \in Entry /\ e.tx = tx
  BY DEF TypeInv, TypeOK
<1> HIDE DEF Entry, e
<1>3. /\ ledger' \in Seq(Entry)
      /\ Len(ledger) \in Nat /\ DOMAIN ledger = 1 .. Len(ledger)
      /\ DOMAIN ledger' = 1 .. Len(ledger) + 1
      /\ ledger'[Len(ledger) + 1] = e
      /\ \A s \in DOMAIN ledger : s \in DOMAIN ledger' /\ ledger'[s] = ledger[s]
  BY <1>1, <1>2
<1>4. pool' \subseteq pool
  BY <1>1
<1>5. pool' \subseteq Tx /\ IsFiniteSet(pool')
  BY <1>4, FS_Subset DEF TypeInv, TypeOK
<1>6. TypeOK'
  BY <1>1, <1>3, <1>5 DEF TypeInv, TypeOK, Job, Entry
<1>7. TypeInv'
  BY <1>1, <1>5, <1>6 DEF TypeInv, Job, Payment
<1> QED
  BY <1>1, <1>2, <1>3, <1>7

LEMMA LandOrForeign ==
  ASSUME TypeInv, \/ \E tx \in pool, ok \in BOOLEAN : Land(tx, ok)
                  \/ Foreign
  PROVE  \E tx \in Tx, ok \in BOOLEAN :
             /\ Apply(tx, ok) /\ tx.seq = Len(ledger) + 1
             /\ tx \in pool \/ tx.pay = None
<1>1. CASE \E tx \in pool, ok \in BOOLEAN : Land(tx, ok)
  BY <1>1 DEF Land, TypeInv, TypeOK
<1>2. CASE Foreign
  <2> DEFINE tx == [pay |-> None, seq |-> Len(ledger) + 1, nonce |-> 0]
  <2>1. tx \in Tx /\ tx.seq = Len(ledger) + 1 /\ tx.pay = None
    BY LedgerTyped DEF Tx
  <2>2. Apply(tx, TRUE)
    BY <1>2 DEF Foreign
  <2> HIDE DEF tx
  <2> QED
    BY <2>1, <2>2
<1> QED
  BY <1>1, <1>2

LEMMA StutterTypes ==
  ASSUME TypeInv, UNCHANGED vars
  PROVE  TypeInv'
BY DEF TypeInv, TypeOK, Job, Payment, vars

LEMMA TypeStep == TypeInv /\ [Next]_vars => TypeInv'
<1> SUFFICES ASSUME TypeInv, [Next]_vars PROVE TypeInv'
  OBVIOUS
<1>1. ASSUME NEW j \in DOMAIN Requests, NEW w \in Workers, Submit(j, w) \/ Replay(j, w)
      PROVE  TypeInv'
  BY <1>1, SubmitTypes, ReplayTypes
<1>2. ASSUME NEW j \in Jobs, NEW k \in Jobs, NEW w \in Workers, Retry(j, k, w)
      PROVE  TypeInv'
  BY <1>2, RetryTypes
<1>3. ASSUME NEW j \in DOMAIN Requests, Expire(j) PROVE TypeInv'
  BY <1>3, ExpireTypes, JobsAssumption
<1>4. ASSUME NEW w \in Workers, Work(w) \/ StoreError(w) \/ Crash(w) PROVE TypeInv'
  BY <1>4, WorkTypes
<1>5. CASE (\E tx \in pool, ok \in BOOLEAN : Land(tx, ok)) \/ Foreign
  <2>1. PICK tx \in Tx, ok \in BOOLEAN : Apply(tx, ok)
    BY <1>5, LandOrForeign
  <2> QED
    BY <2>1, ApplyTypes
<1>6. CASE UNCHANGED vars
  BY <1>6, StutterTypes
<1> QED
  BY <1>1, <1>2, <1>3, <1>4, <1>5, <1>6 DEF Next

LEMMA TypeInvariant == Spec => []TypeInv
<1> QED
  BY TypeInit, TypeStep, PTL DEF Spec

\* Job rows, workers and transactions have their types, whatever the bounds, and a
\* busy worker is at one of its job's batches or past the last: the loop of
\* processJobInBackground never leaves the batches it was given.
THEOREM JobsTypes == Spec => []TypeOK
<1>1. TypeInv => TypeOK
  BY DEF TypeInv
<1> QED
  BY <1>1, TypeInvariant, PTL

-----------------------------------------------------------------------------
(* Results and retries *)

OnLedger(p) == \E s \in DOMAIN ledger : ledger[s].tx.pay = p
Blank(result) == \A p \in Payments : result[p] = "none"

\* A success, stored or in a worker's hands, is on the ledger.
Successes ==
    /\ SuccessIsOnLedger
    /\ \A w \in Workers, p \in Payments : workers[w].out[p] = "success" => OnLedger(p)

\* Results are about the job's own rows, ...
Reports ==
    /\ \A j \in Jobs, p \in Payments :
           jobs[j].result[p] # "none" => p \in Range(jobs[j].rows)
    /\ \A w \in Workers, p \in Payments :
           workers[w].pc # "idle" /\ workers[w].out[p] # "none" => p \in Range(Job(w).rows)

\* ... a job that was never claimed has none, nor has a job whose first claim
\* is still at work, ...
NotReported ==
    /\ \A j \in Jobs :
           /\ jobs[j].status = "absent" => jobs[j].from = None
           /\ jobs[j].status \in {"absent", "queued"} => Blank(jobs[j].result)
    /\ \A w \in Workers :
           Claimed(w) /\ workers[w].job \notin reclaimed => Blank(Job(w).result)

\* ... and a retried job had one with failures when it was retried.
RetriesFailed ==
    \A j, k \in Jobs : jobs[k].from = j =>
        /\ jobs[j].status # "absent"
        /\ j \notin reclaimed => \E p \in Payments : jobs[j].result[p] = "failed"

ResultInv ==
    Successes /\ Reports /\ NotReported /\ RetriesFailed /\ RetryIsJustified

LEMMA ResultInit == Init => ResultInv
<1> SUFFICES ASSUME Init PROVE ResultInv
  OBVIOUS
<1>1. \A j \in Jobs : /\ jobs[j].result = NoRows /\ jobs[j].from = None
                      /\ jobs[j].status = "absent"
  BY DEF Init, Absent
<1>2. \A w \in Workers : workers[w].pc = "idle" /\ workers[w].out = NoRows
  BY IdleIsWorker DEF Init
<1>3. Successes
  BY <1>1, <1>2 DEF Successes, SuccessIsOnLedger, NoRows
<1>4. Reports
  BY <1>1, <1>2 DEF Reports, NoRows
<1>5. NotReported
  BY <1>1, <1>2 DEF NotReported, NoRows, Blank, Claimed
<1>6. RetriesFailed /\ RetryIsJustified
  BY <1>1, JobsAssumption DEF RetriesFailed, RetryIsJustified
<1> QED
  BY <1>3, <1>4, <1>5, <1>6 DEF ResultInv

\* A step of a worker.
LEMMA WorkResult ==
  ASSUME TypeInv, ClaimInv, ResultInv, NEW w \in Workers, WorkStep(w)
  PROVE  ResultInv'
<1> DEFINE j == workers[w].job
<1>1. /\ workers[w].pc # "idle" /\ j \in Jobs
      /\ \A v \in Workers : v # w => workers'[v] = workers[v]
      /\ workers'[w].pc = "idle" \/ workers'[w].job = j
      /\ UNCHANGED ledger
  BY DEF WorkStep
<1>2. ASSUME NEW k \in Jobs
      PROVE  /\ jobs'[k].rows = jobs[k].rows /\ jobs'[k].from = jobs[k].from
             /\ jobs'[k].status = "absent" <=> jobs[k].status = "absent"
             /\ jobs'[k].status = "queued" => jobs[k].status = "queued"
             /\ \/ jobs'[k].result = jobs[k].result
                \/ /\ k = j /\ jobs'[k].result = workers[w].out
                   /\ workers[w].pc = "finish" /\ workers'[w].pc = "idle"
  BY DEF WorkStep, RowsKept
<1>3. \A v \in Workers : workers[v].pc # "idle" => workers[v].job \in Jobs
  BY DEF TypeInv, TypeOK
<1>4. \A p : OnLedger(p) => OnLedger(p)'
  BY <1>1 DEF OnLedger
<1>5. Successes'
  <2>1. ASSUME NEW k \in Jobs, NEW p \in Payments, jobs'[k].result[p] = "success"
        PROVE  OnLedger(p)'
    BY <1>2, <1>4, <2>1 DEF ResultInv, Successes, SuccessIsOnLedger, OnLedger
  <2>2. ASSUME NEW v \in Workers, NEW p \in Payments, workers'[v].out[p] = "success"
        PROVE  OnLedger(p)'
    <3>1. CASE workers'[v].out[p] = workers[v].out[p]
      BY <1>4, <2>2, <3>1 DEF ResultInv, Successes
    <3>2. CASE workers'[v].out[p] # workers[v].out[p]
      <4>1. v = w /\ p = Payment(w) /\ workers[w].pc = "await" /\ Applied(workers[w].tx)
        BY <1>1, <2>2, <3>2 DEF WorkStep, OutKept
      <4>2. workers[w].tx.pay = Payment(w)
        BY <4>1 DEF TypeInv
      <4> QED
        BY <1>4, <4>1, <4>2 DEF Applied, OnLedger
    <3> QED
      BY <3>1, <3>2
  <2> QED
    BY <2>1, <2>2 DEF Successes, SuccessIsOnLedger, OnLedger
<1>6. Reports'
  <2>1. ASSUME NEW k \in Jobs, NEW p \in Payments, jobs'[k].result[p] # "none"
        PROVE  p \in Range(jobs'[k].rows)
    BY <1>1, <1>2, <2>1 DEF ResultInv, Reports, Job
  <2>2. ASSUME NEW v \in Workers, NEW p \in Payments, workers'[v].pc # "idle",
               workers'[v].out[p] # "none"
        PROVE  p \in Range(Job(v)'.rows)
    <3>1. workers'[v].job = workers[v].job /\ workers[v].pc # "idle" /\ workers[v].job \in Jobs
      BY <1>1, <1>3, <2>2
    <3>2. Job(v)'.rows = Job(v).rows
      BY <1>2, <3>1 DEF Job
    <3>3. CASE workers'[v].out[p] = workers[v].out[p]
      BY <2>2, <3>1, <3>2, <3>3 DEF ResultInv, Reports
    <3>4. CASE workers'[v].out[p] # workers[v].out[p]
      <4>1. v = w /\ p = Payment(w) /\ workers[w].pc \in {"load", "send", "await"}
        BY <1>1, <2>2, <3>4 DEF WorkStep, OutKept
      <4>2. workers[w].i \in DOMAIN Job(w).rows
        BY <4>1 DEF TypeInv
      <4> QED
        BY <3>2, <4>1, <4>2 DEF Payment, Range
    <3> QED
      BY <3>3, <3>4
  <2> QED
    BY <2>1, <2>2 DEF Reports
<1>7. NotReported'
  <2>1. ASSUME NEW k \in Jobs
        PROVE  /\ jobs'[k].status = "absent" => jobs'[k].from = None
               /\ jobs'[k].status \in {"absent", "queued"} => Blank(jobs'[k].result)
    <3>1. jobs'[k].status = "absent" => jobs'[k].from = None
      BY <1>2 DEF ResultInv, NotReported
    <3>2. ASSUME jobs'[k].status \in {"absent", "queued"} PROVE Blank(jobs'[k].result)
      <4>1. jobs[k].status \in {"absent", "queued"} /\ Blank(jobs[k].result)
        BY <1>2, <3>2 DEF ResultInv, NotReported
      <4>2. jobs'[k].result = jobs[k].result
        BY <1>1, <1>2, <4>1 DEF TypeInv, ClaimInv, Stored, Claimed, Job
      <4> QED
        BY <4>1, <4>2
    <3> QED
      BY <3>1, <3>2
  <2>2. ASSUME NEW v \in Workers, Claimed(v)', workers'[v].job \notin reclaimed'
        PROVE  Blank(Job(v)'.result)
    <3>1. /\ workers'[v].job = workers[v].job /\ workers[v].pc # "idle"
          /\ workers[v].job \in Jobs /\ workers[v].job \notin reclaimed
      BY <1>1, <1>3, <2>2 DEF Claimed, WorkStep, ClaimKept
    <3>2. Blank(Job(v).result)
      BY <1>1, <2>2, <3>1 DEF ResultInv, NotReported, Claimed, WorkStep, ClaimKept, Job
    <3>3. jobs'[workers[v].job].result = jobs[workers[v].job].result
      <4> SUFFICES ASSUME workers[v].job = j, workers[w].pc = "finish", workers'[w].pc = "idle"
                   PROVE  FALSE
        BY <1>2, <3>1
      <4>1. v # w /\ Claimed(v) /\ Claimed(w)
        BY <1>1, <2>2 DEF Claimed
      <4> QED
        BY <3>1, <4>1 DEF ClaimInv, ClaimIsExclusive
    <3> QED
      BY <3>1, <3>2, <3>3 DEF Job
  <2> QED
    BY <2>1, <2>2 DEF NotReported
\* The result of a retried job stays.
<1>8. \A k, n \in Jobs : jobs[n].from = k /\ k \notin reclaimed =>
          jobs'[k].result = jobs[k].result
  <2> SUFFICES ASSUME NEW k \in Jobs, NEW n \in Jobs, jobs[n].from = k, k \notin reclaimed,
                      jobs'[k].result # jobs[k].result
               PROVE  FALSE
    OBVIOUS
  <2>1. k = j /\ Claimed(w)
    BY <1>2 DEF Claimed
  <2>2. Blank(jobs[k].result)
    BY <2>1 DEF ResultInv, NotReported, Job
  <2> QED
    BY <2>2 DEF ResultInv, RetriesFailed, Blank
<1>9. reclaimed \subseteq reclaimed'
  BY DEF WorkStep, ClaimKept
<1>10. RetriesFailed'
  BY <1>2, <1>8, <1>9 DEF ResultInv, RetriesFailed
<1>11. RetryIsJustified'
  BY <1>2, <1>8, <1>9 DEF ResultInv, RetryIsJustified
<1> QED
  BY <1>5, <1>6, <1>7, <1>10, <1>11 DEF ResultInv

\* A new job, or a new worker for an old one.
LEMMA SpawnResult ==
  ASSUME TypeInv, ResultInv, NEW w \in Workers, NEW k \in Jobs,
         workers'[w].pc = "claim", workers'[w].job = k, workers'[w].out = NoRows,
         \A v \in Workers : v # w => workers'[v] = workers[v],
         \A n \in Jobs : /\ jobs[n].status # "absent" =>
                                /\ jobs'[n].rows = jobs[n].rows
                                /\ jobs'[n].result = jobs[n].result
                                /\ jobs'[n].status = jobs[n].status
                         /\ jobs[n].status = "absent" =>
                                /\ Blank(jobs'[n].result)
                                /\ jobs'[n].status = "absent" => jobs'[n].from = None,
         UNCHANGED <<ledger, reclaimed>>
  PROVE  Successes' /\ Reports' /\ NotReported'
<1>1. \A v \in Workers : v # w /\ workers[v].pc # "idle" =>
          workers[v].job \in Jobs /\ jobs[workers[v].job].status # "absent"
  BY DEF TypeInv, TypeOK, Job
<1>2. \A p \in Payments : workers'[w].out[p] = "none"
  BY DEF NoRows
<1>3. Successes'
  <2>1. ASSUME NEW n \in Jobs, NEW p \in Payments, jobs'[n].result[p] = "success"
        PROVE  OnLedger(p)'
    BY <2>1 DEF ResultInv, Successes, SuccessIsOnLedger, OnLedger, Blank
  <2>2. ASSUME NEW v \in Workers, NEW p \in Payments, workers'[v].out[p] = "success"
        PROVE  OnLedger(p)'
    BY <1>2, <2>2 DEF ResultInv, Successes, OnLedger
  <2> QED
    BY <2>1, <2>2 DEF Successes, SuccessIsOnLedger, OnLedger
<1>4. Reports'
  <2>1. ASSUME NEW n \in Jobs, NEW p \in Payments, jobs'[n].result[p] # "none"
        PROVE  p \in Range(jobs'[n].rows)
    BY <2>1 DEF ResultInv, Reports, Blank
  <2>2. ASSUME NEW v \in Workers, NEW p \in Payments, workers'[v].pc # "idle",
               workers'[v].out[p] # "none"
        PROVE  p \in Range(Job(v)'.rows)
    BY <1>1, <1>2, <2>2 DEF ResultInv, Reports, Job
  <2> QED
    BY <2>1, <2>2 DEF Reports
<1>5. NotReported'
  <2>1. ASSUME NEW n \in Jobs
        PROVE  /\ jobs'[n].status = "absent" => jobs'[n].from = None
               /\ jobs'[n].status \in {"absent", "queued"} => Blank(jobs'[n].result)
    BY DEF ResultInv, NotReported
  <2>2. ASSUME NEW v \in Workers, Claimed(v)', workers'[v].job \notin reclaimed'
        PROVE  Blank(Job(v)'.result)
    BY <1>1, <2>2 DEF ResultInv, NotReported, Job, Claimed
  <2> QED
    BY <2>1, <2>2 DEF NotReported
<1> QED
  BY <1>3, <1>4, <1>5

LEMMA SubmitResult ==
  ASSUME TypeInv, ResultInv, NEW j \in DOMAIN Requests, NEW w \in Workers, Submit(j, w)
  PROVE  ResultInv'
<1>1. /\ j \in Jobs
      /\ workers'[w].pc = "claim" /\ workers'[w].job = j /\ workers'[w].out = NoRows
      /\ \A v \in Workers : v # w => workers'[v] = workers[v]
      /\ jobs[j].status = "absent" /\ jobs'[j].status = "queued"
      /\ jobs'[j].result = NoRows /\ jobs'[j].from = None
      /\ \A n \in Jobs : n # j => jobs'[n] = jobs[n]
      /\ UNCHANGED <<ledger, reclaimed>>
  BY SubmitTypes
<1>2. Blank(NoRows)
  BY DEF Blank, NoRows
<1>3. \A n \in Jobs : /\ jobs[n].status # "absent" =>
                             /\ jobs'[n].rows = jobs[n].rows
                             /\ jobs'[n].result = jobs[n].result
                             /\ jobs'[n].status = jobs[n].status
                      /\ jobs[n].status = "absent" =>
                             /\ Blank(jobs'[n].result)
                             /\ jobs'[n].status = "absent" => jobs'[n].from = None
  BY <1>1, <1>2 DEF ResultInv, NotReported
<1>4. Successes' /\ Reports' /\ NotReported'
  BY <1>1, <1>3, SpawnResult
<1>5. \A n, m \in Jobs : jobs'[n].from = m =>
          /\ n # j /\ m # j /\ jobs[n].from = m
          /\ jobs'[n] = jobs[n] /\ jobs'[m] = jobs[m]
  BY <1>1, JobsAssumption DEF ResultInv, RetriesFailed
<1>6. RetriesFailed' /\ RetryIsJustified'
  BY <1>1, <1>5 DEF ResultInv, RetriesFailed, RetryIsJustified
<1> QED
  BY <1>4, <1>6 DEF ResultInv

LEMMA ReplayResult ==
  ASSUME TypeInv, ResultInv, NEW j \in DOMAIN Requests, NEW w \in Workers, Replay(j, w)
  PROVE  ResultInv'
<1>1. /\ j \in Jobs
      /\ workers'[w].pc = "claim" /\ workers'[w].job = j /\ workers'[w].out = NoRows
      /\ \A v \in Workers : v # w => workers'[v] = workers[v]
      /\ UNCHANGED <<jobs, ledger, reclaimed>>
  BY ReplayTypes, JobsAssumption
<1>2. \A n \in Jobs : jobs[n].status = "absent" => Blank(jobs[n].result) /\ jobs[n].from = None
  BY DEF ResultInv, NotReported
<1>3. Successes' /\ Reports' /\ NotReported'
  BY <1>1, <1>2, SpawnResult
<1>4. RetriesFailed' /\ RetryIsJustified'
  BY <1>1 DEF ResultInv, RetriesFailed, RetryIsJustified
<1> QED
  BY <1>3, <1>4 DEF ResultInv

\* The rows of the new job are exactly the failed ones of the old.
LEMMA RetryResult ==
  ASSUME TypeInv, ResultInv, NEW j \in Jobs, NEW k \in Jobs, NEW w \in Workers, Retry(j, k, w)
  PROVE  ResultInv'
<1>1. /\ workers'[w].pc = "claim" /\ workers'[w].job = k /\ workers'[w].out = NoRows
      /\ \A v \in Workers : v # w => workers'[v] = workers[v]
      /\ UNCHANGED <<ledger, reclaimed>>
  BY RetryTypes
<1>2. /\ jobs[j].status # "absent"
      /\ \A p \in Payments : jobs[j].result[p] # "unknown"
      /\ \E p : p \in Range(jobs[j].rows) /\ jobs[j].result[p] = "failed"
      /\ jobs[k].status = "absent" /\ jobs'[k].status = "queued"
      /\ \A p : p \in Range(jobs'[k].rows)
                <=> p \in Range(jobs[j].rows) /\ jobs[j].result[p] = "failed"
      /\ jobs'[k].result = NoRows /\ jobs'[k].from = j
      /\ \A n \in Jobs : n # k => jobs'[n] = jobs[n]
  BY RetryTypes
<1>3. Blank(NoRows)
  BY DEF Blank, NoRows
<1>4. \A n \in Jobs : /\ jobs[n].status # "absent" =>
                             /\ jobs'[n].rows = jobs[n].rows
                             /\ jobs'[n].result = jobs[n].result
                             /\ jobs'[n].status = jobs[n].status
                      /\ jobs[n].status = "absent" =>
                             /\ Blank(jobs'[n].result)
                             /\ jobs'[n].status = "absent" => jobs'[n].from = None
  BY <1>2, <1>3 DEF ResultInv, NotReported
<1>5. Successes' /\ Reports' /\ NotReported'
  BY <1>1, <1>4, SpawnResult
<1>6. \A p \in Range(jobs[j].rows) : p \in Payments
  BY DEF TypeInv, TypeOK, JobRow, Range
\* The new retry, and the ones there were.
<1>7. \A n, m \in Jobs : jobs'[n].from = m =>
          \/ n = k /\ m = j
          \/ n # k /\ m # k /\ jobs[n].from = m
  BY <1>2, JobsAssumption DEF ResultInv, RetriesFailed
<1>8. j # k /\ jobs'[j] = jobs[j]
  BY <1>2
<1>9. RetriesFailed'
  <2> SUFFICES ASSUME NEW n \in Jobs, NEW m \in Jobs, jobs'[n].from = m
               PROVE  /\ jobs'[m].status # "absent"
                      /\ m \notin reclaimed =>
                             \E p \in Payments : jobs'[m].result[p] = "failed"
    BY <1>1 DEF RetriesFailed
  <2> QED
    BY <1>2, <1>6, <1>7, <1>8 DEF ResultInv, RetriesFailed
<1>10. RetryIsJustified'
  <2> SUFFICES ASSUME NEW n \in Jobs, NEW m \in Jobs, jobs'[n].from = m, m \notin reclaimed,
                      NEW p \in Payments
               PROVE  /\ jobs'[m].result[p] # "unknown"
                      /\ p \in Range(jobs'[n].rows) <=> jobs'[m].result[p] = "failed"
    BY <1>1 DEF RetryIsJustified
  <2>1. CASE n = k /\ m = j
    BY <1>2, <1>8, <2>1 DEF ResultInv, Reports
  <2>2. CASE n # k /\ m # k /\ jobs[n].from = m
    BY <1>2, <2>2 DEF ResultInv, RetryIsJustified
  <2> QED
    BY <1>7, <2>1, <2>2
<1> QED
  BY <1>5, <1>9, <1>10 DEF ResultInv

\* Steps that leave the workers, the rows and the results.
LEMMA QuietResult ==
  ASSUME TypeInv, ResultInv, UNCHANGED <<workers, reclaimed>>,
         \A n \in Jobs : /\ jobs'[n].status = jobs[n].status /\ jobs'[n].rows = jobs[n].rows
                         /\ jobs'[n].result = jobs[n].result
                         /\ jobs'[n].from = jobs[n].from,
         \A p : OnLedger(p) => OnLedger(p)'
  PROVE  ResultInv'
<1>1. \A v \in Workers : workers[v].pc # "idle" => workers[v].job \in Jobs
  BY DEF TypeInv, TypeOK
<1>2. Successes'
  BY DEF ResultInv, Successes, SuccessIsOnLedger, OnLedger
<1>3. Reports'
  BY <1>1 DEF ResultInv, Reports, Job
<1>4. NotReported'
  BY <1>1 DEF ResultInv, NotReported, Job, Claimed
<1>5. RetriesFailed' /\ RetryIsJustified'
  BY DEF ResultInv, RetriesFailed, RetryIsJustified
<1> QED
  BY <1>2, <1>3, <1>4, <1>5 DEF ResultInv

LEMMA ResultStep ==
  TypeInv /\ ClaimInv /\ ResultInv /\ [Next]_vars => ResultInv'
<1> SUFFICES ASSUME TypeInv, ClaimInv, ResultInv, [Next]_vars PROVE ResultInv'
  OBVIOUS
<1>1. ASSUME NEW j \in DOMAIN Requests, NEW w \in Workers, Submit(j, w) \/ Replay(j, w)
      PROVE  ResultInv'
  BY <1>1, SubmitResult, ReplayResult
<1>2. ASSUME NEW j \in Jobs, NEW k \in Jobs, NEW w \in Workers, Retry(j, k, w)
      PROVE  ResultInv'
  BY <1>2, RetryResult
<1>3. ASSUME NEW j \in DOMAIN Requests, Expire(j) PROVE ResultInv'
  <2>1. \A p : OnLedger(p) => OnLedger(p)'
    BY <1>3 DEF OnLedger, Expire
  <2> QED
    BY <1>3, <2>1, ExpireTypes, QuietResult, JobsAssumption
<1>4. ASSUME NEW w \in Workers, Work(w) \/ StoreError(w) \/ Crash(w) PROVE ResultInv'
  BY <1>4, WorkTypes, WorkResult
<1>5. CASE (\E tx \in pool, ok \in BOOLEAN : Land(tx, ok)) \/ Foreign
  <2>1. PICK tx \in Tx, ok \in BOOLEAN : Apply(tx, ok)
    BY <1>5, LandOrForeign
  <2>2. /\ \A s \in DOMAIN ledger : s \in DOMAIN ledger' /\ ledger'[s] = ledger[s]
        /\ UNCHANGED <<jobs, workers, reclaimed>>
    BY <2>1, ApplyTypes
  <2>3. \A p : OnLedger(p) => OnLedger(p)'
    BY <2>2 DEF OnLedger
  <2> QED
    BY <2>2, <2>3, QuietResult
<1>6. CASE UNCHANGED vars
  BY <1>6, QuietResult DEF vars, OnLedger
<1> QED
  BY <1>1, <1>2, <1>3, <1>4, <1>5, <1>6 DEF Next

LEMMA ResultInvariant == Spec => []ResultInv
<1> QED
  BY TypeInvariant, ClaimInvariant, ResultInit, ResultStep, PTL DEF Spec

\* A success that processJobInBackground stored is backed by an applied
\* transaction with that payment, whichever worker wrote it last.
THEOREM JobsSuccessIsOnLedger == Spec => []SuccessIsOnLedger
<1>1. ResultInv => SuccessIsOnLedger
  BY DEF ResultInv, Successes
<1> QED
  BY <1>1, ResultInvariant, PTL

\* Every batch-retry of a job, however many there are, pays exactly what its
\* original reports as failed, for good unless the original was reclaimed.
THEOREM JobsRetryIsJustified == Spec => []RetryIsJustified
<1>1. ResultInv => RetryIsJustified
  BY DEF ResultInv
<1> QED
  BY <1>1, ResultInvariant, PTL

-----------------------------------------------------------------------------
(* Payments *)

\* Two requested batches never carry the same payment.
DistinctRequests ==
    \A j, k \in DOMAIN Requests : \A a \in DOMAIN Requests[j], b \in DOMAIN Requests[k] :
        Requests[j][a] = Requests[k][b] => j = k /\ a = b

\* A retried job's rows are its original's, a submitted one's the requested ones;
\* with a client's account every job is presigned and none is a retry.
RowOf(k) ==
    /\ IF k \in DOMAIN Requests
       THEN jobs[k].rows = Requests[k] /\ jobs[k].from = None
       ELSE \E j \in Jobs : jobs[k].from = j /\ Range(jobs[k].rows) \subseteq Range(jobs[j].rows)
    /\ ServerAccount \/ (jobs[k].presigned /\ jobs[k].from = None)

RowsInv ==
    \A k \in Jobs : IF jobs[k].status = "absent"
                    THEN jobs[k].rows = <<>> /\ jobs[k].from = None
                    ELSE RowOf(k)

\* What no step changes of a stored job.
KeepsRows ==
    /\ \A n \in Jobs : jobs[n].status # "absent" =>
           /\ jobs'[n].status # "absent" /\ jobs'[n].rows = jobs[n].rows
           /\ jobs'[n].presigned = jobs[n].presigned /\ jobs'[n].base = jobs[n].base
           /\ jobs'[n].from = jobs[n].from
    /\ reclaimed \subseteq reclaimed'

\* No job with this payment was retried, ...
Original(p) == \A j \in Jobs : p \in Range(jobs[j].rows) => ~Retried(j)

\* ... nor reclaimed, ...
Clean(p) == Original(p) /\ \A j \in Jobs : p \in Range(jobs[j].rows) => j \notin reclaimed

\* ... or its envelope is the client's.
Firm(p) == Original(p) /\ \A j \in Jobs : p \in Range(jobs[j].rows) => jobs[j].presigned

LEMMA RowsInit == Init => RowsInv
BY DEF Init, Absent, RowsInv

LEMMA HasRows ==
  ASSUME RowsInv, NEW p, NEW j \in Jobs, p \in Range(jobs[j].rows)
  PROVE  jobs[j].status # "absent" /\ RowOf(j)
<1>1. jobs[j].rows # <<>>
  BY DEF Range
<1> QED
  BY <1>1 DEF RowsInv

\* An original payment has one place in one job.
LEMMA OnePlace ==
  ASSUME DistinctRequests, RowsInv, NEW p, Original(p),
         NEW j \in Jobs, NEW k \in Jobs, p \in Range(jobs[j].rows), p \in Range(jobs[k].rows)
  PROVE  /\ j = k
         /\ \A a, b \in DOMAIN jobs[j].rows :
                jobs[j].rows[a] = p /\ jobs[j].rows[b] = p => a = b
<1>1. ASSUME NEW n \in Jobs, p \in Range(jobs[n].rows)
      PROVE  n \in DOMAIN Requests /\ jobs[n].rows = Requests[n]
  <2>1. RowOf(n)
    BY <1>1, HasRows
  <2>2. CASE n \notin DOMAIN Requests
    <3>1. PICK m \in Jobs : jobs[n].from = m /\ Range(jobs[n].rows) \subseteq Range(jobs[m].rows)
      BY <2>1, <2>2 DEF RowOf
    <3> QED
      BY <1>1, <3>1 DEF Original, Retried
  <2> QED
    BY <2>1, <2>2 DEF RowOf
<1>2. /\ j \in DOMAIN Requests /\ jobs[j].rows = Requests[j]
      /\ k \in DOMAIN Requests /\ jobs[k].rows = Requests[k]
  BY <1>1
<1>3. PICK a \in DOMAIN Requests[j] : Requests[j][a] = p
  BY <1>2 DEF Range
<1>4. PICK b \in DOMAIN Requests[k] : Requests[k][b] = p
  BY <1>2 DEF Range
<1> QED
  BY <1>2, <1>3, <1>4 DEF DistinctRequests

\* Payments lose these standings, and never gain them.
LEMMA StandingStays ==
  ASSUME RowsInv, KeepsRows, NEW p
  PROVE  /\ Clean(p)' => Clean(p)
         /\ Firm(p)' => Firm(p)
<1>1. ASSUME NEW j \in Jobs, p \in Range(jobs[j].rows)
      PROVE  p \in Range(jobs'[j].rows) /\ jobs'[j].presigned = jobs[j].presigned
  <2>1. jobs[j].status # "absent"
    BY <1>1, HasRows
  <2> QED
    BY <1>1, <2>1 DEF KeepsRows
<1>2. ASSUME NEW j \in Jobs, Retried(j)
      PROVE  Retried(j)'
  <2>1. PICK k \in Jobs : jobs[k].from = j
    BY <1>2 DEF Retried
  <2>2. jobs[k].status # "absent"
    BY <2>1, JobsAssumption DEF RowsInv
  <2> QED
    BY <2>1, <2>2 DEF Retried, KeepsRows
<1>3. Original(p)' => Original(p)
  BY <1>1, <1>2 DEF Original
<1> QED
  BY <1>1, <1>3 DEF Clean, Firm, KeepsRows

\* A new row is as RowOf says, and the rows there were stay so.
LEMMA RowsStay ==
  ASSUME RowsInv, KeepsRows,
         \A n \in Jobs : jobs[n].status = "absent" =>
             \/ jobs'[n].status = "absent" /\ jobs'[n].rows = <<>> /\ jobs'[n].from = None
             \/ jobs'[n].status # "absent" /\ RowOf(n)'
  PROVE  RowsInv'
<1>1. ASSUME NEW n \in Jobs, jobs[n].status # "absent" PROVE RowOf(n)'
  <2>1. /\ RowOf(n) /\ jobs'[n].rows = jobs[n].rows /\ jobs'[n].from = jobs[n].from
        /\ jobs'[n].presigned = jobs[n].presigned
    BY <1>1 DEF RowsInv, KeepsRows
  <2>2. \A m \in Jobs : Range(jobs[m].rows) \subseteq Range(jobs'[m].rows)
    <3> SUFFICES ASSUME NEW m \in Jobs, NEW p \in Range(jobs[m].rows)
                 PROVE  p \in Range(jobs'[m].rows)
      OBVIOUS
    <3>1. jobs[m].status # "absent"
      BY HasRows
    <3> QED
      BY <3>1 DEF KeepsRows
  <2> QED
    BY <2>1, <2>2 DEF RowOf
<1> QED
  BY <1>1 DEF RowsInv, KeepsRows

LEMMA RowsStep ==
  TypeInv /\ RowsInv /\ [Next]_vars => RowsInv' /\ KeepsRows
<1> SUFFICES ASSUME TypeInv, RowsInv, [Next]_vars PROVE RowsInv' /\ KeepsRows
  OBVIOUS
<1>1. ASSUME NEW j \in DOMAIN Requests, NEW w \in Workers, Submit(j, w)
      PROVE  RowsInv' /\ KeepsRows
  <2>1. /\ j \in Jobs /\ jobs[j].status = "absent" /\ jobs'[j].status = "queued"
        /\ jobs'[j].rows = Requests[j] /\ jobs'[j].from = None
        /\ jobs'[j].presigned \/ ServerAccount
        /\ \A n \in Jobs : n # j => jobs'[n] = jobs[n]
        /\ UNCHANGED reclaimed
    BY <1>1, SubmitTypes
  <2>2. KeepsRows
    BY <2>1 DEF KeepsRows
  <2>3. RowOf(j)'
    BY <2>1 DEF RowOf
  <2> QED
    BY <2>1, <2>2, <2>3, RowsStay DEF RowsInv
<1>2. ASSUME NEW j \in Jobs, NEW k \in Jobs, NEW w \in Workers,
             k \notin DOMAIN Requests, Retry(j, k, w)
      PROVE  RowsInv' /\ KeepsRows
  <2>1. /\ ServerAccount /\ jobs[j].status # "absent"
        /\ jobs[k].status = "absent" /\ jobs'[k].status = "queued"
        /\ \A p : p \in Range(jobs'[k].rows) => p \in Range(jobs[j].rows)
        /\ jobs'[k].from = j
        /\ \A n \in Jobs : n # k => jobs'[n] = jobs[n]
        /\ UNCHANGED reclaimed
    BY <1>2, RetryTypes
  <2>2. KeepsRows
    BY <2>1 DEF KeepsRows
  <2>3. RowOf(k)'
    BY <1>2, <2>1 DEF RowOf
  <2> QED
    BY <2>1, <2>2, <2>3, RowsStay DEF RowsInv
<1>3. ASSUME \A n \in Jobs : /\ jobs'[n].status = "absent" <=> jobs[n].status = "absent"
                             /\ jobs'[n].rows = jobs[n].rows /\ jobs'[n].base = jobs[n].base
                             /\ jobs'[n].presigned = jobs[n].presigned
                             /\ jobs'[n].from = jobs[n].from,
             reclaimed \subseteq reclaimed'
      PROVE  RowsInv' /\ KeepsRows
  <2>1. KeepsRows
    BY <1>3 DEF KeepsRows
  <2> QED
    BY <1>3, <2>1, RowsStay DEF RowsInv
<1>4. ASSUME NEW j \in DOMAIN Requests, Expire(j) PROVE RowsInv' /\ KeepsRows
  BY <1>3, <1>4, ExpireTypes, JobsAssumption
<1>5. ASSUME NEW w \in Workers, Work(w) \/ StoreError(w) \/ Crash(w)
      PROVE  RowsInv' /\ KeepsRows
  <2>1. WorkStep(w)
    BY <1>5, WorkTypes
  <2> QED
    BY <1>3, <2>1 DEF WorkStep, RowsKept, ClaimKept
<1>6. ASSUME UNCHANGED <<jobs, reclaimed>> PROVE RowsInv' /\ KeepsRows
  BY <1>3, <1>6
<1> QED
  BY <1>1, <1>2, <1>4, <1>5, <1>6 DEF Next, Replay, Land, Foreign, Apply, vars

-----------------------------------------------------------------------------
(* What a client's envelope pays *)

\* The transaction is a stored job's envelope.
IsSealed(tx) ==
    \E j \in Jobs : /\ jobs[j].status # "absent"
                    /\ \E i \in DOMAIN jobs[j].rows : tx = Sealed(j, i)

\* Every applied transaction used its own sequence number, and one with a firm
\* payment is an envelope.
SealInv ==
    /\ \A s \in DOMAIN ledger : ledger[s].tx.seq = s
    /\ \A p \in Payments : Firm(p) =>
           /\ \A tx \in pool : tx.pay = p => IsSealed(tx)
           /\ \A s \in DOMAIN ledger : ledger[s].tx.pay = p => IsSealed(ledger[s].tx)

LEMMA SealInit == Init => SealInv
BY DEF Init, SealInv

LEMMA SealedStays ==
  ASSUME KeepsRows, NEW tx, IsSealed(tx)
  PROVE  IsSealed(tx)'
<1>1. PICK j \in Jobs : /\ jobs[j].status # "absent"
                        /\ \E i \in DOMAIN jobs[j].rows : tx = Sealed(j, i)
  BY DEF IsSealed
<1>2. /\ jobs'[j].status # "absent" /\ jobs'[j].rows = jobs[j].rows
      /\ jobs'[j].base = jobs[j].base
  BY <1>1 DEF KeepsRows
<1> QED
  BY <1>1, <1>2 DEF IsSealed, Sealed

\* Nothing new with a firm payment, but an envelope.
LEMMA SealKept ==
  ASSUME RowsInv, KeepsRows, SealInv, UNCHANGED ledger,
         \A tx \in pool' : \/ tx \in pool
                           \/ Firm(tx.pay) => IsSealed(tx)
  PROVE  SealInv'
<1>1. ASSUME NEW p \in Payments, Firm(p)'
      PROVE  /\ \A tx \in pool' : tx.pay = p => IsSealed(tx)'
             /\ \A s \in DOMAIN ledger : ledger[s].tx.pay = p => IsSealed(ledger[s].tx)'
  <2>1. Firm(p)
    BY <1>1, StandingStays
  <2>2. \A tx \in pool' : tx.pay = p => IsSealed(tx)
    BY <2>1 DEF SealInv
  <2>3. \A s \in DOMAIN ledger : ledger[s].tx.pay = p => IsSealed(ledger[s].tx)
    BY <2>1 DEF SealInv
  <2> QED
    BY <2>2, <2>3, SealedStays
<1> QED
  BY <1>1 DEF SealInv

\* What a worker sends for a presigned job is its envelope.
LEMMA WorkSeal ==
  ASSUME TypeInv, TypeInv', RowsInv, KeepsRows, SealInv, NEW w \in Workers, WorkStep(w)
  PROVE  SealInv'
<1>1. UNCHANGED ledger /\ workers[w].pc # "idle" /\ workers[w].job \in Jobs
  BY DEF WorkStep
<1>2. CASE pool' \subseteq pool
  BY <1>1, <1>2, SealKept
<1>3. CASE /\ workers[w].pc = "send"
           /\ pool' \subseteq pool \cup {workers'[w].tx}
           /\ Job(w).presigned => workers'[w].tx = Sealed(workers[w].job, workers[w].i)
           /\ workers'[w].pc = "await" /\ workers'[w].i = workers[w].i
  <2> DEFINE tx == workers'[w].tx
  <2>1. /\ workers[w].i \in DOMAIN Job(w).rows /\ Job(w).status # "absent"
        /\ Payment(w) \in Range(Job(w).rows)
    BY <1>1, <1>3, Busy DEF Payment, Range
  <2>2. tx.pay = Payment(w)
    <3>1. workers'[w].job = workers[w].job /\ Job(w)'.rows = Job(w).rows
      BY <1>1, <1>3, <2>1 DEF WorkStep, KeepsRows, Job
    <3>2. tx.pay = Payment(w)'
      BY <1>3 DEF TypeInv
    <3> QED
      BY <1>3, <3>1, <3>2 DEF Payment
  <2>3. ASSUME Firm(tx.pay) PROVE IsSealed(tx)
    <3>1. Job(w).presigned
      BY <1>1, <2>1, <2>2, <2>3 DEF Firm, Job
    <3> QED
      BY <1>1, <1>3, <2>1, <3>1 DEF IsSealed, Job
  <2> HIDE DEF tx
  <2>4. \A u \in pool' : u \in pool \/ (Firm(u.pay) => IsSealed(u))
    BY <1>3, <2>3 DEF tx
  <2> QED
    BY <1>1, <2>4, SealKept
<1> QED
  BY <1>2, <1>3 DEF WorkStep, Moves

LEMMA ApplySeal ==
  ASSUME TypeInv, SealInv, NEW tx \in Tx, NEW ok \in BOOLEAN, Apply(tx, ok),
         tx.seq = Len(ledger) + 1, tx \in pool \/ tx.pay = None
  PROVE  SealInv'
<1>1. /\ Len(ledger) \in Nat /\ DOMAIN ledger = 1 .. Len(ledger)
      /\ DOMAIN ledger' = 1 .. Len(ledger) + 1
      /\ ledger'[Len(ledger) + 1].tx = tx
      /\ \A s \in DOMAIN ledger : s \in DOMAIN ledger' /\ ledger'[s] = ledger[s]
      /\ pool' = {t \in pool : t.seq > Len(ledger) + 1}
      /\ UNCHANGED <<jobs, workers, reclaimed>>
  BY ApplyTypes
<1>2. \A s \in DOMAIN ledger' : \/ s \in DOMAIN ledger /\ ledger'[s] = ledger[s]
                                \/ s = Len(ledger) + 1 /\ ledger'[s].tx = tx
  BY <1>1
<1>3. (\A p : Firm(p)' <=> Firm(p)) /\ (\A u : IsSealed(u)' <=> IsSealed(u))
  BY <1>1 DEF Firm, Original, Retried, IsSealed, Sealed
<1>4. \A s \in DOMAIN ledger' : ledger'[s].tx.seq = s
  BY <1>2 DEF SealInv
<1>5. ASSUME NEW p \in Payments, Firm(p)
      PROVE  /\ \A u \in pool' : u.pay = p => IsSealed(u)
             /\ \A s \in DOMAIN ledger' : ledger'[s].tx.pay = p => IsSealed(ledger'[s].tx)
  BY <1>1, <1>2, <1>5, JobsAssumption DEF SealInv
<1> QED
  BY <1>3, <1>4, <1>5 DEF SealInv

LEMMA SealStep ==
  TypeInv /\ TypeInv' /\ RowsInv /\ SealInv /\ [Next]_vars => SealInv'
<1> SUFFICES ASSUME TypeInv, TypeInv', RowsInv, SealInv, [Next]_vars PROVE SealInv'
  OBVIOUS
<1>1. KeepsRows
  BY RowsStep
<1>2. ASSUME UNCHANGED <<ledger, pool>> PROVE SealInv'
  BY <1>1, <1>2, SealKept
<1>3. ASSUME NEW w \in Workers, Work(w) \/ StoreError(w) \/ Crash(w) PROVE SealInv'
  BY <1>1, <1>3, WorkTypes, WorkSeal
<1>4. CASE (\E tx \in pool, ok \in BOOLEAN : Land(tx, ok)) \/ Foreign
  <2>1. PICK tx \in Tx, ok \in BOOLEAN :
            Apply(tx, ok) /\ tx.seq = Len(ledger) + 1 /\ (tx \in pool \/ tx.pay = None)
    BY <1>4, LandOrForeign
  <2> QED
    BY <2>1, ApplySeal
<1> QED
  BY <1>2, <1>3, <1>4 DEF Next, Submit, Replay, Retry, Expire, vars

-----------------------------------------------------------------------------
(* What one run of a worker pays *)

\* A transaction with this payment was received by the network.
Sent(p) == (\E tx \in pool : tx.pay = p) \/ OnLedger(p)

AtMostOne(p) ==
    /\ \A s, t \in DOMAIN ledger : ledger[s].tx.pay = p /\ ledger[t].tx.pay = p => s = t
    /\ \A tx, u \in pool : tx.pay = p /\ u.pay = p => tx = u
    /\ \A tx \in pool, s \in DOMAIN ledger : ~(tx.pay = p /\ ledger[s].tx.pay = p)

\* The only transaction about with this payment is x.
Only(p, x) ==
    /\ \A tx \in pool : tx.pay = p => tx = x
    /\ \A s \in DOMAIN ledger : ledger[s].tx.pay = p => ledger[s].tx = x

\* The worker will not send this payment again: its batch is behind, or sent.
Behind(w, p) ==
    /\ workers[w].pc # "begin"
    /\ \E a \in DOMAIN Job(w).rows :
           /\ Job(w).rows[a] = p
           /\ a < workers[w].i \/ (a = workers[w].i /\ workers[w].pc \in {"await", "tally"})
    /\ workers[w].pc = "await" /\ Payment(w) = p => Only(p, workers[w].tx)

\* A payment whose jobs were neither reclaimed nor retried is about at most
\* once; once it is, its job is claimed, by a worker that is past it.
PaysOnce(p) ==
    /\ AtMostOne(p)
    /\ Sent(p) =>
           /\ \E j \in Jobs : /\ p \in Range(jobs[j].rows)
                              /\ jobs[j].status # "absent" /\ jobs[j].status # "queued"
           /\ \A w \in Workers :
                  Claimed(w) /\ p \in Range(Job(w).rows) => Behind(w, p)

PayInv == \A p \in Payments : Clean(p) => PaysOnce(p)

LEMMA PayInit == Init => PayInv
<1> SUFFICES ASSUME Init PROVE PayInv
  OBVIOUS
<1>1. pool = {} /\ DOMAIN ledger = {}
  BY DEF Init
<1>2. \A p : ~Sent(p) /\ AtMostOne(p)
  BY <1>1 DEF Sent, AtMostOne, OnLedger
<1> QED
  BY <1>2 DEF PayInv, PaysOnce

\* Fewer transactions of a payment are no more than one.
LEMMA Fewer ==
  ASSUME NEW p, UNCHANGED ledger, \A tx \in pool' : tx.pay = p => tx \in pool
  PROVE  /\ Sent(p)' => Sent(p)
         /\ AtMostOne(p) => AtMostOne(p)'
         /\ \A x : Only(p, x) => Only(p, x)'
BY DEF Sent, AtMostOne, Only, OnLedger

\* A step of a worker on what it or another worker has sent.
LEMMA WorkPays ==
  ASSUME DistinctRequests, TypeInv, TypeInv', ClaimInv, RowsInv, PayInv,
         NEW w \in Workers, WorkStep(w), NEW p \in Payments, Clean(p), Clean(p)'
  PROVE  PaysOnce(p)'
<1> DEFINE j == workers[w].job
<1>1. /\ workers[w].pc # "idle" /\ j \in Jobs
      /\ \A v \in Workers : v # w => workers'[v] = workers[v]
      /\ workers'[w].pc = "idle" \/ workers'[w].job = j
      /\ UNCHANGED ledger /\ reclaimed \subseteq reclaimed'
  BY DEF WorkStep, ClaimKept
<1>2. \A n \in Jobs : /\ jobs'[n].rows = jobs[n].rows
                      /\ jobs'[n].status = "absent" <=> jobs[n].status = "absent"
                      /\ jobs'[n].status = "queued" => jobs[n].status = "queued"
  BY DEF WorkStep, RowsKept
<1>3. \A v \in Workers : workers[v].pc # "idle" => workers[v].job \in Jobs
  BY DEF TypeInv, TypeOK
<1>4. Original(p) /\ PaysOnce(p)
  BY DEF Clean, PayInv
<1>5. \A n \in Jobs : p \in Range(jobs[n].rows) => n \notin reclaimed'
  BY <1>2 DEF Clean
\* The home of a payment that was sent before.
<1>6. ASSUME Sent(p)
      PROVE  \E n \in Jobs : /\ p \in Range(jobs'[n].rows)
                             /\ jobs'[n].status # "absent" /\ jobs'[n].status # "queued"
  BY <1>2, <1>4, <1>6 DEF PaysOnce
\* The worker was past it already.
<1>7. ASSUME Sent(p), Claimed(w)', p \in Range(Job(w)'.rows)
      PROVE  Claimed(w) /\ Behind(w, p) /\ Job(w)'.rows = Job(w).rows /\ workers'[w].job = j
  <2>1. workers'[w].job = j /\ Job(w)'.rows = Job(w).rows
    BY <1>1, <1>2, <1>7 DEF Claimed, Job
  <2>2. Claimed(w)
    <3> SUFFICES ASSUME ~Claimed(w) PROVE FALSE
      OBVIOUS
    <3>1. Job(w).status = "queued"
      BY <1>1, <1>5, <1>7, <2>1 DEF WorkStep, ClaimKept, Job
    <3>2. PICK n \in Jobs : p \in Range(jobs[n].rows) /\ jobs[n].status # "queued"
      BY <1>4, <1>7 DEF PaysOnce
    <3>3. n = j
      BY <1>1, <1>4, <1>7, <2>1, <3>2, OnePlace DEF Job
    <3> QED
      BY <3>1, <3>2, <3>3 DEF Job
  <2> QED
    BY <1>4, <1>7, <2>1, <2>2 DEF PaysOnce
\* Another worker that is past it stays where it is.
<1>8. ASSUME NEW v \in Workers, v # w, Claimed(v)', p \in Range(Job(v)'.rows), Sent(p),
             \A x : Only(p, x) => Only(p, x)'
      PROVE  Behind(v, p)'
  <2>1. workers'[v] = workers[v] /\ Claimed(v) /\ workers[v].job \in Jobs
    BY <1>1, <1>3, <1>8 DEF Claimed
  <2>2. Job(v)'.rows = Job(v).rows
    BY <1>2, <2>1 DEF Job
  <2>3. Behind(v, p)
    BY <1>4, <1>8, <2>1, <2>2 DEF PaysOnce
  <2> QED
    BY <1>8, <2>1, <2>2, <2>3 DEF Behind, Payment
<1>9. CASE /\ pool' \subseteq pool
           /\ \/ ~Claimed(w)'
              \/ workers'[w].pc = "begin" /\ workers[w].pc = "claim"
              \/ /\ workers'[w].pc = "tally" /\ workers'[w].i = workers[w].i
                 /\ workers[w].pc \in {"load", "send", "await"}
              \/ /\ workers'[w].pc \in {"load", "send", "finish"}
                 /\ \/ workers[w].pc = "begin"
                    \/ workers[w].pc = "tally" /\ workers'[w].i = workers[w].i + 1
              \/ /\ workers'[w].pc = "send" /\ workers'[w].i = workers[w].i
                 /\ workers[w].pc = "load"
  <2>1. /\ Sent(p)' => Sent(p)
        /\ AtMostOne(p) => AtMostOne(p)'
        /\ \A x : Only(p, x) => Only(p, x)'
    BY <1>1, <1>9, Fewer
  <2>2. ASSUME Sent(p)', Claimed(w)', p \in Range(Job(w)'.rows)
        PROVE  Behind(w, p)'
    <3>1. Claimed(w) /\ Behind(w, p) /\ Job(w)'.rows = Job(w).rows
      BY <1>7, <2>1, <2>2
    <3>2. PICK a \in DOMAIN Job(w).rows :
              /\ Job(w).rows[a] = p
              /\ a < workers[w].i \/ (a = workers[w].i /\ workers[w].pc \in {"await", "tally"})
      BY <3>1 DEF Behind
    <3>3. workers[w].i \in Nat /\ a \in Nat
      BY <1>1, <3>2, Busy
    <3>4. workers'[w].pc # "begin" /\ workers'[w].pc # "await"
      BY <1>9, <2>2, <3>1 DEF Claimed
    <3>5. a < workers'[w].i \/ (a = workers'[w].i /\ workers'[w].pc = "tally")
      BY <1>9, <2>2, <3>1, <3>2, <3>3 DEF Claimed, Behind
    <3> QED
      BY <3>1, <3>2, <3>4, <3>5 DEF Behind
  <2> QED
    BY <1>4, <1>6, <1>8, <2>1, <2>2 DEF PaysOnce
<1>10. CASE /\ workers[w].pc = "send" /\ workers'[w].pc = "await"
            /\ workers'[w].i = workers[w].i
            /\ pool' \subseteq pool \cup {workers'[w].tx}
  <2>1. /\ Claimed(w) /\ Claimed(w)' /\ workers'[w].job = j /\ Job(w)'.rows = Job(w).rows
        /\ Payment(w)' = Payment(w) /\ workers[w].i \in DOMAIN Job(w).rows
        /\ Payment(w) \in Range(Job(w).rows) /\ workers[w].i \in Nat
        /\ DOMAIN Job(w).rows \subseteq Nat
    BY <1>1, <1>2, <1>10, Busy DEF Claimed, Job, Payment, Range
  <2>2. workers'[w].tx.pay = Payment(w)
    BY <1>10, <2>1 DEF TypeInv
  <2>3. CASE p # Payment(w)
    <3>1. /\ Sent(p)' => Sent(p)
          /\ AtMostOne(p) => AtMostOne(p)'
          /\ \A x : Only(p, x) => Only(p, x)'
      BY <1>1, <1>10, <2>2, <2>3, Fewer
    <3>2. ASSUME Sent(p)', p \in Range(Job(w)'.rows)
          PROVE  Behind(w, p)'
      <4>1. Behind(w, p)
        BY <1>7, <2>1, <3>1, <3>2
      <4> QED
        BY <1>10, <2>1, <2>3, <4>1 DEF Behind
    <3> QED
      BY <1>4, <1>6, <1>8, <3>1, <3>2 DEF PaysOnce
  <2>4. CASE p = Payment(w)
    <3>1. j \in Jobs /\ p \in Range(jobs[j].rows)
      BY <1>1, <2>1, <2>4 DEF Job
    <3>2. ~Sent(p)
      <4> SUFFICES ASSUME Sent(p) PROVE FALSE
        OBVIOUS
      <4>1. Behind(w, p)
        BY <1>4, <2>1, <2>4 DEF PaysOnce
      <4>2. PICK a \in DOMAIN Job(w).rows : Job(w).rows[a] = p /\ a < workers[w].i
        BY <1>10, <4>1 DEF Behind
      <4>3. \A b, c \in DOMAIN jobs[j].rows :
                jobs[j].rows[b] = p /\ jobs[j].rows[c] = p => b = c
        BY <1>4, <3>1, OnePlace
      <4>4. a = workers[w].i
        BY <2>1, <2>4, <4>2, <4>3 DEF Job, Payment
      <4> QED
        BY <2>1, <4>2, <4>4
    <3>3. /\ \A tx \in pool' : tx.pay = p => tx = workers'[w].tx
          /\ \A s \in DOMAIN ledger' : ledger'[s].tx.pay # p
      BY <1>1, <1>10, <3>2 DEF Sent, OnLedger
    <3>4. AtMostOne(p)' /\ Only(p, workers[w].tx)'
      BY <3>3 DEF AtMostOne, Only
    <3>5. jobs'[j].status # "absent" /\ jobs'[j].status # "queued" /\ p \in Range(jobs'[j].rows)
      BY <1>1, <1>2, <2>1, <3>1 DEF ClaimInv, Stored, Job
    <3>6. ASSUME NEW v \in Workers, v # w, Claimed(v)', p \in Range(Job(v)'.rows)
          PROVE  FALSE
      <4>1. workers'[v] = workers[v] /\ Claimed(v) /\ workers[v].job \in Jobs
        BY <1>1, <1>3, <3>6 DEF Claimed
      <4>2. p \in Range(jobs[workers[v].job].rows)
        BY <1>2, <3>6, <4>1 DEF Job
      <4>3. workers[v].job = j
        BY <1>4, <3>1, <4>1, <4>2, OnePlace
      <4>4. j \in reclaimed
        BY <2>1, <3>6, <4>1, <4>3 DEF ClaimInv, ClaimIsExclusive
      <4> QED
        BY <3>1, <4>4 DEF Clean
    <3>7. Behind(w, p)'
      <4>1. workers'[w].pc # "begin" /\ workers'[w].pc = "await"
        BY <1>10
      <4>2. /\ workers[w].i \in DOMAIN Job(w)'.rows /\ Job(w)'.rows[workers[w].i] = p
            /\ workers[w].i = workers'[w].i
        BY <1>10, <2>1, <2>4 DEF Payment
      <4> QED
        BY <3>4, <4>1, <4>2 DEF Behind
    <3> QED
      BY <1>1, <3>4, <3>5, <3>6, <3>7 DEF PaysOnce
  <2> QED
    BY <2>3, <2>4
<1>11. CASE /\ workers[w].pc = "await" /\ workers'[w].pc \in {"load", "send"}
            /\ workers'[w].i = workers[w].i
            /\ ~Applied(workers[w].tx) /\ pool' \subseteq pool \ {workers[w].tx}
  <2>1. /\ Claimed(w) /\ Claimed(w)' /\ workers'[w].job = j /\ Job(w)'.rows = Job(w).rows
        /\ workers[w].i \in DOMAIN Job(w).rows
        /\ Payment(w) \in Range(Job(w).rows)
    BY <1>1, <1>2, <1>11, Busy DEF Claimed, Job, Payment, Range
  <2>2. /\ Sent(p)' => Sent(p)
        /\ AtMostOne(p) => AtMostOne(p)'
        /\ \A x : Only(p, x) => Only(p, x)'
    BY <1>1, <1>11, Fewer
  <2>3. CASE p # Payment(w)
    <3>1. ASSUME Sent(p)', p \in Range(Job(w)'.rows)
          PROVE  Behind(w, p)'
      <4>1. Behind(w, p)
        BY <1>7, <2>1, <2>2, <3>1
      <4>2. PICK a \in DOMAIN Job(w).rows :
                Job(w).rows[a] = p /\ (a < workers[w].i \/ a = workers[w].i)
        BY <4>1 DEF Behind
      <4>3. a < workers[w].i
        BY <2>3, <4>2 DEF Payment
      <4> QED
        BY <1>11, <2>1, <4>2, <4>3 DEF Behind
    <3> QED
      BY <1>4, <1>6, <1>8, <2>2, <3>1 DEF PaysOnce
  <2>4. CASE p = Payment(w)
    <3>1. ~Sent(p)'
      <4> SUFFICES ASSUME Sent(p)' PROVE FALSE
        OBVIOUS
      <4>1. Only(p, workers[w].tx)
        BY <1>4, <1>11, <2>1, <2>2, <2>4 DEF PaysOnce, Behind
      <4> QED
        BY <1>1, <1>11, <4>1 DEF Only, Sent, OnLedger, Applied
    <3> QED
      BY <1>4, <2>2, <3>1 DEF PaysOnce
  <2> QED
    BY <2>3, <2>4
<1> QED
  BY <1>9, <1>10, <1>11 DEF WorkStep, Moves

\* A new worker has claimed nothing; no transaction changes.
LEMMA SpawnPays ==
  ASSUME TypeInv, NEW w \in Workers, workers'[w].pc = "claim",
         \A v \in Workers : v # w => workers'[v] = workers[v],
         \A n \in Jobs : jobs[n].status # "absent" =>
             jobs'[n].status = jobs[n].status /\ jobs'[n].rows = jobs[n].rows,
         UNCHANGED <<ledger, pool>>, NEW p \in Payments, PaysOnce(p)
  PROVE  PaysOnce(p)'
<1>1. AtMostOne(p)' /\ (Sent(p)' => Sent(p)) /\ \A x : Only(p, x) => Only(p, x)'
  BY Fewer DEF PaysOnce
<1>2. ASSUME Sent(p)
      PROVE  \E n \in Jobs : /\ p \in Range(jobs'[n].rows)
                             /\ jobs'[n].status # "absent" /\ jobs'[n].status # "queued"
  BY <1>2 DEF PaysOnce
<1>3. ASSUME NEW v \in Workers, Claimed(v)', p \in Range(Job(v)'.rows), Sent(p)
      PROVE  Behind(v, p)'
  <2>1. v # w /\ workers'[v] = workers[v] /\ Claimed(v) /\ workers[v].pc # "idle"
    BY <1>3 DEF Claimed
  <2>2. Job(v)'.rows = Job(v).rows
    BY <2>1, Busy DEF Job
  <2>3. Behind(v, p)
    BY <1>3, <2>1, <2>2 DEF PaysOnce
  <2> QED
    BY <1>1, <2>1, <2>2, <2>3 DEF Behind, Payment
<1> QED
  BY <1>1, <1>2, <1>3 DEF PaysOnce

\* Steps of the clock and the network, which bring no transaction about.
LEMMA QuietPays ==
  ASSUME TypeInv, UNCHANGED workers,
         \A n \in Jobs : jobs'[n].status = jobs[n].status /\ jobs'[n].rows = jobs[n].rows,
         NEW p \in Payments, PaysOnce(p),
         Sent(p)' => Sent(p), AtMostOne(p) => AtMostOne(p)',
         \A x : Only(p, x) => Only(p, x)'
  PROVE  PaysOnce(p)'
<1>1. ASSUME NEW v \in Workers, Sent(p)', Claimed(v)', p \in Range(Job(v)'.rows)
      PROVE  Behind(v, p)'
  <2>1. Claimed(v) /\ workers[v].pc # "idle"
    BY <1>1 DEF Claimed
  <2>2. Job(v)'.rows = Job(v).rows
    BY <2>1, Busy DEF Job
  <2>3. Behind(v, p)
    BY <1>1, <2>1, <2>2 DEF PaysOnce
  <2> QED
    BY <2>2, <2>3 DEF Behind, Payment
<1> QED
  BY <1>1 DEF PaysOnce

LEMMA ApplyPays ==
  ASSUME TypeInv, NEW tx \in Tx, NEW ok \in BOOLEAN, Apply(tx, ok),
         tx.seq = Len(ledger) + 1, tx \in pool \/ tx.pay = None,
         NEW p \in Payments, PaysOnce(p)
  PROVE  PaysOnce(p)'
<1>1. /\ Len(ledger) \in Nat /\ DOMAIN ledger = 1 .. Len(ledger)
      /\ DOMAIN ledger' = 1 .. Len(ledger) + 1
      /\ ledger'[Len(ledger) + 1].tx = tx
      /\ \A s \in DOMAIN ledger : s \in DOMAIN ledger' /\ ledger'[s] = ledger[s]
      /\ pool' = {t \in pool : t.seq > Len(ledger) + 1}
      /\ UNCHANGED <<jobs, workers, reclaimed>>
  BY ApplyTypes
<1>2. \A s \in DOMAIN ledger' : \/ s \in DOMAIN ledger /\ ledger'[s] = ledger[s]
                                \/ s = Len(ledger) + 1 /\ ledger'[s].tx = tx
  BY <1>1
<1>3. pool' \subseteq pool /\ tx \notin pool'
  BY <1>1
<1>4. /\ Sent(p)' => Sent(p)
      /\ AtMostOne(p) => AtMostOne(p)'
      /\ \A x : Only(p, x) => Only(p, x)'
  <2>1. tx.pay = p => tx \in pool
    BY JobsAssumption
  <2>2. Sent(p)' => Sent(p)
    BY <1>2, <1>3, <2>1 DEF Sent, OnLedger
  <2>3. ASSUME AtMostOne(p) PROVE AtMostOne(p)'
    <3>1. \A s, t \in DOMAIN ledger' :
              ledger'[s].tx.pay = p /\ ledger'[t].tx.pay = p => s = t
      BY <1>2, <2>1, <2>3 DEF AtMostOne
    <3>2. \A u, v \in pool' : u.pay = p /\ v.pay = p => u = v
      BY <1>3, <2>3 DEF AtMostOne
    <3>3. \A u \in pool', s \in DOMAIN ledger' : ~(u.pay = p /\ ledger'[s].tx.pay = p)
      BY <1>2, <1>3, <2>1, <2>3 DEF AtMostOne
    <3> QED
      BY <3>1, <3>2, <3>3 DEF AtMostOne
  <2>4. ASSUME NEW x, Only(p, x) PROVE Only(p, x)'
    BY <1>2, <1>3, <2>1, <2>4 DEF Only
  <2> QED
    BY <2>2, <2>3, <2>4
<1> QED
  BY <1>1, <1>4, QuietPays

LEMMA PayStep ==
  ASSUME DistinctRequests
  PROVE  TypeInv /\ TypeInv' /\ ClaimInv /\ RowsInv /\ PayInv /\ [Next]_vars => PayInv'
<1> SUFFICES ASSUME TypeInv, TypeInv', ClaimInv, RowsInv, PayInv, [Next]_vars,
                    NEW p \in Payments, Clean(p)'
             PROVE  PaysOnce(p)'
  BY DEF PayInv
<1>0. Clean(p) /\ PaysOnce(p)
  BY RowsStep, StandingStays DEF PayInv
<1>1. ASSUME NEW j \in DOMAIN Requests, NEW w \in Workers, Submit(j, w) \/ Replay(j, w)
      PROVE  PaysOnce(p)'
  <2>1. /\ workers'[w].pc = "claim"
        /\ \A v \in Workers : v # w => workers'[v] = workers[v]
        /\ \A n \in Jobs : jobs[n].status # "absent" =>
               jobs'[n].status = jobs[n].status /\ jobs'[n].rows = jobs[n].rows
        /\ UNCHANGED <<ledger, pool>>
    BY <1>1, SubmitTypes, ReplayTypes
  <2> QED
    BY <1>0, <2>1, SpawnPays
<1>2. ASSUME NEW j \in Jobs, NEW k \in Jobs, NEW w \in Workers, Retry(j, k, w)
      PROVE  PaysOnce(p)'
  <2>1. /\ workers'[w].pc = "claim"
        /\ \A v \in Workers : v # w => workers'[v] = workers[v]
        /\ \A n \in Jobs : jobs[n].status # "absent" =>
               jobs'[n].status = jobs[n].status /\ jobs'[n].rows = jobs[n].rows
        /\ UNCHANGED <<ledger, pool>>
    BY <1>2, RetryTypes
  <2> QED
    BY <1>0, <2>1, SpawnPays
<1>3. ASSUME NEW j \in DOMAIN Requests, Expire(j) PROVE PaysOnce(p)'
  <2>1. /\ UNCHANGED <<workers, ledger, pool>>
        /\ \A n \in Jobs : jobs'[n].status = jobs[n].status /\ jobs'[n].rows = jobs[n].rows
    BY <1>3, ExpireTypes, JobsAssumption
  <2> QED
    BY <1>0, <2>1, Fewer, QuietPays
<1>4. ASSUME NEW w \in Workers, Work(w) \/ StoreError(w) \/ Crash(w) PROVE PaysOnce(p)'
  BY <1>0, <1>4, WorkTypes, WorkPays
<1>5. CASE (\E tx \in pool, ok \in BOOLEAN : Land(tx, ok)) \/ Foreign
  <2>1. PICK tx \in Tx, ok \in BOOLEAN :
            Apply(tx, ok) /\ tx.seq = Len(ledger) + 1 /\ (tx \in pool \/ tx.pay = None)
    BY <1>5, LandOrForeign
  <2> QED
    BY <1>0, <2>1, ApplyPays
<1>6. CASE UNCHANGED vars
  BY <1>0, <1>6, Fewer, QuietPays DEF vars
<1> QED
  BY <1>1, <1>2, <1>3, <1>4, <1>5, <1>6 DEF Next

LEMMA PaidTwiceCaused ==
  ASSUME DistinctRequests
  PROVE  TypeInv /\ RowsInv /\ SealInv /\ PayInv => PaidTwiceHasCause
<1> SUFFICES ASSUME TypeInv, RowsInv, SealInv, PayInv,
                    NEW s \in DOMAIN ledger, NEW t \in DOMAIN ledger,
                    ledger[s].tx.pay = ledger[t].tx.pay, ledger[s].tx.pay # None,
                    \A j \in Jobs : ledger[s].tx.pay \in Range(jobs[j].rows) =>
                        ~Retried(j) /\ (j \notin reclaimed \/ jobs[j].presigned)
             PROVE  s = t
  BY DEF PaidTwiceHasCause
<1> DEFINE p == ledger[s].tx.pay
<1>1. p \in Payments /\ Original(p)
  BY LedgerTyped DEF Tx, Original
<1>2. CASE Firm(p)
  <2>1. PICK j \in Jobs : \E a \in DOMAIN jobs[j].rows : ledger[s].tx = Sealed(j, a)
    BY <1>1, <1>2 DEF SealInv, IsSealed
  <2>2. PICK a \in DOMAIN jobs[j].rows : ledger[s].tx = Sealed(j, a)
    BY <2>1
  <2>3. PICK k \in Jobs : \E b \in DOMAIN jobs[k].rows : ledger[t].tx = Sealed(k, b)
    BY <1>1, <1>2 DEF SealInv, IsSealed
  <2>4. PICK b \in DOMAIN jobs[k].rows : ledger[t].tx = Sealed(k, b)
    BY <2>3
  <2>5. jobs[j].rows[a] = p /\ jobs[k].rows[b] = p
    BY <2>2, <2>4 DEF Sealed
  <2>6. p \in Range(jobs[j].rows) /\ p \in Range(jobs[k].rows)
    BY <2>2, <2>4, <2>5 DEF Range
  <2>7. j = k /\ a = b
    BY <1>1, <2>5, <2>6, OnePlace
  <2> QED
    BY <2>2, <2>4, <2>7 DEF SealInv
<1>3. CASE ~Firm(p)
  <2>1. PICK j \in Jobs : p \in Range(jobs[j].rows) /\ ~jobs[j].presigned
    BY <1>1, <1>3 DEF Firm
  <2>2. \A k \in Jobs : p \in Range(jobs[k].rows) => k = j
    BY <1>1, <2>1, OnePlace
  <2>3. Clean(p)
    BY <1>1, <2>1, <2>2 DEF Clean
  <2> QED
    BY <1>1, <2>3 DEF PayInv, PaysOnce, AtMostOne
<1> QED
  BY <1>2, <1>3

\* A payment is paid twice only if its job was retried, or reclaimed while the
\* server signs for it: bad-sequence retries, fee retries, timeouts and
\* reconciliation inside one worker's run (submitWithRetry, reconcileTransaction)
\* never pay again, and a client's envelope is not paid again by a reclaim either.
THEOREM JobsPaidTwiceHasCause ==
  ASSUME DistinctRequests
  PROVE  Spec => []PaidTwiceHasCause
<1>1. Spec => [](TypeInv /\ ClaimInv /\ RowsInv)
  BY TypeInvariant, ClaimInvariant, RowsInit, RowsStep, PTL DEF Spec
<1>2. Spec => []SealInv
  BY <1>1, SealInit, SealStep, PTL DEF Spec
<1>3. Spec => []PayInv
  BY <1>1, PayInit, PayStep, PTL DEF Spec
<1> QED
  BY <1>1, <1>2, <1>3, PaidTwiceCaused, PTL

\* From a client's own account nobody is ever paid twice for one payment: not by a
\* worker whose lease ran out, not by a replay, not after a crash, whatever the
\* number of jobs, workers, faults and lost messages.
THEOREM SignedPaidOnce ==
  ASSUME ~ServerAccount, DistinctRequests
  PROVE  Spec => []PaidOnce
<1>1. RowsInv /\ PaidTwiceHasCause => PaidOnce
  <2> SUFFICES ASSUME RowsInv, PaidTwiceHasCause,
                      NEW s \in DOMAIN ledger, NEW t \in DOMAIN ledger, s # t,
                      ledger[s].ok, ledger[t].ok,
                      ledger[s].tx.pay = ledger[t].tx.pay, ledger[s].tx.pay # None
               PROVE  FALSE
    BY DEF PaidOnce
  <2>1. PICK j \in Jobs : /\ Retried(j) \/ (j \in reclaimed /\ ~jobs[j].presigned)
                          /\ ledger[s].tx.pay \in Range(jobs[j].rows)
    BY DEF PaidTwiceHasCause
  <2>2. jobs[j].presigned
    BY <2>1, HasRows DEF RowOf
  <2>3. ~Retried(j)
    BY JobsAssumption DEF Retried, RowsInv, RowOf
  <2> QED
    BY <2>1, <2>2, <2>3
<1>2. Spec => []RowsInv
  BY TypeInvariant, RowsInit, RowsStep, PTL DEF Spec
<1> QED
  BY <1>1, <1>2, JobsPaidTwiceHasCause, PTL
=============================================================================
