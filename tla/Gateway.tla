------------------------------- MODULE Gateway -------------------------------
(***************************************************************************)
(* POST batch-submit between the client and the job: the rate limiter, then*)
(* the creation of a job under an idempotency key, on a single node (both  *)
(* in SQLite) or highly available (the limiter in Redis, jobs in Postgres).*)
(* SQLite runs each transaction at once, Redis the whole limiter; in       *)
(* Postgres (READ COMMITTED) the requests of several server processes come *)
(* between the statements of each other's transactions, and see what       *)
(* others committed.  The limiter can be put in Postgres too, where its    *)
(* SELECT is given a parameter too many and fails: every request ends in   *)
(* StoreError.                                                             *)
(*                                                                         *)
(* All requests come from one rate-limited caller, who may have sent some  *)
(* before.  Bodies that validation refuses are left out.  A job is created *)
(* with the body it was asked for; what becomes of it is the business of   *)
(* BatchJobs: here it is active and some day completed or failed.          *)
(***************************************************************************)
EXTENDS Integers, Sequences

CONSTANTS
    MaxOpen,    \* requests that can be under way at a time, whoever sent them
    Bodies,     \* canonical request bodies, and their hashes
    Limit,      \* requests admitted per window
    Earlier,    \* numbers of requests the caller may have sent before
    MaxPosts,   \* bound on requests
    MaxLapses,  \* bound on the expiries of idempotency keys
    None

ASSUME GatewayAssumption ==
    /\ {MaxOpen, MaxPosts, MaxLapses} \subseteq Nat
    /\ Limit \in Nat \ {0} /\ Earlier \subseteq 0..Limit
    /\ None \notin Bodies \union [hash : Bodies, job : Nat]
                         \union [remaining : 0..Limit, live : BOOLEAN]

VARIABLES
    store,      \* where the jobs are
    bucket,     \* the caller's bucket, or None
    admitted,   \* history: requests admitted since the window opened
    keys,       \* idempotency_keys: the row of a key, or None
    jobs,       \* the jobs table, in order of creation
    lapses,     \* how often a key's row has expired
    reqs,       \* the requests under way
    posts       \* requests sent so far

gvars == <<store, bucket, admitted, keys, jobs, lapses, reqs, posts>>

Clients == 1..MaxOpen

\* A key is a header of the client's choice or else the hash of the body; the
\* page's header is derived from the body.
Keys == {"header", "hash"} \X Bodies
KeysFor(body) == {k \in Keys : k[1] = "hash" => k[2] = body}

NoRequest == [pc |-> "idle", key |-> None, body |-> None, code |-> 0, job |-> 0]

GatewayInit ==
    /\ store \in {"sqlite", "postgres"}
    /\ admitted \in Earlier
    /\ bucket = IF admitted = 0 THEN None
                ELSE [remaining |-> Limit - admitted, live |-> TRUE]
    /\ keys = [k \in Keys |-> None]
    /\ jobs = <<>>
    /\ lapses = [k \in Keys |-> 0]
    /\ reqs = [c \in Clients |-> NoRequest]
    /\ posts = 0

At(c, pc) == reqs[c].pc = pc
Goto(c, pc) == reqs' = [reqs EXCEPT ![c].pc = pc]
Answer(c, code, job) ==
    reqs' = [reqs EXCEPT ![c].pc = "answered", ![c].code = code, ![c].job = job]

rate == <<bucket, admitted>>
tables == <<keys, jobs, lapses>>

\* A request takes the first free place.
Post(c, key, body) ==
    /\ At(c, "idle") /\ \A d \in 1..(c - 1) : ~At(d, "idle")
    /\ posts < MaxPosts
    /\ posts' = posts + 1
    /\ reqs' = [reqs EXCEPT ![c] = [NoRequest EXCEPT !.pc = "limit", !.key = key,
                                                     !.body = body]]
    /\ UNCHANGED <<store, rate, tables>>

-----------------------------------------------------------------------------
(* The rate limiter: consumeRateLimit *)

NewWindow ==
    /\ bucket' = [remaining |-> Limit - 1, live |-> TRUE]
    /\ admitted' = 1

Counted ==
    /\ bucket' = [bucket EXCEPT !.remaining = @ - 1]
    /\ admitted' = admitted + 1

WindowOpen == bucket # None /\ bucket.live

\* SQLite counts in a second statement, outside the transaction that read.
CheckLimit(c) ==
    /\ At(c, "limit")
    /\ \/ /\ ~WindowOpen
          /\ NewWindow /\ Goto(c, "create")
       \/ /\ WindowOpen /\ bucket.remaining <= 0
          /\ Answer(c, 429, 0)
          /\ UNCHANGED rate
       \/ /\ WindowOpen /\ bucket.remaining > 0 /\ store = "postgres"
          /\ Counted /\ Goto(c, "create")
       \/ /\ WindowOpen /\ bucket.remaining > 0 /\ store = "sqlite"
          /\ Goto(c, "count")
          /\ UNCHANGED rate
    /\ UNCHANGED <<store, tables, posts>>

\* Mutant: the row read decides, whatever it has become.
CountAnyway(c) ==
    /\ At(c, "count")
    /\ Counted /\ Goto(c, "create")
    /\ UNCHANGED <<store, tables, posts>>

\* UPDATE ... WHERE remaining > 0
Count(c) ==
    /\ At(c, "count")
    /\ IF bucket.remaining > 0
       THEN Counted /\ Goto(c, "create")
       ELSE Answer(c, 429, 0) /\ UNCHANGED rate
    /\ UNCHANGED <<store, tables, posts>>

\* resetAt passes.
WindowEnds ==
    /\ WindowOpen
    /\ bucket' = [bucket EXCEPT !.live = FALSE]
    /\ UNCHANGED <<store, admitted, tables, reqs, posts>>

-----------------------------------------------------------------------------
(* createIdempotentJob, which first prunes the keys past their expiresAt *)

Insert(c) ==
    LET k == reqs[c].key IN
    /\ jobs' = Append(jobs, [key |-> k, body |-> reqs[c].body, life |-> lapses[k],
                             status |-> "active"])
    /\ keys' = [keys EXCEPT ![k] = [hash |-> reqs[c].body, job |-> Len(jobs) + 1]]
    /\ Answer(c, 202, Len(jobs) + 1)

\* Mutant: a key answers for whatever body comes with it.
AnswerByKey(c) == Answer(c, 202, keys[reqs[c].key].job)

\* The replay of a key's job, or a conflict.  Postgres hands back the unquoted
\* columns in lower case: no row has a requestHash, and every replay conflicts.
AnswerFound(c) ==
    LET row == keys[reqs[c].key] IN
    IF store = "sqlite" /\ row.hash = reqs[c].body THEN Answer(c, 202, row.job) ELSE Answer(c, 409, 0)

\* SQLite: one transaction.
Create(c) ==
    /\ At(c, "create") /\ store = "sqlite"
    /\ IF keys[reqs[c].key] = None
       THEN Insert(c)
       ELSE AnswerFound(c) /\ UNCHANGED <<keys, jobs>>
    /\ UNCHANGED <<store, rate, lapses, posts>>

\* Postgres: the SELECT, ...
Lookup(c) ==
    /\ At(c, "create") /\ store = "postgres"
    /\ IF keys[reqs[c].key] = None THEN Goto(c, "insert") ELSE AnswerFound(c)
    /\ UNCHANGED <<store, rate, tables, posts>>

\* Mutant: no PRIMARY KEY on idempotencyKey.
InsertUnhindered(c) ==
    /\ At(c, "insert")
    /\ Goto(c, "commit")
    /\ UNCHANGED <<store, rate, tables, posts>>

\* ... the INSERTs, of which the second waits for another transaction that
\* inserts the same key, and fails when that one commits, ...
InsertKey(c) ==
    /\ At(c, "insert")
    /\ \A d \in Clients : At(d, "commit") => reqs[d].key # reqs[c].key
    /\ IF keys[reqs[c].key] = None THEN Goto(c, "commit") ELSE Answer(c, 500, 0)
    /\ UNCHANGED <<store, rate, tables, posts>>

\* ... the COMMIT.
Commit(c) ==
    /\ At(c, "commit")
    /\ Insert(c)
    /\ UNCHANGED <<store, rate, lapses, posts>>

\* The store fails; what the transaction did is rolled back.
StoreError(c) ==
    /\ reqs[c].pc \notin {"idle", "answered"}
    /\ Answer(c, 500, 0)
    /\ UNCHANGED <<store, rate, tables, posts>>

\* Twenty-four hours go by, in none of which a transaction hangs.
Lapse(k) ==
    /\ keys[k] # None
    /\ \A l \in Keys : lapses[l] < MaxLapses
    /\ \A c \in Clients : reqs[c].pc \notin {"insert", "commit"}
    /\ keys' = [keys EXCEPT ![k] = None]
    /\ lapses' = [lapses EXCEPT ![k] = @ + 1]
    /\ UNCHANGED <<store, rate, jobs, reqs, posts>>

-----------------------------------------------------------------------------
\* The client gets its answer, or the answer gets lost.
Receive(c) ==
    /\ At(c, "answered")
    /\ reqs' = [reqs EXCEPT ![c] = NoRequest]
    /\ UNCHANGED <<store, rate, tables, posts>>

\* The workers of BatchJobs end a job.
Settle(j) ==
    /\ jobs[j].status = "active"
    /\ \E s \in {"completed", "failed"} : jobs' = [jobs EXCEPT ![j].status = s]
    /\ UNCHANGED <<store, rate, keys, lapses, reqs, posts>>

Serve(c) ==
    \/ CheckLimit(c) \/ Count(c)
    \/ Create(c) \/ Lookup(c) \/ InsertKey(c) \/ Commit(c) \/ StoreError(c)

Passing ==
    \/ WindowEnds
    \/ \E k \in Keys : Lapse(k)
    \/ \E j \in DOMAIN jobs : Settle(j)

GatewayNext ==
    \/ \E c \in Clients :
          \/ \E b \in Bodies : \E k \in KeysFor(b) : Post(c, k, b)
          \/ Serve(c) \/ Receive(c)
    \/ Passing

GatewaySpec == GatewayInit /\ [][GatewayNext]_gvars

-----------------------------------------------------------------------------
Job == [key : Keys, body : Bodies, life : Nat, status : {"active", "completed", "failed"}]
Request ==
    [pc : {"idle", "limit", "count", "create", "insert", "commit", "answered"},
     key : Keys \union {None}, body : Bodies \union {None},
     code : {0, 202, 409, 429, 500}, job : Nat]

(* The types of the gateway's state; a key names a job that exists. *)
GatewayTypeOK ==
    /\ store \in {"sqlite", "postgres"}
    /\ bucket \in [remaining : 0..Limit, live : BOOLEAN] \union {None}
    /\ admitted \in Nat
    /\ jobs \in Seq(Job)
    /\ keys \in [Keys -> [hash : Bodies, job : 1..Len(jobs)] \union {None}]
    /\ lapses \in [Keys -> Nat]
    /\ reqs \in [Clients -> Request]
    /\ posts \in 0..MaxPosts

(* In the lifetime of an idempotency key at most one job is created for it,
   however many requests carry it at once, to however many servers, and whatever
   becomes of the answers. *)
OneJobPerKey ==
    \A i, j \in DOMAIN jobs :
        i # j => jobs[i].key # jobs[j].key \/ jobs[i].life # jobs[j].life

(* An accepted request is told of a job that pays what it asked for, its own or
   an earlier one with its key; another body under the key is refused. *)
AnswerFitsRequest ==
    \A c \in Clients : At(c, "answered") /\ reqs[c].code = 202 =>
        reqs[c].job \in DOMAIN jobs /\ jobs[reqs[c].job].body = reqs[c].body

(* A window admits no more than the limit, although SQLite checks and counts in
   separate statements, between which another window may have begun. *)
LimitHolds == admitted <= Limit
=============================================================================
