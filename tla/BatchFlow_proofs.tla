-------------------------- MODULE BatchFlow_proofs --------------------------
(***************************************************************************)
(* Proofs about Gateway, composed with the page of BatchFlow, for any      *)
(* number of requests, bodies and expiries, and for either store: no two   *)
(* jobs under one key, no request answered with another's job, no more     *)
(* requests than the limit, and a page that shows what is so and waits for *)
(* something that will come.                                               *)
(***************************************************************************)
EXTENDS BatchFlow, TLAPS

Row == [hash : Bodies, job : Nat]

\* The part of the type that the argument needs.
TablesOK ==
    /\ jobs \in Seq(Job)
    /\ keys \in [Keys -> Row \union {None}]
    /\ lapses \in [Keys -> Nat]
    /\ reqs \in [Clients -> Request]

Busy(c) == ~At(c, "idle") /\ ~At(c, "answered")

\* A request that is being served has a key and a body; only Postgres has
\* transactions that wait.
RequestsOK ==
    \A c \in Clients :
        /\ Busy(c) => reqs[c].key \in Keys /\ reqs[c].body \in Bodies
        /\ At(c, "insert") \/ At(c, "commit") => store = "postgres"

\* A transaction about to commit holds its key alone, and nobody has it yet.
CommitsOK ==
    \A c \in Clients : At(c, "commit") =>
        /\ keys[reqs[c].key] = None
        /\ \A d \in Clients : d # c /\ At(d, "commit") => reqs[d].key # reqs[c].key

\* A job was created in some lifetime of its key; in the present one, the key is
\* taken.
JobsOK ==
    \A j \in DOMAIN jobs :
        /\ jobs[j].life <= lapses[jobs[j].key]
        /\ jobs[j].life = lapses[jobs[j].key] => keys[jobs[j].key] # None

\* A taken key names a job for the body it was hashed from.
KeysOK ==
    \A k \in Keys : keys[k] # None =>
        keys[k].job \in DOMAIN jobs /\ jobs[keys[k].job].body = keys[k].hash

\* The inductive invariant.
GatewayInv ==
    /\ TablesOK /\ RequestsOK /\ CommitsOK /\ JobsOK /\ KeysOK
    /\ OneJobPerKey /\ AnswerFitsRequest

-----------------------------------------------------------------------------
LEMMA GatewayInitial == GatewayInit => GatewayInv
<1> SUFFICES ASSUME GatewayInit PROVE GatewayInv
  OBVIOUS
<1>1. TablesOK
  BY DEF GatewayInit, TablesOK, NoRequest, Request
<1>2. \A c \in Clients : At(c, "idle")
  BY DEF GatewayInit, NoRequest, At
<1>3. jobs = <<>> /\ \A k \in Keys : keys[k] = None
  BY DEF GatewayInit
<1>4. RequestsOK /\ CommitsOK /\ AnswerFitsRequest
  BY <1>2 DEF RequestsOK, CommitsOK, AnswerFitsRequest, Busy, At
<1>5. JobsOK /\ KeysOK /\ OneJobPerKey
  BY <1>3 DEF JobsOK, KeysOK, OneJobPerKey
<1> QED
  BY <1>1, <1>4, <1>5 DEF GatewayInv

\* A step of one request that leaves the tables alone.
LEMMA RequestStep ==
  ASSUME GatewayInv, NEW c, NEW r \in Request,
         reqs' = [reqs EXCEPT ![c] = r],
         UNCHANGED <<store, tables>>,
         r.pc \notin {"idle", "answered"} => r.key \in Keys /\ r.body \in Bodies,
         r.pc \in {"insert", "commit"} => store = "postgres",
         r.pc = "commit" => /\ keys[r.key] = None
                            /\ \A d \in Clients :
                                  d # c /\ At(d, "commit") => reqs[d].key # r.key,
         r.pc = "answered" /\ r.code = 202 =>
             r.job \in DOMAIN jobs /\ jobs[r.job].body = r.body
  PROVE  GatewayInv'
<1> USE DEF tables
<1>1. TablesOK'
  BY DEF GatewayInv, TablesOK
<1>2. \A d \in Clients : reqs'[d] = IF d = c THEN r ELSE reqs[d]
  BY DEF GatewayInv, TablesOK
<1>3. RequestsOK'
  BY <1>2 DEF GatewayInv, RequestsOK, Busy, At
<1>4. CommitsOK'
  BY <1>2 DEF GatewayInv, CommitsOK, At
<1>5. JobsOK' /\ KeysOK' /\ OneJobPerKey'
  BY DEF GatewayInv, JobsOK, KeysOK, OneJobPerKey
<1>6. AnswerFitsRequest'
  BY <1>2 DEF GatewayInv, AnswerFitsRequest, At
<1> QED
  BY <1>1, <1>3, <1>4, <1>5, <1>6 DEF GatewayInv

Pcs == {"idle", "limit", "count", "create", "insert", "commit", "answered"}

\* A request moves on with its key and body.
LEMMA GotoStep ==
  ASSUME GatewayInv, NEW c \in Clients, Busy(c), NEW pc \in Pcs \ {"answered", "commit"},
         Goto(c, pc), UNCHANGED <<store, tables>>,
         pc = "insert" => store = "postgres"
  PROVE  GatewayInv'
<1> DEFINE r == [reqs[c] EXCEPT !.pc = pc]
<1>1. reqs[c] \in Request
  BY DEF GatewayInv, TablesOK
<1>2. r \in Request /\ r.pc = pc /\ r.key = reqs[c].key /\ r.body = reqs[c].body
  BY <1>1 DEF Request, Pcs
<1>3. reqs' = [reqs EXCEPT ![c] = r]
  BY DEF Goto
<1>4. reqs[c].key \in Keys /\ reqs[c].body \in Bodies
  BY DEF GatewayInv, RequestsOK
<1> HIDE DEF r
<1> QED
  BY <1>2, <1>3, <1>4, RequestStep

\* An answered request, as a record.
Answered(c, code, job) ==
    [pc |-> "answered", key |-> reqs[c].key, body |-> reqs[c].body,
     code |-> code, job |-> job]

LEMMA AnsweredRecord ==
  ASSUME reqs \in [Clients -> Request], NEW c \in Clients,
         NEW code \in {0, 202, 409, 429, 500}, NEW job \in Nat, Answer(c, code, job)
  PROVE  /\ Answered(c, code, job) \in Request
         /\ reqs' = [reqs EXCEPT ![c] = Answered(c, code, job)]
<1>1. reqs[c] \in Request
  OBVIOUS
<1>2. Answered(c, code, job) \in Request
  BY <1>1 DEF Answered, Request
<1> DEFINE x == [reqs[c] EXCEPT !.pc = "answered"]
           y == [x EXCEPT !.code = code]
           f == [reqs EXCEPT ![c] = x]
           g == [f EXCEPT ![c] = y]
<1>3. reqs' = [[[reqs EXCEPT ![c].pc = "answered"] EXCEPT ![c].code = code]
                   EXCEPT ![c].job = job]
  BY DEF Answer
<1>4. [reqs EXCEPT ![c].pc = "answered"] = f /\ f[c] = x
  BY <1>1
<1>5. [f EXCEPT ![c].code = code] = g /\ g[c] = y
  BY <1>1, <1>4
<1>6. [g EXCEPT ![c].job = job] = [reqs EXCEPT ![c] = [y EXCEPT !.job = job]]
  BY <1>1, <1>5
<1>7. [y EXCEPT !.job = job] = Answered(c, code, job)
  <2>1. x = [pc |-> "answered", key |-> reqs[c].key, body |-> reqs[c].body,
             code |-> reqs[c].code, job |-> reqs[c].job]
    BY <1>1 DEF Request
  <2>2. y = [pc |-> "answered", key |-> reqs[c].key, body |-> reqs[c].body,
             code |-> code, job |-> reqs[c].job]
    <3> HIDE DEF x
    <3> QED
      BY <2>1
  <2> HIDE DEF y
  <2> QED
    BY <2>2 DEF Answered
<1> QED
  BY <1>2, <1>3, <1>4, <1>5, <1>6, <1>7

\* A request is answered, with a job only when it is the body's.
LEMMA AnsweredStep ==
  ASSUME GatewayInv, NEW c \in Clients, NEW r \in Request,
         reqs' = [reqs EXCEPT ![c] = r], UNCHANGED <<store, tables>>,
         r.pc = "answered",
         r.code = 202 => r.job \in DOMAIN jobs /\ jobs[r.job].body = r.body
  PROVE  GatewayInv'
BY RequestStep

LEMMA AnswerStep ==
  ASSUME GatewayInv, NEW c \in Clients, NEW code \in {0, 202, 409, 429, 500},
         NEW job \in Nat, Answer(c, code, job), UNCHANGED <<store, tables>>,
         code = 202 => job \in DOMAIN jobs /\ jobs[job].body = reqs[c].body
  PROVE  GatewayInv'
<1> DEFINE r == Answered(c, code, job)
<1>1. r \in Request /\ reqs' = [reqs EXCEPT ![c] = r]
  BY AnsweredRecord DEF GatewayInv, TablesOK
<1>2. r.pc = "answered" /\ r.code = code /\ r.job = job /\ r.body = reqs[c].body
  BY DEF Answered
<1>3. r.code = 202 => r.job \in DOMAIN jobs /\ jobs[r.job].body = r.body
  BY <1>2
<1>4. r.pc = "answered"
  BY <1>2
<1> HIDE DEF r
<1> QED
  BY <1>1, <1>3, <1>4, AnsweredStep

\* The replay of a key's job, or the conflict.
LEMMA FoundStep ==
  ASSUME GatewayInv, NEW c \in Clients, Busy(c), keys[reqs[c].key] # None,
         AnswerFound(c), UNCHANGED <<store, tables>>
  PROVE  GatewayInv'
<1> DEFINE row == keys[reqs[c].key]
<1>1. reqs[c].key \in Keys
  BY DEF GatewayInv, RequestsOK
<1>2. row \in Row /\ row.job \in DOMAIN jobs /\ jobs[row.job].body = row.hash
  BY <1>1 DEF GatewayInv, TablesOK, KeysOK
<1>3. CASE store = "sqlite" /\ row.hash = reqs[c].body
  <2>1. Answer(c, 202, row.job)
    BY <1>3 DEF AnswerFound
  <2>2. row.job \in Nat
    BY <1>2 DEF Row
  <2> QED
    BY <2>1, <2>2, <1>2, <1>3, AnswerStep
<1>4. CASE ~(store = "sqlite" /\ row.hash = reqs[c].body)
  <2>1. Answer(c, 409, 0)
    BY <1>4 DEF AnswerFound
  <2> QED
    BY <2>1, AnswerStep
<1> QED
  BY <1>3, <1>4

\* The creation of a job, under a key that nobody has.
LEMMA InsertStep ==
  ASSUME GatewayInv, NEW c \in Clients, Busy(c), keys[reqs[c].key] = None,
         \A d \in Clients : d # c /\ At(d, "commit") => reqs[d].key # reqs[c].key,
         Insert(c), UNCHANGED <<store, lapses>>
  PROVE  GatewayInv'
<1> DEFINE k == reqs[c].key
           n == Len(jobs) + 1
           job == [key |-> k, body |-> reqs[c].body, life |-> lapses[k],
                   status |-> "active"]
           row == [hash |-> reqs[c].body, job |-> n]
           r == Answered(c, 202, n)
<1>1. /\ jobs \in Seq(Job) /\ DOMAIN jobs = 1..Len(jobs) /\ Len(jobs) \in Nat
      /\ keys \in [Keys -> Row \union {None}] /\ lapses \in [Keys -> Nat]
      /\ reqs \in [Clients -> Request] /\ reqs[c] \in Request
  BY DEF GatewayInv, TablesOK
<1>2. k \in Keys /\ reqs[c].body \in Bodies
  BY DEF GatewayInv, RequestsOK
<1>3. /\ job.key = k /\ job.life = lapses[k] /\ job.body = reqs[c].body
      /\ row \in Row /\ row.hash = reqs[c].body /\ row.job = n
      /\ r.pc = "answered" /\ r.job = n /\ r.body = reqs[c].body
  BY <1>1, <1>2 DEF Row, Answered
<1>17. job \in Job
  BY <1>1, <1>2 DEF Job
<1>4. row # None
  BY <1>3, GatewayAssumption DEF Row
<1>5. jobs' = Append(jobs, job) /\ keys' = [keys EXCEPT ![k] = row]
  BY DEF Insert
<1>6. r \in Request /\ reqs' = [reqs EXCEPT ![c] = r]
  <2>1. Answer(c, 202, n) /\ n \in Nat
    BY <1>1 DEF Insert
  <2> QED
    BY <2>1, AnsweredRecord DEF GatewayInv, TablesOK
<1> HIDE DEF job, row, r
<1>7. /\ jobs' \in Seq(Job) /\ Len(jobs') = n /\ DOMAIN jobs' = 1..n
      /\ jobs'[n] = job /\ \A j \in 1..Len(jobs) : jobs'[j] = jobs[j]
  BY <1>1, <1>17, <1>5
<1>8. TablesOK'
  BY <1>1, <1>2, <1>3, <1>5, <1>6, <1>7 DEF TablesOK
<1>9. \A d \in Clients : reqs'[d] = IF d = c THEN r ELSE reqs[d]
  BY <1>1, <1>6
<1>10. RequestsOK'
  BY <1>3, <1>9 DEF GatewayInv, RequestsOK, Busy, At
<1>11. CommitsOK'
  <2> SUFFICES ASSUME NEW d \in Clients, At(d, "commit")'
               PROVE  /\ keys'[reqs'[d].key] = None
                      /\ \A e \in Clients : e # d /\ At(e, "commit")' =>
                             reqs'[e].key # reqs'[d].key
    BY DEF CommitsOK
  <2>1. \A e \in Clients : At(e, "commit")' => e # c /\ reqs'[e] = reqs[e] /\ At(e, "commit")
    BY <1>3, <1>9 DEF At
  <2>2. reqs[d].key # k /\ reqs[d].key \in Keys /\ keys[reqs[d].key] = None
    BY <2>1 DEF GatewayInv, CommitsOK, RequestsOK, Busy, At
  <2> QED
    BY <1>1, <1>2, <1>5, <2>1, <2>2 DEF GatewayInv, CommitsOK
<1>12. ASSUME NEW j \in 1..Len(jobs)
       PROVE  jobs[j].key # k \/ jobs[j].life # lapses[k]
  BY <1>1, <1>12 DEF GatewayInv, JobsOK
<1>13. JobsOK'
  <2> SUFFICES ASSUME NEW j \in 1..n
               PROVE  /\ jobs'[j].life <= lapses[jobs'[j].key]
                      /\ jobs'[j].life = lapses[jobs'[j].key] =>
                             keys'[jobs'[j].key] # None
    BY <1>7 DEF JobsOK
  <2>1. CASE j = n
    BY <2>1, <1>1, <1>2, <1>3, <1>4, <1>5, <1>7
  <2>2. CASE j \in 1..Len(jobs)
    <3>1. jobs'[j] = jobs[j] /\ jobs[j] \in Job
      BY <2>2, <1>1, <1>7
    <3>2. jobs[j].key \in Keys
      BY <3>1 DEF Job
    <3> QED
      BY <2>2, <3>1, <3>2, <1>1, <1>4, <1>5 DEF GatewayInv, JobsOK
  <2> QED
    BY <2>1, <2>2, <1>1
<1>14. KeysOK'
  <2> SUFFICES ASSUME NEW l \in Keys, keys'[l] # None
               PROVE  keys'[l].job \in 1..n /\ jobs'[keys'[l].job].body = keys'[l].hash
    BY <1>7 DEF KeysOK
  <2>1. CASE l = k
    BY <2>1, <1>1, <1>2, <1>3, <1>5, <1>7
  <2>2. CASE l # k
    BY <2>2, <1>1, <1>5, <1>7 DEF GatewayInv, KeysOK
  <2> QED
    BY <2>1, <2>2
<1>15. OneJobPerKey'
  <2> SUFFICES ASSUME NEW i \in 1..n, NEW j \in 1..n, i # j
               PROVE  jobs'[i].key # jobs'[j].key \/ jobs'[i].life # jobs'[j].life
    BY <1>7 DEF OneJobPerKey
  <2>1. CASE i = n
    BY <2>1, <1>1, <1>3, <1>7, <1>12
  <2>2. CASE j = n
    BY <2>2, <1>1, <1>3, <1>7, <1>12
  <2>3. CASE i # n /\ j # n
    <3>1. /\ i \in DOMAIN jobs /\ j \in DOMAIN jobs
          /\ jobs'[i] = jobs[i] /\ jobs'[j] = jobs[j]
      BY <2>3, <1>1, <1>7
    <3> QED
      BY <3>1 DEF GatewayInv, OneJobPerKey
  <2> QED
    BY <2>1, <2>2, <2>3
<1>16. AnswerFitsRequest'
  <2> SUFFICES ASSUME NEW d \in Clients, At(d, "answered")', reqs'[d].code = 202
               PROVE  reqs'[d].job \in 1..n /\ jobs'[reqs'[d].job].body = reqs'[d].body
    BY <1>7 DEF AnswerFitsRequest
  <2>1. CASE d = c
    BY <2>1, <1>1, <1>3, <1>7, <1>9
  <2>2. CASE d # c
    BY <2>2, <1>1, <1>7, <1>9 DEF GatewayInv, AnswerFitsRequest, At
  <2> QED
    BY <2>1, <2>2
<1> QED
  BY <1>8, <1>10, <1>11, <1>13, <1>14, <1>15, <1>16 DEF GatewayInv

\* The expiry of a key begins another lifetime.
LEMMA LapseStep ==
  ASSUME GatewayInv, NEW k \in Keys, Lapse(k)
  PROVE  GatewayInv'
<1>1. /\ jobs \in Seq(Job) /\ keys \in [Keys -> Row \union {None}]
      /\ lapses \in [Keys -> Nat] /\ jobs' = jobs /\ reqs' = reqs /\ store' = store
      /\ keys' = [keys EXCEPT ![k] = None]
      /\ lapses' = [lapses EXCEPT ![k] = lapses[k] + 1]
      /\ \A c \in Clients : ~At(c, "commit")
  BY DEF GatewayInv, TablesOK, Lapse, At
<1>2. TablesOK'
  BY <1>1 DEF GatewayInv, TablesOK
<1>3. RequestsOK' /\ CommitsOK'
  BY <1>1 DEF GatewayInv, RequestsOK, CommitsOK, Busy, At
<1>4. JobsOK'
  <2> SUFFICES ASSUME NEW j \in DOMAIN jobs
               PROVE  /\ jobs[j].life <= lapses'[jobs[j].key]
                      /\ jobs[j].life = lapses'[jobs[j].key] => keys'[jobs[j].key] # None
    BY <1>1 DEF JobsOK
  <2>1. jobs[j] \in Job
    BY <1>1
  <2>2. jobs[j].key \in Keys /\ jobs[j].life \in Nat
    BY <2>1 DEF Job
  <2> QED
    BY <2>2, <1>1 DEF GatewayInv, JobsOK
<1>5. KeysOK' /\ OneJobPerKey' /\ AnswerFitsRequest'
  BY <1>1 DEF GatewayInv, KeysOK, OneJobPerKey, AnswerFitsRequest, At
<1> QED
  BY <1>2, <1>3, <1>4, <1>5 DEF GatewayInv

\* The end of a job changes its status only.
LEMMA SettleStep ==
  ASSUME GatewayInv, NEW j \in DOMAIN jobs, Settle(j)
  PROVE  GatewayInv'
<1>1. PICK s \in {"completed", "failed"} : jobs' = [jobs EXCEPT ![j].status = s]
  BY DEF Settle
<1> DEFINE job == [jobs[j] EXCEPT !.status = s]
<1>2. /\ jobs \in Seq(Job) /\ jobs[j] \in Job
      /\ UNCHANGED <<store, keys, lapses, reqs>>
  BY DEF GatewayInv, TablesOK, Settle
<1>3. job \in Job /\ job.key = jobs[j].key /\ job.life = jobs[j].life
      /\ job.body = jobs[j].body
  BY <1>2 DEF Job
<1>4. jobs' = [jobs EXCEPT ![j] = job]
  BY <1>1
<1> HIDE DEF job
<1>5. /\ jobs' \in Seq(Job) /\ DOMAIN jobs' = DOMAIN jobs
      /\ \A i \in DOMAIN jobs : /\ jobs'[i].key = jobs[i].key
                                /\ jobs'[i].life = jobs[i].life
                                /\ jobs'[i].body = jobs[i].body
  BY <1>2, <1>3, <1>4
<1>6. TablesOK' /\ RequestsOK' /\ CommitsOK'
  BY <1>2, <1>5 DEF GatewayInv, TablesOK, RequestsOK, CommitsOK, Busy, At
<1>7. JobsOK'
  BY <1>2, <1>5 DEF GatewayInv, JobsOK
<1>8. KeysOK' /\ AnswerFitsRequest'
  BY <1>2, <1>5 DEF GatewayInv, KeysOK, AnswerFitsRequest, At
<1>9. OneJobPerKey'
  BY <1>5 DEF GatewayInv, OneJobPerKey
<1> QED
  BY <1>6, <1>7, <1>8, <1>9 DEF GatewayInv

-----------------------------------------------------------------------------
(* One step of the gateway *)

LEMMA PostKeeps ==
  ASSUME GatewayInv, NEW c \in Clients, NEW k \in Keys, NEW b \in Bodies, Post(c, k, b)
  PROVE  GatewayInv'
<1> DEFINE r == [NoRequest EXCEPT !.pc = "limit", !.key = k, !.body = b]
<1>1. r \in Request /\ r.pc = "limit" /\ r.key = k /\ r.body = b
  BY DEF NoRequest, Request
<1>2. reqs' = [reqs EXCEPT ![c] = r] /\ UNCHANGED <<store, tables>>
  BY DEF Post
<1> HIDE DEF r
<1> QED
  BY <1>1, <1>2, RequestStep

\* Whoever waits for the answer.
LEMMA ReceiveKeeps ==
  ASSUME GatewayInv, NEW c, Receive(c)
  PROVE  GatewayInv'
<1>1. NoRequest \in Request /\ NoRequest.pc = "idle"
  BY DEF NoRequest, Request
<1>2. reqs' = [reqs EXCEPT ![c] = NoRequest] /\ UNCHANGED <<store, tables>>
  BY DEF Receive
<1> QED
  BY <1>1, <1>2, RequestStep

LEMMA ServeKeeps ==
  ASSUME GatewayInv, NEW c \in Clients, Serve(c)
  PROVE  GatewayInv'
<1>1. CASE CheckLimit(c)
  <2>1. Busy(c) /\ UNCHANGED <<store, tables>>
    BY <1>1 DEF CheckLimit, Busy, At
  <2>2. Goto(c, "create") \/ Goto(c, "count") \/ Answer(c, 429, 0)
    BY <1>1 DEF CheckLimit
  <2> QED
    BY <2>1, <2>2, GotoStep, AnswerStep DEF Pcs
<1>2. CASE Count(c)
  <2>1. Busy(c) /\ UNCHANGED <<store, tables>>
    BY <1>2 DEF Count, Busy, At
  <2>2. Goto(c, "create") \/ Answer(c, 429, 0)
    BY <1>2 DEF Count
  <2> QED
    BY <2>1, <2>2, GotoStep, AnswerStep DEF Pcs
<1>3. CASE Create(c)
  <2>1. Busy(c) /\ UNCHANGED <<store, lapses>> /\ store = "sqlite"
    BY <1>3 DEF Create, Busy, At
  <2>2. \A d \in Clients : ~At(d, "commit")
    BY <2>1 DEF GatewayInv, RequestsOK
  <2>3. CASE keys[reqs[c].key] = None
    <3>1. Insert(c)
      BY <1>3, <2>3 DEF Create
    <3> QED
      BY <2>1, <2>2, <2>3, <3>1, InsertStep
  <2>4. CASE keys[reqs[c].key] # None
    <3>1. AnswerFound(c) /\ UNCHANGED tables
      BY <1>3, <2>4 DEF Create, tables
    <3> QED
      BY <2>1, <2>4, <3>1, FoundStep
  <2> QED
    BY <2>3, <2>4
<1>4. CASE Lookup(c)
  <2>1. Busy(c) /\ UNCHANGED <<store, tables>> /\ store = "postgres"
    BY <1>4 DEF Lookup, Busy, At
  <2>2. CASE keys[reqs[c].key] = None
    <3>1. Goto(c, "insert")
      BY <1>4, <2>2 DEF Lookup
    <3> QED
      BY <2>1, <3>1, GotoStep DEF Pcs
  <2>3. CASE keys[reqs[c].key] # None
    <3>1. AnswerFound(c)
      BY <1>4, <2>3 DEF Lookup
    <3> QED
      BY <2>1, <2>3, <3>1, FoundStep
  <2> QED
    BY <2>2, <2>3
<1>5. CASE InsertKey(c)
  <2>1. Busy(c) /\ UNCHANGED <<store, tables>>
    BY <1>5 DEF InsertKey, Busy, At
  <2>2. CASE keys[reqs[c].key] = None
    <3> DEFINE r == [reqs[c] EXCEPT !.pc = "commit"]
    <3>1. reqs[c] \in Request /\ reqs[c].key \in Keys /\ reqs[c].body \in Bodies
      BY <2>1 DEF GatewayInv, TablesOK, RequestsOK
    <3>2. /\ r \in Request /\ r.pc = "commit"
          /\ r.key = reqs[c].key /\ r.body = reqs[c].body
      BY <3>1 DEF Request
    <3>3. reqs' = [reqs EXCEPT ![c] = r]
      BY <1>5, <2>2 DEF InsertKey, Goto
    <3>4. \A d \in Clients : d # c /\ At(d, "commit") => reqs[d].key # reqs[c].key
      BY <1>5 DEF InsertKey
    <3>5. store = "postgres"
      BY <1>5 DEF InsertKey, GatewayInv, RequestsOK
    <3> HIDE DEF r
    <3> QED
      BY <2>1, <2>2, <3>1, <3>2, <3>3, <3>4, <3>5, RequestStep
  <2>3. CASE keys[reqs[c].key] # None
    <3>1. Answer(c, 500, 0)
      BY <1>5, <2>3 DEF InsertKey
    <3> QED
      BY <2>1, <3>1, AnswerStep
  <2> QED
    BY <2>2, <2>3
<1>6. CASE Commit(c)
  <2>1. Busy(c) /\ UNCHANGED <<store, lapses>> /\ Insert(c) /\ At(c, "commit")
    BY <1>6 DEF Commit, Busy, At
  <2>2. /\ keys[reqs[c].key] = None
        /\ \A d \in Clients : d # c /\ At(d, "commit") => reqs[d].key # reqs[c].key
    BY <2>1 DEF GatewayInv, CommitsOK
  <2> QED
    BY <2>1, <2>2, InsertStep
<1>7. CASE StoreError(c)
  <2>1. Answer(c, 500, 0) /\ UNCHANGED <<store, tables>>
    BY <1>7 DEF StoreError
  <2> QED
    BY <2>1, AnswerStep
<1> QED
  BY <1>1, <1>2, <1>3, <1>4, <1>5, <1>6, <1>7 DEF Serve

LEMMA UnchangedKeeps ==
  ASSUME GatewayInv, UNCHANGED <<store, tables, reqs>>
  PROVE  GatewayInv'
BY DEF tables, GatewayInv, TablesOK, RequestsOK, CommitsOK, JobsOK, KeysOK,
       OneJobPerKey, AnswerFitsRequest, Busy, At

LEMMA PassingKeeps ==
  ASSUME GatewayInv, Passing
  PROVE  GatewayInv'
<1>1. CASE WindowEnds
  BY <1>1, UnchangedKeeps DEF WindowEnds
<1> QED
  BY <1>1, LapseStep, SettleStep DEF Passing

LEMMA GatewayStep == GatewayInv /\ [GatewayNext]_gvars => GatewayInv'
<1> SUFFICES ASSUME GatewayInv, [GatewayNext]_gvars PROVE GatewayInv'
  OBVIOUS
<1>1. CASE UNCHANGED gvars
  BY <1>1, UnchangedKeeps DEF gvars, tables
<1>2. ASSUME NEW c \in Clients, NEW b \in Bodies, NEW k \in KeysFor(b), Post(c, k, b)
      PROVE  GatewayInv'
  BY <1>2, PostKeeps DEF KeysFor
<1> QED
  BY <1>1, <1>2, ServeKeeps, ReceiveKeeps, PassingKeeps DEF GatewayNext

-----------------------------------------------------------------------------
(* The page in front of it *)

LEMMA FlowStep == GatewayInv /\ [Next]_vars => GatewayInv'
<1> SUFFICES ASSUME GatewayInv, [Next]_vars PROVE GatewayInv'
  OBVIOUS
<1>1. ASSUME NEW c \in Clients, NEW b \in Bodies, Submit(c, b)
      PROVE  GatewayInv'
  <2>1. KeyOf(b) \in Keys
    BY DEF KeyOf, Keys
  <2> QED
    BY <1>1, <2>1, PostKeeps DEF Submit
<1>2. CASE Accepted \/ Refused
  BY <1>2, ReceiveKeeps DEF Accepted, Refused
<1>3. ASSUME UNCHANGED gvars PROVE GatewayInv'
  BY <1>3, UnchangedKeeps DEF gvars, tables
<1>4. CASE Disconnected \/ StartPolling \/ Tick \/ Reload
  BY <1>3, <1>4 DEF Disconnected, StartPolling, Tick, Reload
<1>5. ASSUME NEW i \in DOMAIN polls, Report(i) \/ Show(i) \/ PollFails(i)
      PROVE  GatewayInv'
  BY <1>3, <1>5 DEF Report, Show, PollFails
<1>6. CASE Others
  <2>1. ASSUME NEW c \in Clients, NEW b \in Bodies, NEW k \in KeysFor(b), Post(c, k, b)
        PROVE  GatewayInv'
    BY <2>1, PostKeeps DEF KeysFor
  <2> QED
    BY <1>6, <2>1, ReceiveKeeps, ServeKeeps, PassingKeeps DEF Others
<1>7. CASE UNCHANGED vars
  BY <1>3, <1>7 DEF vars
<1> QED
  BY <1>1, <1>2, <1>4, <1>5, <1>6, <1>7 DEF Next, Page

\* Within the lifetime of an idempotency key no two jobs are created for it, by
\* however many servers, in either store (createIdempotentJob in
\* job-store-sqlite.ts and job-store-postgres.ts).
THEOREM FlowOneJobPerKey == Spec => []OneJobPerKey
<1>1. GatewayInv => OneJobPerKey
  BY DEF GatewayInv
<1>2. Init => GatewayInv
  BY GatewayInitial DEF Init
<1> QED
  BY <1>1, <1>2, FlowStep, PTL DEF Spec

\* An accepted request is answered with a job for its own body, created for it or
\* replayed (createIdempotentJob, the answers of batch-submit/route.ts).
THEOREM FlowAnswerFitsRequest == Spec => []AnswerFitsRequest
<1>1. GatewayInv => AnswerFitsRequest
  BY DEF GatewayInv
<1>2. Init => GatewayInv
  BY GatewayInitial DEF Init
<1> QED
  BY <1>1, <1>2, FlowStep, PTL DEF Spec

\* The gateway keeps both promises on its own, whatever stands in front of it.
THEOREM GatewayPromises == GatewaySpec => [](OneJobPerKey /\ AnswerFitsRequest)
<1>1. GatewayInv => OneJobPerKey /\ AnswerFitsRequest
  BY DEF GatewayInv
<1> QED
  BY <1>1, GatewayInitial, GatewayStep, PTL DEF GatewaySpec

-----------------------------------------------------------------------------
(* The rate limiter *)

Bucket == [remaining : 0..Limit, live : BOOLEAN]

\* What has been admitted and what remains make up the limit.
LimitInv ==
    /\ admitted \in Nat
    /\ bucket \in Bucket \union {None}
    /\ reqs \in [Clients -> Request]
    /\ bucket = None => admitted = 0
    /\ \A c \in Clients : At(c, "count") => bucket # None
    /\ bucket # None => admitted + bucket.remaining = Limit

LEMMA LimitInit == GatewayInit => LimitInv
<1> SUFFICES ASSUME GatewayInit PROVE LimitInv
  OBVIOUS
<1>1. admitted \in 0..Limit /\ Limit \in Nat
  BY GatewayAssumption DEF GatewayInit
<1>2. reqs \in [Clients -> Request] /\ \A c \in Clients : At(c, "idle")
  BY DEF GatewayInit, NoRequest, Request, At
<1>3. CASE admitted = 0
  BY <1>1, <1>2, <1>3 DEF GatewayInit, LimitInv, At
<1>4. CASE admitted # 0
  <2> DEFINE b == [remaining |-> Limit - admitted, live |-> TRUE]
  <2>1. bucket = b /\ b \in Bucket /\ b.remaining = Limit - admitted
    BY <1>1, <1>4 DEF GatewayInit, Bucket
  <2>2. b # None
    BY <2>1, GatewayAssumption DEF Bucket
  <2> HIDE DEF b
  <2>3. admitted + bucket.remaining = Limit
    BY <1>1, <2>1
  <2>4. bucket # None /\ bucket \in Bucket
    BY <2>1, <2>2
  <2>5. \A c \in Clients : ~At(c, "count")
    BY <1>2 DEF At
  <2> QED
    BY <1>1, <1>2, <2>3, <2>4, <2>5 DEF LimitInv
<1> QED
  BY <1>3, <1>4

\* A step that counts nothing.
LEMMA LimitIdle ==
  ASSUME LimitInv, UNCHANGED rate, reqs' \in [Clients -> Request],
         \A c \in Clients : reqs'[c].pc = "count" => reqs'[c] = reqs[c]
  PROVE  LimitInv'
BY DEF LimitInv, rate, At

\* One request goes to a new place.
LEMMA GotoPlaces ==
  ASSUME reqs \in [Clients -> Request], NEW c \in Clients, NEW pc \in Pcs, Goto(c, pc)
  PROVE  /\ reqs' \in [Clients -> Request]
         /\ \A d \in Clients : reqs'[d].pc = IF d = c THEN pc ELSE reqs[d].pc
         /\ \A d \in Clients : d # c => reqs'[d] = reqs[d]
<1> DEFINE r == [reqs[c] EXCEPT !.pc = pc]
<1>1. r \in Request /\ r.pc = pc
  BY DEF Request, Pcs
<1>2. reqs' = [reqs EXCEPT ![c] = r]
  BY DEF Goto
<1> HIDE DEF r
<1> QED
  BY <1>1, <1>2

\* An answer counts nothing.
LEMMA LimitAnswer ==
  ASSUME LimitInv, NEW c \in Clients, NEW code \in {0, 202, 409, 429, 500},
         NEW job \in Nat, Answer(c, code, job), UNCHANGED rate
  PROVE  LimitInv'
<1> DEFINE r == Answered(c, code, job)
<1>1. r \in Request /\ reqs' = [reqs EXCEPT ![c] = r]
  <2>1. reqs \in [Clients -> Request]
    BY DEF LimitInv
  <2> QED
    BY <2>1, AnsweredRecord
<1>2. r.pc = "answered"
  BY DEF Answered
<1> HIDE DEF r
<1> QED
  BY <1>1, <1>2, LimitIdle DEF LimitInv

\* A request is admitted, by the bucket as it is, or by a new window.
LEMMA LimitCounts ==
  ASSUME LimitInv, NEW c \in Clients, Goto(c, "create"), Counted,
         bucket # None, bucket.remaining > 0
  PROVE  LimitInv'
<1> DEFINE b == [bucket EXCEPT !.remaining = @ - 1]
<1>1. bucket \in Bucket /\ admitted \in Nat /\ reqs \in [Clients -> Request]
      /\ Limit \in Nat
  BY GatewayAssumption DEF LimitInv
<1>2. b \in Bucket /\ b.remaining = bucket.remaining - 1
  BY <1>1 DEF Bucket
<1>3. b # None
  BY <1>2, GatewayAssumption DEF Bucket
<1>4. bucket' = b /\ admitted' = admitted + 1
  BY DEF Counted
<1> HIDE DEF b
<1>5. reqs' \in [Clients -> Request]
  BY <1>1, GotoPlaces DEF Pcs
<1>6. admitted' + bucket'.remaining = Limit
  BY <1>1, <1>2, <1>4 DEF LimitInv, Bucket
<1> QED
  BY <1>1, <1>2, <1>3, <1>4, <1>5, <1>6 DEF LimitInv

LEMMA LimitOpens ==
  ASSUME LimitInv, NEW c \in Clients, NewWindow, Goto(c, "create")
  PROVE  LimitInv'
<1> DEFINE b == [remaining |-> Limit - 1, live |-> TRUE]
<1>1. reqs \in [Clients -> Request] /\ Limit \in Nat \ {0}
  BY GatewayAssumption DEF LimitInv
<1>2. b \in Bucket /\ b.remaining = Limit - 1
  BY <1>1 DEF Bucket
<1>3. b # None
  BY <1>2, GatewayAssumption DEF Bucket
<1>4. bucket' = b /\ admitted' = 1
  BY DEF NewWindow
<1> HIDE DEF b
<1>5. reqs' \in [Clients -> Request]
  BY <1>1, GotoPlaces DEF Pcs
<1>6. admitted' + bucket'.remaining = Limit
  BY <1>1, <1>2, <1>4
<1> QED
  BY <1>2, <1>3, <1>4, <1>5, <1>6 DEF LimitInv

LEMMA LimitServe ==
  ASSUME GatewayInv, LimitInv, NEW c \in Clients, Serve(c)
  PROVE  LimitInv'
<1>1. bucket \in Bucket \union {None} /\ reqs \in [Clients -> Request]
  BY DEF LimitInv
<1>2. CASE CheckLimit(c)
  <2>1. CASE NewWindow /\ Goto(c, "create")
    BY <2>1, LimitOpens
  <2>2. CASE Answer(c, 429, 0) /\ UNCHANGED rate
    BY <2>2, LimitAnswer
  <2>3. CASE WindowOpen /\ bucket.remaining > 0 /\ Counted /\ Goto(c, "create")
    BY <2>3, LimitCounts DEF WindowOpen
  <2>4. CASE WindowOpen /\ Goto(c, "count") /\ UNCHANGED rate
    <3>1. /\ reqs' \in [Clients -> Request]
          /\ \A d \in Clients : reqs'[d].pc = IF d = c THEN "count" ELSE reqs[d].pc
      BY <1>1, <2>4, GotoPlaces DEF Pcs
    <3> QED
      BY <2>4, <3>1 DEF LimitInv, WindowOpen, rate, At
  <2> QED
    BY <1>2, <2>1, <2>2, <2>3, <2>4 DEF CheckLimit
<1>3. CASE Count(c)
  <2>1. bucket # None
    BY <1>3 DEF Count, LimitInv
  <2>2. CASE bucket.remaining > 0
    BY <1>3, <2>1, <2>2, LimitCounts DEF Count
  <2>3. CASE ~(bucket.remaining > 0)
    BY <1>3, <2>3, LimitAnswer DEF Count
  <2> QED
    BY <2>2, <2>3
<1>4. ASSUME NEW pc \in {"insert", "commit"}, Goto(c, pc), UNCHANGED rate
      PROVE  LimitInv'
  <2>1. /\ reqs' \in [Clients -> Request]
        /\ \A d \in Clients : reqs'[d].pc = IF d = c THEN pc ELSE reqs[d].pc
        /\ \A d \in Clients : d # c => reqs'[d] = reqs[d]
    BY <1>1, <1>4, GotoPlaces DEF Pcs
  <2> QED
    BY <1>4, <2>1, LimitIdle
<1>5. ASSUME NEW code \in {0, 202, 409, 429, 500}, NEW job \in Nat,
             Answer(c, code, job), UNCHANGED rate
      PROVE  LimitInv'
  BY <1>5, LimitAnswer
<1>6. jobs \in Seq(Job) /\ Len(jobs) + 1 \in Nat
  BY DEF GatewayInv, TablesOK
<1>7. ASSUME AnswerFound(c), keys[reqs[c].key] # None, Busy(c), UNCHANGED rate
      PROVE  LimitInv'
  <2>1. keys[reqs[c].key] \in Row
    BY <1>7 DEF GatewayInv, TablesOK, RequestsOK
  <2>2. keys[reqs[c].key].job \in Nat
    BY <2>1 DEF Row
  <2> QED
    BY <1>5, <1>7, <2>2 DEF AnswerFound
<1>8. CASE Create(c)
  <2>1. UNCHANGED rate /\ Busy(c)
    BY <1>8 DEF Create, Busy, At
  <2>2. CASE keys[reqs[c].key] = None
    BY <1>5, <1>6, <1>8, <2>1, <2>2 DEF Create, Insert
  <2>3. CASE keys[reqs[c].key] # None
    BY <1>7, <1>8, <2>1, <2>3 DEF Create
  <2> QED
    BY <2>2, <2>3
<1>9. CASE Lookup(c)
  <2>1. UNCHANGED rate /\ Busy(c)
    BY <1>9 DEF Lookup, Busy, At
  <2>2. CASE keys[reqs[c].key] = None
    BY <1>4, <1>9, <2>1, <2>2 DEF Lookup
  <2>3. CASE keys[reqs[c].key] # None
    BY <1>7, <1>9, <2>1, <2>3 DEF Lookup
  <2> QED
    BY <2>2, <2>3
<1>10. CASE InsertKey(c)
  BY <1>4, <1>5, <1>10 DEF InsertKey
<1>11. CASE Commit(c)
  BY <1>5, <1>6, <1>11 DEF Commit, Insert
<1>12. CASE StoreError(c)
  BY <1>5, <1>12 DEF StoreError
<1> QED
  BY <1>2, <1>3, <1>8, <1>9, <1>10, <1>11, <1>12 DEF Serve

LEMMA LimitPost ==
  ASSUME LimitInv, NEW c \in Clients, NEW k \in Keys, NEW b \in Bodies, Post(c, k, b)
  PROVE  LimitInv'
<1> DEFINE r == [NoRequest EXCEPT !.pc = "limit", !.key = k, !.body = b]
<1>1. r \in Request /\ r.pc = "limit"
  BY DEF NoRequest, Request
<1>2. reqs' = [reqs EXCEPT ![c] = r] /\ UNCHANGED rate
  BY DEF Post
<1> HIDE DEF r
<1> QED
  BY <1>1, <1>2, LimitIdle DEF LimitInv

LEMMA LimitReceive ==
  ASSUME LimitInv, NEW c, Receive(c)
  PROVE  LimitInv'
<1>1. NoRequest \in Request /\ NoRequest.pc = "idle"
  BY DEF NoRequest, Request
<1>2. reqs' = [reqs EXCEPT ![c] = NoRequest] /\ UNCHANGED rate
  BY DEF Receive
<1> QED
  BY <1>1, <1>2, LimitIdle DEF LimitInv

LEMMA LimitPassing ==
  ASSUME LimitInv, Passing
  PROVE  LimitInv'
<1>1. CASE WindowEnds
  <2> DEFINE b == [bucket EXCEPT !.live = FALSE]
  <2>1. bucket \in Bucket /\ bucket # None
    BY <1>1 DEF WindowEnds, WindowOpen, LimitInv
  <2>2. b \in Bucket /\ b.remaining = bucket.remaining
    BY <2>1 DEF Bucket
  <2>3. b # None
    BY <2>2, GatewayAssumption DEF Bucket
  <2>4. bucket' = b
    BY <1>1 DEF WindowEnds
  <2> HIDE DEF b
  <2> QED
    BY <1>1, <2>1, <2>2, <2>3, <2>4 DEF WindowEnds, LimitInv, At
<1>2. ASSUME UNCHANGED <<store, rate, reqs>> PROVE LimitInv'
  BY <1>2, LimitIdle DEF LimitInv
<1> QED
  BY <1>1, <1>2 DEF Passing, Lapse, Settle

LEMMA LimitStep == GatewayInv /\ LimitInv /\ [Next]_vars => LimitInv'
<1> SUFFICES ASSUME GatewayInv, LimitInv, [Next]_vars PROVE LimitInv'
  OBVIOUS
<1>1. ASSUME NEW c \in Clients, NEW b \in Bodies, Submit(c, b)
      PROVE  LimitInv'
  <2>1. KeyOf(b) \in Keys
    BY DEF KeyOf, Keys
  <2> QED
    BY <1>1, <2>1, LimitPost DEF Submit
<1>2. CASE Accepted \/ Refused
  BY <1>2, LimitReceive DEF Accepted, Refused
<1>3. ASSUME UNCHANGED gvars PROVE LimitInv'
  BY <1>3, LimitIdle DEF gvars, LimitInv, rate
<1>4. CASE Disconnected \/ StartPolling \/ Tick \/ Reload
  BY <1>3, <1>4 DEF Disconnected, StartPolling, Tick, Reload
<1>5. ASSUME NEW i \in DOMAIN polls, Report(i) \/ Show(i) \/ PollFails(i)
      PROVE  LimitInv'
  BY <1>3, <1>5 DEF Report, Show, PollFails
<1>6. CASE Others
  <2>1. ASSUME NEW c \in Clients, NEW b \in Bodies, NEW k \in KeysFor(b), Post(c, k, b)
        PROVE  LimitInv'
    BY <2>1, LimitPost DEF KeysFor
  <2> QED
    BY <1>6, <2>1, LimitReceive, LimitServe, LimitPassing DEF Others
<1>7. CASE UNCHANGED vars
  BY <1>3, <1>7 DEF vars
<1> QED
  BY <1>1, <1>2, <1>4, <1>5, <1>6, <1>7 DEF Next, Page

\* No window admits more than the limit, however many requests are between the
\* check and the count (consumeRateLimit in rate-limit-sqlite.ts and
\* rate-limit-redis.ts).
THEOREM FlowLimitHolds == Spec => []LimitHolds
<1>1. LimitInv => LimitHolds
  <2> SUFFICES ASSUME LimitInv PROVE admitted <= Limit
    BY DEF LimitHolds
  <2>1. CASE bucket = None
    BY <2>1, GatewayAssumption DEF LimitInv
  <2>2. CASE bucket # None
    <3>1. bucket.remaining \in 0..Limit /\ admitted \in Nat /\ Limit \in Nat
      BY <2>2, GatewayAssumption DEF LimitInv, Bucket
    <3> QED
      BY <2>2, <3>1 DEF LimitInv
  <2> QED
    BY <2>1, <2>2
<1>2. Init => GatewayInv /\ LimitInv
  BY GatewayInitial, LimitInit DEF Init
<1> QED
  BY <1>1, <1>2, FlowStep, LimitStep, PTL DEF Spec

-----------------------------------------------------------------------------
(* The page's own promises *)

Poll == [job : 1..Len(jobs), got : Statuses \union {None}, current : BOOLEAN]

\* The page's own types, and what the gateway's counters add to its tables.
PageTypes ==
    /\ store \in {"sqlite", "postgres"} /\ posts \in 0..MaxPosts
    /\ page \in [job : 0..Len(jobs), shown : Statuses, submitting : BOOLEAN,
                 post : Clients \union {None}, waiting : BOOLEAN,
                 timer : 0..Len(jobs), errors : 0..ErrorLimit - 1]
    /\ polls \in Seq(Poll)
    /\ Len(polls) <= MaxPolls
    /\ troubled \in BOOLEAN

\* An answer that says a job has ended stays true.
PollsAgree ==
    \A i \in DOMAIN polls : polls[i].got \in {"completed", "failed"} =>
        jobs[polls[i].job].status = polls[i].got

\* Until the first mishap one poll at a time is under way, of the job shown, and
\* the page is in one of its phases: nothing submitted, waiting for the answer,
\* waiting for a session, polling.
InPhase == ~troubled =>
    /\ Len(polls) <= 1
    /\ polls # <<>> => page.timer # 0 /\ polls[1].job = page.timer
    /\ page.timer # 0 => page.timer = page.job /\ page.shown = "active"
    /\ Awaiting \/ page.waiting => page.timer = 0 /\ polls = <<>>
    /\ Awaiting => page.job = 0 \/ page.shown # "active"
    /\ page.waiting => page.job # 0 /\ page.shown = "active"

PageInv ==
    /\ GatewayInv /\ PageTypes /\ PollsAgree /\ InPhase
    /\ ShownIsReached /\ BlockIsWatched

\* jobs are only added, and stay ended.
Grown ==
    /\ Len(jobs) \in Nat /\ Len(jobs') \in Nat /\ Len(jobs) <= Len(jobs')
    /\ \A j \in 1..Len(jobs) : jobs[j].status # "active" => jobs'[j].status = jobs[j].status

\* A list without its i-th element: one shorter, of the same elements.
LEMMA WithoutOne ==
  ASSUME NEW S, NEW s \in Seq(S), NEW i \in DOMAIN s
  PROVE  /\ Without(s, i) \in Seq(S)
         /\ Len(Without(s, i)) = Len(s) - 1
         /\ \A n \in DOMAIN Without(s, i) : \E m \in DOMAIN s : Without(s, i)[n] = s[m]
<1> DEFINE a == SubSeq(s, 1, i - 1)
           b == SubSeq(s, i + 1, Len(s))
<1>1. i \in 1..Len(s) /\ Len(s) \in Nat /\ i - 1 \in 0..Len(s) /\ i + 1 \in 1..Len(s) + 1
  OBVIOUS
<1>2. a \in Seq(S) /\ Len(a) = i - 1 /\ \A n \in 1..i - 1 : a[n] = s[n]
  BY <1>1
<1>3. /\ b \in Seq(S) /\ Len(b) = Len(s) - i
      /\ \A n \in 1..Len(s) - i : b[n] = s[n + i]
  BY <1>1
<1> HIDE DEF a, b
<1> DEFINE t == a \o b
<1>4. /\ t \in Seq(S) /\ Len(t) = Len(s) - 1 /\ DOMAIN t = 1..Len(s) - 1
      /\ \A n \in 1..Len(s) - 1 : t[n] = IF n <= i - 1 THEN a[n] ELSE b[n - (i - 1)]
  BY <1>1, <1>2, <1>3
<1>5. \A n \in 1..Len(s) - 1 : \E m \in DOMAIN s : t[n] = s[m]
  <2> SUFFICES ASSUME NEW n \in 1..Len(s) - 1 PROVE \E m \in DOMAIN s : t[n] = s[m]
    OBVIOUS
  <2>1. CASE n <= i - 1
    BY <1>1, <1>2, <1>4, <2>1
  <2>2. CASE ~(n <= i - 1)
    <3>1. n - (i - 1) \in 1..Len(s) - i /\ n + 1 \in DOMAIN s
      BY <1>1, <2>2
    <3> DEFINE k == n - (i - 1)
    <3>2. k + i = n + 1 /\ k \in 1..Len(s) - i
      BY <1>1, <3>1
    <3>3. t[n] = b[k]
      BY <1>4, <2>2
    <3> HIDE DEF k
    <3>4. b[k] = s[k + i]
      BY <1>3, <3>2
    <3> QED BY <3>1, <3>2, <3>3, <3>4
  <2> QED BY <2>1, <2>2
<1>6. Without(s, i) = t
  BY DEF Without, t, a, b
<1> HIDE DEF t
<1> QED BY <1>4, <1>5, <1>6

\* What stopPolling leaves of the polls under way is some of them.
LEMMA UnabortedSome ==
  ASSUME NEW S, NEW s \in Seq(S)
  PROVE  /\ Unaborted(s) \in Seq(S)
         /\ Len(Unaborted(s)) <= Len(s)
         /\ \A n \in DOMAIN Unaborted(s) : \E m \in DOMAIN s : Unaborted(s)[n] = s[m]
<1>1. CASE \E i \in DOMAIN s : s[i].current
  <2> DEFINE i == CHOOSE j \in DOMAIN s : s[j].current
  <2>1. i \in DOMAIN s /\ Unaborted(s) = Without(s, i)
    BY <1>1 DEF Unaborted
  <2> HIDE DEF i
  <2>2. /\ Without(s, i) \in Seq(S)
        /\ Len(Without(s, i)) = Len(s) - 1
        /\ \A n \in DOMAIN Without(s, i) : \E m \in DOMAIN s : Without(s, i)[n] = s[m]
    BY <2>1, WithoutOne
  <2> QED BY <2>1, <2>2
<1>2. CASE ~\E i \in DOMAIN s : s[i].current
  <2>1. Unaborted(s) = s
    BY <1>2 DEF Unaborted
  <2> QED BY <2>1
<1> QED BY <1>1, <1>2

\* The jobs table in the gateway's invariant.
LEMMA TypesOfJobs ==
  ASSUME GatewayInv
  PROVE  jobs \in Seq(Job) /\ Len(jobs) \in Nat /\ DOMAIN jobs = 1..Len(jobs)
BY DEF GatewayInv, TablesOK

\* A step that leaves the jobs alone.
LEMMA SameJobs ==
  ASSUME GatewayInv, UNCHANGED jobs
  PROVE  Grown
BY TypesOfJobs DEF Grown

\* The creation of a job.
LEMMA InsertGrows ==
  ASSUME GatewayInv, NEW c \in Clients, Busy(c), Insert(c)
  PROVE  Grown
<1> DEFINE job == [key |-> reqs[c].key, body |-> reqs[c].body, life |-> lapses[reqs[c].key],
                   status |-> "active"]
<1>1. job \in Job
  BY DEF Job, GatewayInv, TablesOK, RequestsOK
<1>2. jobs' = Append(jobs, job)
  BY DEF Insert
<1> HIDE DEF job
<1> QED BY <1>1, <1>2, TypesOfJobs DEF Grown

\* The gateway's steps for a request ...
LEMMA ServeGrows ==
  ASSUME GatewayInv, NEW c \in Clients, Serve(c)
  PROVE  Grown /\ UNCHANGED <<store, posts>>
<1>1. UNCHANGED <<store, posts>>
  BY DEF Serve, CheckLimit, Count, Create, Lookup, InsertKey, Commit, StoreError
<1>2. CASE UNCHANGED jobs
  BY <1>1, <1>2, SameJobs
<1>3. CASE Busy(c) /\ Insert(c)
  BY <1>1, <1>3, InsertGrows
<1> QED
  BY <1>1, <1>2, <1>3 DEF Serve, CheckLimit, Count, Create, Lookup, InsertKey, Commit,
     StoreError, tables, Busy, At

\* ... and those of time and of the workers ...
LEMMA PassingGrows ==
  ASSUME GatewayInv, Passing
  PROVE  Grown /\ UNCHANGED <<store, posts>>
<1>1. UNCHANGED <<store, posts>>
  BY DEF Passing, WindowEnds, Lapse, Settle
<1>2. CASE UNCHANGED jobs
  BY <1>1, <1>2, SameJobs
<1>3. ASSUME NEW j \in DOMAIN jobs, Settle(j)
      PROVE  Grown
  <2>1. PICK s \in {"completed", "failed"} : jobs' = [jobs EXCEPT ![j].status = s]
    BY <1>3 DEF Settle
  <2>2. jobs[j].status = "active"
    BY <1>3 DEF Settle
  <2>3. /\ Len(jobs') = Len(jobs) /\ \A i \in 1..Len(jobs) : i # j => jobs'[i] = jobs[i]
    BY <2>1, TypesOfJobs
  <2> QED BY <2>2, <2>3, TypesOfJobs DEF Grown
<1> QED BY <1>1, <1>2, <1>3 DEF Passing, WindowEnds, Lapse, tables

\* ... a request sent ...
LEMMA PostGrows ==
  ASSUME GatewayInv, PageTypes, NEW c \in Clients, NEW k, NEW b, Post(c, k, b)
  PROVE  Grown /\ store' = store /\ posts' \in 0..MaxPosts
<1>1. UNCHANGED <<store, jobs>> /\ posts < MaxPosts /\ posts' = posts + 1
  BY DEF Post, tables
<1> QED BY <1>1, SameJobs, GatewayAssumption DEF PageTypes

\* ... and an answer received.
LEMMA ReceiveGrows ==
  ASSUME GatewayInv, NEW c, Receive(c)
  PROVE  Grown /\ UNCHANGED <<store, posts>>
BY SameJobs DEF Receive, tables

\* A poll under way asks for a job that exists.
LEMMA PollsTyped ==
  ASSUME PageTypes
  PROVE  \A i \in DOMAIN polls : polls[i] \in Poll /\ polls[i].job \in 1..Len(jobs)
<1>1. \A i \in DOMAIN polls : polls[i] \in Poll
  BY DEF PageTypes
<1> QED BY <1>1 DEF Poll

\* The page stands still while others act.
LEMMA OthersKeep ==
  ASSUME PageInv, GatewayInv', Grown, UNCHANGED <<page, polls, troubled>>,
         store' = store, posts' \in 0..MaxPosts
  PROVE  PageInv'
<1>1. PageTypes'
  <2>1. \A q \in Poll : q \in Poll'
    BY DEF Grown, Poll
  <2>2. polls' \in Seq(Poll')
    BY <2>1 DEF PageInv, PageTypes
  <2> QED BY <2>2 DEF PageInv, PageTypes, Grown
<1>2. \A i \in DOMAIN polls : polls[i].job \in 1..Len(jobs)
  BY PollsTyped DEF PageInv
<1>3. PollsAgree'
  BY <1>2 DEF PageInv, PollsAgree, Grown
<1>4. InPhase' /\ BlockIsWatched'
  BY DEF PageInv, InPhase, Awaiting, BlockIsWatched, Blocked
<1>5. ShownIsReached'
  <2>1. page.job \in 0..Len(jobs) /\ page.shown \in Statuses
    BY DEF PageInv, PageTypes
  <2> QED BY <2>1 DEF PageInv, ShownIsReached, Grown, Statuses
<1> QED BY <1>1, <1>3, <1>4, <1>5 DEF PageInv

PageRec == [job : 0..Len(jobs), shown : Statuses, submitting : BOOLEAN,
            post : Clients \union {None}, waiting : BOOLEAN,
            timer : 0..Len(jobs), errors : 0..ErrorLimit - 1]

\* stopPolling touches the interval and the count of errors only.
LEMMA StoppedRec ==
  ASSUME GatewayInv, page \in PageRec
  PROVE  /\ Stopped \in PageRec /\ Stopped.job = page.job /\ Stopped.shown = page.shown
         /\ Stopped.submitting = page.submitting /\ Stopped.post = page.post
         /\ Stopped.waiting = page.waiting /\ Stopped.timer = 0
<1>1. 0 \in 0..Len(jobs) /\ 0 \in 0..ErrorLimit - 1
  BY TypesOfJobs, FlowAssumption
<1> DEFINE x == [page EXCEPT !.timer = 0]
<1>2. /\ x \in PageRec /\ x.job = page.job /\ x.shown = page.shown
      /\ x.submitting = page.submitting /\ x.post = page.post
      /\ x.waiting = page.waiting /\ x.timer = 0
  BY <1>1 DEF PageRec
<1>3. Stopped = [x EXCEPT !.errors = 0]
  BY DEF Stopped
<1> HIDE DEF x
<1> QED BY <1>1, <1>2, <1>3 DEF PageRec

\* A submission starts from a page nothing blocks, so nothing polls.
LEMMA SubmitKeeps ==
  ASSUME PageInv, GatewayInv', NEW c \in Clients, NEW b \in Bodies, Submit(c, b)
  PROVE  PageInv'
<1>1. /\ Grown /\ jobs' = jobs /\ store' = store /\ posts' \in 0..MaxPosts
      /\ UNCHANGED <<polls, troubled>>
  BY PostGrows DEF Submit, PageInv, Post, tables
<1>2. page' = [page EXCEPT !.submitting = TRUE, !.post = c] /\ ~Blocked
  BY DEF Submit
<1>3. page \in PageRec
  BY DEF PageInv, PageTypes, PageRec
<1>4. /\ page' \in PageRec /\ page'.submitting /\ page'.post = c
      /\ page'.job = page.job /\ page'.shown = page.shown /\ page'.waiting = page.waiting
      /\ page'.timer = page.timer
  BY <1>2, <1>3 DEF PageRec
<1>5. PageTypes'
  BY <1>1, <1>4 DEF PageInv, PageTypes, PageRec, Poll
<1>6. PollsAgree'
  BY <1>1 DEF PageInv, PollsAgree
<1>7. ~troubled => page.timer = 0 /\ polls = <<>> /\ ~page.waiting
  BY <1>2, <1>3 DEF PageInv, InPhase, Blocked
<1>8. InPhase'
  BY <1>1, <1>2, <1>4, <1>7 DEF PageInv, InPhase, Blocked
<1>9. ShownIsReached'
  BY <1>1, <1>4 DEF PageInv, ShownIsReached
<1>10. BlockIsWatched'
  BY <1>4, FlowAssumption DEF BlockIsWatched, Awaiting
<1> QED BY <1>5, <1>6, <1>8, <1>9, <1>10 DEF PageInv

\* The job answered with exists, and is shown as active.
LEMMA AcceptedKeeps ==
  ASSUME PageInv, GatewayInv', Accepted
  PROVE  PageInv'
<1> DEFINE j == reqs[page.post].job
<1>1. /\ jobs' = jobs /\ UNCHANGED <<store, posts, polls, troubled>>
      /\ page' = [page EXCEPT !.job = j, !.shown = "active", !.post = None, !.waiting = TRUE]
      /\ Awaiting /\ At(page.post, "answered") /\ reqs[page.post].code = 202
  BY DEF Accepted, Receive, tables
<1>2. page \in PageRec
  BY DEF PageInv, PageTypes, PageRec
<1>3. j \in 1..Len(jobs)
  <2>1. page.post \in Clients
    BY <1>1, <1>2 DEF PageRec, Awaiting
  <2> QED BY <1>1, <2>1, TypesOfJobs DEF PageInv, GatewayInv, AnswerFitsRequest
<1> HIDE DEF j
<1>4. /\ page' \in PageRec /\ page'.waiting /\ page'.post = None /\ page'.job = j
      /\ page'.shown = "active" /\ page'.timer = page.timer
  <2> DEFINE x == [page EXCEPT !.job = j, !.shown = "active"]
  <2>1. /\ x \in PageRec /\ x.job = j /\ x.shown = "active" /\ x.timer = page.timer
    <3>1. j \in 0..Len(jobs) /\ "active" \in Statuses
      BY <1>3, TypesOfJobs DEF PageInv, Statuses
    <3> QED BY <1>2, <3>1 DEF PageRec
  <2>2. page' = [x EXCEPT !.post = None, !.waiting = TRUE]
    BY <1>1
  <2> HIDE DEF x
  <2> QED BY <2>1, <2>2 DEF PageRec
<1>5. PageTypes'
  BY <1>1, <1>4 DEF PageInv, PageTypes, PageRec, Poll
<1>6. PollsAgree'
  BY <1>1 DEF PageInv, PollsAgree
<1>7. InPhase'
  BY <1>1, <1>3, <1>4 DEF PageInv, InPhase, Awaiting
<1>8. ShownIsReached' /\ BlockIsWatched'
  BY <1>4 DEF ShownIsReached, BlockIsWatched
<1> QED BY <1>5, <1>6, <1>7, <1>8 DEF PageInv

\* An answer that is no acceptance, or none, lifts the block.
LEMMA GivenUpKeeps ==
  ASSUME PageInv, GatewayInv', Refused \/ Disconnected
  PROVE  PageInv'
<1>1. /\ jobs' = jobs /\ UNCHANGED <<store, posts, polls, troubled>>
      /\ page' = [page EXCEPT !.submitting = FALSE, !.post = None]
      /\ Awaiting
  BY DEF Refused, Disconnected, Receive, gvars, tables
<1>2. page \in PageRec
  BY DEF PageInv, PageTypes, PageRec
<1>3. /\ page' \in PageRec /\ ~page'.submitting /\ page'.post = None
      /\ page'.job = page.job /\ page'.shown = page.shown /\ page'.waiting = page.waiting
      /\ page'.timer = page.timer
  BY <1>1, <1>2 DEF PageRec
<1>4. PageTypes'
  BY <1>1, <1>3 DEF PageInv, PageTypes, PageRec, Poll
<1>5. PollsAgree'
  BY <1>1 DEF PageInv, PollsAgree
<1>6. InPhase'
  BY <1>1, <1>3 DEF PageInv, InPhase, Awaiting
<1>7. ShownIsReached'
  BY <1>1, <1>3 DEF PageInv, ShownIsReached
<1>8. BlockIsWatched'
  BY <1>1, <1>3 DEF PageInv, InPhase, BlockIsWatched, Blocked
<1> QED BY <1>4, <1>5, <1>6, <1>7, <1>8 DEF PageInv

\* Polling starts for the job shown.
LEMMA StartPollingKeeps ==
  ASSUME PageInv, GatewayInv', StartPolling
  PROVE  PageInv'
<1>1. /\ jobs' = jobs /\ UNCHANGED <<store, posts, troubled>> /\ page.waiting
      /\ page' = [Stopped EXCEPT !.timer = page.job, !.waiting = FALSE]
      /\ polls' = Unaborted(polls)
  BY DEF StartPolling, gvars, tables
<1>2. page \in PageRec /\ ErrorLimit \in Nat \ {0}
  BY FlowAssumption DEF PageInv, PageTypes, PageRec
<1>3. /\ page' \in PageRec /\ ~page'.waiting /\ page'.post = page.post
      /\ page'.job = page.job /\ page'.shown = page.shown
      /\ page'.timer = page.job
  <2>1. /\ Stopped \in PageRec /\ Stopped.job = page.job /\ Stopped.shown = page.shown
        /\ Stopped.post = page.post
    BY <1>2, StoppedRec DEF PageInv
  <2> QED BY <1>1, <1>2, <2>1 DEF PageRec
<1>4. /\ polls' \in Seq(Poll) /\ Len(polls') <= Len(polls)
      /\ \A n \in DOMAIN polls' : \E m \in DOMAIN polls : polls'[n] = polls[m]
  <2>1. polls \in Seq(Poll)
    BY DEF PageInv, PageTypes
  <2> QED BY <1>1, <2>1, UnabortedSome
<1>5. PageTypes'
  <2>1. Len(polls) <= MaxPolls /\ Len(polls) \in Nat /\ Len(polls') \in Nat /\ MaxPolls \in Nat
    BY <1>4, FlowAssumption DEF PageInv, PageTypes
  <2> QED BY <1>1, <1>3, <1>4, <2>1 DEF PageInv, PageTypes, PageRec, Poll
<1>6. PollsAgree'
  BY <1>1, <1>4 DEF PageInv, PollsAgree
<1>7. ~troubled => polls' = <<>> /\ ~Awaiting /\ page.job # 0 /\ page.shown = "active"
  <2>1. ASSUME ~troubled PROVE polls = <<>> /\ ~Awaiting /\ page.job # 0 /\ page.shown = "active"
    BY <1>1, <2>1 DEF PageInv, InPhase
  <2>2. Unaborted(<<>>) = <<>>
    BY DEF Unaborted
  <2> QED BY <1>1, <2>1, <2>2
<1>8. InPhase'
  BY <1>1, <1>3, <1>7 DEF InPhase, Awaiting
<1>9. ShownIsReached'
  BY <1>1, <1>3, <1>7 DEF ShownIsReached
<1>10. BlockIsWatched'
  BY <1>1, <1>3, <1>7 DEF BlockIsWatched
<1> QED BY <1>5, <1>6, <1>8, <1>9, <1>10 DEF PageInv

\* A poll is sent: the only one, or the page is troubled from here on.
LEMMA TickKeeps ==
  ASSUME PageInv, GatewayInv', Tick
  PROVE  PageInv'
<1> DEFINE old == [i \in DOMAIN polls |-> [polls[i] EXCEPT !.current = FALSE]]
           new == [job |-> page.timer, got |-> None, current |-> TRUE]
<1>1. /\ UNCHANGED <<store, jobs, posts, page>> /\ page.timer # 0 /\ Len(polls) < MaxPolls
      /\ polls' = Append(old, new)
      /\ troubled' = (troubled \/ polls # <<>>)
  BY DEF Tick, gvars, tables
<1>2. /\ polls \in Seq(Poll) /\ Len(polls) \in Nat
      /\ \A i \in 1..Len(polls) : polls[i] \in Poll
  BY DEF PageInv, PageTypes
<1>3. /\ old \in Seq(Poll) /\ Len(old) = Len(polls)
      /\ \A i \in 1..Len(polls) : old[i].job = polls[i].job /\ old[i].got = polls[i].got
  <2>1. \A i \in 1..Len(polls) : /\ old[i] \in Poll /\ old[i].job = polls[i].job
                                 /\ old[i].got = polls[i].got
    <3> SUFFICES ASSUME NEW i \in 1..Len(polls)
                 PROVE  /\ old[i] \in Poll /\ old[i].job = polls[i].job
                        /\ old[i].got = polls[i].got
      OBVIOUS
    <3>1. i \in DOMAIN polls /\ polls[i] \in Poll
      BY <1>2
    <3>2. old[i] = [polls[i] EXCEPT !.current = FALSE]
      BY <3>1
    <3> HIDE DEF old
    <3> QED BY <3>1, <3>2 DEF Poll
  <2>2. old \in [1..Len(polls) -> Poll]
    <3>1. DOMAIN polls = 1..Len(polls)
      BY <1>2
    <3> DEFINE f(i) == [polls[i] EXCEPT !.current = FALSE]
    <3>2. old = [i \in 1..Len(polls) |-> f(i)]
      BY <3>1
    <3>3. \A i \in 1..Len(polls) : f(i) \in Poll
      BY <2>1, <3>2
    <3> HIDE DEF f, old
    <3> QED BY <3>2, <3>3
  <2> HIDE DEF old
  <2> QED BY <1>2, <2>1, <2>2
<1>4. new \in Poll /\ new.job = page.timer /\ new.got = None
  BY <1>1, TypesOfJobs DEF PageInv, PageTypes, Poll
<1> HIDE DEF old, new
<1>5. /\ polls' \in Seq(Poll) /\ Len(polls') = Len(polls) + 1 /\ DOMAIN polls' = 1..Len(polls) + 1
      /\ polls'[Len(polls) + 1] = new
      /\ \A i \in 1..Len(polls) : polls'[i] = old[i]
  BY <1>1, <1>2, <1>3, <1>4
<1>6. PageTypes'
  <2>1. Len(polls') <= MaxPolls
    BY <1>1, <1>2, <1>5, FlowAssumption
  <2> QED BY <1>1, <1>5, <2>1 DEF PageInv, PageTypes, Poll
<1>7. PollsAgree'
  <2> SUFFICES ASSUME NEW i \in 1..Len(polls) + 1, polls'[i].got \in {"completed", "failed"}
               PROVE  jobs[polls'[i].job].status = polls'[i].got
    BY <1>1, <1>5 DEF PollsAgree
  <2>1. i \in 1..Len(polls)
    BY <1>2, <1>4, <1>5, FlowAssumption
  <2>2. polls'[i].job = polls[i].job /\ polls'[i].got = polls[i].got
    BY <1>3, <1>5, <2>1
  <2> QED BY <1>2, <2>1, <2>2 DEF PageInv, PollsAgree
<1>8. InPhase'
  <2> SUFFICES ASSUME ~troubled, polls = <<>>
               PROVE  /\ Len(polls') <= 1 /\ polls'[1].job = page.timer
                      /\ page.timer = page.job /\ page.shown = "active"
                      /\ ~(Awaiting \/ page.waiting)
    BY <1>1 DEF InPhase, Awaiting
  <2> QED BY <1>1, <1>4, <1>5 DEF PageInv, InPhase
<1>9. ShownIsReached' /\ BlockIsWatched'
  BY <1>1 DEF PageInv, ShownIsReached, BlockIsWatched, Blocked, Awaiting
<1> QED BY <1>6, <1>7, <1>8, <1>9 DEF PageInv

\* A poll is answered with what the job is at the moment.
LEMMA ReportKeeps ==
  ASSUME PageInv, GatewayInv', NEW i \in DOMAIN polls, Report(i)
  PROVE  PageInv'
<1> DEFINE q == [polls[i] EXCEPT !.got = jobs[polls[i].job].status]
<1>1. /\ UNCHANGED <<store, jobs, posts, page, troubled>> /\ polls' = [polls EXCEPT ![i] = q]
  BY DEF Report, gvars, tables
<1>2. polls \in Seq(Poll) /\ polls[i] \in Poll /\ polls[i].job \in 1..Len(jobs)
  BY PollsTyped DEF PageInv, PageTypes
<1>3. q \in Poll /\ q.job = polls[i].job /\ q.got = jobs[polls[i].job].status
  <2>1. jobs[polls[i].job] \in Job
    BY <1>2, TypesOfJobs DEF PageInv
  <2>2. jobs[polls[i].job].status \in Statuses
    BY <2>1 DEF Job, Statuses
  <2> QED BY <1>2, <2>2 DEF Poll
<1> HIDE DEF q
<1>4. /\ polls' \in Seq(Poll) /\ Len(polls') = Len(polls) /\ DOMAIN polls' = DOMAIN polls
      /\ \A n \in DOMAIN polls : polls'[n] = IF n = i THEN q ELSE polls[n]
  BY <1>1, <1>2, <1>3
<1>5. PageTypes'
  BY <1>1, <1>4 DEF PageInv, PageTypes, Poll
<1>6. PollsAgree'
  BY <1>1, <1>3, <1>4 DEF PageInv, PollsAgree
<1>7. InPhase'
  <2>1. polls' # <<>> => polls # <<>> /\ (~troubled => polls'[1].job = polls[1].job)
    <3>1. polls # <<>> /\ 1 \in DOMAIN polls
      BY <1>2
    <3> QED BY <1>3, <1>4, <3>1
  <2>2. polls # <<>>
    BY <1>2
  <2> QED BY <1>1, <1>4, <2>1, <2>2 DEF PageInv, InPhase, Awaiting
<1>8. ShownIsReached' /\ BlockIsWatched'
  BY <1>1 DEF PageInv, ShownIsReached, BlockIsWatched, Blocked, Awaiting
<1> QED BY <1>5, <1>6, <1>7, <1>8 DEF PageInv

\* The part common to the answers and failures of a poll, which goes.
LEMMA PollGone ==
  ASSUME PageInv, NEW i \in DOMAIN polls,
         polls' = Without(polls, i) \/ polls' = Unaborted(Without(polls, i))
  PROVE  /\ polls' \in Seq(Poll) /\ Len(polls') <= MaxPolls
         /\ \A n \in DOMAIN polls' : \E m \in DOMAIN polls : polls'[n] = polls[m]
         /\ Len(polls) <= 1 => polls' = <<>>
<1> DEFINE s == Without(polls, i)
<1>1. polls \in Seq(Poll) /\ Len(polls) \in Nat /\ Len(polls) <= MaxPolls /\ MaxPolls \in Nat
  BY FlowAssumption DEF PageInv, PageTypes
<1>2. /\ s \in Seq(Poll) /\ Len(s) = Len(polls) - 1
      /\ \A n \in DOMAIN s : \E m \in DOMAIN polls : s[n] = polls[m]
  BY <1>1, WithoutOne
<1> HIDE DEF s
<1>3. /\ Unaborted(s) \in Seq(Poll) /\ Len(Unaborted(s)) <= Len(s)
      /\ \A n \in DOMAIN Unaborted(s) : \E m \in DOMAIN s : Unaborted(s)[n] = s[m]
  BY <1>2, UnabortedSome
<1>4. CASE polls' = s
  BY <1>1, <1>2, <1>4
<1>5. CASE polls' = Unaborted(s)
  <2>1. Len(polls') \in Nat /\ Len(s) \in Nat
    BY <1>2, <1>3, <1>5
  <2>2. \A n \in DOMAIN polls' : \E m \in DOMAIN polls : polls'[n] = polls[m]
    BY <1>2, <1>3, <1>5
  <2>3. Len(polls) <= 1 => Len(polls') = 0
    BY <1>1, <1>2, <1>3, <1>5, <2>1
  <2> QED BY <1>1, <1>2, <1>3, <1>5, <2>1, <2>2, <2>3
<1> QED BY <1>4, <1>5 DEF s

\* An answer is shown: of the job the page shows, unless it is troubled.
LEMMA ShowKeeps ==
  ASSUME PageInv, GatewayInv', NEW i \in DOMAIN polls, Show(i)
  PROVE  PageInv'
<1>1. /\ UNCHANGED <<store, jobs, posts, troubled>> /\ polls[i].got # None
      /\ polls' = Without(polls, i) \/ polls' = Unaborted(Without(polls, i))
  BY DEF Show, gvars, tables
<1>2. page \in PageRec /\ polls[i] \in Poll /\ polls[i].got \in Statuses
  <2>1. polls[i] \in Poll
    BY PollsTyped DEF PageInv
  <2> QED BY <1>1, <2>1 DEF PageInv, PageTypes, PageRec, Poll
<1>3. /\ polls' \in Seq(Poll) /\ Len(polls') <= MaxPolls
      /\ \A n \in DOMAIN polls' : \E m \in DOMAIN polls : polls'[n] = polls[m]
      /\ Len(polls) <= 1 => polls' = <<>>
  BY <1>1, PollGone
<1>4. PollsAgree'
  BY <1>1, <1>3 DEF PageInv, PollsAgree
<1>5. ~troubled => /\ polls' = <<>> /\ ~Awaiting /\ ~page.waiting /\ page.timer # 0
                   /\ page.timer = page.job /\ page.shown = "active" /\ polls[i].job = page.timer
  <2> SUFFICES ASSUME ~troubled
               PROVE  /\ polls' = <<>> /\ ~Awaiting /\ ~page.waiting /\ page.timer # 0
                      /\ page.timer = page.job /\ page.shown = "active"
                      /\ polls[i].job = page.timer
    OBVIOUS
  <2>1. polls \in Seq(Poll) /\ polls # <<>> /\ Len(polls) <= 1
    BY DEF PageInv, PageTypes, InPhase
  <2>2. i = 1
    BY <2>1
  <2> QED BY <1>3, <2>1, <2>2 DEF PageInv, InPhase
<1>6. CASE polls[i].got = "active"
  <2>1. page' = [page EXCEPT !.shown = "active", !.errors = 0]
    BY <1>6 DEF Show
  <2>2. 0 \in 0..ErrorLimit - 1 /\ "active" \in Statuses
    BY FlowAssumption DEF Statuses
  <2>3. /\ page' \in PageRec /\ page'.job = page.job /\ page'.shown = "active"
        /\ page'.post = page.post /\ page'.waiting = page.waiting /\ page'.timer = page.timer
    BY <1>2, <2>1, <2>2 DEF PageRec
  <2>4. PageTypes'
    BY <1>1, <1>3, <2>3 DEF PageInv, PageTypes, PageRec, Poll
  <2>5. InPhase' /\ ShownIsReached' /\ BlockIsWatched'
    BY <1>1, <1>5, <2>3 DEF InPhase, ShownIsReached, BlockIsWatched, Awaiting
  <2> QED BY <1>4, <2>4, <2>5 DEF PageInv
<1>7. CASE polls[i].got # "active"
  <2>1. page' = [Stopped EXCEPT !.shown = polls[i].got, !.submitting = FALSE]
    BY <1>7 DEF Show
  <2>2. /\ page' \in PageRec /\ page'.job = page.job /\ page'.shown = polls[i].got
        /\ page'.post = page.post /\ page'.waiting = page.waiting /\ page'.timer = 0
        /\ ~page'.submitting
    <3>1. /\ Stopped \in PageRec /\ Stopped.job = page.job /\ Stopped.post = page.post
          /\ Stopped.waiting = page.waiting /\ Stopped.timer = 0
      BY <1>2, StoppedRec DEF PageInv
    <3> HIDE DEF Stopped
    <3> QED BY <1>2, <2>1, <3>1 DEF PageRec
  <2>3. PageTypes'
    BY <1>1, <1>3, <2>2 DEF PageInv, PageTypes, PageRec, Poll
  <2>4. InPhase'
    BY <1>1, <1>5, <2>2 DEF InPhase, Awaiting
  <2>5. polls[i].got \in {"completed", "failed"} /\ jobs[polls[i].job].status = polls[i].got
    BY <1>2, <1>7 DEF PageInv, PollsAgree, Statuses
  <2>6. ShownIsReached'
    BY <1>1, <1>5, <2>2, <2>5 DEF ShownIsReached
  <2>7. BlockIsWatched'
    BY <1>7, <2>2 DEF BlockIsWatched, Blocked
  <2> QED BY <1>4, <2>3, <2>4, <2>6, <2>7 DEF PageInv
<1> QED BY <1>6, <1>7

\* A poll fails: the page polls on, or gives up and is troubled.
LEMMA PollFailsKeeps ==
  ASSUME PageInv, GatewayInv', NEW i \in DOMAIN polls, PollFails(i)
  PROVE  PageInv'
<1>1. /\ UNCHANGED <<store, jobs, posts>>
      /\ polls' = Without(polls, i) \/ polls' = Unaborted(Without(polls, i))
  BY DEF PollFails, gvars, tables
<1>2. page \in PageRec
  BY DEF PageInv, PageTypes, PageRec
<1>3. /\ polls' \in Seq(Poll) /\ Len(polls') <= MaxPolls
      /\ \A n \in DOMAIN polls' : \E m \in DOMAIN polls : polls'[n] = polls[m]
      /\ Len(polls) <= 1 => polls' = <<>>
  BY <1>1, PollGone
<1>4. PollsAgree'
  BY <1>1, <1>3 DEF PageInv, PollsAgree
<1>5. CASE TooMany(page.errors + 1)
  <2>1. page' = Stopped /\ troubled' = TRUE
    BY <1>5 DEF PollFails
  <2>2. PageTypes'
    <3>1. page' \in PageRec
      BY <1>2, <2>1, StoppedRec DEF PageInv
    <3> QED BY <1>1, <1>3, <2>1, <3>1 DEF PageInv, PageTypes, PageRec, Poll
  <2> QED BY <1>4, <2>1, <2>2 DEF PageInv, InPhase, ShownIsReached, BlockIsWatched
<1>6. CASE ~TooMany(page.errors + 1)
  <2>1. page' = [page EXCEPT !.errors = page.errors + 1] /\ troubled' = troubled
    BY <1>6 DEF PollFails
  <2>2. page.errors + 1 \in 0..ErrorLimit - 1
    BY <1>2, <1>6, FlowAssumption DEF TooMany, PageRec
  <2>3. /\ page' \in PageRec /\ page'.job = page.job /\ page'.shown = page.shown
        /\ page'.post = page.post /\ page'.waiting = page.waiting /\ page'.timer = page.timer
        /\ page'.submitting = page.submitting
    BY <1>2, <2>1, <2>2 DEF PageRec
  <2>4. PageTypes'
    BY <1>1, <1>3, <2>1, <2>3 DEF PageInv, PageTypes, PageRec, Poll
  <2>5. InPhase'
    BY <1>3, <2>1, <2>3 DEF PageInv, InPhase, Awaiting
  <2>6. ShownIsReached' /\ BlockIsWatched'
    BY <1>1, <2>1, <2>3 DEF PageInv, ShownIsReached, BlockIsWatched, Blocked, Awaiting
  <2> QED BY <1>4, <2>4, <2>5, <2>6 DEF PageInv
<1> QED BY <1>5, <1>6

\* The page opened anew.
LEMMA FreshKeeps ==
  ASSUME GatewayInv', jobs' \in Seq(Job), store' \in {"sqlite", "postgres"},
         posts' \in 0..MaxPosts, page' = Fresh, polls' = <<>>, troubled' = FALSE
  PROVE  PageInv'
<1>1. 0 \in 0..Len(jobs') /\ 0 \in 0..ErrorLimit - 1 /\ 0 <= MaxPolls
  BY FlowAssumption
<1>2. PageTypes'
  <2>1. Fresh \in PageRec'
    BY <1>1 DEF Fresh, PageRec, Statuses
  <2>2. polls' \in Seq(Poll') /\ Len(polls') <= MaxPolls
    BY <1>1
  <2> QED BY <2>1, <2>2 DEF PageTypes, PageRec
<1>3. PollsAgree' /\ InPhase' /\ ShownIsReached' /\ BlockIsWatched'
  BY DEF PollsAgree, InPhase, ShownIsReached, BlockIsWatched, Blocked, Awaiting, Fresh
<1> QED BY <1>2, <1>3 DEF PageInv

\* Every step of the page, the gateway, the others keeps the page's invariant.
LEMMA PageStep == PageInv /\ [Next]_vars => PageInv'
<1> SUFFICES ASSUME PageInv, [Next]_vars PROVE PageInv'
  OBVIOUS
<1>1. GatewayInv /\ GatewayInv' /\ PageTypes
  BY FlowStep DEF PageInv
<1>2. ASSUME NEW c \in Clients, NEW b \in Bodies, Submit(c, b)
      PROVE  PageInv'
  BY <1>1, <1>2, SubmitKeeps
<1>3. CASE Accepted \/ Refused \/ Disconnected \/ StartPolling \/ Tick
  BY <1>1, <1>3, AcceptedKeeps, GivenUpKeeps, StartPollingKeeps, TickKeeps
<1>4. ASSUME NEW i \in DOMAIN polls, Report(i) \/ Show(i) \/ PollFails(i)
      PROVE  PageInv'
  BY <1>1, <1>4, ReportKeeps, ShowKeeps, PollFailsKeeps
<1>5. CASE Reload
  <2>1. /\ UNCHANGED <<store, jobs, posts>>
        /\ page' = Fresh /\ polls' = <<>> /\ troubled' = FALSE
    BY <1>5 DEF Reload, gvars, tables
  <2> QED BY <1>1, <2>1, FreshKeeps, TypesOfJobs DEF PageTypes
<1>6. ASSUME UNCHANGED <<page, polls, troubled>>, Grown, store' = store, posts' \in 0..MaxPosts
      PROVE  PageInv'
  BY <1>1, <1>6, OthersKeep
<1>7. CASE Others
  <2>1. UNCHANGED <<page, polls, troubled>> /\ posts \in 0..MaxPosts
    BY <1>1, <1>7 DEF Others, PageTypes
  <2>2. ASSUME NEW c \in Clients, NEW b \in Bodies, NEW k \in KeysFor(b), Post(c, k, b)
        PROVE  PageInv'
    BY <1>1, <1>6, <2>1, <2>2, PostGrows
  <2>3. ASSUME NEW c \in Clients, Receive(c)
        PROVE  PageInv'
    BY <1>1, <1>6, <2>1, <2>3, ReceiveGrows
  <2>4. ASSUME NEW c \in Clients, Serve(c)
        PROVE  PageInv'
    BY <1>1, <1>6, <2>1, <2>4, ServeGrows
  <2>5. CASE Passing
    BY <1>1, <1>6, <2>1, <2>5, PassingGrows
  <2> QED BY <1>7, <2>2, <2>3, <2>4, <2>5 DEF Others
<1>8. CASE UNCHANGED vars
  <2>1. UNCHANGED <<store, jobs, posts, page, polls, troubled>>
    BY <1>8 DEF vars, gvars, tables
  <2> QED BY <1>1, <1>6, <2>1, SameJobs DEF PageTypes
<1> QED
  BY <1>2, <1>3, <1>4, <1>5, <1>7, <1>8 DEF Next, Page

\* It holds of the page just opened.
LEMMA PageInitial == Init => PageInv
<1> SUFFICES ASSUME Init PROVE PageInv
  OBVIOUS
<1>1. GatewayInv
  BY GatewayInitial DEF Init
<1>2. /\ page = Fresh /\ polls = <<>> /\ troubled = FALSE /\ jobs = <<>> /\ posts = 0
      /\ store \in {"sqlite", "postgres"}
  BY DEF Init, GatewayInit
<1>3. PageTypes
  <2>1. 0 \in 0..Len(jobs) /\ 0 \in 0..ErrorLimit - 1 /\ 0 <= MaxPolls /\ 0 \in 0..MaxPosts
    BY <1>2, FlowAssumption, GatewayAssumption
  <2>2. Fresh \in PageRec
    BY <2>1 DEF Fresh, PageRec, Statuses
  <2>3. polls \in Seq(Poll) /\ Len(polls) <= MaxPolls
    BY <1>2, <2>1
  <2> QED BY <1>2, <2>1, <2>2, <2>3 DEF PageTypes, PageRec
<1>4. PollsAgree /\ InPhase /\ ShownIsReached /\ BlockIsWatched
  BY <1>2 DEF PollsAgree, InPhase, ShownIsReached, BlockIsWatched, Blocked, Awaiting, Fresh
<1> QED BY <1>1, <1>3, <1>4 DEF PageInv

\* Every reachable state satisfies the page's inductive invariant.
LEMMA PageAlways == Spec => []PageInv
BY PageInitial, PageStep, PTL DEF Spec

\* The types of the page, of its polls and of the gateway behind it.
THEOREM FlowTypes == Spec => []TypeOK
<1>1. PageInv /\ LimitInv => TypeOK
  <2> SUFFICES ASSUME PageInv, LimitInv PROVE TypeOK
    OBVIOUS
  <2>1. keys \in [Keys -> [hash : Bodies, job : 1..Len(jobs)] \union {None}]
    <3>1. ASSUME NEW k \in Keys
          PROVE  keys[k] \in [hash : Bodies, job : 1..Len(jobs)] \union {None}
      <4>1. keys[k] \in Row \union {None}
        BY DEF PageInv, GatewayInv, TablesOK
      <4>2. keys[k] # None => keys[k].job \in 1..Len(jobs)
        BY TypesOfJobs DEF PageInv, GatewayInv, KeysOK
      <4> QED BY <4>1, <4>2 DEF Row
    <3> QED BY <3>1 DEF PageInv, GatewayInv, TablesOK
  <2>2. GatewayTypeOK
    BY <2>1 DEF GatewayTypeOK, PageInv, PageTypes, GatewayInv, TablesOK, LimitInv, Bucket
  <2> QED BY <2>2 DEF TypeOK, PageInv, PageTypes, Poll
<1>2. Init => LimitInv
  BY LimitInit DEF Init
<1>3. PageInv => GatewayInv
  BY DEF PageInv
<1>4. Spec => []LimitInv
  BY <1>2, <1>3, LimitStep, PageAlways, PTL DEF Spec
<1> QED BY <1>1, <1>4, PageAlways, PTL

\* Until its first mishap the page shows a job as ended only when the job has
\* ended so (handleBatchSubmit, startPolling and the poll of use-batch-polling.ts).
THEOREM FlowShownIsReached == Spec => []ShownIsReached
<1>1. PageInv => ShownIsReached
  BY DEF PageInv
<1> QED BY <1>1, PageAlways, PTL

\* Until its first mishap a page that blocks another submission waits for an answer,
\* a session or the polls of the job it shows (isSubmissionBlocked).
THEOREM FlowBlockIsWatched == Spec => []BlockIsWatched
<1>1. PageInv => BlockIsWatched
  BY DEF PageInv
<1> QED BY <1>1, PageAlways, PTL
=============================================================================
