------------------------------ MODULE BatchFlow ------------------------------
(***************************************************************************)
(* The new-batch page in front of the gateway.  It submits a list of       *)
(* payments under a key derived from the list, then polls the job's status *)
(* every two seconds, whether or not the last poll has been answered, and  *)
(* blocks another submission until it has seen the job end.                *)
(*                                                                         *)
(* Other requests come from programs that post what they like, or from the *)
(* page before it was reloaded or lost the connection.  A page that is     *)
(* reloaded starts empty: its first effect overwrites the saved state      *)
(* before the second reads it.  queued and processing, which nothing here  *)
(* tells apart, are "active".                                              *)
(***************************************************************************)
EXTENDS Gateway

CONSTANTS
    ErrorLimit,     \* polls that fail in a row before the page gives up
    MaxPolls        \* bound on polls under way at a time

ASSUME FlowAssumption ==
    /\ {ErrorLimit, MaxPolls} \subseteq Nat \ {0}
    /\ None \notin Clients /\ None \notin {"active", "completed", "failed"}

VARIABLES
    page,       \* the page's state and its interval
    polls,      \* status requests under way, in the order they were sent
    troubled    \* history: this page gave up polling, or had two polls under way

vars == <<gvars, page, polls, troubled>>

\* jobId, jobStatus, isSubmitting; the request onSubmit waits for, or whether it
\* waits for a wallet session; the job whose interval runs; pollErrorCountRef.
Fresh ==
    [job |-> 0, shown |-> "active", submitting |-> FALSE, post |-> None,
     waiting |-> FALSE, timer |-> 0, errors |-> 0]

Init ==
    /\ GatewayInit
    /\ page = Fresh
    /\ polls = <<>>
    /\ troubled = FALSE

KeyOf(body) == <<"header", body>>

\* isSubmissionBlocked
Blocked == page.submitting \/ (page.job # 0 /\ page.shown = "active")

Without(s, i) == SubSeq(s, 1, i - 1) \o SubSeq(s, i + 1, Len(s))

\* stopPolling aborts the poll whose controller is the current one, if it is
\* still under way.
Unaborted(s) ==
    IF \E i \in DOMAIN s : s[i].current
    THEN Without(s, CHOOSE i \in DOMAIN s : s[i].current)
    ELSE s
Stopped == [page EXCEPT !.timer = 0, !.errors = 0]

-----------------------------------------------------------------------------
(* onSubmit *)

Submit(c, body) ==
    /\ ~Blocked
    /\ Post(c, KeyOf(body), body)
    /\ page' = [page EXCEPT !.submitting = TRUE, !.post = c]
    /\ UNCHANGED <<polls, troubled>>

Awaiting == page.post # None

\* Mutant: the status of the job before is left standing.
AcceptedUnreset ==
    /\ Awaiting /\ reqs[page.post].code = 202
    /\ Receive(page.post)
    /\ page' = [page EXCEPT !.job = reqs[page.post].job, !.post = None, !.waiting = TRUE]
    /\ UNCHANGED <<polls, troubled>>

Accepted ==
    /\ Awaiting /\ reqs[page.post].code = 202
    /\ Receive(page.post)
    /\ page' = [page EXCEPT !.job = reqs[page.post].job, !.shown = "active",
                            !.post = None, !.waiting = TRUE]
    /\ UNCHANGED <<polls, troubled>>

Refused ==
    /\ Awaiting /\ reqs[page.post].code # 202
    /\ Receive(page.post)
    /\ page' = [page EXCEPT !.submitting = FALSE, !.post = None]
    /\ UNCHANGED <<polls, troubled>>

\* The connection is lost; the request goes on.
Disconnected ==
    /\ Awaiting
    /\ page' = [page EXCEPT !.submitting = FALSE, !.post = None]
    /\ UNCHANGED <<gvars, polls, troubled>>

\* ensureSession comes back, with a session or without; startPolling.
StartPolling ==
    /\ page.waiting
    /\ page' = [Stopped EXCEPT !.timer = page.job, !.waiting = FALSE]
    /\ polls' = Unaborted(polls)
    /\ UNCHANGED <<gvars, troubled>>

-----------------------------------------------------------------------------
(* Polling *)

Tick ==
    /\ page.timer # 0
    /\ Len(polls) < MaxPolls
    /\ polls' = Append([i \in DOMAIN polls |-> [polls[i] EXCEPT !.current = FALSE]],
                       [job |-> page.timer, got |-> None, current |-> TRUE])
    /\ troubled' = (troubled \/ polls # <<>>)
    /\ UNCHANGED <<gvars, page>>

\* GET batch-status
Report(i) ==
    /\ polls[i].got = None
    /\ polls' = [polls EXCEPT ![i].got = jobs[polls[i].job].status]
    /\ UNCHANGED <<gvars, page, troubled>>

\* Mutant: a failed job does not end the submission.
ShowForgetful(i) ==
    /\ polls[i].got # None
    /\ IF polls[i].got = "active"
       THEN /\ page' = [page EXCEPT !.shown = "active", !.errors = 0]
            /\ polls' = Without(polls, i)
       ELSE /\ page' = [Stopped EXCEPT !.shown = polls[i].got,
                                       !.submitting = @ /\ polls[i].got = "failed"]
            /\ polls' = Unaborted(Without(polls, i))
    /\ UNCHANGED <<gvars, troubled>>

\* The answer of a poll, of whichever job and however old, is shown.
Show(i) ==
    /\ polls[i].got # None
    /\ IF polls[i].got = "active"
       THEN /\ page' = [page EXCEPT !.shown = "active", !.errors = 0]
            /\ polls' = Without(polls, i)
       ELSE /\ page' = [Stopped EXCEPT !.shown = polls[i].got, !.submitting = FALSE]
            /\ polls' = Unaborted(Without(polls, i))
    /\ UNCHANGED <<gvars, troubled>>

\* Mutant: one poll more is forgiven.
TooManyByOne(failures) == failures > ErrorLimit

TooMany(failures) == failures >= ErrorLimit

\* A poll fails, or is refused for want of a session or by the rate limiter.
PollFails(i) ==
    /\ IF TooMany(page.errors + 1)
       THEN /\ page' = Stopped
            /\ polls' = Unaborted(Without(polls, i))
            /\ troubled' = TRUE
       ELSE /\ page' = [page EXCEPT !.errors = @ + 1]
            /\ polls' = Without(polls, i)
            /\ UNCHANGED troubled
    /\ UNCHANGED gvars

\* The page is closed and opened again; its request goes on.
Reload ==
    /\ page # Fresh
    /\ page' = Fresh
    /\ polls' = <<>>
    /\ troubled' = FALSE
    /\ UNCHANGED gvars

-----------------------------------------------------------------------------
Page ==
    \/ \E c \in Clients, b \in Bodies : Submit(c, b)
    \/ Accepted \/ Refused \/ Disconnected \/ StartPolling \/ Tick \/ Reload
    \/ \E i \in DOMAIN polls : Report(i) \/ Show(i) \/ PollFails(i)

Others ==
    /\ \/ \E c \in Clients :
             \/ \E b \in Bodies : \E k \in KeysFor(b) : Post(c, k, b)
             \/ c # page.post /\ Receive(c)
             \/ Serve(c)
       \/ Passing
    /\ UNCHANGED <<page, polls, troubled>>

Next == Page \/ Others

Spec == Init /\ [][Next]_vars

-----------------------------------------------------------------------------
Statuses == {"active", "completed", "failed"}

(* The types of the page's state; whatever the page or a poll names is a job that
   exists, and the page never counts as many failures as make it give up. *)
TypeOK ==
    /\ GatewayTypeOK
    /\ page \in [job : 0..Len(jobs), shown : Statuses, submitting : BOOLEAN,
                 post : Clients \union {None}, waiting : BOOLEAN,
                 timer : 0..Len(jobs), errors : 0..ErrorLimit - 1]
    /\ polls \in Seq([job : 1..Len(jobs), got : Statuses \union {None}, current : BOOLEAN])
    /\ Len(polls) <= MaxPolls
    /\ troubled \in BOOLEAN

(* Until its first mishap (polls that overlap, or fail too often) the page shows
   a job as ended only when that job has ended so, whatever list was submitted
   before, resubmitted, or had its answer lost. *)
ShownIsReached ==
    page.job # 0 /\ page.shown # "active" /\ ~troubled =>
        jobs[page.job].status = page.shown

(* Until its first mishap a page that blocks another submission is still waiting
   for something that will lift the block: an answer, a session, or the polls of
   the very job it shows. *)
BlockIsWatched ==
    Blocked /\ ~troubled =>
        Awaiting \/ page.waiting \/ (page.timer = page.job /\ page.job # 0)
=============================================================================
