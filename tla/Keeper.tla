------------------------------- MODULE Keeper -------------------------------
(***************************************************************************)
(* The keeper bot and the lifetimes it is there for.  Every vesting entry  *)
(* of the contract sits in a storage slot that the network archives when   *)
(* its lifetime runs out.  A scheduled run of the bot asks the event log   *)
(* who holds entries, calls maintenance once per holder on the window at   *)
(* that holder's cursor, moves the cursor past a window it saw confirmed,  *)
(* and saves all cursors in one file when it is through with everybody.    *)
(*                                                                         *)
(* Lifetimes are counted in periods: the schedule completes a run in every *)
(* period, or crashes.  A cursor beyond MaxCursor behaves like MaxCursor.  *)
(*                                                                         *)
(* The event log is taken to be kept by the RPC server and short enough    *)
(* for the bot's ten pages; a query that is refused is DiscoverNobody.     *)
(***************************************************************************)
EXTENDS Integers, Sequences, FiniteSets

CONSTANTS
    Recipients, Ids,
    MaxEntries,     \* max_schedules_per_recipient
    Limit,          \* MAINTENANCE_LIMIT
    NewTtl,         \* lifetime the network gives a new slot
    Threshold,      \* BUMP_THRESHOLD
    ExtendTo,       \* BUMP_EXTEND_TO
    MaxCursor,      \* bound on cursors, beyond the longest list
    MaxFaults,      \* bound on crashes, RPC errors and transactions in doubt
    None

ASSUME KeeperAssumption ==
    /\ {MaxEntries, Limit, NewTtl, Threshold, ExtendTo, MaxFaults} \subseteq Nat
    /\ MaxCursor \in Nat /\ MaxCursor >= MaxEntries
    /\ 0 < NewTtl /\ Threshold < ExtendTo
    /\ None \notin Recipients

VARIABLES
    slots,      \* per recipient VestingEntry(r, i), indices from 1
    announced,  \* recipients named in the contract's events
    disk,       \* the state file: nextMaintenanceIndex
    run,        \* the run in progress
    pool,       \* maintenance transactions a run gave up on
    ran,        \* whether the schedule had its run in this period
    faults,
    reach       \* history: the farthest index maintenance was applied to

vars == <<slots, announced, disk, run, pool, ran, faults, reach>>

\* Mutant: the lifetime is extended by ExtendTo, not to it.
ExtendedBy(left) == left + ExtendTo

\* extend_ttl
Extended(left) == IF left <= Threshold THEN ExtendTo ELSE left

Idle ==
    [pc |-> "idle", cursors |-> disk, todo |-> {}, at |-> None, answer |-> "none"]

Init ==
    /\ slots = [r \in Recipients |-> <<>>]
    /\ announced = {}
    /\ disk = [r \in Recipients |-> 0]
    /\ run = Idle
    /\ pool = {}
    /\ ran = FALSE
    /\ faults = 0
    /\ reach = [r \in Recipients |-> 0]

Fault == faults < MaxFaults /\ faults' = faults + 1

-----------------------------------------------------------------------------
(* The contract *)

Stored == UNION {{slots[r][i].id : i \in DOMAIN slots[r]} : r \in Recipients}

\* push_vesting.  A slot is covered once maintenance reached it; late when its
\* index had been reached before the slot existed; known when the bot can have
\* heard of its holder from the start.
Pushed(r, id, known) ==
    LET i == Len(slots[r]) + 1 IN
    Append(slots[r],
           [id |-> id, left |-> Extended(NewTtl), known |-> known,
            cover |-> IF i <= reach[r] THEN "late" ELSE "no"])

\* remove_vesting: the last schedule moves into the slot, which keeps its own
\* lifetime, and the last slot goes.
Removed(r, i) ==
    LET s == slots[r]
        last == Len(s) IN
    SubSeq([s EXCEPT ![i].id = s[last].id,
                     ![i].left = IF i = last THEN @ ELSE Extended(@)],
           1, last - 1)

Usable(r, i) == slots[r][i].left > 0 /\ slots[r][Len(slots[r])].left > 0

Deposit(r, id) ==
    /\ id \notin Stored
    /\ Len(slots[r]) < MaxEntries
    /\ slots' = [slots EXCEPT ![r] = Pushed(r, id, TRUE)]
    /\ announced' = announced \union {r}
    /\ UNCHANGED <<disk, run, pool, ran, faults, reach>>

\* A claim of the rest, a revoke.
Remove(r, i) ==
    /\ Usable(r, i)
    /\ slots' = [slots EXCEPT ![r] = Removed(r, i)]
    /\ announced' = announced \union {r}
    /\ UNCHANGED <<disk, run, pool, ran, faults, reach>>

\* transfer_vesting_rights announces the old holder only.
Transfer(r, i, q) ==
    /\ r # q /\ Usable(r, i)
    /\ Len(slots[q]) < MaxEntries
    /\ slots' = [slots EXCEPT ![r] = Removed(r, i),
                              ![q] = Pushed(q, slots[r][i].id, q \in announced)]
    /\ announced' = announced \union {r}
    /\ UNCHANGED <<disk, run, pool, ran, faults, reach>>

\* A period of ledgers goes by; a run is over, or killed, long before the next.
Tick ==
    /\ ran /\ run.pc = "idle"
    /\ ran' = FALSE
    /\ slots' = [r \in Recipients |->
                   [i \in DOMAIN slots[r] |->
                      [slots[r][i] EXCEPT !.left = IF @ = 0 THEN 0 ELSE @ - 1]]]
    /\ UNCHANGED <<announced, disk, run, pool, faults, reach>>

\* Mutant: the cursor stays at the window it has covered.
Same(start) == start

Past(start) == IF start + Limit > MaxCursor THEN MaxCursor ELSE start + Limit

InWindow(r, start) == {i \in DOMAIN slots[r] : start < i /\ i <= start + Limit}

\* The contract's maintenance(r, start, Limit), which accepts any start.  A slot
\* the network archived is out of its reach.
Maintain(r, start) ==
    /\ \A i \in InWindow(r, start) : slots[r][i].left > 0
    /\ slots' = [slots EXCEPT ![r] =
                   [i \in DOMAIN slots[r] |->
                      IF i \in InWindow(r, start)
                      THEN [slots[r][i] EXCEPT !.left = Extended(@), !.cover = "yes"]
                      ELSE slots[r][i]]]
    /\ reach' = [reach EXCEPT ![r] = IF Past(start) > @ THEN Past(start) ELSE @]

-----------------------------------------------------------------------------
(* A run of the bot *)

\* loadState, fetchActiveRecipients
Start ==
    /\ run.pc = "idle"
    /\ run' = [Idle EXCEPT !.pc = "loop", !.todo = announced]
    /\ UNCHANGED <<slots, announced, disk, pool, ran, faults, reach>>

\* An error of the event query is reported and taken for an empty list.
DiscoverNobody ==
    /\ run.pc = "idle" /\ Fault
    /\ run' = [Idle EXCEPT !.pc = "loop"]
    /\ UNCHANGED <<slots, announced, disk, pool, ran, reach>>

Done(r) == [run EXCEPT !.pc = "loop", !.todo = @ \ {r}, !.at = None, !.answer = "none"]

\* maintainRecipientWindow: simulate, sign, send
Send(r) ==
    /\ run.pc = "loop" /\ r \in run.todo
    /\ run' = [run EXCEPT !.pc = "poll", !.at = r]
    /\ UNCHANGED <<slots, announced, disk, pool, ran, faults, reach>>

\* A simulation that fails, for whatever reason, is read as "no-work".
NoWork(r) ==
    /\ run.pc = "loop" /\ r \in run.todo /\ Fault
    /\ run' = [Done(r) EXCEPT !.cursors[r] = 0]
    /\ UNCHANGED <<slots, announced, disk, pool, ran, reach>>

Apply ==
    /\ run.pc = "poll" /\ run.answer = "none"
    /\ Maintain(run.at, run.cursors[run.at])
    /\ run' = [run EXCEPT !.answer = "SUCCESS"]
    /\ UNCHANGED <<announced, disk, pool, ran, faults>>

\* The network refuses, because a slot is archived or for reasons of its own.
Reject ==
    /\ run.pc = "poll" /\ run.answer = "none"
    /\ \/ /\ \E i \in InWindow(run.at, run.cursors[run.at]) : slots[run.at][i].left = 0
          /\ UNCHANGED faults
       \/ Fault
    /\ run' = [run EXCEPT !.answer = "FAILED"]
    /\ UNCHANGED <<slots, announced, disk, pool, ran, reach>>

\* determineMaintenanceState("bumped")
Advance ==
    /\ run.pc = "poll" /\ run.answer = "SUCCESS"
    /\ run' = [Done(run.at) EXCEPT !.cursors[run.at] = Past(@)]
    /\ UNCHANGED <<slots, announced, disk, pool, ran, faults, reach>>

\* determineMaintenanceState("failed")
Hold ==
    /\ run.pc = "poll" /\ run.answer = "FAILED"
    /\ run' = Done(run.at)
    /\ UNCHANGED <<slots, announced, disk, pool, ran, faults, reach>>

\* Mutant: a transaction still in doubt moves the cursor.
AdvanceOnPending ==
    /\ run.pc = "poll" /\ run.answer = "none" /\ Fault
    /\ pool' = pool \union {[to |-> run.at, start |-> run.cursors[run.at]]}
    /\ run' = [Done(run.at) EXCEPT !.cursors[run.at] = Past(@)]
    /\ UNCHANGED <<slots, announced, disk, ran, reach>>

\* Thirty polls without an answer: "pending" holds the cursor, while the
\* transaction may be applied yet.
GiveUp ==
    /\ run.pc = "poll" /\ run.answer = "none" /\ Fault
    /\ pool' = pool \union {[to |-> run.at, start |-> run.cursors[run.at]]}
    /\ run' = Done(run.at)
    /\ UNCHANGED <<slots, announced, disk, ran, reach>>

LateApply(tx) ==
    /\ Maintain(tx.to, tx.start)
    /\ pool' = pool \ {tx}
    /\ UNCHANGED <<announced, disk, run, ran, faults>>

Drop(tx) ==
    /\ pool' = pool \ {tx}
    /\ UNCHANGED <<slots, announced, disk, run, ran, faults, reach>>

\* Mutant: the run's cursors are not saved.
SaveNothing ==
    /\ run.pc = "loop" /\ run.todo = {}
    /\ run' = Idle
    /\ ran' = TRUE
    /\ UNCHANGED <<slots, announced, disk, pool, faults, reach>>

\* saveState
Save ==
    /\ run.pc = "loop" /\ run.todo = {}
    /\ disk' = run.cursors
    /\ run' = [Idle EXCEPT !.cursors = disk']
    /\ ran' = TRUE
    /\ UNCHANGED <<slots, announced, pool, faults, reach>>

\* A thrown error, a killed job: the cursors of the whole run are lost.
Crash ==
    /\ run.pc # "idle" /\ Fault
    /\ run' = Idle
    /\ ran' = TRUE
    /\ pool' = IF run.pc = "poll" /\ run.answer = "none"
               THEN pool \union {[to |-> run.at, start |-> run.cursors[run.at]]}
               ELSE pool
    /\ UNCHANGED <<slots, announced, disk, reach>>

-----------------------------------------------------------------------------
Contract ==
    \/ \E r \in Recipients, id \in Ids : Deposit(r, id)
    \/ \E r \in Recipients : \E i \in DOMAIN slots[r] :
          \/ Remove(r, i)
          \/ \E q \in Recipients : Transfer(r, i, q)
    \/ Tick

Bot ==
    \/ Start \/ Advance \/ Hold \/ Save
    \/ \E r \in Recipients : Send(r)

Network == Apply \/ Reject \/ \E tx \in pool : LateApply(tx) \/ Drop(tx)

Trouble ==
    \/ DiscoverNobody \/ GiveUp \/ Crash
    \/ \E r \in Recipients : NoWork(r)

Next == Contract \/ Bot \/ Network \/ Trouble

\* The schedule starts a run again and again, its steps go on, and the network
\* answers; faults are bounded, lifetimes run out or not.
Fairness == WF_vars(Bot) /\ WF_vars(Apply \/ Reject)

Spec == Init /\ [][Next]_vars /\ Fairness

-----------------------------------------------------------------------------
Slot == [id : Ids, left : 0..(NewTtl + ExtendTo), known : BOOLEAN,
         cover : {"no", "yes", "late"}]
Cursors == [Recipients -> 0..MaxCursor]

(* Slots, cursors and the run have their types: no slot outlives what one
   extension gives, no list outgrows the cap. *)
TypeOK ==
    /\ slots \in [Recipients -> Seq(Slot)]
    /\ \A r \in Recipients : Len(slots[r]) <= MaxEntries
    /\ announced \subseteq Recipients
    /\ disk \in Cursors
    /\ run \in [pc : {"idle", "loop", "poll"}, cursors : Cursors,
                todo : SUBSET Recipients, at : Recipients \union {None},
                answer : {"none", "SUCCESS", "FAILED"}]
    /\ pool \subseteq [to : Recipients, start : 0..MaxCursor]
    /\ ran \in BOOLEAN
    /\ faults \in 0..MaxFaults
    /\ reach \in Cursors

(* Every slot behind the saved cursor was reached by a maintenance transaction
   that was applied, unless the slot is younger than the transaction that went
   over its index: neither lost answers, crashes between confirmation and save,
   nor schedules swapped into other slots make the bot skip one. *)
CoveredBehindCursor ==
    \A r \in Recipients : \A i \in DOMAIN slots[r] :
        i <= disk[r] => slots[r][i].cover # "no"

(* The bot can have heard of r before each of its first i slots was made. *)
Known(r, i) == \A k \in 1..i : slots[r][k].known

(* When every period has its run and nothing fails, a slot whose holder was
   known from the start is archived only behind the cursor, which the bot never
   takes back: what lies ahead is always reached in time.  (The transfer of a
   schedule does not make its new holder known, and once such a slot is archived
   it makes the transactions of its window fail.) *)
LapsesOnlyBehindCursor ==
    \A r \in Recipients : \A i \in DOMAIN slots[r] :
        slots[r][i].left = 0 /\ Known(r, i) => i <= disk[r] \/ faults > 0

Waiting(id) ==
    \E r \in announced : \E i \in DOMAIN slots[r] :
        /\ slots[r][i].id = id /\ slots[r][i].cover = "no"
        /\ \A k \in 1..i : slots[r][k].left > 0

(* No schedule of a known holder waits for ever for its first maintenance: the
   cursor gets there, past crashes, failed and late transactions, unless an
   archived slot on the way makes every transaction of its window fail. *)
FirstSweepReachesAll == \A id \in Ids : Waiting(id) ~> ~Waiting(id)
=============================================================================
