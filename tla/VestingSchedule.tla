--------------------------- MODULE VestingSchedule ---------------------------
(***************************************************************************)
(* The arithmetic of one vesting schedule of contracts/batch-vesting: when *)
(* a schedule vests, how much of it has vested at a ledger time, and which *)
(* windows deposit() accepts.  Constant-level: no state, only operators,   *)
(* shared by the id-level ledger (VestingLedger) and by the indexed        *)
(* contract storage (VestingContract).                                     *)
(*                                                                         *)
(* A window is [start, end, cliff, step]; times are ledger timestamps      *)
(* (u64 in the code), amounts are i128.                                    *)
(***************************************************************************)
EXTENDS Integers

CONSTANT MaxI128   \* the largest i128: checked_mul above it aborts the call

ASSUME MaxI128Assumption == MaxI128 \in Nat

\* The windows deposit() lets through: a positive duration, a cliff inside it,
\* and a step that is 0, 1 or a divisor of the duration.
Window ==
    {w \in [start : Nat, end : Nat, cliff : Nat, step : Nat] :
        /\ w.start < w.end
        /\ w.cliff \in w.start .. w.end
        /\ w.step > 1 => (w.end - w.start) % w.step = 0}

Duration(w) == w.end - w.start

\* Saturating at zero before the start, as every caller computes it.
Elapsed(w, t) == IF t > w.start THEN t - w.start ELSE 0

\* Whole steps gone by, and whole steps of the schedule (step > 0 only).
StepsDone(w, t) == Elapsed(w, t) \div w.step
StepsAll(w) == Duration(w) \div w.step

\* calculate_vested_amount: nothing before the cliff; all-or-nothing at the end
\* when step = 0; otherwise the whole steps' share, rounded down.
Vested(total, w, t) ==
    IF t < w.cliff THEN 0
    ELSE IF w.step = 0 THEN IF Elapsed(w, t) >= Duration(w) THEN total ELSE 0
    ELSE IF StepsDone(w, t) >= StepsAll(w) THEN total
    ELSE (total * StepsDone(w, t)) \div StepsAll(w)

\* The checked multiplication of calculate_vested_amount overflows: the whole
\* invocation aborts with VestingError::Overflow.
VestedOverflows(total, w, t) ==
    /\ t >= w.cliff
    /\ w.step > 0
    /\ StepsDone(w, t) < StepsAll(w)
    /\ total * StepsDone(w, t) > MaxI128

\* migrate_if_needed keeps start and end, puts the cliff at the start and drops
\* the step: a migrated schedule unlocks all at once at its end.
MigratedWindow(w) == [w EXCEPT !.cliff = w.start, !.step = 0]
=============================================================================
