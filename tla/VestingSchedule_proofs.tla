----------------------- MODULE VestingSchedule_proofs -----------------------
(***************************************************************************)
(* Facts about calculate_vested_amount for every schedule and every time:  *)
(* it never exceeds the total and never decreases as time passes.          *)
(***************************************************************************)
EXTENDS VestingSchedule, TLAPS

\* Integer division by the same positive divisor keeps the order, and rounds
\* a proper share of t down to at most t.
LEMMA DivisionOrder ==
  ASSUME NEW a \in Nat, NEW b \in Nat, NEW n \in Nat \ {0}, a <= b
  PROVE  a \div n <= b \div n
  OBVIOUS

LEMMA ShareBounds ==
  ASSUME NEW t \in Nat, NEW c \in Nat, NEW n \in Nat, c < n
  PROVE  (t * c) \div n \in Nat /\ (t * c) \div n <= t
  OBVIOUS

LEMMA ProductOrder ==
  ASSUME NEW t \in Nat, NEW c \in Nat, NEW d \in Nat, c <= d
  PROVE  t * c \in Nat /\ t * d \in Nat /\ t * c <= t * d
  OBVIOUS

\* Step counts are naturals when there is a step.
LEMMA StepsType ==
  ASSUME NEW w \in Window, NEW t \in Nat, w.step > 0
  PROVE  StepsDone(w, t) \in Nat /\ StepsAll(w) \in Nat
  BY DEF Window, StepsDone, StepsAll, Elapsed, Duration

\* A schedule vests a natural amount, at most its total (lib.rs
\* calculate_vested_amount).
THEOREM VestedBounds ==
  ASSUME NEW total \in Nat, NEW w \in Window, NEW t \in Nat
  PROVE  Vested(total, w, t) \in Nat /\ Vested(total, w, t) <= total
<1>1. CASE t < w.cliff \/ w.step = 0
  BY <1>1 DEF Vested, Window
<1>2. CASE t >= w.cliff /\ w.step > 0
  <2>1. StepsDone(w, t) \in Nat /\ StepsAll(w) \in Nat
    BY <1>2, StepsType
  <2>2. CASE StepsDone(w, t) >= StepsAll(w)
    BY <1>2, <2>2 DEF Vested, Window
  <2>3. CASE StepsDone(w, t) < StepsAll(w)
    <3>1. Vested(total, w, t) = (total * StepsDone(w, t)) \div StepsAll(w)
      BY <1>2, <2>1, <2>3 DEF Vested, Window
    <3> QED
      BY <2>1, <2>3, <3>1, ShareBounds
  <2> QED
    BY <2>1, <2>2, <2>3
<1> QED
  BY <1>1, <1>2 DEF Window

\* Time never takes back what has vested (lib.rs calculate_vested_amount).
THEOREM VestedMonotonic ==
  ASSUME NEW total \in Nat, NEW w \in Window, NEW t \in Nat, NEW u \in Nat, t <= u
  PROVE  Vested(total, w, t) <= Vested(total, w, u)
<1> DEFINE A == Vested(total, w, t)
           B == Vested(total, w, u)
<1>0. A \in Nat /\ B \in Nat /\ A <= total
  BY VestedBounds
<1>1. CASE t < w.cliff
  BY <1>0, <1>1 DEF Vested
<1>2. CASE t >= w.cliff /\ w.step = 0
  BY <1>0, <1>2 DEF Vested, Window, Elapsed, Duration
<1>3. CASE t >= w.cliff /\ w.step > 0
  <2>1. /\ StepsDone(w, t) \in Nat /\ StepsDone(w, u) \in Nat
        /\ StepsAll(w) \in Nat
    BY <1>3, StepsType
  <2>2. StepsDone(w, t) <= StepsDone(w, u)
    <3>1. /\ Elapsed(w, t) \in Nat /\ Elapsed(w, u) \in Nat
          /\ Elapsed(w, t) <= Elapsed(w, u)
          /\ w.step \in Nat \ {0}
      BY <1>3 DEF Elapsed, Window
    <3> QED
      BY <3>1, DivisionOrder DEF StepsDone
  <2>3. u >= w.cliff
    BY <1>3 DEF Window
  <2>4. CASE StepsDone(w, u) >= StepsAll(w)
    <3>1. B = total
      BY <1>3, <2>3, <2>4 DEF Vested, Window
    <3> QED
      BY <1>0, <3>1
  <2>5. CASE StepsDone(w, u) < StepsAll(w)
    <3>1. A = (total * StepsDone(w, t)) \div StepsAll(w)
      BY <1>3, <2>1, <2>2, <2>5 DEF Vested, Window
    <3>2. B = (total * StepsDone(w, u)) \div StepsAll(w)
      BY <1>3, <2>1, <2>3, <2>5 DEF Vested, Window
    <3>3. /\ total * StepsDone(w, t) \in Nat
          /\ total * StepsDone(w, u) \in Nat
          /\ total * StepsDone(w, t) <= total * StepsDone(w, u)
      BY <2>1, <2>2, ProductOrder
    <3>4. StepsAll(w) \in Nat \ {0}
      BY <2>1, <2>5
    <3>5. (total * StepsDone(w, t)) \div StepsAll(w)
            <= (total * StepsDone(w, u)) \div StepsAll(w)
      BY <3>3, <3>4, DivisionOrder
    <3> QED
      BY <3>1, <3>2, <3>5
  <2> QED
    BY <2>1, <2>4, <2>5
<1> QED
  BY <1>1, <1>2, <1>3 DEF Window

\* From its end on, all of a schedule has vested.
LEMMA VestedAtEnd ==
  ASSUME NEW total \in Nat, NEW w \in Window, NEW t \in Nat, w.end <= t
  PROVE  Vested(total, w, t) = total
<1>1. /\ w.cliff <= t /\ Elapsed(w, t) \in Nat /\ Duration(w) \in Nat
      /\ Duration(w) <= Elapsed(w, t) /\ w.step \in Nat
  BY DEF Window, Elapsed, Duration
<1>2. w.cliff \in Nat
  BY DEF Window
<1>3. CASE w.step = 0
  BY <1>1, <1>2, <1>3 DEF Vested
<1>4. CASE w.step > 0
  <2>1. StepsAll(w) <= StepsDone(w, t)
    BY <1>1, <1>4, DivisionOrder DEF StepsAll, StepsDone
  <2> QED
    BY <1>1, <1>2, <1>4, <2>1, StepsType DEF Vested
<1> QED
  BY <1>1, <1>3, <1>4
=============================================================================
