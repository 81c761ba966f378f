---------------------------- MODULE Keeper_proofs ----------------------------
(***************************************************************************)
(* Proofs about Keeper, for any holders, schedules, window, lifetimes and  *)
(* number of faults: the bot's cursors are earned, and as long as nothing  *)
(* fails they pass a slot before it is archived.                           *)
(***************************************************************************)
EXTENDS Keeper, TLAPS

Lifetimes == 0..(NewTtl + ExtendTo)

\* No entry that maintenance has gone over is uncovered.
Covered == \A r \in Recipients : \A i \in DOMAIN slots[r] :
               i <= reach[r] => slots[r][i].cover # "no"

\* No cursor is ahead of the maintenance that was applied: neither the saved ones,
\* nor those of the run, nor the windows of transactions still in doubt.
Earned ==
    /\ \A r \in Recipients : disk[r] <= reach[r] /\ run.cursors[r] <= reach[r]
    /\ \A tx \in pool : tx.start <= reach[tx.to]
    /\ run.pc # "poll" => run.answer = "none"
    /\ run.pc = "poll" =>
          /\ run.at \in Recipients
          /\ run.answer = "SUCCESS" => Past(run.cursors[run.at]) <= reach[run.at]

\* The inductive invariant.
KeeperInv == TypeOK /\ Covered /\ Earned

-----------------------------------------------------------------------------
(* What the contract's operations do to one list *)

LEMMA ExtendedType == \A left \in Lifetimes : Extended(left) \in Lifetimes
BY KeeperAssumption DEF Extended, Lifetimes

LEMMA ExtendedLives == \A left \in Nat : Extended(left) >= left
BY KeeperAssumption DEF Extended

LEMMA PastType ==
  \A start \in 0..MaxCursor :
      /\ Past(start) \in 0..MaxCursor
      /\ start <= Past(start) /\ Past(start) <= start + Limit
BY KeeperAssumption DEF Past

\* An appended entry counts as late when maintenance went over its index.
LEMMA PushedList ==
  ASSUME TypeOK, NEW r \in Recipients, NEW id \in Ids, NEW known \in BOOLEAN
  PROVE  /\ Pushed(r, id, known) \in Seq(Slot)
         /\ Len(Pushed(r, id, known)) = Len(slots[r]) + 1
         /\ \A i \in 1..Len(slots[r]) : Pushed(r, id, known)[i] = slots[r][i]
         /\ Len(slots[r]) + 1 <= reach[r] =>
                Pushed(r, id, known)[Len(slots[r]) + 1].cover # "no"
<1>1. slots[r] \in Seq(Slot)
  BY DEF TypeOK
<1> DEFINE new == [id |-> id, left |-> Extended(NewTtl), known |-> known,
                   cover |-> IF Len(slots[r]) + 1 <= reach[r] THEN "late" ELSE "no"]
<1>2. Extended(NewTtl) \in Lifetimes
  BY ExtendedType, KeeperAssumption DEF Lifetimes
<1>3. new \in Slot
  BY <1>2 DEF Slot, Lifetimes
<1>4. Pushed(r, id, known) = Append(slots[r], new)
  BY DEF Pushed
<1> HIDE DEF new
<1>5. /\ Append(slots[r], new) \in Seq(Slot)
      /\ Len(Append(slots[r], new)) = Len(slots[r]) + 1
      /\ \A i \in 1..Len(slots[r]) : Append(slots[r], new)[i] = slots[r][i]
      /\ Append(slots[r], new)[Len(slots[r]) + 1] = new
  BY <1>1, <1>3
<1>6. Len(slots[r]) + 1 <= reach[r] => new.cover # "no"
  BY DEF new
<1> QED
  BY <1>4, <1>5, <1>6

\* A removal leaves every other slot as covered and as known as it was, and
\* shortens no lifetime.
LEMMA RemovedList ==
  ASSUME TypeOK, NEW r \in Recipients, NEW i \in DOMAIN slots[r]
  PROVE  /\ Removed(r, i) \in Seq(Slot)
         /\ Len(Removed(r, i)) = Len(slots[r]) - 1
         /\ \A k \in 1..Len(slots[r]) - 1 :
                /\ Removed(r, i)[k].cover = slots[r][k].cover
                /\ Removed(r, i)[k].known = slots[r][k].known
                /\ Removed(r, i)[k].left >= slots[r][k].left
<1> DEFINE s == slots[r]
           last == Len(s)
           left == IF i = last THEN s[i].left ELSE Extended(s[i].left)
           t == [s EXCEPT ![i].id = s[last].id,
                          ![i].left = IF i = last THEN @ ELSE Extended(@)]
<1>1. s \in Seq(Slot) /\ last \in Nat /\ i \in 1..last /\ last \in 1..last
  BY DEF TypeOK
<1>2. s[i] \in Slot /\ s[last] \in Slot
  BY <1>1
<1>3. left \in Lifetimes /\ left >= s[i].left
  <2>1. s[i].left \in Lifetimes /\ s[i].left \in Nat
    BY <1>2, KeeperAssumption DEF Slot, Lifetimes
  <2> QED
    BY <2>1, ExtendedType, ExtendedLives
<1> DEFINE e == [s[i] EXCEPT !.id = s[last].id, !.left = left]
<1>4. t = [s EXCEPT ![i] = e]
  BY <1>1, <1>2 DEF Slot
<1>5. /\ e \in Slot /\ e.cover = s[i].cover /\ e.known = s[i].known
      /\ e.left >= s[i].left
  BY <1>2, <1>3 DEF Slot, Lifetimes
<1>6. /\ t \in Seq(Slot) /\ Len(t) = last
      /\ \A k \in 1..last : /\ t[k].cover = s[k].cover /\ t[k].known = s[k].known
                            /\ t[k].left >= s[k].left
  <2> HIDE DEF t, e
  <2>1. t \in Seq(Slot) /\ Len(t) = last
    BY <1>1, <1>4, <1>5
  <2>2. \A k \in 1..last : t[k] = IF k = i THEN e ELSE s[k]
    BY <1>1, <1>4
  <2>3. \A k \in 1..last : s[k].left \in Nat
    <3>1. \A x \in Slot : x.left \in Nat
      BY KeeperAssumption DEF Slot
    <3> QED
      BY <1>1, <3>1
  <2> QED
    BY <2>1, <2>2, <2>3, <1>5
<1>7. Removed(r, i) = SubSeq(t, 1, last - 1)
  BY DEF Removed
<1> HIDE DEF t
<1>8. /\ SubSeq(t, 1, last - 1) \in Seq(Slot)
      /\ Len(SubSeq(t, 1, last - 1)) = last - 1
      /\ \A k \in 1..last - 1 : SubSeq(t, 1, last - 1)[k] = t[k]
  BY <1>1, <1>6
<1>9. \A k \in 1..last - 1 : /\ t[k].cover = s[k].cover /\ t[k].known = s[k].known
                            /\ t[k].left >= s[k].left
  BY <1>1, <1>6
<1> HIDE DEF last
<1> QED
  BY <1>7, <1>8, <1>9 DEF last

-----------------------------------------------------------------------------
(* What a step does to the lists *)

\* The conjuncts of TypeOK about the lists.
Lists == /\ slots \in [Recipients -> Seq(Slot)]
         /\ \A r \in Recipients : Len(slots[r]) <= MaxEntries

\* Its conjunct about the run.
Runs == [pc : {"idle", "loop", "poll"}, cursors : Cursors,
         todo : SUBSET Recipients, at : Recipients \union {None},
         answer : {"none", "SUCCESS", "FAILED"}]

\* Maintenance from an index it has reached covers its window without a gap.
LEMMA MaintainLists ==
  ASSUME KeeperInv, NEW r \in Recipients, NEW start \in 0..MaxCursor,
         start <= reach[r], Maintain(r, start)
  PROVE  /\ Lists' /\ Covered'
         /\ reach' \in Cursors
         /\ \A q \in Recipients : reach[q] <= reach'[q]
         /\ Past(start) <= reach'[r]
<1> DEFINE new(i) == IF i \in InWindow(r, start)
                     THEN [slots[r][i] EXCEPT !.left = Extended(@), !.cover = "yes"]
                     ELSE slots[r][i]
           s == [i \in DOMAIN slots[r] |-> new(i)]
<1>1. /\ slots \in [Recipients -> Seq(Slot)] /\ slots[r] \in Seq(Slot)
      /\ \A q \in Recipients : Len(slots[q]) <= MaxEntries
      /\ reach \in [Recipients -> 0..MaxCursor] /\ MaxCursor \in Nat /\ Limit \in Nat
  BY KeeperAssumption DEF KeeperInv, TypeOK, Cursors
<1>2. slots' = [slots EXCEPT ![r] = s]
  BY DEF Maintain
<1>3. reach' = [reach EXCEPT ![r] = IF Past(start) > reach[r] THEN Past(start)
                                    ELSE reach[r]]
  BY DEF Maintain
<1>4. ASSUME NEW i \in DOMAIN slots[r]
      PROVE  new(i) \in Slot /\ new(i).cover = IF i \in InWindow(r, start) THEN "yes"
                                              ELSE slots[r][i].cover
  <2>1. slots[r][i] \in Slot
    BY <1>1
  <2>2. Extended(slots[r][i].left) \in Lifetimes
    BY <2>1, ExtendedType DEF Slot, Lifetimes
  <2> QED
    BY <2>1, <2>2 DEF Slot, Lifetimes
<1> HIDE DEF new
<1>5. s \in Seq(Slot) /\ Len(s) = Len(slots[r])
  <2>1. DOMAIN slots[r] = 1..Len(slots[r]) /\ Len(slots[r]) \in Nat
    BY <1>1
  <2>2. \A i \in 1..Len(slots[r]) : new(i) \in Slot
    BY <1>4, <2>1
  <2> QED
    BY <2>1, <2>2
<1>6. Lists'
  <2> HIDE DEF s
  <2> QED
    BY <1>1, <1>2, <1>5 DEF Lists
<1>7. Past(start) \in 0..MaxCursor /\ Past(start) <= start + Limit
  BY PastType
<1>8. /\ reach' \in Cursors
      /\ \A q \in Recipients : reach[q] <= reach'[q]
      /\ Past(start) <= reach'[r]
  BY <1>1, <1>3, <1>7 DEF Cursors
<1>9. Covered'
  <2> SUFFICES ASSUME NEW q \in Recipients, NEW i \in DOMAIN slots'[q], i <= reach'[q]
               PROVE  slots'[q][i].cover # "no"
    BY DEF Covered
  <2>1. CASE q # r
    BY <2>1, <1>1, <1>2, <1>3 DEF KeeperInv, Covered
  <2>2. CASE q = r
    <3>1. i \in DOMAIN slots[r] /\ slots'[r][i] = new(i)
      BY <2>2, <1>1, <1>2
    <3>2. CASE i \in InWindow(r, start)
      BY <3>1, <3>2, <2>2, <1>4
    <3>3. CASE i \notin InWindow(r, start)
      <4>1. i \in Nat /\ reach[r] \in Nat /\ start \in Nat
        BY <1>1, <3>1
      <4>2. i <= start \/ start + Limit < i
        BY <3>1, <3>3, <4>1, <1>1 DEF InWindow
      <4>3. i <= reach[r]
        BY <4>1, <4>2, <2>2, <1>1, <1>3, <1>7
      <4> QED
        BY <4>3, <3>1, <3>3, <2>2, <1>4 DEF KeeperInv, Covered
    <3> QED
      BY <3>2, <3>3
  <2> QED
    BY <2>1, <2>2
<1> QED
  BY <1>6, <1>8, <1>9

LEMMA DepositLists ==
  ASSUME KeeperInv, NEW r \in Recipients, NEW id \in Ids, Deposit(r, id)
  PROVE  Lists' /\ Covered'
<1> DEFINE s == Pushed(r, id, TRUE)
<1>1. /\ slots \in [Recipients -> Seq(Slot)] /\ slots[r] \in Seq(Slot)
      /\ \A q \in Recipients : Len(slots[q]) <= MaxEntries
      /\ Len(slots[r]) + 1 <= MaxEntries /\ Len(slots[r]) \in Nat
      /\ MaxEntries \in Nat
  BY KeeperAssumption DEF KeeperInv, TypeOK, Deposit
<1>2. slots' = [slots EXCEPT ![r] = s] /\ reach' = reach
  BY DEF Deposit
<1>3. /\ s \in Seq(Slot) /\ Len(s) = Len(slots[r]) + 1
      /\ \A i \in 1..Len(slots[r]) : s[i] = slots[r][i]
      /\ Len(slots[r]) + 1 <= reach[r] => s[Len(slots[r]) + 1].cover # "no"
  BY PushedList DEF KeeperInv
<1> HIDE DEF s
<1>4. Lists'
  BY <1>1, <1>2, <1>3 DEF Lists
<1>5. ASSUME NEW i \in 1..Len(slots[r]) + 1, i <= reach[r]
      PROVE  s[i].cover # "no"
  BY <1>1, <1>3, <1>5 DEF KeeperInv, Covered
<1>6. Covered'
  BY <1>1, <1>2, <1>3, <1>5 DEF KeeperInv, Covered
<1> QED
  BY <1>4, <1>6

LEMMA RemoveLists ==
  ASSUME KeeperInv, NEW r \in Recipients, NEW i \in DOMAIN slots[r], Remove(r, i)
  PROVE  Lists' /\ Covered'
<1> DEFINE s == Removed(r, i)
<1>1. /\ slots \in [Recipients -> Seq(Slot)] /\ slots[r] \in Seq(Slot)
      /\ \A q \in Recipients : Len(slots[q]) <= MaxEntries
      /\ Len(slots[r]) \in Nat /\ MaxEntries \in Nat
  BY KeeperAssumption DEF KeeperInv, TypeOK
<1>2. slots' = [slots EXCEPT ![r] = s] /\ reach' = reach
  BY DEF Remove
<1>3. /\ s \in Seq(Slot) /\ Len(s) = Len(slots[r]) - 1
      /\ \A k \in 1..Len(slots[r]) - 1 : s[k].cover = slots[r][k].cover
  BY RemovedList DEF KeeperInv
<1> HIDE DEF s
<1>4. Lists'
  BY <1>1, <1>2, <1>3 DEF Lists
<1>5. Covered'
  BY <1>1, <1>2, <1>3 DEF KeeperInv, Covered
<1> QED
  BY <1>4, <1>5

LEMMA TransferLists ==
  ASSUME KeeperInv, NEW r \in Recipients, NEW i \in DOMAIN slots[r],
         NEW q \in Recipients, Transfer(r, i, q)
  PROVE  Lists' /\ Covered'
<1> DEFINE s == Removed(r, i)
           t == Pushed(q, slots[r][i].id, q \in announced)
<1>1. /\ slots \in [Recipients -> Seq(Slot)]
      /\ slots[r] \in Seq(Slot) /\ slots[q] \in Seq(Slot)
      /\ \A p \in Recipients : Len(slots[p]) <= MaxEntries
      /\ Len(slots[r]) \in Nat /\ Len(slots[q]) \in Nat /\ MaxEntries \in Nat
      /\ Len(slots[q]) + 1 <= MaxEntries
  BY KeeperAssumption DEF KeeperInv, TypeOK, Transfer
<1>2. slots' = [slots EXCEPT ![r] = s, ![q] = t] /\ reach' = reach /\ r # q
  BY DEF Transfer
<1>3. /\ s \in Seq(Slot) /\ Len(s) = Len(slots[r]) - 1
      /\ \A k \in 1..Len(slots[r]) - 1 : s[k].cover = slots[r][k].cover
  BY RemovedList DEF KeeperInv
<1>4. slots[r][i].id \in Ids
  <2>1. slots[r][i] \in Slot
    BY <1>1
  <2> QED
    BY <2>1 DEF Slot
<1>5. /\ t \in Seq(Slot) /\ Len(t) = Len(slots[q]) + 1
      /\ \A k \in 1..Len(slots[q]) : t[k] = slots[q][k]
      /\ Len(slots[q]) + 1 <= reach[q] => t[Len(slots[q]) + 1].cover # "no"
  <2>1. (q \in announced) \in BOOLEAN
    OBVIOUS
  <2> QED
    BY <1>4, <2>1, PushedList DEF KeeperInv
<1> HIDE DEF s, t
<1>6. /\ slots'[q] = t /\ slots'[r] = s
      /\ \A p \in Recipients : p # q /\ p # r => slots'[p] = slots[p]
      /\ DOMAIN slots' = Recipients
  BY <1>1, <1>2
<1>7. \A p \in Recipients : slots'[p] \in Seq(Slot) /\ Len(slots'[p]) <= MaxEntries
  BY <1>1, <1>3, <1>5, <1>6
<1>8. Lists'
  <2>1. slots' = [p \in Recipients |-> slots'[p]]
    BY <1>1, <1>2
  <2> QED
    BY <2>1, <1>7 DEF Lists
<1>9. ASSUME NEW k \in 1..Len(slots[q]) + 1, k <= reach[q]
      PROVE  t[k].cover # "no"
  BY <1>1, <1>5, <1>9 DEF KeeperInv, Covered
<1>10. Covered'
  <2> SUFFICES ASSUME NEW p \in Recipients, NEW k \in DOMAIN slots'[p], k <= reach'[p]
               PROVE  slots'[p][k].cover # "no"
    BY DEF Covered
  <2>1. CASE p = q
    BY <2>1, <1>1, <1>2, <1>5, <1>6, <1>9
  <2>2. CASE p = r
    <3>1. k \in 1..Len(slots[r]) - 1 /\ slots'[r][k] = s[k] /\ k <= reach[r]
      BY <2>2, <1>1, <1>2, <1>3, <1>6
    <3>2. slots[r][k].cover # "no"
      BY <3>1, <1>1 DEF KeeperInv, Covered
    <3> QED
      BY <3>1, <3>2, <2>2, <1>3
  <2>3. CASE p # q /\ p # r
    BY <2>3, <1>2, <1>6 DEF KeeperInv, Covered
  <2> QED
    BY <2>1, <2>2, <2>3
<1> QED
  BY <1>8, <1>10

-----------------------------------------------------------------------------
(* The invariant *)

LEMMA KeeperInit == Init => KeeperInv
<1> SUFFICES ASSUME Init PROVE KeeperInv
  OBVIOUS
<1>1. Lists /\ Covered
  BY KeeperAssumption DEF Init, Lists, Covered
<1>2. disk \in Cursors /\ reach \in Cursors
  BY KeeperAssumption DEF Init, Cursors
<1>3. /\ run \in Runs /\ run.pc = "idle" /\ run.answer = "none"
      /\ run.cursors = disk
  BY <1>2 DEF Init, Idle, Runs
<1>4. TypeOK
  <2>1. pool = {} /\ announced = {} /\ ran \in BOOLEAN
    BY DEF Init
  <2>2. faults \in 0..MaxFaults
    <3>1. MaxFaults \in Nat
      BY KeeperAssumption
    <3> QED
      BY <3>1 DEF Init
  <2> QED
    BY <1>1, <1>2, <1>3, <2>1, <2>2 DEF TypeOK, Lists, Runs
<1>5. Earned
  <2>1. \A r \in Recipients : disk[r] = 0 /\ reach[r] = 0
    BY DEF Init
  <2>2. pool = {}
    BY DEF Init
  <2> QED
    BY <1>3, <2>1, <2>2 DEF Earned
<1> QED
  BY <1>1, <1>4, <1>5 DEF KeeperInv

\* A step that changes neither lists nor reach has only cursors to account for.
LEMMA BotStep ==
  ASSUME KeeperInv, UNCHANGED <<slots, reach>>,
         announced' \subseteq Recipients, disk' \in Cursors, run' \in Runs,
         pool' \subseteq [to : Recipients, start : 0..MaxCursor],
         ran' \in BOOLEAN, faults' \in 0..MaxFaults, Earned'
  PROVE  KeeperInv'
<1>1. TypeOK'
  BY DEF KeeperInv, TypeOK, Runs
<1>2. Covered'
  BY DEF KeeperInv, Covered
<1> QED
  BY <1>1, <1>2 DEF KeeperInv

\* The contract leaves the bot's cursors alone.
LEMMA ListStep ==
  ASSUME KeeperInv, UNCHANGED <<disk, run, pool, faults, reach>>, Lists', Covered',
         announced' \subseteq Recipients, ran' \in BOOLEAN
  PROVE  KeeperInv'
<1>1. TypeOK'
  BY DEF KeeperInv, TypeOK, Lists
<1>2. Earned'
  BY DEF KeeperInv, Earned
<1> QED
  BY <1>1, <1>2 DEF KeeperInv

LEMMA ContractKeeps == KeeperInv /\ Contract => KeeperInv'
<1> SUFFICES ASSUME KeeperInv, Contract PROVE KeeperInv'
  OBVIOUS
<1>1. announced \subseteq Recipients /\ ran \in BOOLEAN
  BY DEF KeeperInv, TypeOK
<1>2. ASSUME NEW r \in Recipients, NEW id \in Ids, Deposit(r, id)
      PROVE  KeeperInv'
  BY <1>1, <1>2, DepositLists, ListStep DEF Deposit
<1>3. ASSUME NEW r \in Recipients, NEW i \in DOMAIN slots[r], Remove(r, i)
      PROVE  KeeperInv'
  BY <1>1, <1>3, RemoveLists, ListStep DEF Remove
<1>4. ASSUME NEW r \in Recipients, NEW i \in DOMAIN slots[r],
             NEW q \in Recipients, Transfer(r, i, q)
      PROVE  KeeperInv'
  BY <1>1, <1>4, TransferLists, ListStep DEF Transfer
<1>5. CASE Tick
  <2> DEFINE new(r, i) == [slots[r][i] EXCEPT !.left = IF @ = 0 THEN 0 ELSE @ - 1]
  <2>1. /\ slots \in [Recipients -> Seq(Slot)]
        /\ \A r \in Recipients : Len(slots[r]) <= MaxEntries
    BY DEF KeeperInv, TypeOK
  <2>2. ASSUME NEW r \in Recipients, NEW i \in DOMAIN slots[r]
        PROVE  new(r, i) \in Slot /\ new(r, i).cover = slots[r][i].cover
    <3>1. slots[r][i] \in Slot
      BY <2>1
    <3> QED
      BY <3>1, KeeperAssumption DEF Slot
  <2>3. slots' = [r \in Recipients |-> [i \in DOMAIN slots[r] |-> new(r, i)]]
    BY <1>5 DEF Tick
  <2> HIDE DEF new
  <2>4. ASSUME NEW r \in Recipients
        PROVE  slots'[r] \in Seq(Slot) /\ Len(slots'[r]) = Len(slots[r])
    <3>1. slots[r] \in Seq(Slot) /\ DOMAIN slots[r] = 1..Len(slots[r])
          /\ Len(slots[r]) \in Nat
      BY <2>1
    <3>2. slots'[r] = [i \in 1..Len(slots[r]) |-> new(r, i)]
      BY <2>3, <3>1
    <3>3. \A i \in 1..Len(slots[r]) : new(r, i) \in Slot
      BY <2>2, <3>1
    <3> QED
      BY <3>1, <3>2, <3>3
  <2>5. slots' \in [Recipients -> Seq(Slot)]
    BY <2>3, <2>4
  <2>6. Lists'
    BY <2>1, <2>4, <2>5 DEF Lists
  <2>7. Covered'
    BY <2>2, <2>3, <1>5 DEF Tick, KeeperInv, Covered
  <2> QED
    BY <1>1, <1>5, <2>6, <2>7, ListStep DEF Tick
<1> QED
  BY <1>2, <1>3, <1>4, <1>5 DEF Contract

\* Moving on to the next holder.
LEMMA DoneType ==
  ASSUME KeeperInv, NEW r \in Recipients
  PROVE  /\ Done(r) \in Runs
         /\ Done(r).cursors = run.cursors /\ Done(r).pc = "loop" /\ Done(r).answer = "none"
BY DEF KeeperInv, TypeOK, Runs, Done

LEMMA IdleType ==
  ASSUME KeeperInv
  PROVE  Idle \in Runs /\ Idle.cursors = disk /\ Idle.pc = "idle" /\ Idle.answer = "none"
BY DEF KeeperInv, TypeOK, Runs, Idle

LEMMA BotKeeps == KeeperInv /\ Bot => KeeperInv'
<1> SUFFICES ASSUME KeeperInv, Bot PROVE KeeperInv'
  OBVIOUS
<1> USE DEF Runs
<1>1. /\ announced \subseteq Recipients /\ disk \in Cursors /\ run \in Runs
      /\ pool \subseteq [to : Recipients, start : 0..MaxCursor]
      /\ ran \in BOOLEAN /\ faults \in 0..MaxFaults /\ reach \in Cursors
      /\ Earned
  BY DEF KeeperInv, TypeOK
<1>2. CASE Start
  <2>1. /\ run' \in Runs /\ run'.cursors = disk /\ run'.pc = "loop"
        /\ run'.answer = "none"
    BY <1>1, <1>2, IdleType DEF Start
  <2>2. Earned'
    BY <1>1, <1>2, <2>1 DEF Start, Earned
  <2> QED
    BY <1>1, <1>2, <2>1, <2>2, BotStep DEF Start
<1>3. CASE Advance
  <2> DEFINE r == run.at
  <2>1. /\ r \in Recipients /\ run.cursors[r] \in 0..MaxCursor
        /\ Past(run.cursors[r]) <= reach[r]
    BY <1>1, <1>3 DEF Advance, Earned, Cursors
  <2>2. Past(run.cursors[r]) \in 0..MaxCursor
    BY <2>1, PastType
  <2>3. /\ run' \in Runs /\ run'.pc = "loop" /\ run'.answer = "none"
        /\ run'.cursors = [run.cursors EXCEPT ![r] = Past(run.cursors[r])]
    BY <1>1, <1>3, <2>1, <2>2, DoneType DEF Advance, Cursors
  <2>4. Earned'
    BY <1>1, <1>3, <2>1, <2>3 DEF Advance, Earned, Cursors
  <2> QED
    BY <1>1, <1>3, <2>3, <2>4, BotStep DEF Advance
<1>4. CASE Hold
  <2>1. run.at \in Recipients
    BY <1>1, <1>4 DEF Hold, Earned
  <2>2. /\ run' \in Runs /\ run'.cursors = run.cursors /\ run'.pc = "loop"
        /\ run'.answer = "none"
    BY <1>4, <2>1, DoneType DEF Hold
  <2>3. Earned'
    BY <1>1, <1>4, <2>2 DEF Hold, Earned
  <2> QED
    BY <1>1, <1>4, <2>2, <2>3, BotStep DEF Hold
<1>5. CASE Save
  <2>1. /\ disk' = run.cursors /\ disk' \in Cursors
    BY <1>1, <1>5 DEF Save
  <2>2. /\ run' \in Runs /\ run'.cursors = run.cursors /\ run'.pc = "idle"
        /\ run'.answer = "none"
    BY <1>1, <1>5, <2>1, IdleType DEF Save
  <2>3. Earned'
    BY <1>1, <1>5, <2>1, <2>2 DEF Save, Earned
  <2> QED
    BY <1>1, <1>5, <2>1, <2>2, <2>3, BotStep DEF Save
<1>6. ASSUME NEW r \in Recipients, Send(r)
      PROVE  KeeperInv'
  <2>1. /\ run' \in Runs /\ run'.cursors = run.cursors
        /\ run'.at = r /\ run'.answer = run.answer
    BY <1>1, <1>6 DEF Send
  <2>2. run.answer = "none"
    BY <1>1, <1>6 DEF Send, Earned
  <2>3. Earned'
    BY <1>1, <1>6, <2>1, <2>2 DEF Send, Earned
  <2> QED
    BY <1>1, <1>6, <2>1, <2>3, BotStep DEF Send
<1> QED
  BY <1>2, <1>3, <1>4, <1>5, <1>6 DEF Bot

\* What maintenance on a window it may start at does to everything else.
LEMMA MaintainStep ==
  ASSUME KeeperInv, NEW r \in Recipients, NEW start \in 0..MaxCursor,
         start <= reach[r], Maintain(r, start),
         UNCHANGED <<announced, disk, ran, faults>>,
         run' \in Runs, run'.pc = run.pc, run'.at = run.at,
         run'.cursors = run.cursors, pool' \subseteq pool,
         run'.answer # run.answer =>
             run.pc = "poll" /\ run.at = r /\ start = run.cursors[r]
  PROVE  KeeperInv'
<1>1. /\ Lists' /\ Covered' /\ reach' \in Cursors
      /\ \A q \in Recipients : reach[q] <= reach'[q]
      /\ Past(start) <= reach'[r]
  BY MaintainLists
<1>2. TypeOK'
  BY <1>1 DEF KeeperInv, TypeOK, Lists, Runs
<1>3. /\ disk \in Cursors /\ run.cursors \in Cursors /\ reach \in Cursors
      /\ pool \subseteq [to : Recipients, start : 0..MaxCursor]
      /\ MaxCursor \in Nat
  BY KeeperAssumption DEF KeeperInv, TypeOK
<1>4. Earned'
  <2>1. \A q \in Recipients : disk'[q] <= reach'[q] /\ run'.cursors[q] <= reach'[q]
    BY <1>1, <1>3 DEF KeeperInv, Earned, Cursors
  <2>2. \A tx \in pool' : tx.start <= reach'[tx.to]
    BY <1>1, <1>3 DEF KeeperInv, Earned, Cursors
  <2>3. run'.pc # "poll" => run'.answer = "none"
    BY DEF KeeperInv, Earned
  <2>4. ASSUME run'.pc = "poll"
        PROVE  run'.at \in Recipients
    BY <2>4 DEF KeeperInv, Earned
  <2>5. ASSUME run'.pc = "poll", run'.answer = "SUCCESS"
        PROVE  Past(run'.cursors[run'.at]) <= reach'[run'.at]
    <3>1. CASE run'.answer # run.answer
      BY <3>1, <1>1
    <3>2. CASE run'.answer = run.answer
      <4> DEFINE q == run.at
      <4>1. q \in Recipients /\ Past(run.cursors[q]) <= reach[q]
        BY <3>2, <2>5 DEF KeeperInv, Earned
      <4>2. Past(run.cursors[q]) \in 0..MaxCursor
        BY <4>1, <1>3, PastType DEF Cursors
      <4> QED
        BY <4>1, <4>2, <1>1, <1>3 DEF Cursors
    <3> QED
      BY <3>1, <3>2
  <2> QED
    BY <2>1, <2>2, <2>3, <2>4, <2>5 DEF Earned
<1> QED
  BY <1>1, <1>2, <1>4 DEF KeeperInv

LEMMA NetworkKeeps == KeeperInv /\ Network => KeeperInv'
<1> SUFFICES ASSUME KeeperInv, Network PROVE KeeperInv'
  OBVIOUS
<1>1. /\ announced \subseteq Recipients /\ disk \in Cursors /\ run \in Runs
      /\ pool \subseteq [to : Recipients, start : 0..MaxCursor]
      /\ ran \in BOOLEAN /\ faults \in 0..MaxFaults /\ reach \in Cursors
      /\ Earned
  BY DEF KeeperInv, TypeOK, Runs
<1>2. CASE Apply
  <2>1. /\ run.at \in Recipients /\ run.cursors[run.at] \in 0..MaxCursor
        /\ run.cursors[run.at] <= reach[run.at]
    BY <1>1, <1>2 DEF Apply, Earned, Runs, Cursors
  <2>2. /\ run' \in Runs /\ run'.pc = run.pc /\ run'.at = run.at
        /\ run'.cursors = run.cursors /\ run.pc = "poll"
    BY <1>1, <1>2 DEF Apply, Runs
  <2> QED
    BY <1>2, <2>1, <2>2, MaintainStep DEF Apply
<1>3. CASE Reject
  <2>1. /\ run' \in Runs /\ run'.cursors = run.cursors /\ run'.pc = run.pc
        /\ run'.at = run.at /\ run'.answer = "FAILED" /\ run.pc = "poll"
    BY <1>1, <1>3 DEF Reject, Runs
  <2>2. faults' \in 0..MaxFaults
    BY <1>1, <1>3, KeeperAssumption DEF Reject, Fault
  <2>3. Earned'
    BY <1>1, <1>3, <2>1 DEF Reject, Earned
  <2> QED
    BY <1>1, <1>3, <2>1, <2>2, <2>3, BotStep DEF Reject
<1>4. ASSUME NEW tx \in pool, LateApply(tx)
      PROVE  KeeperInv'
  <2>1. /\ tx.to \in Recipients /\ tx.start \in 0..MaxCursor
        /\ tx.start <= reach[tx.to]
    BY <1>1 DEF Earned
  <2> QED
    BY <1>1, <1>4, <2>1, MaintainStep DEF LateApply
<1>5. ASSUME NEW tx \in pool, Drop(tx)
      PROVE  KeeperInv'
  <2>1. Earned'
    BY <1>1, <1>5 DEF Drop, Earned
  <2> QED
    BY <1>1, <1>5, <2>1, BotStep DEF Drop
<1> QED
  BY <1>2, <1>3, <1>4, <1>5 DEF Network

LEMMA TroubleKeeps == KeeperInv /\ Trouble => KeeperInv'
<1> SUFFICES ASSUME KeeperInv, Trouble PROVE KeeperInv'
  OBVIOUS
<1>1. /\ announced \subseteq Recipients /\ disk \in Cursors /\ run \in Runs
      /\ pool \subseteq [to : Recipients, start : 0..MaxCursor]
      /\ ran \in BOOLEAN /\ faults \in 0..MaxFaults /\ reach \in Cursors
      /\ Earned
  BY DEF KeeperInv, TypeOK, Runs
<1>2. Fault => faults' \in 0..MaxFaults
  BY <1>1, KeeperAssumption DEF Fault
<1>3. CASE DiscoverNobody
  <2>1. /\ run' \in Runs /\ run'.cursors = disk /\ run'.pc = "loop"
        /\ run'.answer = "none"
    BY <1>1, <1>3, IdleType DEF DiscoverNobody, Runs
  <2>2. Earned'
    BY <1>1, <1>3, <2>1 DEF DiscoverNobody, Earned
  <2> QED
    BY <1>1, <1>2, <1>3, <2>1, <2>2, BotStep DEF DiscoverNobody
<1>4. CASE GiveUp
  <2> DEFINE tx == [to |-> run.at, start |-> run.cursors[run.at]]
  <2>1. run.at \in Recipients
    BY <1>1, <1>4 DEF GiveUp, Earned
  <2>2. /\ tx \in [to : Recipients, start : 0..MaxCursor]
        /\ tx.start <= reach[tx.to]
    BY <1>1, <2>1 DEF Earned, Runs, Cursors
  <2>3. /\ run' \in Runs /\ run'.cursors = run.cursors /\ run'.pc = "loop"
        /\ run'.answer = "none"
    BY <1>4, <2>1, DoneType DEF GiveUp
  <2>4. pool' = pool \union {tx}
    BY <1>4 DEF GiveUp
  <2> HIDE DEF tx
  <2>5. Earned'
    BY <1>1, <1>4, <2>2, <2>3, <2>4 DEF GiveUp, Earned
  <2> QED
    BY <1>1, <1>2, <1>4, <2>2, <2>3, <2>4, <2>5, BotStep DEF GiveUp
<1>5. CASE Crash
  <2> DEFINE tx == [to |-> run.at, start |-> run.cursors[run.at]]
  <2>1. /\ run' \in Runs /\ run'.cursors = disk /\ run'.pc = "idle"
        /\ run'.answer = "none"
    BY <1>5, IdleType DEF Crash
  <2>2. \/ pool' = pool
        \/ /\ pool' = pool \union {tx}
           /\ tx \in [to : Recipients, start : 0..MaxCursor]
           /\ tx.start <= reach[tx.to]
    BY <1>1, <1>5 DEF Crash, Earned, Runs, Cursors
  <2> HIDE DEF tx
  <2>3. Earned'
    BY <1>1, <1>5, <2>1, <2>2 DEF Crash, Earned
  <2>4. pool' \subseteq [to : Recipients, start : 0..MaxCursor]
    BY <1>1, <2>2
  <2> QED
    BY <1>1, <1>2, <1>5, <2>1, <2>3, <2>4, BotStep DEF Crash
<1>6. ASSUME NEW r \in Recipients, NoWork(r)
      PROVE  KeeperInv'
  <2>1. /\ run' \in Runs /\ run'.pc = "loop" /\ run'.answer = "none"
        /\ run'.cursors = [run.cursors EXCEPT ![r] = 0]
    <3>1. 0 \in 0..MaxCursor
      BY KeeperAssumption
    <3> QED
      BY <1>1, <1>6, <3>1, DoneType DEF NoWork, Runs, Cursors
  <2>2. 0 <= reach[r]
    BY <1>1 DEF Cursors
  <2>3. Earned'
    BY <1>1, <1>6, <2>1, <2>2 DEF NoWork, Earned, Runs, Cursors
  <2> QED
    BY <1>1, <1>2, <1>6, <2>1, <2>3, BotStep DEF NoWork
<1> QED
  BY <1>3, <1>4, <1>5, <1>6 DEF Trouble

LEMMA KeeperStep == KeeperInv /\ [Next]_vars => KeeperInv'
<1>1. KeeperInv /\ UNCHANGED vars => KeeperInv'
  BY DEF KeeperInv, TypeOK, Covered, Earned, vars
<1> QED
  BY <1>1, ContractKeeps, BotKeeps, NetworkKeeps, TroubleKeeps DEF Next

-----------------------------------------------------------------------------
\* The state of lists, bot and transactions keeps its type, for every number of
\* holders, schedules and faults (keeper.ts, lib.rs maintenance).
THEOREM KeeperTypeOK == Spec => []TypeOK
<1>1. KeeperInv => TypeOK
  BY DEF KeeperInv
<1> QED
  BY <1>1, KeeperInit, KeeperStep, PTL DEF Spec

\* Every slot behind a saved cursor was covered by a maintenance transaction that
\* was applied, whatever was lost, late or in doubt (keeper.ts main and
\* maintainRecipientPaginated, lib.rs maintenance, push_vesting, remove_vesting).
THEOREM KeeperCoveredBehindCursor == Spec => []CoveredBehindCursor
<1>1. KeeperInv => CoveredBehindCursor
  <2> SUFFICES ASSUME KeeperInv, NEW r \in Recipients, NEW i \in DOMAIN slots[r],
                      i <= disk[r]
               PROVE  slots[r][i].cover # "no"
    BY DEF CoveredBehindCursor
  <2>1. /\ disk[r] \in 0..MaxCursor /\ reach[r] \in 0..MaxCursor
        /\ i \in 1..Len(slots[r]) /\ disk[r] <= reach[r]
    BY DEF KeeperInv, TypeOK, Earned, Cursors
  <2>2. i <= reach[r]
    BY <2>1, KeeperAssumption
  <2> QED
    BY <2>2 DEF KeeperInv, Covered
<1> QED
  BY <1>1, KeeperInit, KeeperStep, PTL DEF Spec

-----------------------------------------------------------------------------
(* The cursor passes a slot before its lifetime runs out *)

\* A cursor that moves a window a period is past the longest list before a
\* lifetime runs out.
Pace(cursor, left) == cursor >= MaxEntries \/ cursor + left * Limit >= MaxEntries

\* The first lifetime of a slot is long enough for that, its first period aside,
\* in which it may have come too late for the run.
Timely == Pace(0, Extended(NewTtl) - 1)

\* The bot has heard of r before each of its slots was made.
Attended(r) == \A i \in DOMAIN slots[r] : slots[r][i].known

\* Once it has heard of r it hears of the slots to come.
Heard ==
    \A r \in Recipients : \A i \in DOMAIN slots[r] : slots[r][i].known =>
        r \in announced /\ \A k \in DOMAIN slots[r] : i <= k => slots[r][k].known

\* As long as nothing failed, the cursor will pass each slot in time, ...
Paced(r, left) ==
    /\ Pace(disk[r], left)
    /\ ran => Pace(disk[r], left - 1)
    /\ run.pc # "idle" => \/ r \in run.todo /\ run.cursors[r] = disk[r]
                          \/ Pace(run.cursors[r], left - 1)
    /\ run.pc = "poll" /\ run.at = r /\ run.answer = "FAILED" =>
           Pace(run.cursors[r], left - 1)

\* ... for the network has no reason to refuse its windows.
OnTime ==
    \A r \in Recipients : Attended(r) =>
        \A i \in DOMAIN slots[r] : Paced(r, slots[r][i].left)

TimeInv == Heard /\ (faults = 0 => OnTime)

\* The slots of a list live on, or it gets a new one.
Grows(r) ==
    \A i \in DOMAIN slots'[r] :
        \/ /\ i \in DOMAIN slots[r]
           /\ slots'[r][i].known = slots[r][i].known
           /\ slots'[r][i].left >= slots[r][i].left
        \/ /\ i = Len(slots[r]) + 1
           /\ slots'[r][i].left = Extended(NewTtl)
           /\ r \in announced => slots'[r][i].known
           /\ slots'[r][i].known => r \in announced'

LEMMA MoreTime ==
  ASSUME NEW a \in Int, NEW b \in Int, a <= b
  PROVE  a * Limit <= b * Limit
<1>1. Limit \in Nat /\ b - a \in Nat
  BY KeeperAssumption
<1>2. \A x, y \in Nat : x * y >= 0
  OBVIOUS
<1>3. (b - a) * Limit >= 0
  BY <1>1, <1>2
<1>4. (b - a) * Limit = b * Limit - a * Limit
  BY <1>1
<1>5. a * Limit \in Int /\ b * Limit \in Int
  BY <1>1
<1> QED
  BY <1>3, <1>4, <1>5

LEMMA PaceMonotonic ==
  ASSUME NEW c \in Nat, NEW d \in Nat, c <= d, NEW a \in Int, NEW b \in Int, a <= b,
         Pace(c, a)
  PROVE  Pace(d, b)
<1>1. a * Limit <= b * Limit /\ a * Limit \in Int /\ b * Limit \in Int /\ MaxEntries \in Nat
  BY MoreTime, KeeperAssumption
<1> QED
  BY <1>1 DEF Pace

LEMMA PaceStep ==
  ASSUME NEW c \in 0..MaxCursor, NEW a \in Int, Pace(c, a)
  PROVE  Pace(Past(c), a - 1)
<1>1. /\ Limit \in Nat /\ MaxCursor \in Nat /\ MaxEntries \in Nat /\ MaxCursor >= MaxEntries
  BY KeeperAssumption
<1>2. (a - 1) * Limit = a * Limit - Limit /\ a * Limit \in Int
  BY <1>1
<1>3. Past(c) = MaxCursor \/ Past(c) = c + Limit
  BY DEF Past
<1> QED
  BY <1>1, <1>2, <1>3 DEF Pace

LEMMA PaceOut ==
  ASSUME NEW c \in Nat, NEW a \in {-1, 0}, Pace(c, a)
  PROVE  c >= MaxEntries
<1>1. Limit \in Nat /\ MaxEntries \in Nat
  BY KeeperAssumption
<1>2. 0 * Limit = 0 /\ -1 * Limit = 0 - Limit
  BY <1>1
<1>3. a * Limit <= 0 /\ a * Limit \in Int
  BY <1>1, <1>2
<1> QED
  BY <1>1, <1>3 DEF Pace

LEMMA ListTypes ==
  ASSUME NEW s \in Seq(Slot)
  PROVE  /\ DOMAIN s = 1..Len(s) /\ Len(s) \in Nat
         /\ \A i \in DOMAIN s : s[i].left \in Nat /\ s[i].known \in BOOLEAN
<1>1. \A e \in Slot : e.left \in Nat /\ e.known \in BOOLEAN
  BY KeeperAssumption DEF Slot
<1> QED
  BY <1>1

LEMMA SlotTypes ==
  ASSUME TypeOK, NEW r \in Recipients
  PROVE  /\ DOMAIN slots[r] = 1..Len(slots[r]) /\ Len(slots[r]) \in Nat
         /\ \A i \in DOMAIN slots[r] : slots[r][i].left \in Nat /\ slots[r][i].known \in BOOLEAN
         /\ disk[r] \in 0..MaxCursor /\ run.cursors[r] \in 0..MaxCursor
         /\ MaxCursor \in Nat /\ Extended(NewTtl) \in Nat
<1>1. slots[r] \in Seq(Slot)
  BY DEF TypeOK
<1>2. Extended(NewTtl) \in Nat /\ MaxCursor \in Nat
  BY KeeperAssumption DEF Extended
<1>3. disk[r] \in 0..MaxCursor /\ run.cursors[r] \in 0..MaxCursor
  BY DEF TypeOK, Cursors
<1> QED
  BY <1>1, <1>2, <1>3, ListTypes

LEMMA TimeInit == Init => TimeInv
BY DEF Init, TimeInv, Heard, OnTime

\* A fresh slot has all its time.
LEMMA FreshPaced ==
  ASSUME Timely, TypeOK, NEW r \in Recipients
  PROVE  Paced(r, Extended(NewTtl))
<1>1. /\ disk[r] \in Nat /\ run.cursors[r] \in Nat
      /\ Extended(NewTtl) \in Int /\ Extended(NewTtl) - 1 \in Int
  BY SlotTypes
<1>2. \A c \in Nat : Pace(c, Extended(NewTtl)) /\ Pace(c, Extended(NewTtl) - 1)
  BY <1>1, PaceMonotonic DEF Timely
<1> QED
  BY <1>1, <1>2 DEF Paced

\* More time does no harm.
LEMMA PacedMonotonic ==
  ASSUME TypeOK, NEW r \in Recipients, NEW a \in Nat, NEW b \in Nat, a <= b, Paced(r, a)
  PROVE  Paced(r, b)
<1>1. disk[r] \in Nat /\ run.cursors[r] \in Nat
  BY SlotTypes
<1>2. \A c \in Nat : /\ Pace(c, a) => Pace(c, b)
                     /\ Pace(c, a - 1) => Pace(c, b - 1)
  BY PaceMonotonic
<1> QED
  BY <1>1, <1>2 DEF Paced

\* Lists that grow, whatever the contract or the network did to them.
LEMMA GrowStep ==
  ASSUME Timely, TypeOK, TypeOK', TimeInv, announced \subseteq announced',
         UNCHANGED <<disk, ran, faults>>,
         run'.pc = run.pc, run'.cursors = run.cursors, run'.todo = run.todo,
         run'.at = run.at, run'.answer = "FAILED" => run.answer = "FAILED",
         \A r \in Recipients : Grows(r)
  PROVE  TimeInv'
<1>1. ASSUME NEW r \in Recipients
      PROVE  /\ DOMAIN slots[r] = 1..Len(slots[r]) /\ Len(slots[r]) \in Nat
             /\ DOMAIN slots'[r] = 1..Len(slots'[r]) /\ Len(slots'[r]) \in Nat
             /\ \A i \in DOMAIN slots[r] : slots[r][i].left \in Nat
             /\ \A i \in DOMAIN slots'[r] : slots'[r][i].left \in Nat
  <2>1. slots[r] \in Seq(Slot) /\ slots'[r] \in Seq(Slot)
    BY DEF TypeOK
  <2> QED
    BY <2>1, ListTypes
<1>2. Heard'
  <2> SUFFICES ASSUME NEW r \in Recipients, NEW i \in DOMAIN slots'[r], slots'[r][i].known
               PROVE  r \in announced' /\ \A k \in DOMAIN slots'[r] : i <= k => slots'[r][k].known
    BY DEF Heard
  <2>1. CASE i \in DOMAIN slots[r] /\ slots'[r][i].known = slots[r][i].known
    <3>1. r \in announced /\ \A k \in DOMAIN slots[r] : i <= k => slots[r][k].known
      BY <2>1 DEF TimeInv, Heard
    <3> QED
      BY <3>1 DEF Grows
  <2>2. CASE i = Len(slots[r]) + 1 /\ (slots'[r][i].known => r \in announced')
    <3>1. ASSUME NEW k \in DOMAIN slots'[r], i <= k PROVE k = i
      <4>1. k \in DOMAIN slots[r] \/ k = Len(slots[r]) + 1
        BY DEF Grows
      <4> QED
        BY <1>1, <2>2, <3>1, <4>1
    <3> QED
      BY <2>2, <3>1
  <2> QED
    BY <2>1, <2>2 DEF Grows
<1>3. ASSUME faults = 0, NEW r \in Recipients, Attended(r)', NEW i \in DOMAIN slots'[r]
      PROVE  Paced(r, slots'[r][i].left)
  <2>1. Attended(r)
    <3> SUFFICES ASSUME NEW k \in DOMAIN slots[r] PROVE slots[r][k].known
      BY DEF Attended
    <3>1. 1 \in DOMAIN slots[r] /\ 1 \in DOMAIN slots'[r] /\ 1 # Len(slots[r]) + 1 /\ 1 <= k
      BY <1>1
    <3>2. slots'[r][1].known /\ slots'[r][1].known = slots[r][1].known
      BY <1>3, <3>1 DEF Attended, Grows
    <3> QED
      BY <3>1, <3>2 DEF TimeInv, Heard
  <2>2. CASE i \in DOMAIN slots[r] /\ slots'[r][i].left >= slots[r][i].left
    <3>1. Paced(r, slots[r][i].left)
      BY <1>3, <2>1, <2>2 DEF TimeInv, OnTime
    <3> QED
      BY <1>1, <2>2, <3>1, PacedMonotonic
  <2>3. CASE slots'[r][i].left = Extended(NewTtl)
    BY <2>3, FreshPaced
  <2> QED
    BY <2>2, <2>3 DEF Grows
<1>4. ASSUME faults' = 0 PROVE OnTime'
  <2> SUFFICES ASSUME NEW r \in Recipients, Attended(r)', NEW i \in DOMAIN slots'[r]
               PROVE  Paced(r, slots[r][i].left)'
    BY DEF OnTime
  <2>1. Paced(r, slots'[r][i].left)
    BY <1>3, <1>4
  <2> QED
    BY <2>1 DEF Paced
<1> QED
  BY <1>2, <1>4 DEF TimeInv

\* Steps that leave the lists.
LEMMA CursorStep ==
  ASSUME TimeInv, UNCHANGED <<slots, announced>>, faults' = 0 => faults = 0,
         faults' = 0 => \A r \in Recipients : \A i \in DOMAIN slots[r] :
             Attended(r) /\ Paced(r, slots[r][i].left) => Paced(r, slots[r][i].left)'
  PROVE  TimeInv'
<1>1. Heard'
  BY DEF TimeInv, Heard
<1>2. ASSUME faults' = 0 PROVE OnTime'
  <2> SUFFICES ASSUME NEW r \in Recipients, Attended(r)', NEW i \in DOMAIN slots'[r]
               PROVE  Paced(r, slots[r][i].left)'
    BY DEF OnTime
  <2>1. i \in DOMAIN slots[r] /\ Attended(r)
    BY DEF Attended
  <2>2. Paced(r, slots[r][i].left)
    BY <1>2, <2>1 DEF TimeInv, OnTime
  <2> QED
    BY <1>2, <2>1, <2>2
<1> QED
  BY <1>1, <1>2 DEF TimeInv

-----------------------------------------------------------------------------
(* The contract and the network *)

LEMMA PushedSlot ==
  ASSUME TypeOK, NEW r \in Recipients, NEW id \in Ids, NEW known \in BOOLEAN
  PROVE  /\ Pushed(r, id, known)[Len(slots[r]) + 1].left = Extended(NewTtl)
         /\ Pushed(r, id, known)[Len(slots[r]) + 1].known = known
<1> DEFINE new == [id |-> id, left |-> Extended(NewTtl), known |-> known,
                   cover |-> IF Len(slots[r]) + 1 <= reach[r] THEN "late" ELSE "no"]
<1>1. slots[r] \in Seq(Slot)
  BY DEF TypeOK
<1>2. Pushed(r, id, known) = Append(slots[r], new)
  BY DEF Pushed
<1>3. new.left = Extended(NewTtl) /\ new.known = known
  OBVIOUS
<1> HIDE DEF new
<1>4. Append(slots[r], new)[Len(slots[r]) + 1] = new
  BY <1>1
<1> QED
  BY <1>2, <1>3, <1>4

LEMMA DepositGrows ==
  ASSUME KeeperInv, NEW r \in Recipients, NEW id \in Ids, Deposit(r, id)
  PROVE  \A q \in Recipients : Grows(q)
<1> DEFINE s == Pushed(r, id, TRUE)
<1>1. slots \in [Recipients -> Seq(Slot)] /\ slots[r] \in Seq(Slot)
  BY DEF KeeperInv, TypeOK
<1>2. slots' = [slots EXCEPT ![r] = s] /\ r \in announced'
  BY DEF Deposit
<1>3. /\ s \in Seq(Slot) /\ Len(s) = Len(slots[r]) + 1
      /\ \A i \in 1..Len(slots[r]) : s[i] = slots[r][i]
      /\ s[Len(slots[r]) + 1].left = Extended(NewTtl)
      /\ s[Len(slots[r]) + 1].known = TRUE
  BY PushedList, PushedSlot DEF KeeperInv
<1> HIDE DEF s
<1>4. Grows(r)
  BY <1>1, <1>2, <1>3, ListTypes DEF Grows
<1>5. ASSUME NEW q \in Recipients, q # r PROVE Grows(q)
  BY <1>1, <1>2, <1>5, ListTypes DEF Grows
<1> QED
  BY <1>4, <1>5

LEMMA RemoveGrows ==
  ASSUME KeeperInv, NEW r \in Recipients, NEW i \in DOMAIN slots[r], Remove(r, i)
  PROVE  \A q \in Recipients : Grows(q)
<1> DEFINE s == Removed(r, i)
<1>1. slots \in [Recipients -> Seq(Slot)] /\ slots[r] \in Seq(Slot)
  BY DEF KeeperInv, TypeOK
<1>2. slots' = [slots EXCEPT ![r] = s]
  BY DEF Remove
<1>3. /\ s \in Seq(Slot) /\ Len(s) = Len(slots[r]) - 1
      /\ \A k \in 1..Len(slots[r]) - 1 : /\ s[k].known = slots[r][k].known
                                        /\ s[k].left >= slots[r][k].left
  BY RemovedList DEF KeeperInv
<1> HIDE DEF s
<1>4. Grows(r)
  <2>1. DOMAIN s = 1..Len(slots[r]) - 1 /\ DOMAIN slots[r] = 1..Len(slots[r])
        /\ Len(slots[r]) \in Nat
    BY <1>1, <1>3
  <2>2. slots'[r] = s
    BY <1>1, <1>2
  <2> QED
    BY <1>3, <2>1, <2>2 DEF Grows
<1>5. ASSUME NEW q \in Recipients, q # r PROVE Grows(q)
  <2>1. slots[q] \in Seq(Slot) /\ slots'[q] = slots[q]
    BY <1>1, <1>2, <1>5
  <2> QED
    BY <2>1, ListTypes DEF Grows
<1> QED
  BY <1>4, <1>5

LEMMA TransferGrows ==
  ASSUME KeeperInv, NEW r \in Recipients, NEW i \in DOMAIN slots[r],
         NEW q \in Recipients, Transfer(r, i, q)
  PROVE  \A p \in Recipients : Grows(p)
<1> DEFINE s == Removed(r, i)
           t == Pushed(q, slots[r][i].id, q \in announced)
<1>1. /\ slots \in [Recipients -> Seq(Slot)]
      /\ slots[r] \in Seq(Slot) /\ slots[q] \in Seq(Slot)
  BY DEF KeeperInv, TypeOK
<1>2. /\ slots' = [slots EXCEPT ![r] = s, ![q] = t] /\ r # q
      /\ announced \subseteq announced'
  BY DEF Transfer
<1>3. /\ s \in Seq(Slot) /\ Len(s) = Len(slots[r]) - 1
      /\ \A k \in 1..Len(slots[r]) - 1 : /\ s[k].known = slots[r][k].known
                                        /\ s[k].left >= slots[r][k].left
  BY RemovedList DEF KeeperInv
<1>4. slots[r][i].id \in Ids /\ (q \in announced) \in BOOLEAN
  <2>1. slots[r][i] \in Slot
    BY <1>1
  <2> QED
    BY <2>1 DEF Slot
<1>5. /\ t \in Seq(Slot) /\ Len(t) = Len(slots[q]) + 1
      /\ \A k \in 1..Len(slots[q]) : t[k] = slots[q][k]
      /\ t[Len(slots[q]) + 1].left = Extended(NewTtl)
      /\ t[Len(slots[q]) + 1].known <=> q \in announced
  BY <1>4, PushedList, PushedSlot DEF KeeperInv
<1> HIDE DEF s, t
<1>6. /\ slots'[q] = t /\ slots'[r] = s
      /\ \A p \in Recipients : p # q /\ p # r => slots'[p] = slots[p]
  BY <1>1, <1>2
<1>7. Grows(r)
  <2>1. DOMAIN s = 1..Len(slots[r]) - 1 /\ DOMAIN slots[r] = 1..Len(slots[r])
        /\ Len(slots[r]) \in Nat
    BY <1>1, <1>3
  <2> QED
    BY <1>3, <1>6, <2>1 DEF Grows
<1>8. Grows(q)
  <2>1. DOMAIN t = 1..Len(slots[q]) + 1 /\ DOMAIN slots[q] = 1..Len(slots[q])
        /\ Len(slots[q]) \in Nat /\ \A k \in DOMAIN slots[q] : slots[q][k].left \in Nat
    BY <1>1, <1>5, ListTypes
  <2> QED
    BY <1>2, <1>5, <1>6, <2>1 DEF Grows
<1>9. ASSUME NEW p \in Recipients, p # r, p # q PROVE Grows(p)
  BY <1>1, <1>6, <1>9, ListTypes DEF Grows
<1> QED
  BY <1>7, <1>8, <1>9

LEMMA MaintainGrows ==
  ASSUME TypeOK, NEW r \in Recipients, NEW start \in Nat, Maintain(r, start)
  PROVE  \A q \in Recipients : Grows(q)
<1> DEFINE new(i) == IF i \in InWindow(r, start)
                     THEN [slots[r][i] EXCEPT !.left = Extended(@), !.cover = "yes"]
                     ELSE slots[r][i]
<1>1. slots \in [Recipients -> Seq(Slot)] /\ slots[r] \in Seq(Slot)
  BY DEF TypeOK
<1>2. slots' = [slots EXCEPT ![r] = [i \in DOMAIN slots[r] |-> new(i)]]
  BY DEF Maintain
<1>3. ASSUME NEW i \in DOMAIN slots[r]
      PROVE  new(i).known = slots[r][i].known /\ new(i).left >= slots[r][i].left
  <2>1. slots[r][i] \in Slot /\ slots[r][i].left \in Nat
    BY <1>1, ListTypes
  <2>2. Extended(slots[r][i].left) >= slots[r][i].left
    BY <2>1, ExtendedLives
  <2> QED
    BY <2>1, <2>2 DEF Slot
<1> HIDE DEF new
<1>4. Grows(r)
  BY <1>1, <1>2, <1>3 DEF Grows
<1>5. ASSUME NEW q \in Recipients, q # r PROVE Grows(q)
  BY <1>1, <1>2, <1>5, ListTypes DEF Grows
<1> QED
  BY <1>4, <1>5

-----------------------------------------------------------------------------
(* The time invariant *)

LEMMA TickTimes ==
  ASSUME KeeperInv, TimeInv, Tick
  PROVE  TimeInv'
<1>1. /\ ran /\ ~ran' /\ run.pc = "idle" /\ UNCHANGED <<announced, disk, run, faults>>
      /\ slots' = [r \in Recipients |->
                   [i \in DOMAIN slots[r] |->
                      [slots[r][i] EXCEPT !.left = IF @ = 0 THEN 0 ELSE @ - 1]]]
  BY DEF Tick
<1>2. ASSUME NEW r \in Recipients
      PROVE  /\ DOMAIN slots'[r] = DOMAIN slots[r]
             /\ \A i \in DOMAIN slots[r] :
                    /\ slots'[r][i].known = slots[r][i].known
                    /\ slots[r][i].left \in Nat /\ slots'[r][i].left \in Nat
                    /\ slots'[r][i].left >= slots[r][i].left - 1
  <2>1. slots[r] \in Seq(Slot)
    BY DEF KeeperInv, TypeOK
  <2>2. \A x \in Slot : x.left \in Nat
    BY KeeperAssumption DEF Slot
  <2>3. ASSUME NEW i \in DOMAIN slots[r]
        PROVE  slots[r][i] \in Slot /\ slots[r][i].left \in Nat
    BY <2>1, <2>2
  <2>4. ASSUME NEW i \in DOMAIN slots[r]
        PROVE  slots'[r][i] = [slots[r][i] EXCEPT !.left =
                                   IF slots[r][i].left = 0 THEN 0 ELSE slots[r][i].left - 1]
    BY <1>1
  <2>5. ASSUME NEW x \in Slot, NEW n \in Nat
        PROVE  [x EXCEPT !.left = n].known = x.known /\ [x EXCEPT !.left = n].left = n
    BY DEF Slot
  <2>6. ASSUME NEW i \in DOMAIN slots[r]
        PROVE  /\ slots'[r][i].known = slots[r][i].known
               /\ slots'[r][i].left = IF slots[r][i].left = 0 THEN 0 ELSE slots[r][i].left - 1
    <3> DEFINE n == IF slots[r][i].left = 0 THEN 0 ELSE slots[r][i].left - 1
    <3>1. n \in Nat
      BY <2>3
    <3>2. slots'[r][i] = [slots[r][i] EXCEPT !.left = n]
      BY <2>4
    <3> HIDE DEF n
    <3>3. slots'[r][i].known = slots[r][i].known /\ slots'[r][i].left = n
      BY <2>3, <2>5, <3>1, <3>2
    <3> QED
      BY <3>3 DEF n
  <2>7. DOMAIN slots'[r] = DOMAIN slots[r]
    BY <1>1
  <2>8. ASSUME NEW i \in DOMAIN slots[r]
        PROVE  slots'[r][i].left \in Nat /\ slots'[r][i].left >= slots[r][i].left - 1
    BY <2>3, <2>6
  <2> QED
    BY <2>3, <2>6, <2>7, <2>8
<1>3. Heard'
  <2> SUFFICES ASSUME NEW r \in Recipients, NEW i \in DOMAIN slots'[r], slots'[r][i].known
               PROVE  r \in announced' /\ \A k \in DOMAIN slots'[r] : i <= k => slots'[r][k].known
    BY DEF Heard
  <2> QED
    BY <1>1, <1>2 DEF TimeInv, Heard
<1>4. ASSUME faults' = 0 PROVE OnTime'
  <2> SUFFICES ASSUME NEW r \in Recipients, Attended(r)', NEW i \in DOMAIN slots'[r]
               PROVE  Paced(r, slots[r][i].left)'
    BY DEF OnTime
  <2> DEFINE old == slots[r][i].left
             new == slots'[r][i].left
  <2>1. i \in DOMAIN slots[r] /\ Attended(r) /\ old \in Nat /\ new \in Nat /\ old - 1 <= new
    BY <1>2 DEF Attended
  <2>2. Pace(disk[r], old - 1)
    BY <1>1, <1>4, <2>1 DEF TimeInv, OnTime, Paced
  <2>3. disk[r] \in Nat
    BY SlotTypes DEF KeeperInv
  <2>4. Pace(disk[r], new)
    BY <2>1, <2>2, <2>3, PaceMonotonic
  <2> QED
    BY <1>1, <2>4 DEF Paced
<1> QED
  BY <1>3, <1>4 DEF TimeInv

LEMMA ContractTimes ==
  ASSUME Timely, KeeperInv, KeeperInv', TimeInv, Contract
  PROVE  TimeInv'
<1>1. TypeOK /\ TypeOK'
  BY DEF KeeperInv
<1>2. ASSUME NEW r \in Recipients, NEW id \in Ids, Deposit(r, id)
      PROVE  TimeInv'
  BY <1>1, <1>2, DepositGrows, GrowStep DEF Deposit
<1>3. ASSUME NEW r \in Recipients, NEW i \in DOMAIN slots[r], Remove(r, i)
      PROVE  TimeInv'
  BY <1>1, <1>3, RemoveGrows, GrowStep DEF Remove
<1>4. ASSUME NEW r \in Recipients, NEW i \in DOMAIN slots[r],
             NEW q \in Recipients, Transfer(r, i, q)
      PROVE  TimeInv'
  BY <1>1, <1>4, TransferGrows, GrowStep DEF Transfer
<1> QED
  BY <1>2, <1>3, <1>4, TickTimes DEF Contract

\* What an attended slot tells of its holder.
LEMMA AttendedSlot ==
  ASSUME KeeperInv, TimeInv, NEW r \in Recipients, Attended(r), NEW i \in DOMAIN slots[r]
  PROVE  /\ slots[r][i].left \in Nat /\ r \in announced
         /\ disk[r] \in 0..MaxCursor /\ run.cursors[r] \in 0..MaxCursor /\ MaxCursor \in Nat
         /\ i \in Nat /\ i <= MaxEntries /\ MaxEntries \in Nat
<1>1. /\ slots[r][i].left \in Nat
      /\ disk[r] \in 0..MaxCursor /\ run.cursors[r] \in 0..MaxCursor /\ MaxCursor \in Nat
      /\ i \in 1..Len(slots[r]) /\ Len(slots[r]) \in Nat
  BY SlotTypes DEF KeeperInv
<1>2. r \in announced
  BY DEF Attended, TimeInv, Heard
<1>3. Len(slots[r]) <= MaxEntries /\ MaxEntries \in Nat
  BY KeeperAssumption DEF KeeperInv, TypeOK
<1> QED
  BY <1>1, <1>2, <1>3

LEMMA BotTimes ==
  ASSUME KeeperInv, TimeInv, Bot
  PROVE  TimeInv'
<1>1. /\ UNCHANGED <<slots, announced, faults>>
      /\ run.pc # "poll" => run.answer = "none"
      /\ run.pc = "poll" => run.at \in Recipients
  BY DEF Bot, Start, Advance, Hold, Save, Send, KeeperInv, Earned
<1> SUFFICES ASSUME NEW r \in Recipients, NEW i \in DOMAIN slots[r], Attended(r),
                    Paced(r, slots[r][i].left)
             PROVE  Paced(r, slots[r][i].left)'
  BY <1>1, CursorStep
<1> DEFINE left == slots[r][i].left
<1>2. /\ left \in Nat /\ left - 1 \in Int /\ r \in announced
      /\ disk[r] \in 0..MaxCursor /\ run.cursors[r] \in 0..MaxCursor /\ MaxCursor \in Nat
  BY AttendedSlot
<1>3. slots'[r][i].left = left
  BY <1>1
<1> HIDE DEF left
<1> SUFFICES ASSUME Paced(r, left)
             PROVE  /\ Pace(disk'[r], left)
                    /\ ran' => Pace(disk'[r], left - 1)
                    /\ run'.pc # "idle" => \/ r \in run'.todo /\ run'.cursors[r] = disk'[r]
                                           \/ Pace(run'.cursors[r], left - 1)
                    /\ run'.pc = "poll" /\ run'.at = r /\ run'.answer = "FAILED" =>
                           Pace(run'.cursors[r], left - 1)
  BY <1>3 DEF Paced, left
<1>4. CASE Start
  <2>1. /\ run'.pc = "loop" /\ run'.todo = announced /\ run'.cursors = disk
        /\ UNCHANGED <<disk, ran>>
    BY <1>4 DEF Start, Idle
  <2> QED
    BY <1>2, <2>1 DEF Paced
<1>5. CASE Advance
  <2> DEFINE at == run.at
             past == Past(run.cursors[at])
  <2>1. /\ run.pc = "poll" /\ at \in Recipients /\ UNCHANGED <<disk, ran>>
        /\ run' = [Done(at) EXCEPT !.cursors[at] = Past(@)]
    BY <1>1, <1>5 DEF Advance
  <2>2. run.cursors \in [Recipients -> 0..MaxCursor]
    BY DEF KeeperInv, TypeOK, Cursors
  <2>3. /\ run'.pc = "loop" /\ run'.todo = run.todo \ {at}
        /\ run'.cursors = [run.cursors EXCEPT ![at] = past]
    BY <2>1, <2>2 DEF Done, KeeperInv, TypeOK
  <2> HIDE DEF past
  <2>4. CASE r # at
    BY <2>1, <2>2, <2>3, <2>4 DEF Paced
  <2>5. CASE r = at
    <3>1. run'.cursors[r] = past
      BY <2>2, <2>3, <2>5
    <3>2. Pace(past, left - 1)
      <4>1. Pace(run.cursors[r], left) => Pace(past, left - 1)
        BY <1>2, <2>5, PaceStep DEF past
      <4>2. Pace(run.cursors[r], left - 1) => Pace(run.cursors[r], left)
        BY <1>2, PaceMonotonic
      <4> QED
        BY <2>1, <4>1, <4>2 DEF Paced
    <3> QED
      BY <2>1, <2>3, <3>1, <3>2 DEF Paced
  <2> QED
    BY <2>4, <2>5
<1>6. CASE Hold
  <2>1. /\ run.pc = "poll" /\ run.answer = "FAILED" /\ UNCHANGED <<disk, ran>>
        /\ run'.pc = "loop" /\ run'.todo = run.todo \ {run.at} /\ run'.cursors = run.cursors
    BY <1>6 DEF Hold, Done, KeeperInv, TypeOK
  <2> QED
    BY <2>1 DEF Paced
<1>7. CASE Save
  <2>1. /\ run.pc = "loop" /\ run.todo = {} /\ disk' = run.cursors /\ run'.pc = "idle"
    BY <1>7 DEF Save, Idle
  <2>2. Pace(run.cursors[r], left - 1)
    BY <2>1 DEF Paced
  <2>3. Pace(run.cursors[r], left)
    BY <1>2, <2>2, PaceMonotonic
  <2> QED
    BY <2>1, <2>2, <2>3
<1>8. ASSUME NEW q \in Recipients, Send(q)
      PROVE  /\ Pace(disk'[r], left)
             /\ ran' => Pace(disk'[r], left - 1)
             /\ run'.pc # "idle" => \/ r \in run'.todo /\ run'.cursors[r] = disk'[r]
                                    \/ Pace(run'.cursors[r], left - 1)
             /\ run'.pc = "poll" /\ run'.at = r /\ run'.answer = "FAILED" =>
                    Pace(run'.cursors[r], left - 1)
  <2>1. /\ run.pc = "loop" /\ run.answer = "none" /\ UNCHANGED <<disk, ran>>
        /\ run'.answer = run.answer /\ run'.todo = run.todo /\ run'.cursors = run.cursors
    BY <1>1, <1>8 DEF Send, KeeperInv, TypeOK
  <2> QED
    BY <2>1 DEF Paced
<1> QED
  BY <1>4, <1>5, <1>6, <1>7, <1>8 DEF Bot

\* The network refuses a window for a slot that is archived, and there is none
\* in the windows of an attended holder.
LEMMA RejectTimes ==
  ASSUME KeeperInv, TimeInv, Reject
  PROVE  TimeInv'
<1>1. /\ run.pc = "poll" /\ run' = [run EXCEPT !.answer = "FAILED"]
      /\ UNCHANGED <<slots, announced, disk, pool, ran>>
      /\ \/ /\ \E i \in InWindow(run.at, run.cursors[run.at]) : slots[run.at][i].left = 0
            /\ UNCHANGED faults
         \/ faults' = faults + 1
  BY DEF Reject, Fault
<1>2. /\ run'.pc = run.pc /\ run'.at = run.at /\ run'.todo = run.todo
      /\ run'.cursors = run.cursors
  BY <1>1 DEF KeeperInv, TypeOK
<1>3. faults \in Nat
  BY KeeperAssumption DEF KeeperInv, TypeOK
<1> SUFFICES ASSUME faults' = 0,
                    NEW r \in Recipients, NEW i \in DOMAIN slots[r], Attended(r),
                    Paced(r, slots[r][i].left)
             PROVE  Paced(r, slots[r][i].left)'
  BY <1>1, <1>3, CursorStep
<1>4. faults = 0 /\ \E k \in InWindow(run.at, run.cursors[run.at]) : slots[run.at][k].left = 0
  BY <1>1, <1>3
<1>5. r # run.at
  <2> SUFFICES ASSUME r = run.at PROVE FALSE
    OBVIOUS
  <2>1. PICK k \in DOMAIN slots[r] : slots[r][k].left = 0 /\ run.cursors[r] < k
    BY <1>4 DEF InWindow
  <2>2. Paced(r, 0)
    BY <1>4, <2>1 DEF TimeInv, OnTime
  <2>3. Pace(run.cursors[r], 0) \/ Pace(run.cursors[r], -1)
    BY <1>1, <2>2 DEF Paced
  <2>4. /\ run.cursors[r] \in Nat /\ k \in Nat /\ k <= MaxEntries /\ MaxEntries \in Nat
    BY <2>1, AttendedSlot
  <2>5. run.cursors[r] >= MaxEntries
    BY <2>3, <2>4, PaceOut
  <2> QED
    BY <2>1, <2>4, <2>5
<1> QED
  BY <1>1, <1>2, <1>5 DEF Paced

LEMMA NetworkTimes ==
  ASSUME Timely, KeeperInv, KeeperInv', TimeInv, Network
  PROVE  TimeInv'
<1>1. TypeOK /\ TypeOK'
  BY DEF KeeperInv
<1>2. CASE Apply
  <2>1. /\ run.at \in Recipients /\ run.cursors[run.at] \in Nat
        /\ Maintain(run.at, run.cursors[run.at]) /\ UNCHANGED <<announced, disk, ran, faults>>
    BY <1>2 DEF Apply, KeeperInv, Earned, TypeOK, Cursors
  <2>2. /\ run'.pc = run.pc /\ run'.at = run.at /\ run'.todo = run.todo
        /\ run'.cursors = run.cursors /\ run'.answer = "SUCCESS"
    BY <1>1, <1>2 DEF Apply, TypeOK
  <2> QED
    BY <1>1, <2>1, <2>2, MaintainGrows, GrowStep
<1>3. CASE Reject
  BY <1>3, RejectTimes
<1>4. ASSUME NEW tx \in pool, LateApply(tx) PROVE TimeInv'
  <2>1. tx.to \in Recipients /\ tx.start \in Nat
    BY <1>1 DEF TypeOK
  <2> QED
    BY <1>1, <1>4, <2>1, MaintainGrows, GrowStep DEF LateApply
<1>5. ASSUME NEW tx \in pool, Drop(tx) PROVE TimeInv'
  BY <1>5 DEF Drop, TimeInv, Heard, OnTime, Attended, Paced
<1> QED
  BY <1>2, <1>3, <1>4, <1>5 DEF Network

LEMMA TroubleTimes ==
  ASSUME KeeperInv, TimeInv, Trouble
  PROVE  TimeInv'
<1>1. /\ UNCHANGED <<slots, announced>> /\ faults' = faults + 1
  BY DEF Trouble, DiscoverNobody, GiveUp, Crash, NoWork, Fault
<1>2. faults \in Nat
  BY KeeperAssumption DEF KeeperInv, TypeOK
<1> QED
  BY <1>1, <1>2 DEF TimeInv, Heard

LEMMA TimeStep ==
  ASSUME Timely
  PROVE  KeeperInv /\ KeeperInv' /\ TimeInv /\ [Next]_vars => TimeInv'
<1>1. TimeInv /\ UNCHANGED vars => TimeInv'
  BY DEF TimeInv, Heard, OnTime, Attended, Paced, vars
<1> QED
  BY <1>1, ContractTimes, BotTimes, NetworkTimes, TroubleTimes DEF Next

\* A window a period is enough: where the first lifetime of a slot is longer, in
\* periods, than the runs that take the cursor over the longest list, no slot of a
\* holder the bot knew from the start is archived ahead of the cursor while nothing
\* fails (DEPLOYMENT.md: ceil(S / L) runs for full coverage; keeper.ts main,
\* maintainRecipientPaginated; lib.rs maintenance).
THEOREM KeeperLapsesOnlyBehindCursor ==
  ASSUME Timely
  PROVE  Spec => []LapsesOnlyBehindCursor
<1>1. KeeperInv /\ TimeInv => LapsesOnlyBehindCursor
  <2> SUFFICES ASSUME KeeperInv, TimeInv, NEW r \in Recipients, NEW i \in DOMAIN slots[r],
                      slots[r][i].left = 0, Known(r, i), ~(faults > 0)
               PROVE  i <= disk[r]
    BY DEF LapsesOnlyBehindCursor
  <2>1. faults = 0
    BY KeeperAssumption DEF KeeperInv, TypeOK
  <2>2. Attended(r)
    <3> SUFFICES ASSUME NEW k \in DOMAIN slots[r] PROVE slots[r][k].known
      BY DEF Attended
    <3>1. 1 \in DOMAIN slots[r] /\ 1 \in 1..i /\ 1 <= k
      BY SlotTypes DEF KeeperInv
    <3> QED
      BY <3>1 DEF Known, TimeInv, Heard
  <2>3. Pace(disk[r], 0)
    BY <2>1, <2>2 DEF TimeInv, OnTime, Paced
  <2>4. disk[r] \in Nat /\ i \in Nat /\ i <= MaxEntries /\ MaxEntries \in Nat
    BY <2>2, AttendedSlot
  <2>5. disk[r] >= MaxEntries
    BY <2>3, <2>4, PaceOut
  <2> QED
    BY <2>4, <2>5
<1> QED
  BY <1>1, KeeperInit, KeeperStep, TimeInit, TimeStep, PTL DEF Spec
=============================================================================
