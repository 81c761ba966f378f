------------------------ MODULE VestingLedger_proofs ------------------------
(***************************************************************************)
(* Theorems about VestingLedger, for every set of ids and accounts, every  *)
(* amount and window, and every bound on the clock.                        *)
(***************************************************************************)
EXTENDS VestingLedger, VestingSchedule_proofs

\* The inductive invariant: types, the books, and no deposit trapped.
BooksInv == TypeOK /\ BooksBalance /\ NothingTrapped

\* What a schedule has vested is a natural no larger than its total.
LEMMA VestedOfType ==
  ASSUME TypeOK, NEW id \in Open
  PROVE  /\ VestedOf(id) \in Nat
         /\ VestedOf(id) <= sched[id].total
         /\ sched[id].total \in Nat /\ sched[id].released \in Nat
         /\ sched[id] \in Schedule /\ id \in Ids
<1>1. sched[id] \in Schedule /\ id \in Ids
  BY DEF TypeOK, Open
<1>2. sched[id].total \in Nat /\ sched[id].win \in Window /\ sched[id].released \in Nat
  BY <1>1 DEF Schedule
<1>3. now \in Nat
  BY DEF TypeOK
<1> QED
  BY <1>1, <1>2, <1>3, VestedBounds DEF VestedOf

LEMMA BooksInit == Init => BooksInv
<1> SUFFICES ASSUME Init PROVE BooksInv
  OBVIOUS
<1> USE LedgerAssumption DEF Init
<1>1. \A id \in DOMAIN Legacy : Legacy[id].total \in Nat /\ Legacy[id].released \in Nat
  BY DEF Schedule
<1>2. TypeOK
  BY <1>1 DEF TypeOK, Open
<1>3. BooksBalance
  BY <1>1 DEF BooksBalance, Open, Fresh
<1>4. NothingTrapped
  BY <1>1 DEF NothingTrapped, Open
<1> QED
  BY <1>2, <1>3, <1>4 DEF BooksInv

\* A deposit opens fresh ids with nothing released and nothing paid.
LEMMA BooksDeposit ==
  ASSUME BooksInv, NEW sender \in Accounts, NEW w \in Windows, NEW S \in SUBSET Fresh,
         Deposit(sender, w, S)
  PROVE  BooksInv'
<1> PICK owner \in [S -> Accounts], amount \in [S -> Amounts] :
        /\ sched' = [id \in Open \cup S |->
               IF id \in S
               THEN [owner |-> owner[id], sender |-> sender, total |-> amount[id],
                     released |-> 0, win |-> w]
               ELSE sched[id]]
        /\ funded' = [id \in Ids |-> IF id \in S THEN amount[id] ELSE funded[id]]
        /\ UNCHANGED <<now, toRecipient, toSender>>
  BY DEF Deposit
<1> USE LedgerAssumption DEF BooksInv, Open
<1>1. /\ S \subseteq Ids /\ S \cap Open = {}
      /\ \A id \in S : amount[id] \in Nat /\ amount[id] > 0 /\ funded[id] = 0
  BY DEF Fresh, BooksBalance
<1>2. TypeOK'
  BY <1>1 DEF TypeOK, Schedule
<1>3. BooksBalance'
  BY <1>1 DEF BooksBalance, TypeOK, Fresh
<1>4. NothingTrapped'
  BY <1>1 DEF NothingTrapped, TypeOK
<1> QED
  BY <1>2, <1>3, <1>4

\* Releasing at most what is claimable keeps the books; what is closed was
\* released in full.
LEMMA BooksRelease ==
  ASSUME BooksInv, NEW S \in SUBSET Open, NEW pay \in [S -> Nat],
         \A id \in S : pay[id] <= Claimable(id),
         Release(S, pay)
  PROVE  BooksInv'
<1> USE DEF BooksInv
<1> DEFINE done == {id \in S : sched[id].released + pay[id] >= sched[id].total}
<1>0. \A id \in Open : /\ VestedOf(id) \in Nat /\ VestedOf(id) <= sched[id].total
                       /\ sched[id].total \in Nat /\ sched[id].released \in Nat
                       /\ sched[id] \in Schedule /\ id \in Ids
  BY VestedOfType
<1>1. \A id \in S : /\ pay[id] \in Nat
                    /\ sched[id].released + pay[id] \in Nat
                    /\ sched[id].released + pay[id] <= sched[id].total
  BY <1>0 DEF Claimable
<1>2. /\ sched' = [id \in Open \ done |->
               IF id \in S THEN [sched[id] EXCEPT !.released = @ + pay[id]]
                           ELSE sched[id]]
      /\ toRecipient' = [id \in Ids |->
               IF id \in S THEN toRecipient[id] + pay[id] ELSE toRecipient[id]]
      /\ UNCHANGED <<now, funded, toSender>>
  BY DEF Release
<1>3. Open' = Open \ done
  BY <1>2 DEF Open
<1>4. \A id \in Open' : /\ sched'[id] \in Schedule
                        /\ sched'[id].total = sched[id].total
                        /\ sched'[id].released =
                             IF id \in S THEN sched[id].released + pay[id]
                                         ELSE sched[id].released
  BY <1>0, <1>1, <1>2, <1>3 DEF Schedule
<1> HIDE DEF done
<1>5. TypeOK'
  <2>1. sched' \in [Open' -> Schedule]
    BY <1>2, <1>3, <1>4
  <2>2. toRecipient' \in [Ids -> Nat]
    BY <1>1, <1>2 DEF TypeOK
  <2> QED
    BY <1>2, <1>3, <2>1, <2>2 DEF TypeOK
<1>6. BooksBalance'
  BY <1>0, <1>1, <1>2, <1>3, <1>4 DEF BooksBalance, TypeOK, Fresh
<1>7. NothingTrapped'
  <2>1. \A id \in done : /\ id \in Ids /\ id \in Open /\ id \in S
                         /\ sched[id].released + pay[id] >= sched[id].total
    BY <1>0 DEF done
  <2>2. ASSUME NEW id \in Ids \ Open'
        PROVE  toRecipient'[id] + toSender'[id] >= funded'[id]
    <3>1. CASE id \in done
      <4>1. /\ toRecipient[id] = sched[id].released
            /\ toSender[id] + sched[id].total = funded[id]
            /\ toRecipient'[id] = toRecipient[id] + pay[id]
            /\ toSender'[id] = toSender[id] /\ funded'[id] = funded[id]
        BY <1>2, <2>1, <3>1 DEF BooksBalance
      <4> QED
        BY <1>0, <1>1, <2>1, <3>1, <4>1 DEF TypeOK
    <3>2. CASE id \notin Open
      BY <1>2, <3>2 DEF NothingTrapped
    <3> QED
      BY <1>3, <3>1, <3>2
  <2> QED
    BY <2>2 DEF NothingTrapped
<1> QED
  BY <1>5, <1>6, <1>7

\* A revocation closes schedules and pays out at least what they still held.
LEMMA BooksRevoke ==
  ASSUME BooksInv, NEW caller \in Accounts, NEW S \in SUBSET Open, Revoke(caller, S)
  PROVE  BooksInv'
<1> USE DEF BooksInv
<1>0. \A id \in Open : /\ VestedOf(id) \in Nat /\ VestedOf(id) <= sched[id].total
                       /\ sched[id].total \in Nat /\ sched[id].released \in Nat
                       /\ sched[id] \in Schedule /\ id \in Ids
  BY VestedOfType
<1>1. /\ sched' = [id \in Open \ S |-> sched[id]]
      /\ toSender' = [id \in Ids |->
             IF id \in S THEN toSender[id] + (sched[id].total - VestedOf(id))
                         ELSE toSender[id]]
      /\ toRecipient' = [id \in Ids |->
             IF id \in S /\ Claimable(id) > 0 THEN toRecipient[id] + Claimable(id)
                                              ELSE toRecipient[id]]
      /\ UNCHANGED <<now, funded>>
  BY DEF Revoke, RevocableAll, Closed
<1>2. Open' = Open \ S
  BY <1>1 DEF Open
<1>3. TypeOK'
  BY <1>0, <1>1, <1>2 DEF TypeOK, Claimable
<1>4. BooksBalance'
  BY <1>0, <1>1, <1>2 DEF BooksBalance, Fresh
<1>5. NothingTrapped'
  <2>1. ASSUME NEW id \in Ids \ Open'
        PROVE  toRecipient'[id] + toSender'[id] >= funded'[id]
    <3>1. CASE id \in S
      <4>1. /\ toRecipient[id] = sched[id].released
            /\ toSender[id] + sched[id].total = funded[id]
            /\ toSender'[id] = toSender[id] + (sched[id].total - VestedOf(id))
            /\ toRecipient'[id] >= toRecipient[id] + Claimable(id)
            /\ funded'[id] = funded[id]
        BY <1>0, <1>1, <3>1 DEF BooksBalance, Claimable
      <4>2. toRecipient'[id] \in Nat /\ toSender[id] \in Nat /\ funded[id] \in Nat
        BY <1>3 DEF TypeOK
      <4> QED
        BY <1>0, <3>1, <4>1, <4>2 DEF Claimable
    <3>2. CASE id \notin Open
      BY <1>1, <3>2 DEF NothingTrapped
    <3> QED
      BY <1>2, <3>1, <3>2
  <2> QED
    BY <2>1 DEF NothingTrapped
<1> QED
  BY <1>3, <1>4, <1>5

\* A partial revocation moves the same amount out of the total and to the sender.
LEMMA BooksRevokePartial ==
  ASSUME BooksInv, NEW caller \in Accounts, NEW id \in Open, NEW amount,
         RevokePartial(caller, id, amount)
  PROVE  BooksInv'
<1> USE DEF BooksInv
<1>0. /\ VestedOf(id) \in Nat /\ VestedOf(id) <= sched[id].total
      /\ sched[id].total \in Nat /\ sched[id].released \in Nat
      /\ sched[id] \in Schedule /\ id \in Ids
  BY VestedOfType
<1>1. /\ amount \in Nat /\ amount > 0
      /\ amount <= sched[id].total - sched[id].released
  BY <1>0 DEF RevokePartial
<1>2. /\ sched' = [sched EXCEPT ![id].total = @ - amount]
      /\ toSender' = [toSender EXCEPT ![id] = @ + amount]
      /\ UNCHANGED <<now, funded, toRecipient>>
  BY DEF RevokePartial
<1>3. Open' = Open /\ sched \in [Open -> Schedule]
  BY <1>2 DEF Open, TypeOK
<1>4. /\ sched'[id] \in Schedule
      /\ sched'[id].total = sched[id].total - amount
      /\ sched'[id].released = sched[id].released
  BY <1>0, <1>1, <1>2, <1>3 DEF Schedule
<1>5. \A i \in Open \ {id} : sched'[i] = sched[i]
  BY <1>2, <1>3
<1>6. TypeOK'
  <2>1. sched' \in [Open' -> Schedule]
    BY <1>2, <1>3, <1>4
  <2>2. toSender' \in [Ids -> Nat]
    BY <1>0, <1>1, <1>2 DEF TypeOK
  <2> QED
    BY <1>2, <1>3, <2>1, <2>2 DEF TypeOK
<1>7. BooksBalance'
  <2>1. ASSUME NEW i \in Open'
        PROVE  /\ toRecipient'[i] = sched'[i].released
               /\ toSender'[i] + sched'[i].total = funded'[i]
               /\ sched'[i].released <= sched'[i].total
               /\ funded'[i] > 0
    BY <1>0, <1>1, <1>2, <1>3, <1>4, <1>5 DEF BooksBalance, TypeOK
  <2>2. \A i \in Fresh' : toRecipient'[i] = 0 /\ toSender'[i] = 0
    BY <1>2 DEF BooksBalance, Fresh, TypeOK
  <2> QED
    BY <2>1, <2>2 DEF BooksBalance
<1>8. NothingTrapped'
  BY <1>2, <1>3 DEF NothingTrapped
<1> QED
  BY <1>6, <1>7, <1>8

\* A transfer of rights only changes who holds a schedule.
LEMMA BooksTransfer ==
  ASSUME BooksInv, NEW id \in Open, NEW new \in Accounts, TransferRights(id, new)
  PROVE  BooksInv'
<1> USE DEF BooksInv
<1>1. /\ sched' = [sched EXCEPT ![id].owner = new]
      /\ UNCHANGED <<now, funded, toRecipient, toSender>>
  BY DEF TransferRights
<1>2. sched \in [Open -> Schedule] /\ Open' = Open
  BY <1>1 DEF Open, TypeOK
<1>3. \A i \in Open : /\ sched'[i] \in Schedule
                      /\ sched'[i].total = sched[i].total
                      /\ sched'[i].released = sched[i].released
  BY <1>1, <1>2 DEF Schedule
<1>4. TypeOK'
  BY <1>1, <1>2, <1>3 DEF TypeOK
<1> QED
  BY <1>1, <1>2, <1>3, <1>4 DEF BooksBalance, NothingTrapped, Fresh

LEMMA BooksStep == BooksInv /\ [Next]_vars => BooksInv'
<1> SUFFICES ASSUME BooksInv, [Next]_vars PROVE BooksInv'
  OBVIOUS
<1>1. CASE Tick
  BY <1>1 DEF Tick, BooksInv, TypeOK, BooksBalance, NothingTrapped, Open, Fresh
<1>2. ASSUME NEW sender \in Accounts, NEW w \in Windows, NEW S \in SUBSET Fresh,
             Deposit(sender, w, S)
      PROVE  BooksInv'
  BY <1>2, BooksDeposit
<1>3. ASSUME NEW id \in Open, NEW amount \in 1 .. Claimable(id), Claim(id, amount)
      PROVE  BooksInv'
  <2> DEFINE pay == [i \in {id} |-> amount]
  <2>1. Claimable(id) \in Int
    BY VestedOfType DEF Claimable, BooksInv
  <2>2. /\ {id} \in SUBSET Open /\ pay \in [{id} -> Nat]
        /\ \A i \in {id} : pay[i] <= Claimable(i)
        /\ Release({id}, pay)
    BY <1>3, <2>1 DEF Claim
  <2> HIDE DEF pay
  <2> QED
    BY <2>2, BooksRelease
<1>4. ASSUME NEW owner \in Accounts, ClaimAll(owner)
      PROVE  BooksInv'
  <2> DEFINE S == {id \in Open : sched[id].owner = owner /\ Claimable(id) > 0}
             pay == [id \in S |-> Claimable(id)]
  <2>1. \A id \in Open : Claimable(id) \in Int
    BY VestedOfType DEF Claimable, BooksInv
  <2>2. /\ S \in SUBSET Open /\ pay \in [S -> Nat]
        /\ \A i \in S : pay[i] <= Claimable(i)
        /\ Release(S, pay)
    BY <1>4, <2>1 DEF ClaimAll
  <2> HIDE DEF S, pay
  <2> QED
    BY <2>2, BooksRelease
<1>5. ASSUME NEW caller \in Accounts, NEW S \in SUBSET Open, Revoke(caller, S)
      PROVE  BooksInv'
  BY <1>5, BooksRevoke
<1>6. ASSUME NEW id \in Open, NEW new \in Accounts, TransferRights(id, new)
      PROVE  BooksInv'
  BY <1>6, BooksTransfer
<1>7. ASSUME NEW caller \in Accounts, NEW id \in Open, NEW amount \in 1 .. sched[id].total,
             RevokePartial(caller, id, amount)
      PROVE  BooksInv'
  BY <1>7, BooksRevokePartial
<1>8. CASE UNCHANGED vars
  BY <1>8 DEF vars, BooksInv, TypeOK, BooksBalance, NothingTrapped, Open, Fresh
<1> QED
  BY <1>1, <1>2, <1>3, <1>4, <1>5, <1>6, <1>7, <1>8 DEF Next

\* Every state of the ledger is typed.
THEOREM LedgerTypeOK == Spec => []TypeOK
<1>1. BooksInv => TypeOK
  BY DEF BooksInv
<1> QED
  BY <1>1, BooksInit, BooksStep, PTL DEF Spec

\* What a stored schedule says was released and taken back is what was paid to
\* its holders and to its sender, under any sequence of deposits, claims,
\* transfers, revocations and partial revocations.
THEOREM LedgerBooksBalance == Spec => []BooksBalance
<1>1. BooksInv => BooksBalance
  BY DEF BooksInv
<1> QED
  BY <1>1, BooksInit, BooksStep, PTL DEF Spec

\* A schedule that has left storage left none of its deposit in the contract.
THEOREM LedgerNothingTrapped == Spec => []NothingTrapped
<1>1. BooksInv => NothingTrapped
  BY DEF BooksInv
<1> QED
  BY <1>1, BooksInit, BooksStep, PTL DEF Spec

-----------------------------------------------------------------------------
(* What is paid out, for schedules no sender revoked partially and that were
   not inherited with something already claimed *)

\* The inductive invariant: what a closing schedule pays adds up to its deposit
\* only when the part released before had vested.
EarnedInv == BooksInv /\ NeverAhead

\* The schedules of which nothing was taken back, and which did not start ahead
\* or are past their end.
Regular(id) ==
  toSender[id] = 0 /\ (id \in ClaimedBefore => sched[id].win.end <= now)

\* A closing schedule of that kind pays its holders what had vested, and its
\* sender the rest.
PaysEarned ==
  \A id \in Open \ Open' : Regular(id) =>
      /\ toRecipient'[id] = VestedOf(id)
      /\ toRecipient'[id] + toSender'[id] = funded[id]

LEMMA EarnedInit == Init => EarnedInv
<1> SUFFICES ASSUME Init PROVE EarnedInv
  OBVIOUS
<1>1. BooksInv
  BY BooksInit
<1>2. \A id \in Open : /\ sched[id] = Legacy[id] /\ id \in DOMAIN Legacy
                      /\ VestedOf(id) \in Nat /\ sched[id].released \in Nat
  BY <1>1, VestedOfType DEF Init, Open, BooksInv
<1>3. \A id \in Open \ ClaimedBefore : sched[id].released = 0
  BY <1>2 DEF ClaimedBefore
<1> QED
  BY <1>1, <1>2, <1>3 DEF EarnedInv, NeverAhead

\* What an open schedule's numbers are, all that the lemmas below use of the
\* books.
LEMMA OpenFacts ==
  ASSUME EarnedInv, NEW id \in Open
  PROVE  /\ VestedOf(id) \in Nat /\ VestedOf(id) <= sched[id].total
         /\ sched[id].total \in Nat /\ sched[id].released \in Nat
         /\ sched[id] \in Schedule /\ sched[id].win \in Window /\ id \in Ids
         /\ toRecipient[id] = sched[id].released
         /\ toSender[id] + sched[id].total = funded[id]
         /\ toSender[id] \in Nat /\ funded[id] \in Nat
         /\ id \notin ClaimedBefore /\ toSender[id] = 0 => sched[id].released <= VestedOf(id)
         /\ Regular(id) => sched[id].released <= VestedOf(id)
<1>1. /\ VestedOf(id) \in Nat /\ VestedOf(id) <= sched[id].total
      /\ sched[id].total \in Nat /\ sched[id].released \in Nat
      /\ sched[id] \in Schedule /\ sched[id].win \in Window /\ id \in Ids
      /\ toRecipient[id] = sched[id].released
      /\ toSender[id] + sched[id].total = funded[id]
      /\ toSender[id] \in Nat /\ funded[id] \in Nat
      /\ id \notin ClaimedBefore /\ toSender[id] = 0 => sched[id].released <= VestedOf(id)
  BY VestedOfType DEF EarnedInv, BooksInv, BooksBalance, TypeOK, NeverAhead, Schedule
<1>2. sched[id].released <= sched[id].total /\ now \in Nat
  BY DEF EarnedInv, BooksInv, BooksBalance, TypeOK
<1>3. sched[id].win.end <= now => VestedOf(id) = sched[id].total
  BY <1>1, <1>2, VestedAtEnd DEF VestedOf
<1> QED
  BY <1>1, <1>2, <1>3 DEF Regular

\* A release closes a schedule exactly when all of it has vested and been paid.
LEMMA EarnedRelease ==
  ASSUME EarnedInv, NEW S \in SUBSET Open, NEW pay \in [S -> Nat],
         \A id \in S : pay[id] <= Claimable(id),
         Release(S, pay)
  PROVE  EarnedInv' /\ PaysEarned
<1> DEFINE done == {id \in S : sched[id].released + pay[id] >= sched[id].total}
<1>0. \A id \in S : /\ pay[id] \in Nat
                    /\ sched[id].released + pay[id] <= VestedOf(id)
  BY OpenFacts DEF Claimable
<1>1. /\ sched' = [id \in Open \ done |->
               IF id \in S THEN [sched[id] EXCEPT !.released = @ + pay[id]]
                           ELSE sched[id]]
      /\ toRecipient' = [id \in Ids |->
               IF id \in S THEN toRecipient[id] + pay[id] ELSE toRecipient[id]]
      /\ UNCHANGED <<now, funded, toSender>>
  BY DEF Release
<1>2. Open' = Open \ done /\ done \subseteq S
  BY <1>1 DEF Open
<1>3. \A id \in Open' : /\ sched'[id].total = sched[id].total
                        /\ sched'[id].win = sched[id].win
                        /\ sched'[id].released =
                             IF id \in S THEN sched[id].released + pay[id]
                                         ELSE sched[id].released
  BY <1>1, <1>2, OpenFacts DEF Schedule
<1>4. PaysEarned
  <2> SUFFICES ASSUME NEW id \in done, Regular(id)
               PROVE  /\ toRecipient'[id] = VestedOf(id)
                      /\ toRecipient'[id] + toSender'[id] = funded[id]
    BY <1>2 DEF PaysEarned
  <2>1. sched[id].released + pay[id] >= sched[id].total /\ id \in S /\ id \in Open
    OBVIOUS
  <2>2. toRecipient'[id] = sched[id].released + pay[id] /\ toSender'[id] = 0
    BY <1>1, <2>1, OpenFacts DEF Regular
  <2>3. /\ sched[id].released + pay[id] <= VestedOf(id)
        /\ VestedOf(id) \in Nat /\ VestedOf(id) <= sched[id].total
        /\ sched[id].released \in Nat /\ pay[id] \in Nat /\ sched[id].total \in Nat
        /\ toSender[id] + sched[id].total = funded[id]
        /\ toSender[id] = 0
    BY <1>0, <2>1, OpenFacts DEF Regular
  <2> QED
    BY <2>1, <2>2, <2>3
<1>5. NeverAhead'
  <2> SUFFICES ASSUME NEW id \in Open' \ ClaimedBefore, toSender[id] = 0
               PROVE  sched'[id].released <= VestedOf(id)
    BY <1>1, <1>3 DEF NeverAhead, VestedOf
  <2> QED
    BY <1>0, <1>2, <1>3, OpenFacts
<1>6. BooksInv'
  BY BooksRelease DEF EarnedInv
<1> QED
  BY <1>4, <1>5, <1>6 DEF EarnedInv

\* A revocation of a schedule that is not ahead pays its holder up to what has
\* vested and its sender the rest: exactly what was deposited, in all.
LEMMA EarnedRevoke ==
  ASSUME EarnedInv, NEW caller \in Accounts, NEW S \in SUBSET Open, Revoke(caller, S)
  PROVE  EarnedInv' /\ PaysEarned
<1>1. /\ sched' = [id \in Open \ S |-> sched[id]]
      /\ toSender' = [id \in Ids |->
             IF id \in S THEN toSender[id] + (sched[id].total - VestedOf(id))
                         ELSE toSender[id]]
      /\ toRecipient' = [id \in Ids |->
             IF id \in S /\ Claimable(id) > 0 THEN toRecipient[id] + Claimable(id)
                                              ELSE toRecipient[id]]
      /\ UNCHANGED <<now, funded>>
  BY DEF Revoke, RevocableAll, Closed
<1>2. Open' = Open \ S
  BY <1>1 DEF Open
<1>3. PaysEarned
  <2> SUFFICES ASSUME NEW id \in S, Regular(id)
               PROVE  /\ toRecipient'[id] = VestedOf(id)
                      /\ toRecipient'[id] + toSender'[id] = funded[id]
    BY <1>2 DEF PaysEarned
  <2>1. /\ toRecipient'[id] = IF Claimable(id) > 0 THEN toRecipient[id] + Claimable(id)
                                                   ELSE toRecipient[id]
        /\ toSender'[id] = toSender[id] + (sched[id].total - VestedOf(id))
    BY <1>1, OpenFacts
  <2> QED
    BY <2>1, OpenFacts DEF Claimable, Regular
<1>4. NeverAhead'
  <2> SUFFICES ASSUME NEW id \in Open' \ ClaimedBefore, toSender[id] = 0
               PROVE  sched[id].released <= VestedOf(id)
    BY <1>1, <1>2, OpenFacts DEF NeverAhead, VestedOf
  <2> QED
    BY <1>2, OpenFacts
<1>5. BooksInv'
  BY BooksRevoke DEF EarnedInv
<1> QED
  BY <1>3, <1>4, <1>5 DEF EarnedInv

\* The steps that close nothing.
LEMMA EarnedQuiet ==
  ASSUME EarnedInv, [Next]_vars, Open \subseteq Open', NeverAhead'
  PROVE  EarnedInv' /\ PaysEarned
  BY BooksStep DEF EarnedInv, PaysEarned

LEMMA EarnedStep ==
  ASSUME EarnedInv, [Next]_vars
  PROVE  EarnedInv' /\ PaysEarned
<1>c. now \in Nat
  BY DEF EarnedInv, BooksInv, TypeOK
<1>s. sched \in [Open -> Schedule]
  BY DEF EarnedInv, BooksInv, TypeOK
<1>1. CASE Tick
  <2>1. /\ now' = now + 1
        /\ UNCHANGED <<sched, funded, toRecipient, toSender>>
    BY <1>1 DEF Tick
  <2>2. Open' = Open
    BY <2>1 DEF Open
  <2>3. ASSUME NEW id \in Open \ ClaimedBefore, toSender[id] = 0
        PROVE  sched[id].released <= Vested(sched[id].total, sched[id].win, now + 1)
    <3>1. VestedOf(id) <= Vested(sched[id].total, sched[id].win, now + 1)
      BY <1>c, OpenFacts, VestedMonotonic DEF VestedOf
    <3>2. Vested(sched[id].total, sched[id].win, now + 1) \in Nat
      BY <1>c, OpenFacts, VestedBounds
    <3> QED
      BY <2>3, <3>1, <3>2, OpenFacts
  <2>4. NeverAhead'
    BY <2>1, <2>2, <2>3 DEF NeverAhead, VestedOf
  <2> QED
    BY <2>2, <2>4, EarnedQuiet
<1>2. ASSUME NEW sender \in Accounts, NEW w \in Windows, NEW S \in SUBSET Fresh,
             Deposit(sender, w, S)
      PROVE  EarnedInv' /\ PaysEarned
  <2> PICK owner \in [S -> Accounts], amount \in [S -> Amounts] :
        /\ sched' = [id \in Open \cup S |->
               IF id \in S
               THEN [owner |-> owner[id], sender |-> sender, total |-> amount[id],
                     released |-> 0, win |-> w]
               ELSE sched[id]]
        /\ UNCHANGED <<now, toSender>>
    BY <1>2 DEF Deposit
  <2>1. Open' = Open \cup S
    BY DEF Open
  <2>2. \A id \in S : Vested(amount[id], w, now) \in Nat
    <3>1. \A id \in S : amount[id] \in Nat /\ w \in Window
      BY LedgerAssumption
    <3> QED
      BY <1>c, <3>1, VestedBounds
  <2>3. NeverAhead'
    BY <2>1, <2>2, OpenFacts DEF NeverAhead, VestedOf
  <2> QED
    BY <2>1, <2>3, EarnedQuiet
<1>3. ASSUME NEW id \in Open, NEW amount \in 1 .. Claimable(id), Claim(id, amount)
      PROVE  EarnedInv' /\ PaysEarned
  <2> DEFINE pay == [i \in {id} |-> amount]
  <2>1. Claimable(id) \in Int
    BY OpenFacts DEF Claimable
  <2>2. /\ {id} \in SUBSET Open /\ pay \in [{id} -> Nat]
        /\ \A i \in {id} : pay[i] <= Claimable(i)
        /\ Release({id}, pay)
    BY <1>3, <2>1 DEF Claim
  <2> HIDE DEF pay
  <2> QED
    BY <2>2, EarnedRelease
<1>4. ASSUME NEW owner \in Accounts, ClaimAll(owner)
      PROVE  EarnedInv' /\ PaysEarned
  <2> DEFINE S == {id \in Open : sched[id].owner = owner /\ Claimable(id) > 0}
             pay == [id \in S |-> Claimable(id)]
  <2>1. \A id \in Open : Claimable(id) \in Int
    BY OpenFacts DEF Claimable
  <2>2. /\ S \in SUBSET Open /\ pay \in [S -> Nat]
        /\ \A i \in S : pay[i] <= Claimable(i)
        /\ Release(S, pay)
    BY <1>4, <2>1 DEF ClaimAll
  <2> HIDE DEF S, pay
  <2> QED
    BY <2>2, EarnedRelease
<1>5. ASSUME NEW caller \in Accounts, NEW S \in SUBSET Open, Revoke(caller, S)
      PROVE  EarnedInv' /\ PaysEarned
  BY <1>5, EarnedRevoke
<1>6. ASSUME NEW id \in Open, NEW new \in Accounts, TransferRights(id, new)
      PROVE  EarnedInv' /\ PaysEarned
  <2>1. /\ sched' = [sched EXCEPT ![id].owner = new]
        /\ UNCHANGED <<now, toSender>>
    BY <1>6 DEF TransferRights
  <2>2. Open' = Open
    BY <1>s, <2>1 DEF Open
  <2>3. \A i \in Open : /\ sched'[i].total = sched[i].total
                        /\ sched'[i].released = sched[i].released
                        /\ sched'[i].win = sched[i].win
    BY <1>s, <2>1 DEF Schedule
  <2>4. NeverAhead'
    BY <2>1, <2>2, <2>3, OpenFacts DEF NeverAhead, VestedOf
  <2> QED
    BY <1>6, <2>2, <2>4, EarnedQuiet
<1>7. ASSUME NEW caller \in Accounts, NEW id \in Open, NEW amount \in 1 .. sched[id].total,
             RevokePartial(caller, id, amount)
      PROVE  EarnedInv' /\ PaysEarned
  <2>1. /\ sched' = [sched EXCEPT ![id].total = @ - amount]
        /\ toSender' = [toSender EXCEPT ![id] = @ + amount]
        /\ UNCHANGED now
    BY <1>7 DEF RevokePartial
  <2>2. Open' = Open
    BY <1>s, <2>1 DEF Open
  <2>3. amount \in Nat /\ amount > 0
    BY OpenFacts
  <2>4. toSender'[id] # 0
    <3>1. toSender \in [Ids -> Nat]
      BY DEF EarnedInv, BooksInv, TypeOK
    <3> QED
      BY <2>1, <2>3, <3>1, OpenFacts
  <2>5. \A i \in Open \ {id} : sched'[i] = sched[i] /\ toSender'[i] = toSender[i]
    <3>1. toSender \in [Ids -> Nat]
      BY DEF EarnedInv, BooksInv, TypeOK
    <3> QED
      BY <1>s, <2>1, <3>1, OpenFacts
  <2>6. NeverAhead'
    BY <2>1, <2>2, <2>4, <2>5, OpenFacts DEF NeverAhead, VestedOf
  <2> QED
    BY <2>2, <2>6, EarnedQuiet
<1>8. CASE UNCHANGED vars
  <2>1. UNCHANGED <<now, sched, toSender>> /\ Open' = Open
    BY <1>8 DEF vars, Open
  <2>2. NeverAhead'
    BY <2>1, OpenFacts DEF NeverAhead, VestedOf
  <2> QED
    BY <2>1, <2>2, EarnedQuiet
<1> QED
  BY <1>1, <1>2, <1>3, <1>4, <1>5, <1>6, <1>7, <1>8 DEF Next

\* Nothing is released before it vests, on any schedule of which no part was
\* taken back by its sender and that was not inherited partly claimed.
THEOREM LedgerNeverAhead == Spec => []NeverAhead
<1>1. Init => EarnedInv
  BY EarnedInit
<1>2. EarnedInv /\ [Next]_vars => EarnedInv'
  BY EarnedStep
<1>3. EarnedInv => NeverAhead
  BY DEF EarnedInv
<1> QED
  BY <1>1, <1>2, <1>3, PTL DEF Spec

\* Whoever holds a schedule when it closes has been paid exactly what had
\* vested and its sender the rest of the deposit, unless part of it was revoked
\* before, or it was inherited partly claimed and is revoked before its end.
THEOREM LedgerEarnedIsPaid == Spec => EarnedIsPaid
<1>1. Init => EarnedInv
  BY EarnedInit
<1>2. EarnedInv /\ [Next]_vars => EarnedInv'
  BY EarnedStep
<1>3. EarnedInv /\ [Next]_vars
        => [\A id \in Open \ Open' :
               toSender[id] = 0 /\ (id \in ClaimedBefore => sched[id].win.end <= now) =>
                   /\ toRecipient'[id] = VestedOf(id)
                   /\ toRecipient'[id] + toSender'[id] = funded[id]]_vars
  BY EarnedStep DEF PaysEarned, Regular
<1> QED
  BY <1>1, <1>2, <1>3, PTL DEF Spec, EarnedIsPaid
=============================================================================
