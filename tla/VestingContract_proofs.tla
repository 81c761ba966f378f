----------------------- MODULE VestingContract_proofs -----------------------
(***************************************************************************)
(* The storage of contracts/batch-vesting, for every instance: however     *)
(* deposits, claims, revocations, transfers and migrations follow one      *)
(* another, the lists, old and new, hold one entry for each open schedule  *)
(* of a "book", every batch names its depositor, and custody holds exactly *)
(* what the book still owes.  The lemmas say what each operation makes of  *)
(* the book; the invariant is that some book accounts for everything.      *)
(***************************************************************************)
EXTENDS VestingContract, VestingSchedule_proofs, FiniteSetTheorems, NaturalsInduction,
        WellFoundedInduction

-----------------------------------------------------------------------------
(* Recursion over an interval and sums *)

\* Every set of natural numbers that has an element has a least one.
LEMMA Least ==
  ASSUME NEW S, S \subseteq Nat, S # {}
  PROVE  \E m \in S : \A n \in S : m <= n
<1> DEFINE R == OpToRel(<, Nat)
<1>1. \E m \in S : \A n \in S : ~(<<n, m>> \in R)
  <2>1. IsWellFoundedOn(R, Nat)
    BY NatLessThanWellFounded
  <2> HIDE DEF R
  <2> QED
    BY <2>1, WFMin
<1>2. \A n, m \in Nat : <<n, m>> \in R <=> n < m
  BY DEF OpToRel
<1> HIDE DEF R
<1>3. PICK m \in S : \A n \in S : ~(<<n, m>> \in R)
  BY <1>1
<1>4. ASSUME NEW n \in S PROVE m <= n
  <2>1. ~(<<n, m>> \in R) /\ m \in Nat /\ n \in Nat
    BY <1>3
  <2>2. ~(n < m)
    BY <2>1, <1>2
  <2> QED
    BY <2>1, <2>2
<1> QED
  BY <1>3, <1>4

\* A set that holds 0, and a number of the interval when it holds the one before,
\* holds the interval.
LEMMA Upwards ==
  ASSUME NEW N \in Nat, NEW S, 0 \in S,
         \A n \in 1 .. N : n - 1 \in S => n \in S
  PROVE  0 .. N \subseteq S
<1> DEFINE Bad == {n \in 0 .. N : n \notin S}
<1> SUFFICES ASSUME Bad # {} PROVE FALSE
  OBVIOUS
<1>1. Bad \subseteq Nat
  OBVIOUS
<1>2. PICK m \in Bad : \A n \in Bad : m <= n
  <2> HIDE DEF Bad
  <2> QED
    BY <1>1, Least
<1>3. m \in 1 .. N /\ m - 1 \notin Bad /\ m - 1 \in 0 .. N
  BY <1>2
<1> QED
  BY <1>2, <1>3

\* f starts at base, and each value comes from the one before it.
Turns(f, N, base, step) ==
    f = [n \in 0 .. N |-> IF n = 0 THEN base ELSE step[n][f[n - 1]]]

\* Steps that lead from each set to the next can be taken one after the other.
LEMMA Recursion ==
  ASSUME NEW N \in Nat, NEW T, NEW base \in T[0], NEW step,
         \A n \in 1 .. N : step[n] \in [T[n - 1] -> T[n]]
  PROVE  \E f : Turns(f, N, base, step) /\ \A n \in 0 .. N : f[n] \in T[n]
<1> DEFINE Good(M) == \E f : Turns(f, M, base, step) /\ \A n \in 0 .. M : f[n] \in T[n]
           S == {M \in 0 .. N : Good(M)}
<1>1. 0 \in S
  <2> DEFINE f == [n \in 0 .. 0 |-> base]
  <2>1. f = [n \in 0 .. 0 |-> IF n = 0 THEN base ELSE step[n][f[n - 1]]] /\ f[0] = base
    OBVIOUS
  <2> HIDE DEF f
  <2>2. Turns(f, 0, base, step) /\ \A n \in 0 .. 0 : f[n] \in T[n]
    BY <2>1 DEF Turns
  <2> QED
    BY <2>2
<1>2. ASSUME NEW M \in 1 .. N, M - 1 \in S PROVE M \in S
  <2>1. PICK f : Turns(f, M - 1, base, step) /\ \A n \in 0 .. M - 1 : f[n] \in T[n]
    BY <1>2
  <2> DEFINE g == [n \in 0 .. M |-> IF n = M THEN step[M][f[M - 1]] ELSE f[n]]
  <2>2. f[M - 1] \in T[M - 1] /\ step[M][f[M - 1]] \in T[M]
    BY <2>1
  <2>3. \A n \in 0 .. M - 1 : f[n] = IF n = 0 THEN base ELSE step[n][f[n - 1]]
    BY <2>1 DEF Turns
  <2>4. ASSUME NEW n \in 0 .. M
        PROVE  g[n] = (IF n = 0 THEN base ELSE step[n][g[n - 1]]) /\ g[n] \in T[n]
    <3>1. /\ n # 0 => g[n - 1] = f[n - 1]
          /\ g[n] = IF n = M THEN step[M][f[M - 1]] ELSE f[n]
      OBVIOUS
    <3> HIDE DEF g
    <3>2. CASE n = M
      BY <2>2, <3>1, <3>2
    <3>3. CASE n # M
      <4>1. n \in 0 .. M - 1 /\ g[n] = f[n]
        BY <3>1, <3>3
      <4> QED
        BY <2>1, <2>3, <3>1, <4>1
    <3> QED
      BY <3>2, <3>3
  <2>5. DOMAIN g = 0 .. M /\ g = [n \in 0 .. M |-> g[n]]
    OBVIOUS
  <2> HIDE DEF g
  <2>6. Turns(g, M, base, step)
    BY <2>4, <2>5 DEF Turns
  <2> QED
    BY <2>4, <2>6
<1> HIDE DEF S
<1>3. 0 .. N \subseteq S
  BY <1>1, <1>2, Upwards
<1> QED
  BY <1>3 DEF S

K == Cardinality(Ids)

\* The ids are 1 .. K.
LEMMA IdsAre == K \in Nat /\ Ids = 1 .. K
<1>1. IsFiniteSet(Ids) /\ Ids = 1 .. Cardinality(Ids)
  BY ContractAssumption DEF ContractAssumption
<1> QED
  BY <1>1, FS_CardinalityType DEF K

\* SumOver, unfolded.
LEMMA SumTurns ==
  ASSUME NEW g \in [Ids -> Int]
  PROVE  \E f : /\ f \in [0 .. K -> Int] /\ f[0] = 0
                /\ \A n \in 1 .. K : f[n] = f[n - 1] + g[n]
                /\ SumOver(g) = f[K]
<1> DEFINE T == [n \in 0 .. K |-> Int]
           step == [n \in 1 .. K |-> [x \in Int |-> x + g[n]]]
           body(f) == [n \in 0 .. K |-> IF n = 0 THEN 0 ELSE f[n - 1] + g[n]]
           upTo == CHOOSE f : f = body(f)
<1>1. K \in Nat /\ Ids = 1 .. K
  BY IdsAre
<1>2. \A n \in 1 .. K : g[n] \in Int
  BY <1>1
<1>3. PICK h : Turns(h, K, 0, step) /\ \A n \in 0 .. K : h[n] \in T[n]
  <2>1. 0 \in T[0]
    BY <1>1
  <2>2. \A n \in 1 .. K : step[n] \in [T[n - 1] -> T[n]]
    BY <1>1, <1>2
  <2> HIDE DEF T, step
  <2> QED
    BY <1>1, <2>1, <2>2, Recursion
<1>4. h = body(h)
  <2>1. \A n \in 1 .. K : h[n - 1] \in Int
    BY <1>1, <1>3
  <2>2. \A n \in 1 .. K : step[n][h[n - 1]] = h[n - 1] + g[n]
    BY <2>1
  <2> HIDE DEF step
  <2>3. h = [n \in 0 .. K |-> IF n = 0 THEN 0 ELSE step[n][h[n - 1]]]
    BY <1>3 DEF Turns
  <2>4. \A n \in 0 .. K : (IF n = 0 THEN 0 ELSE step[n][h[n - 1]])
                          = (IF n = 0 THEN 0 ELSE h[n - 1] + g[n])
    BY <1>1, <2>2
  <2> QED
    BY <2>3, <2>4
<1>5. upTo = body(upTo)
  <2> HIDE DEF body
  <2> QED
    BY <1>4
<1>6. SumOver(g) = upTo[K]
  BY Zenon DEF SumOver, K
<1> HIDE DEF upTo
<1>7. upTo[0] = 0 /\ \A n \in 1 .. K : upTo[n] = upTo[n - 1] + g[n]
  BY <1>1, <1>5
<1>8. 0 .. K \subseteq {n \in 0 .. K : upTo[n] \in Int}
  <2> DEFINE S == {n \in 0 .. K : upTo[n] \in Int}
  <2>1. 0 \in S
    BY <1>1, <1>7
  <2>2. \A n \in 1 .. K : n - 1 \in S => n \in S
    BY <1>1, <1>2, <1>7
  <2> HIDE DEF S
  <2> QED
    BY <1>1, <2>1, <2>2, Upwards DEF S
<1>9. upTo \in [0 .. K -> Int]
  BY <1>5, <1>8
<1> QED
  BY <1>6, <1>7, <1>9

\* A sum of integers is one.
LEMMA SumType ==
  ASSUME NEW g \in [Ids -> Int]
  PROVE  SumOver(g) \in Int
<1>1. PICK f : f \in [0 .. K -> Int] /\ SumOver(g) = f[K]
  BY SumTurns
<1> QED
  BY <1>1, IdsAre

\* A sum changes with its terms.
LEMMA SumChanges ==
  ASSUME NEW g \in [Ids -> Int], NEW id \in Ids, NEW x \in Int
  PROVE  SumOver([g EXCEPT ![id] = x]) = SumOver(g) + x - g[id]
<1> DEFINE h == [g EXCEPT ![id] = x]
<1>1. h \in [Ids -> Int] /\ h[id] = x /\ \A n \in Ids : n # id => h[n] = g[n]
  OBVIOUS
<1> HIDE DEF h
<1>2. PICK f : /\ f \in [0 .. K -> Int] /\ f[0] = 0
               /\ \A n \in 1 .. K : f[n] = f[n - 1] + g[n]
               /\ SumOver(g) = f[K]
  BY SumTurns
<1>3. PICK e : /\ e \in [0 .. K -> Int] /\ e[0] = 0
               /\ \A n \in 1 .. K : e[n] = e[n - 1] + h[n]
               /\ SumOver(h) = e[K]
  BY <1>1, SumTurns
<1> DEFINE S == {n \in 0 .. K : e[n] = f[n] + (IF n < id THEN 0 ELSE x - g[id])}
<1>4. K \in Nat /\ Ids = 1 .. K
  BY IdsAre
<1>5. 0 \in S
  BY <1>2, <1>3, <1>4
<1>6. ASSUME NEW n \in 1 .. K, n - 1 \in S PROVE n \in S
  <2>0. n \in Ids /\ n - 1 \in 0 .. K /\ n \in 0 .. K
    BY <1>4
  <2>1. f[n - 1] \in Int /\ f[n] = f[n - 1] + g[n] /\ e[n] = e[n - 1] + h[n]
    BY <1>2, <1>3, <2>0
  <2>2. e[n - 1] = f[n - 1] + (IF n - 1 < id THEN 0 ELSE x - g[id])
    BY <1>6
  <2>3. g[n] \in Int /\ g[id] \in Int /\ h[n] = (IF n = id THEN x ELSE g[n])
    BY <1>1, <2>0
  <2>4. id \in Nat
    BY <1>4
  <2>5. e[n] = f[n] + (IF n < id THEN 0 ELSE x - g[id])
    BY <2>0, <2>1, <2>2, <2>3, <2>4
  <2> QED
    BY <2>0, <2>5
<1> HIDE DEF S
<1>7. 0 .. K \subseteq S
  BY <1>4, <1>5, <1>6, Upwards
<1>8. K \in S /\ ~(K < id)
  BY <1>4, <1>7
<1>9. SumOver(g) \in Int /\ g[id] \in Int
  BY SumType
<1> QED
  BY <1>2, <1>3, <1>8, <1>9 DEF S, h

-----------------------------------------------------------------------------
(* The book that lists describe *)

Lists == [Recipients -> Seq(Schedule)]

\* A schedule as its holder sees it, whatever list and batch it is in.
Shown(r, v) ==
    [owner |-> r, sender |-> v.sender, total |-> v.total, released |-> v.released,
     win |-> v.win, token |-> v.token]

Renewed(v) == [v EXCEPT !.win = MigratedWindow(@)]

Shape ==
    [owner : Recipients, sender : Senders, total : Nat, released : Nat, win : Window,
     token : Tokens]

IsBook(b) == DOMAIN b \subseteq Ids /\ b \in [DOMAIN b -> Shape]

\* Book b lists, by id, the schedules in the new lists V and the old lists L, each
\* of which is there once.
Describes(b, V, L) ==
    /\ \A r \in Recipients : \A i \in DOMAIN V[r] :
           V[r][i].id \in DOMAIN b /\ b[V[r][i].id] = Shown(r, V[r][i])
    /\ \A r \in Recipients : \A i \in DOMAIN L[r] :
           L[r][i].id \in DOMAIN b /\ b[L[r][i].id] = Shown(r, Renewed(L[r][i]))
    /\ \A id \in DOMAIN b : \E r \in Recipients :
           \/ \E i \in DOMAIN V[r] : V[r][i].id = id
           \/ \E i \in DOMAIN L[r] : L[r][i].id = id
    /\ \A r \in Recipients :
           /\ \A i, j \in DOMAIN V[r] : V[r][i].id = V[r][j].id => i = j
           /\ \A i, j \in DOMAIN L[r] : L[r][i].id = L[r][j].id => i = j
           /\ \A i \in DOMAIN V[r], j \in DOMAIN L[r] : V[r][i].id # L[r][j].id

\* A function with one value changed, and a number in it raised or lowered.
Put(f, x, e) == [f EXCEPT ![x] = e]
Gained(f, x, n) == [f EXCEPT ![x] = @ + n]
Spent(f, x, n) == [f EXCEPT ![x] = @ - n]

Without(b, id) == [x \in DOMAIN b \ {id} |-> b[x]]
With(b, id, e) == [x \in DOMAIN b \cup {id} |-> IF x = id THEN e ELSE b[x]]

\* Every batch named by a stored schedule is its sender's.
Named(V, B) ==
    \A r \in Recipients : \A i \in DOMAIN V[r] :
        V[r][i].batch \in DOMAIN B /\ B[V[r][i].batch] = V[r][i].sender

\* remove_vesting (lib.rs): the list is one shorter, its last entry in the freed slot.
LEMMA SwapRemoved ==
  ASSUME NEW S, NEW s \in Seq(S), NEW i \in DOMAIN s
  PROVE  /\ SwapRemove(s, i) \in Seq(S)
         /\ Len(SwapRemove(s, i)) = Len(s) - 1
         /\ \A j \in 1 .. Len(s) - 1 : SwapRemove(s, i)[j] = IF j = i THEN s[Len(s)] ELSE s[j]
<1> DEFINE m == [s EXCEPT ![i] = s[Len(s)]]
<1>1. Len(s) \in Nat /\ Len(s) >= 1 /\ s[Len(s)] \in S /\ DOMAIN s = 1 .. Len(s)
  OBVIOUS
<1>2. m \in Seq(S) /\ Len(m) = Len(s)
  BY <1>1
<1>3. \A j \in 1 .. Len(s) : m[j] = IF j = i THEN s[Len(s)] ELSE s[j]
  BY <1>1
<1>4. SwapRemove(s, i) = SubSeq(m, 1, Len(m) - 1)
  BY DEF SwapRemove, Front, Last
<1> HIDE DEF m
<1> QED BY <1>1, <1>2, <1>3, <1>4

\* Migration changes nothing of an entry but its window.
LEMMA SenderOfWindow ==
  ASSUME NEW v \in Schedule
  PROVE  /\ Renewed(v) \in Schedule
         /\ Renewed(v).id = v.id /\ Renewed(v).sender = v.sender
         /\ Renewed(v).total = v.total /\ Renewed(v).released = v.released
         /\ Renewed(v).token = v.token /\ Renewed(v).batch = v.batch
         /\ Renewed(v).win = MigratedWindow(v.win) /\ MigratedWindow(v.win) \in Window
<1> DEFINE w == v.win
           m == MigratedWindow(w)
<1>0. w \in Window
  BY DEF Schedule
<1> HIDE DEF w
<1>1. m \in Window
  <2>1. /\ w \in [start : Nat, end : Nat, cliff : Nat, step : Nat] /\ w.start < w.end
        /\ w.start \in Nat /\ w.end \in Nat
    BY <1>0 DEF Window
  <2>2. /\ m \in [start : Nat, end : Nat, cliff : Nat, step : Nat]
        /\ m.start = w.start /\ m.end = w.end /\ m.cliff = w.start /\ m.step = 0
    BY <2>1 DEF MigratedWindow
  <2> QED
    BY <2>1, <2>2 DEF Window
<1> QED
  BY <1>1 DEF Schedule, Renewed, w

\* What a holder sees of a schedule has the shape of an entry of the book.
LEMMA ShownType ==
  ASSUME NEW r \in Recipients, NEW v \in Schedule
  PROVE  Shown(r, v) \in Shape
  BY DEF Shown, Shape, Schedule

\* An id is in one recipient's lists.
LEMMA OneHolder ==
  ASSUME NEW V \in Lists, NEW L \in Lists, NEW b, Describes(b, V, L),
         NEW r \in Recipients, NEW s \in Recipients, r # s
  PROVE  /\ \A i \in DOMAIN V[r], j \in DOMAIN V[s] : V[r][i].id # V[s][j].id
         /\ \A i \in DOMAIN V[r], j \in DOMAIN L[s] : V[r][i].id # L[s][j].id
<1>1. \A x \in Schedule : Shown(r, x).owner = r /\ Shown(s, x).owner = s
  BY DEF Shown
<1>2. /\ \A i \in DOMAIN V[r] : V[r][i] \in Schedule
      /\ \A i \in DOMAIN V[s] : V[s][i] \in Schedule
      /\ \A i \in DOMAIN L[s] : Renewed(L[s][i]) \in Schedule
  <2>1. V[r] \in Seq(Schedule) /\ V[s] \in Seq(Schedule) /\ L[s] \in Seq(Schedule)
    BY DEF Lists
  <2>2. \A i \in DOMAIN L[s] : L[s][i] \in Schedule
    BY <2>1
  <2> QED
    BY <2>1, <2>2, SenderOfWindow
<1>3. /\ \A i \in DOMAIN V[r] : b[V[r][i].id].owner = r
      /\ \A i \in DOMAIN V[s] : b[V[s][i].id].owner = s
      /\ \A i \in DOMAIN L[s] : b[L[s][i].id].owner = s
  BY <1>1, <1>2 DEF Describes
<1> QED
  BY <1>3

\* Removing an entry of a migrated recipient closes its schedule in the book.
LEMMA Removed ==
  ASSUME NEW V \in Lists, NEW L \in Lists, NEW b, Describes(b, V, L),
         NEW r \in Recipients, L[r] = <<>>, NEW i \in DOMAIN V[r]
  PROVE  Describes(Without(b, V[r][i].id), Put(V, r, SwapRemove(V[r], i)), L)
<1> DEFINE id == V[r][i].id
           M == SwapRemove(V[r], i)
           V2 == [V EXCEPT ![r] = M]
           c == Without(b, id)
           n == Len(V[r])
<1>1. /\ V[r] \in Seq(Schedule) /\ n \in Nat /\ DOMAIN V[r] = 1 .. n /\ n >= 1 /\ i \in 1 .. n
      /\ DOMAIN L[r] = {}
  BY DEF Lists
<1>2. DOMAIN M = 1 .. n - 1 /\ \A j \in 1 .. n - 1 : M[j] = IF j = i THEN V[r][n] ELSE V[r][j]
  <2>1. /\ M \in Seq(Schedule) /\ Len(M) = n - 1
        /\ \A j \in 1 .. n - 1 : M[j] = IF j = i THEN V[r][n] ELSE V[r][j]
    BY <1>1, SwapRemoved
  <2> HIDE DEF M
  <2>2. DOMAIN M = 1 .. n - 1
    BY <2>1
  <2> QED
    BY <2>1, <2>2
<1> HIDE DEF M
<1>3. V2[r] = M /\ \A s \in Recipients : s # r => V2[s] = V[s]
  BY DEF Lists
<1>4. \A x \in DOMAIN b : x # id => x \in DOMAIN c /\ c[x] = b[x]
  BY DEF Without
<1>5. DOMAIN c = DOMAIN b \ {id}
  BY DEF Without
<1> HIDE DEF V2, c, id, n
<1>6. \A j \in 1 .. n - 1 : \E k \in 1 .. n : k # i /\ M[j] = V[r][k] /\ V[r][k].id # id
  BY <1>1, <1>2 DEF Describes, id
<1>7. \A s \in Recipients : \A j \in DOMAIN V2[s] :
         V2[s][j].id \in DOMAIN c /\ c[V2[s][j].id] = Shown(s, V2[s][j])
  <2> SUFFICES ASSUME NEW s \in Recipients, NEW j \in DOMAIN V2[s]
               PROVE  V2[s][j].id \in DOMAIN c /\ c[V2[s][j].id] = Shown(s, V2[s][j])
    OBVIOUS
  <2>1. CASE s = r
    <3>1. PICK k \in 1 .. n : M[j] = V[r][k] /\ V[r][k].id # id
      BY <1>2, <1>3, <1>6, <2>1
    <3> QED
      BY <1>1, <1>3, <1>4, <2>1, <3>1 DEF Describes
  <2>2. CASE s # r
    <3>1. V2[s] = V[s] /\ j \in DOMAIN V[s]
      BY <1>3, <2>2
    <3>2. V[s][j].id # id
      BY <2>2, <3>1, OneHolder DEF id
    <3>3. V[s][j].id \in DOMAIN b /\ b[V[s][j].id] = Shown(s, V[s][j])
      BY <3>1 DEF Describes
    <3> QED
      BY <1>4, <3>1, <3>2, <3>3
  <2> QED
    BY <2>1, <2>2
<1>8. \A s \in Recipients : \A j \in DOMAIN L[s] :
         L[s][j].id \in DOMAIN c /\ c[L[s][j].id] = Shown(s, Renewed(L[s][j]))
  <2> SUFFICES ASSUME NEW s \in Recipients, NEW j \in DOMAIN L[s]
               PROVE  L[s][j].id \in DOMAIN c /\ c[L[s][j].id] = Shown(s, Renewed(L[s][j]))
    OBVIOUS
  <2>1. s # r
    BY <1>1
  <2>2. L[s][j].id # id
    BY <2>1, OneHolder DEF id
  <2>3. L[s][j].id \in DOMAIN b /\ b[L[s][j].id] = Shown(s, Renewed(L[s][j]))
    BY DEF Describes
  <2> QED
    BY <1>4, <2>2, <2>3
<1>9. ASSUME NEW x \in DOMAIN c
      PROVE  \E s \in Recipients : \/ \E j \in DOMAIN V2[s] : V2[s][j].id = x
                                   \/ \E j \in DOMAIN L[s] : L[s][j].id = x
  <2>1. x \in DOMAIN b /\ x # id
    BY <1>5
  <2>2. PICK s \in Recipients : \/ \E j \in DOMAIN V[s] : V[s][j].id = x
                                \/ \E j \in DOMAIN L[s] : L[s][j].id = x
    BY <2>1 DEF Describes
  <2>3. CASE s # r \/ \E j \in DOMAIN L[s] : L[s][j].id = x
    BY <1>1, <1>3, <2>2, <2>3
  <2>4. CASE s = r /\ \E j \in DOMAIN V[r] : V[r][j].id = x
    <3>1. PICK j \in 1 .. n : V[r][j].id = x /\ j # i
      BY <1>1, <2>1, <2>4 DEF id
    <3>2. \E k \in 1 .. n - 1 : M[k] = V[r][j]
      <4>1. CASE j = n
        BY <1>1, <1>2, <3>1, <4>1
      <4>2. CASE j # n
        BY <1>1, <1>2, <3>1, <4>2
      <4> QED
        BY <4>1, <4>2
    <3> QED
      BY <1>2, <1>3, <3>1, <3>2
  <2> QED
    BY <2>2, <2>3, <2>4
<1>10. ASSUME NEW s \in Recipients
       PROVE  /\ \A j, k \in DOMAIN V2[s] : V2[s][j].id = V2[s][k].id => j = k
              /\ \A j, k \in DOMAIN L[s] : L[s][j].id = L[s][k].id => j = k
              /\ \A j \in DOMAIN V2[s], k \in DOMAIN L[s] : V2[s][j].id # L[s][k].id
  <2>1. CASE s # r
    BY <1>3, <2>1 DEF Describes
  <2>2. CASE s = r
    <3>1. ASSUME NEW j \in 1 .. n - 1, NEW k \in 1 .. n - 1, M[j].id = M[k].id PROVE j = k
      <4> DEFINE p(m) == IF m = i THEN n ELSE m
      <4>1. p(j) \in 1 .. n /\ p(k) \in 1 .. n /\ M[j] = V[r][p(j)] /\ M[k] = V[r][p(k)]
        BY <1>1, <1>2
      <4>2. p(j) = p(k)
        BY <1>1, <3>1, <4>1 DEF Describes
      <4> QED
        BY <1>1, <4>2
    <3> QED
      BY <1>1, <1>2, <1>3, <2>2, <3>1
  <2> QED
    BY <2>1, <2>2
<1>11. Describes(c, V2, L)
  BY <1>7, <1>8, <1>9, <1>10 DEF Describes
<1> QED
  BY <1>11 DEF c, V2, id, M, Put

\* Elements of a list with one replaced, and of a list with one added.
LEMMA ReplacedAt ==
  ASSUME NEW S, NEW s \in Seq(S), NEW i \in DOMAIN s, NEW v \in S
  PROVE  /\ [s EXCEPT ![i] = v] \in Seq(S)
         /\ DOMAIN [s EXCEPT ![i] = v] = DOMAIN s
         /\ \A j \in DOMAIN s : [s EXCEPT ![i] = v][j] = IF j = i THEN v ELSE s[j]
  OBVIOUS

\* Elements of a list with one added.
LEMMA AppendedAt ==
  ASSUME NEW S, NEW s \in Seq(S), NEW v \in S
  PROVE  /\ Append(s, v) \in Seq(S)
         /\ DOMAIN Append(s, v) = 1 .. Len(s) + 1
         /\ DOMAIN s = 1 .. Len(s) /\ Len(s) \in Nat
         /\ \A j \in DOMAIN s : Append(s, v)[j] = s[j]
         /\ Append(s, v)[Len(s) + 1] = v
  OBVIOUS

\* Elements of two lists put together.
LEMMA JoinedAt ==
  ASSUME NEW S, NEW s \in Seq(S), NEW t \in Seq(S)
  PROVE  /\ s \o t \in Seq(S) /\ Len(s \o t) = Len(s) + Len(t)
         /\ DOMAIN (s \o t) = 1 .. Len(s) + Len(t)
         /\ DOMAIN s = 1 .. Len(s) /\ DOMAIN t = 1 .. Len(t) /\ Len(s) \in Nat /\ Len(t) \in Nat
         /\ \A j \in DOMAIN s : (s \o t)[j] = s[j]
         /\ \A j \in DOMAIN t : (s \o t)[Len(s) + j] = t[j]
  OBVIOUS

\* Rewriting an entry of a migrated recipient rewrites its schedule in the book.
LEMMA Replaced ==
  ASSUME NEW V \in Lists, NEW L \in Lists, NEW b, Describes(b, V, L),
         NEW r \in Recipients, L[r] = <<>>, NEW i \in DOMAIN V[r],
         NEW v \in Schedule, v.id = V[r][i].id
  PROVE  Describes(Put(b, v.id, Shown(r, v)), Put(V, r, Put(V[r], i, v)), L)
<1> DEFINE id == v.id
           M == [V[r] EXCEPT ![i] = v]
           V2 == [V EXCEPT ![r] = M]
           c == [b EXCEPT ![id] = Shown(r, v)]
<1>1. V[r] \in Seq(Schedule) /\ DOMAIN L[r] = {}
  BY DEF Lists
<1>2. DOMAIN M = DOMAIN V[r] /\ \A j \in DOMAIN V[r] : M[j] = IF j = i THEN v ELSE V[r][j]
  BY <1>1, ReplacedAt
<1> HIDE DEF M
<1>3. V2[r] = M /\ \A s \in Recipients : s # r => V2[s] = V[s]
  BY DEF Lists
<1>4. id \in DOMAIN b
  BY DEF Describes, id
<1>5. DOMAIN c = DOMAIN b /\ c[id] = Shown(r, v) /\ \A x \in DOMAIN b : x # id => c[x] = b[x]
  BY <1>4
<1> HIDE DEF V2, c, id
<1>6. \A j \in DOMAIN V[r] : M[j].id = V[r][j].id /\ (j # i => V[r][j].id # id)
  BY <1>2 DEF Describes, id
<1>7. \A s \in Recipients : \A j \in DOMAIN V2[s] :
         V2[s][j].id \in DOMAIN c /\ c[V2[s][j].id] = Shown(s, V2[s][j])
  <2> SUFFICES ASSUME NEW s \in Recipients, NEW j \in DOMAIN V2[s]
               PROVE  V2[s][j].id \in DOMAIN c /\ c[V2[s][j].id] = Shown(s, V2[s][j])
    OBVIOUS
  <2>1. CASE s = r /\ j = i
    <3>1. V2[s][j] = v
      BY <1>2, <1>3, <2>1
    <3> QED
      BY <1>4, <1>5, <2>1, <3>1 DEF id
  <2>2. CASE s = r /\ j # i
    <3>1. V2[s][j] = V[r][j] /\ V[r][j].id # id /\ j \in DOMAIN V[r]
      BY <1>2, <1>3, <1>6, <2>2
    <3> QED
      BY <1>5, <2>2, <3>1 DEF Describes
  <2>3. CASE s # r
    <3>1. V2[s] = V[s] /\ j \in DOMAIN V[s]
      BY <1>3, <2>3
    <3>2. V[s][j].id # id
      BY <2>3, <3>1, OneHolder DEF id
    <3> QED
      BY <1>5, <3>1, <3>2 DEF Describes
  <2> QED
    BY <2>1, <2>2, <2>3
<1>8. \A s \in Recipients : \A j \in DOMAIN L[s] :
         L[s][j].id \in DOMAIN c /\ c[L[s][j].id] = Shown(s, Renewed(L[s][j]))
  <2> SUFFICES ASSUME NEW s \in Recipients, NEW j \in DOMAIN L[s]
               PROVE  L[s][j].id \in DOMAIN c /\ c[L[s][j].id] = Shown(s, Renewed(L[s][j]))
    OBVIOUS
  <2>1. s # r
    BY <1>1
  <2>2. L[s][j].id # id
    BY <2>1, OneHolder DEF id
  <2> QED
    BY <1>5, <2>2 DEF Describes
<1>9. ASSUME NEW x \in DOMAIN c
      PROVE  \E s \in Recipients : \/ \E j \in DOMAIN V2[s] : V2[s][j].id = x
                                   \/ \E j \in DOMAIN L[s] : L[s][j].id = x
  <2>1. PICK s \in Recipients : \/ \E j \in DOMAIN V[s] : V[s][j].id = x
                                \/ \E j \in DOMAIN L[s] : L[s][j].id = x
    BY <1>5 DEF Describes
  <2>2. CASE s # r \/ \E j \in DOMAIN L[s] : L[s][j].id = x
    BY <1>3, <2>1, <2>2
  <2>3. CASE s = r /\ \E j \in DOMAIN V[r] : V[r][j].id = x
    BY <1>2, <1>3, <1>6, <2>3
  <2> QED
    BY <2>1, <2>2, <2>3
<1>10. ASSUME NEW s \in Recipients
       PROVE  /\ \A j, k \in DOMAIN V2[s] : V2[s][j].id = V2[s][k].id => j = k
              /\ \A j, k \in DOMAIN L[s] : L[s][j].id = L[s][k].id => j = k
              /\ \A j \in DOMAIN V2[s], k \in DOMAIN L[s] : V2[s][j].id # L[s][k].id
  <2>1. CASE s # r
    BY <1>3, <2>1 DEF Describes
  <2>2. CASE s = r
    BY <1>1, <1>2, <1>3, <1>6, <2>2 DEF Describes
  <2> QED
    BY <2>1, <2>2
<1>11. Describes(c, V2, L)
  BY <1>7, <1>8, <1>9, <1>10 DEF Describes
<1> QED
  BY <1>11 DEF c, V2, id, M, Put

\* A new entry of a migrated recipient opens a schedule in the book.
LEMMA Appended ==
  ASSUME NEW V \in Lists, NEW L \in Lists, NEW b, Describes(b, V, L),
         NEW r \in Recipients, L[r] = <<>>, NEW v \in Schedule, v.id \notin DOMAIN b
  PROVE  Describes(With(b, v.id, Shown(r, v)), Put(V, r, Append(V[r], v)), L)
<1> DEFINE id == v.id
           M == Append(V[r], v)
           n == Len(V[r])
           V2 == [V EXCEPT ![r] = M]
           c == With(b, id, Shown(r, v))
<1>1. V[r] \in Seq(Schedule) /\ DOMAIN L[r] = {}
  BY DEF Lists
<1>2. /\ DOMAIN M = 1 .. n + 1 /\ DOMAIN V[r] = 1 .. n /\ n \in Nat
      /\ M[n + 1] = v /\ \A j \in 1 .. n : M[j] = V[r][j]
  BY <1>1, AppendedAt
<1> HIDE DEF M, n
<1>3. V2[r] = M /\ \A s \in Recipients : s # r => V2[s] = V[s]
  BY DEF Lists
<1>4. DOMAIN c = DOMAIN b \cup {id} /\ c[id] = Shown(r, v) /\ \A x \in DOMAIN b : c[x] = b[x]
  BY DEF With
<1> HIDE DEF V2, c, id
<1>5. \A s \in Recipients : /\ \A j \in DOMAIN V[s] : V[s][j].id # id
                            /\ \A j \in DOMAIN L[s] : L[s][j].id # id
  BY DEF Describes, id
<1>6. \A j \in DOMAIN M : j = n + 1 \/ j \in 1 .. n
  BY <1>2
<1>7. \A s \in Recipients : \A j \in DOMAIN V2[s] :
         V2[s][j].id \in DOMAIN c /\ c[V2[s][j].id] = Shown(s, V2[s][j])
  <2> SUFFICES ASSUME NEW s \in Recipients, NEW j \in DOMAIN V2[s]
               PROVE  V2[s][j].id \in DOMAIN c /\ c[V2[s][j].id] = Shown(s, V2[s][j])
    OBVIOUS
  <2>1. CASE s = r /\ j = n + 1
    BY <1>2, <1>3, <1>4, <2>1 DEF id
  <2>2. CASE s = r /\ j # n + 1
    <3>1. V2[s][j] = V[s][j] /\ j \in DOMAIN V[s]
      BY <1>2, <1>3, <1>6, <2>2
    <3> QED
      BY <1>4, <3>1 DEF Describes
  <2>3. CASE s # r
    BY <1>3, <1>4, <2>3 DEF Describes
  <2> QED
    BY <2>1, <2>2, <2>3
<1>8. \A s \in Recipients : \A j \in DOMAIN L[s] :
         L[s][j].id \in DOMAIN c /\ c[L[s][j].id] = Shown(s, Renewed(L[s][j]))
  BY <1>4 DEF Describes
<1>9. ASSUME NEW x \in DOMAIN c
      PROVE  \E s \in Recipients : \/ \E j \in DOMAIN V2[s] : V2[s][j].id = x
                                   \/ \E j \in DOMAIN L[s] : L[s][j].id = x
  <2>1. CASE x = id
    <3>1. n + 1 \in DOMAIN V2[r] /\ V2[r][n + 1].id = id
      BY <1>2, <1>3 DEF id
    <3> QED
      BY <2>1, <3>1
  <2>2. CASE x \in DOMAIN b
    <3>1. PICK s \in Recipients : \/ \E j \in DOMAIN V[s] : V[s][j].id = x
                                  \/ \E j \in DOMAIN L[s] : L[s][j].id = x
      BY <2>2 DEF Describes
    <3>2. CASE s # r \/ \E j \in DOMAIN L[s] : L[s][j].id = x
      BY <1>3, <3>1, <3>2
    <3>3. CASE s = r /\ \E j \in DOMAIN V[r] : V[r][j].id = x
      <4>1. PICK j \in DOMAIN V[r] : V[r][j].id = x
        BY <3>3
      <4>2. j \in DOMAIN M /\ M[j] = V[r][j]
        BY <1>2
      <4> QED
        BY <1>3, <4>1, <4>2
    <3> QED
      BY <3>1, <3>2, <3>3
  <2> QED
    BY <1>4, <2>1, <2>2
<1>10. ASSUME NEW s \in Recipients
       PROVE  /\ \A j, k \in DOMAIN V2[s] : V2[s][j].id = V2[s][k].id => j = k
              /\ \A j, k \in DOMAIN L[s] : L[s][j].id = L[s][k].id => j = k
              /\ \A j \in DOMAIN V2[s], k \in DOMAIN L[s] : V2[s][j].id # L[s][k].id
  <2>1. CASE s # r
    BY <1>3, <2>1 DEF Describes
  <2>2. CASE s = r
    <3>1. ASSUME NEW j \in DOMAIN M, NEW k \in DOMAIN M, M[j].id = M[k].id PROVE j = k
      <4>1. CASE j = n + 1 /\ k # n + 1
        BY <1>2, <1>5, <1>6, <3>1, <4>1 DEF id
      <4>2. CASE k = n + 1 /\ j # n + 1
        BY <1>2, <1>5, <1>6, <3>1, <4>2 DEF id
      <4>3. CASE j # n + 1 /\ k # n + 1
        BY <1>2, <1>6, <3>1, <4>3 DEF Describes
      <4> QED
        BY <4>1, <4>2, <4>3
    <3> QED
      BY <1>1, <1>3, <2>2, <3>1
  <2> QED
    BY <2>1, <2>2
<1>11. Describes(c, V2, L)
  BY <1>7, <1>8, <1>9, <1>10 DEF Describes
<1> QED
  BY <1>11 DEF c, V2, id, M, Put

\* The old list of r as Migrate moves it, after n batches.
Moved(old, n) ==
    [k \in DOMAIN old |-> [old[k] EXCEPT !.batch = n + k, !.win = MigratedWindow(@)]]

\* What migration makes of the new lists, of the old ones and of the batches.
MovedIn(V, L, B, r) == [V EXCEPT ![r] = @ \o Moved(L[r], Len(B))]
Emptied(L, r) == [L EXCEPT ![r] = <<>>]
WithBatches(L, B, r) == B \o [k \in DOMAIN L[r] |-> L[r][k].sender]

\* What migration makes of each old entry.
LEMMA MovedAt ==
  ASSUME NEW old \in Seq(Schedule), NEW n \in Nat
  PROVE  /\ Moved(old, n) \in Seq(Schedule) /\ DOMAIN Moved(old, n) = DOMAIN old
         /\ \A k \in DOMAIN old :
                /\ Moved(old, n)[k].id = old[k].id
                /\ Moved(old, n)[k].batch = n + k
                /\ Moved(old, n)[k].sender = old[k].sender
                /\ \A r : Shown(r, Moved(old, n)[k]) = Shown(r, Renewed(old[k]))
<1>1. ASSUME NEW k \in DOMAIN old
      PROVE  LET m == [old[k] EXCEPT !.batch = n + k, !.win = MigratedWindow(@)]
             IN  /\ m \in Schedule /\ m.id = old[k].id /\ m.batch = n + k
                 /\ m.sender = old[k].sender
                 /\ \A r : Shown(r, m) = Shown(r, Renewed(old[k]))
  <2> DEFINE v == old[k]
             mw == MigratedWindow(v.win)
             bt == n + k
             m == [v EXCEPT !.batch = bt, !.win = mw]
  <2>1. v \in Schedule /\ bt \in Nat
    OBVIOUS
  <2>2. mw \in Window /\ Renewed(v).win = mw /\ Renewed(v).sender = v.sender
        /\ Renewed(v).total = v.total /\ Renewed(v).released = v.released
        /\ Renewed(v).token = v.token
    BY <2>1, SenderOfWindow
  <2> HIDE DEF v, mw, bt
  <2>3. /\ m \in Schedule /\ m.id = v.id /\ m.batch = bt /\ m.sender = v.sender
        /\ m.total = v.total /\ m.released = v.released /\ m.token = v.token /\ m.win = mw
    BY <2>1, <2>2 DEF Schedule
  <2> HIDE DEF m
  <2>4. \A r : Shown(r, m) = Shown(r, Renewed(v))
    BY <2>2, <2>3 DEF Shown
  <2> QED
    BY <2>3, <2>4 DEF v, m, mw, bt
<1>2. DOMAIN Moved(old, n) = DOMAIN old /\ DOMAIN old = 1 .. Len(old) /\ Len(old) \in Nat
  BY DEF Moved
<1>3. \A k \in DOMAIN old :
          Moved(old, n)[k] = [old[k] EXCEPT !.batch = n + k, !.win = MigratedWindow(@)]
  BY DEF Moved
<1>4. Moved(old, n) \in [1 .. Len(old) -> Schedule]
  BY <1>1, <1>2, <1>3 DEF Moved
<1>5. Moved(old, n) \in Seq(Schedule)
  BY <1>2, <1>4
<1> QED
  BY <1>1, <1>2, <1>3, <1>5

\* migrate_if_needed (lib.rs) leaves the book as it was, and the batches it makes name
\* the senders of the entries it moves.
LEMMA MigrationKeeps ==
  ASSUME NEW V \in Lists, NEW L \in Lists, NEW B \in Seq(Senders), NEW b,
         Describes(b, V, L), NEW r \in Recipients
  PROVE  LET V2 == MovedIn(V, L, B, r)
             B2 == WithBatches(L, B, r)
             L2 == Emptied(L, r)
         IN  /\ V2 \in Lists /\ L2 \in Lists /\ B2 \in Seq(Senders)
             /\ Describes(b, V2, L2)
             /\ Named(V, B) => Named(V2, B2)
             /\ Len(B) <= Len(B2) /\ \A k \in DOMAIN B : B2[k] = B[k]
<1> DEFINE old == L[r]
           moved == Moved(old, Len(B))
           M == V[r] \o moved
           n == Len(V[r])
           o == Len(old)
           from == [k \in DOMAIN old |-> old[k].sender]
           B2 == B \o from
           V2 == [V EXCEPT ![r] = M]
           L2 == [L EXCEPT ![r] = <<>>]
<1>1. V[r] \in Seq(Schedule) /\ old \in Seq(Schedule) /\ Len(B) \in Nat
  BY DEF Lists
<1>2. /\ moved \in Seq(Schedule) /\ DOMAIN moved = DOMAIN old /\ DOMAIN old = 1 .. o /\ o \in Nat
      /\ \A k \in 1 .. o :
             /\ moved[k].id = old[k].id
             /\ moved[k].batch = Len(B) + k
             /\ moved[k].sender = old[k].sender
             /\ Shown(r, moved[k]) = Shown(r, Renewed(old[k]))
  <2>1. /\ moved \in Seq(Schedule) /\ DOMAIN moved = DOMAIN old
        /\ \A k \in DOMAIN old :
             /\ moved[k].id = old[k].id
             /\ moved[k].batch = Len(B) + k
             /\ moved[k].sender = old[k].sender
             /\ \A q : Shown(q, moved[k]) = Shown(q, Renewed(old[k]))
    <3> HIDE DEF old
    <3> QED
      BY <1>1, MovedAt
  <2>2. DOMAIN old = 1 .. o /\ o \in Nat
    <3> HIDE DEF old
    <3> QED
      BY <1>1
  <2> HIDE DEF old, o, moved
  <2> QED
    BY <2>1, <2>2
<1>3. \A k \in 1 .. o : old[k].sender \in Senders
  <2>1. \A k \in 1 .. o : old[k] \in Schedule
    <3> HIDE DEF old
    <3> QED
      BY <1>1, <1>2
  <2> QED
    BY <2>1 DEF Schedule
<1>4. from \in Seq(Senders) /\ DOMAIN from = 1 .. o /\ \A k \in 1 .. o : from[k] = old[k].sender
  BY <1>2, <1>3
<1> HIDE DEF moved, from
<1>5. Len(moved) = o /\ Len(from) = o
  BY <1>2, <1>4
<1>6. /\ M \in Seq(Schedule) /\ DOMAIN M = 1 .. n + o /\ DOMAIN V[r] = 1 .. n /\ n \in Nat
      /\ \A k \in 1 .. n : M[k] = V[r][k]
      /\ \A k \in 1 .. o : M[n + k] = moved[k]
  <2>1. n = Len(V[r]) /\ Len(moved) = o /\ moved \in Seq(Schedule) /\ DOMAIN moved = 1 .. o
    BY <1>2, <1>5
  <2>2. /\ M \in Seq(Schedule) /\ DOMAIN M = 1 .. Len(V[r]) + Len(moved)
        /\ DOMAIN V[r] = 1 .. Len(V[r]) /\ Len(V[r]) \in Nat
        /\ \A k \in DOMAIN V[r] : M[k] = V[r][k]
        /\ \A k \in DOMAIN moved : M[Len(V[r]) + k] = moved[k]
    BY <1>1, <1>2, JoinedAt
  <2> HIDE DEF n, M, o
  <2> QED
    BY <2>1, <2>2
<1>7. /\ B2 \in Seq(Senders) /\ DOMAIN B2 = 1 .. Len(B) + o /\ DOMAIN B = 1 .. Len(B)
      /\ Len(B2) = Len(B) + o
      /\ \A k \in DOMAIN B : B2[k] = B[k]
      /\ \A k \in 1 .. o : B2[Len(B) + k] = old[k].sender
  <2> HIDE DEF old
  <2> QED
    BY <1>1, <1>2, <1>4, <1>5, JoinedAt
<1> HIDE DEF M, B2, o, n
<1>8. V2 \in Lists /\ V2[r] = M /\ \A s \in Recipients : s # r => V2[s] = V[s]
  BY <1>6 DEF Lists
<1>9. L2 \in Lists /\ L2[r] = <<>> /\ \A s \in Recipients : s # r => L2[s] = L[s]
  BY DEF Lists
<1> HIDE DEF V2, L2
<1>10. ASSUME NEW i \in DOMAIN M
       PROVE  i \in 1 .. n \/ \E k \in 1 .. o : i = n + k
  <2>1. i \in 1 .. n + o /\ o \in Nat /\ n \in Nat
    BY <1>2, <1>6
  <2>2. CASE i > n
    <3>1. i - n \in 1 .. o /\ i = n + (i - n)
      BY <2>1, <2>2
    <3> QED
      BY <3>1
  <2> QED
    BY <2>1, <2>2
<1>11. ASSUME NEW s \in Recipients, NEW i \in DOMAIN V2[s]
       PROVE  /\ V2[s][i].id \in DOMAIN b /\ b[V2[s][i].id] = Shown(s, V2[s][i])
              /\ Named(V, B) => /\ V2[s][i].batch \in DOMAIN B2
                                /\ B2[V2[s][i].batch] = V2[s][i].sender
  <2>1. CASE s # r \/ (s = r /\ i \in 1 .. n)
    <3>1. V2[s][i] = V[s][i] /\ i \in DOMAIN V[s]
      BY <1>6, <1>8, <2>1
    <3>2. DOMAIN B \subseteq DOMAIN B2
      BY <1>1, <1>2, <1>7
    <3>3. V[s][i].id \in DOMAIN b /\ b[V[s][i].id] = Shown(s, V[s][i])
      BY <3>1 DEF Describes
    <3>4. Named(V, B) => V[s][i].batch \in DOMAIN B /\ B[V[s][i].batch] = V[s][i].sender
      BY <3>1 DEF Named
    <3> QED
      BY <1>7, <3>1, <3>2, <3>3, <3>4
  <2>2. CASE s = r /\ i \notin 1 .. n
    <3>1. PICK k \in 1 .. o : i = n + k
      BY <1>8, <1>10, <2>2
    <3>2. V2[s][i] = moved[k]
      BY <1>6, <1>8, <2>2, <3>1
    <3>3. old[k].id \in DOMAIN b /\ b[old[k].id] = Shown(r, Renewed(old[k]))
      BY <1>2 DEF Describes
    <3>4. Len(B) + k \in DOMAIN B2
      BY <1>1, <1>2, <1>7
    <3>5. V2[s][i].id \in DOMAIN b /\ b[V2[s][i].id] = Shown(s, V2[s][i])
      BY <1>2, <2>2, <3>2, <3>3
    <3>6. V2[s][i].batch = Len(B) + k /\ B2[Len(B) + k] = V2[s][i].sender
      BY <1>2, <1>7, <3>2
    <3> QED
      BY <3>4, <3>5, <3>6
  <2> QED
    BY <2>1, <2>2
<1>12. \A s \in Recipients : \A j \in DOMAIN L2[s] :
           L2[s][j].id \in DOMAIN b /\ b[L2[s][j].id] = Shown(s, Renewed(L2[s][j]))
  BY <1>9 DEF Describes
<1>13. ASSUME NEW x \in DOMAIN b
       PROVE  \E s \in Recipients : \/ \E j \in DOMAIN V2[s] : V2[s][j].id = x
                                    \/ \E j \in DOMAIN L2[s] : L2[s][j].id = x
  <2>1. PICK s \in Recipients : \/ \E j \in DOMAIN V[s] : V[s][j].id = x
                                \/ \E j \in DOMAIN L[s] : L[s][j].id = x
    BY DEF Describes
  <2>2. CASE s # r
    BY <1>8, <1>9, <2>1, <2>2
  <2>3. CASE s = r /\ \E j \in DOMAIN V[r] : V[r][j].id = x
    <3>1. PICK j \in 1 .. n : V[r][j].id = x
      BY <1>6, <2>3
    <3>2. j \in DOMAIN M /\ M[j].id = x
      BY <1>2, <1>6, <3>1
    <3> QED
      BY <1>8, <3>2
  <2>4. CASE s = r /\ \E j \in DOMAIN L[r] : L[r][j].id = x
    <3>1. PICK j \in 1 .. o : old[j].id = x
      BY <1>2, <2>4
    <3>2. n + j \in DOMAIN M /\ M[n + j].id = x
      BY <1>2, <1>6, <3>1
    <3> QED
      BY <1>8, <3>2
  <2> QED
    BY <2>1, <2>2, <2>3, <2>4
<1>14. ASSUME NEW j \in DOMAIN M, NEW k \in DOMAIN M, M[j].id = M[k].id
       PROVE  j = k
  <2>1. CASE j \in 1 .. n /\ k \in 1 .. n
    BY <1>6, <1>14, <2>1 DEF Describes
  <2>2. CASE j \in 1 .. n /\ k \notin 1 .. n
    <3>1. PICK m \in 1 .. o : k = n + m
      BY <1>10, <2>2
    <3>2. V[r][j].id = L[r][m].id /\ j \in DOMAIN V[r] /\ m \in DOMAIN L[r]
      BY <1>2, <1>6, <1>14, <2>2, <3>1
    <3> QED
      BY <3>2 DEF Describes
  <2>3. CASE j \notin 1 .. n /\ k \in 1 .. n
    <3>1. PICK m \in 1 .. o : j = n + m
      BY <1>10, <2>3
    <3>2. V[r][k].id = L[r][m].id /\ k \in DOMAIN V[r] /\ m \in DOMAIN L[r]
      BY <1>2, <1>6, <1>14, <2>3, <3>1
    <3> QED
      BY <3>2 DEF Describes
  <2>4. CASE j \notin 1 .. n /\ k \notin 1 .. n
    <3>1. PICK m \in 1 .. o : j = n + m
      BY <1>10, <2>4
    <3>2. PICK l \in 1 .. o : k = n + l
      BY <1>10, <2>4
    <3>3. old[m].id = old[l].id
      BY <1>2, <1>6, <1>14, <3>1, <3>2
    <3> QED
      BY <1>2, <3>1, <3>2, <3>3 DEF Describes
  <2> QED
    BY <2>1, <2>2, <2>3, <2>4
<1>15. ASSUME NEW s \in Recipients
       PROVE  /\ \A j, k \in DOMAIN V2[s] : V2[s][j].id = V2[s][k].id => j = k
              /\ \A j, k \in DOMAIN L2[s] : L2[s][j].id = L2[s][k].id => j = k
              /\ \A j \in DOMAIN V2[s], k \in DOMAIN L2[s] : V2[s][j].id # L2[s][k].id
  <2>1. CASE s # r
    BY <1>8, <1>9, <2>1 DEF Describes
  <2>2. CASE s = r
    BY <1>8, <1>9, <1>14, <2>2
  <2> QED
    BY <2>1, <2>2
<1>16. Describes(b, V2, L2)
  BY <1>11, <1>12, <1>13, <1>15 DEF Describes
<1>17. Named(V, B) => Named(V2, B2)
  BY <1>11 DEF Named
<1>18. Len(B) <= Len(B2)
  BY <1>1, <1>2, <1>7
<1> QED
  BY <1>7, <1>8, <1>9, <1>16, <1>17, <1>18
  DEF V2, L2, B2, M, moved, old, from, MovedIn, Emptied, WithBatches

-----------------------------------------------------------------------------
(* Transactions and payments *)

Tx ==
    [ok : BOOLEAN, vestings : Lists, legacy : Lists, batchInfo : Seq(Senders),
     custody : [Tokens -> Nat], funded : [Ids -> Nat],
     toRecipient : [Ids -> Nat], toSender : [Ids -> Nat]]

\* t differs from tx in the new lists only.
OnlyLists(tx, t, V) ==
    /\ t.ok = tx.ok /\ t.vestings = V /\ t.legacy = tx.legacy /\ t.batchInfo = tx.batchInfo
    /\ t.custody = tx.custody /\ t.funded = tx.funded
    /\ t.toRecipient = tx.toRecipient /\ t.toSender = tx.toSender

\* Setting one list of a transaction leaves its other fields.
LEMMA ListSet ==
  ASSUME NEW tx \in Tx, NEW r \in Recipients, NEW M \in Seq(Schedule)
  PROVE  /\ [tx EXCEPT !.vestings[r] = M] \in Tx
         /\ OnlyLists(tx, [tx EXCEPT !.vestings[r] = M], Put(tx.vestings, r, M))
<1> DEFINE V == [tx.vestings EXCEPT ![r] = M]
           t == [tx EXCEPT !.vestings = V]
<1>1. V \in Lists
  BY DEF Tx, Lists
<1> HIDE DEF V
<1>2. t \in Tx /\ OnlyLists(tx, t, V)
  BY <1>1 DEF Tx, OnlyLists
<1> QED
  BY <1>2 DEF V, Put

\* A panic changes nothing but the verdict.
LEMMA PanicIs ==
  ASSUME NEW tx \in Tx
  PROVE  Panic(tx) \in Tx /\ ~Panic(tx).ok /\ Panic(tx).vestings = tx.vestings
         /\ Panic(tx).legacy = tx.legacy
  BY DEF Tx, Panic

Positive(x) == IF x > 0 THEN x ELSE 0

\* Paying a recipient: out of custody, or the invocation fails.
LEMMA PaysRecipient ==
  ASSUME NEW tx \in Tx, NEW v \in Schedule, NEW amount \in Int
  PROVE  LET t == PayRecipient(tx, v, amount)
             p == Positive(amount)
         IN  /\ t \in Tx /\ t.vestings = tx.vestings /\ t.legacy = tx.legacy
             /\ t.batchInfo = tx.batchInfo /\ t.funded = tx.funded /\ t.toSender = tx.toSender
             /\ t.ok => /\ tx.ok /\ p <= tx.custody[v.token]
                        /\ t.custody = Spent(tx.custody, v.token, p)
                        /\ t.toRecipient = Gained(tx.toRecipient, v.id, p)
<1> DEFINE t == PayRecipient(tx, v, amount)
           p == Positive(amount)
           C == [tx.custody EXCEPT ![v.token] = @ - p]
           R == [tx.toRecipient EXCEPT ![v.id] = @ + p]
           u == [tx EXCEPT !.custody = C, !.toRecipient = R]
<1>1. /\ v.token \in Tokens /\ v.id \in Ids
      /\ tx.custody \in [Tokens -> Nat] /\ tx.toRecipient \in [Ids -> Nat] /\ tx.ok \in BOOLEAN
  BY DEF Schedule, Tx
<1>2. p \in Nat /\ (amount <= 0 => p = 0) /\ (amount > 0 => p = amount)
  BY DEF Positive
<1>3. CASE amount <= 0
  <2>1. t = tx
    BY <1>3 DEF PayRecipient
  <2>2. C = tx.custody /\ R = tx.toRecipient
    BY <1>1, <1>2, <1>3
  <2>3. p <= tx.custody[v.token]
    BY <1>1, <1>2, <1>3
  <2> HIDE DEF p, C, R, t
  <2> QED
    BY <2>1, <2>2, <2>3 DEF p, C, R, t, Gained, Spent
<1>4. CASE amount > 0 /\ amount > tx.custody[v.token]
  <2>1. t = Panic(tx)
    BY <1>4 DEF PayRecipient
  <2>2. Panic(tx) \in Tx /\ ~Panic(tx).ok /\ Panic(tx).vestings = tx.vestings
        /\ Panic(tx).legacy = tx.legacy
    BY PanicIs
  <2>3. Panic(tx).batchInfo = tx.batchInfo /\ Panic(tx).funded = tx.funded
        /\ Panic(tx).toSender = tx.toSender
    BY DEF Tx, Panic
  <2> HIDE DEF t, p
  <2> QED
    BY <2>1, <2>2, <2>3 DEF t, p
<1>5. CASE amount > 0 /\ ~(amount > tx.custody[v.token])
  <2>1. t = u
    BY <1>2, <1>5 DEF PayRecipient
  <2>2. C \in [Tokens -> Nat] /\ R \in [Ids -> Nat] /\ p <= tx.custody[v.token]
    BY <1>1, <1>2, <1>5
  <2> HIDE DEF t, p, C, R
  <2>3. /\ u \in Tx /\ u.vestings = tx.vestings /\ u.legacy = tx.legacy
        /\ u.batchInfo = tx.batchInfo /\ u.funded = tx.funded /\ u.toSender = tx.toSender
        /\ u.ok = tx.ok /\ u.custody = C /\ u.toRecipient = R
    BY <2>2 DEF Tx
  <2> HIDE DEF u
  <2> QED
    BY <2>1, <2>2, <2>3 DEF t, p, C, R, Gained, Spent
<1> QED
  BY <1>1, <1>3, <1>4, <1>5 DEF Gained, Spent

\* Paying a sender: out of custody, or the invocation fails.
LEMMA PaysSender ==
  ASSUME NEW tx \in Tx, NEW v \in Schedule, NEW amount \in Int
  PROVE  LET t == PaySender(tx, v, amount)
             p == Positive(amount)
         IN  /\ t \in Tx /\ t.vestings = tx.vestings /\ t.legacy = tx.legacy
             /\ t.batchInfo = tx.batchInfo /\ t.funded = tx.funded
             /\ t.toRecipient = tx.toRecipient
             /\ t.ok => /\ tx.ok /\ p <= tx.custody[v.token]
                        /\ t.custody = Spent(tx.custody, v.token, p)
                        /\ t.toSender = Gained(tx.toSender, v.id, p)
<1> DEFINE t == PaySender(tx, v, amount)
           p == Positive(amount)
           C == [tx.custody EXCEPT ![v.token] = @ - p]
           R == [tx.toSender EXCEPT ![v.id] = @ + p]
           u == [tx EXCEPT !.custody = C, !.toSender = R]
<1>1. /\ v.token \in Tokens /\ v.id \in Ids
      /\ tx.custody \in [Tokens -> Nat] /\ tx.toSender \in [Ids -> Nat] /\ tx.ok \in BOOLEAN
  BY DEF Schedule, Tx
<1>2. p \in Nat /\ (amount <= 0 => p = 0) /\ (amount > 0 => p = amount)
  BY DEF Positive
<1>3. CASE amount <= 0
  <2>1. t = tx
    BY <1>3 DEF PaySender
  <2>2. C = tx.custody /\ R = tx.toSender
    BY <1>1, <1>2, <1>3
  <2>3. p <= tx.custody[v.token]
    BY <1>1, <1>2, <1>3
  <2> HIDE DEF p, C, R, t
  <2> QED
    BY <2>1, <2>2, <2>3 DEF p, C, R, t, Gained, Spent
<1>4. CASE amount > 0 /\ amount > tx.custody[v.token]
  <2>1. t = Panic(tx)
    BY <1>4 DEF PaySender
  <2>2. Panic(tx) \in Tx /\ ~Panic(tx).ok /\ Panic(tx).vestings = tx.vestings
        /\ Panic(tx).legacy = tx.legacy
    BY PanicIs
  <2>3. Panic(tx).batchInfo = tx.batchInfo /\ Panic(tx).funded = tx.funded
        /\ Panic(tx).toRecipient = tx.toRecipient
    BY DEF Tx, Panic
  <2> HIDE DEF t, p
  <2> QED
    BY <2>1, <2>2, <2>3 DEF t, p
<1>5. CASE amount > 0 /\ ~(amount > tx.custody[v.token])
  <2>1. t = u
    BY <1>2, <1>5 DEF PaySender
  <2>2. C \in [Tokens -> Nat] /\ R \in [Ids -> Nat] /\ p <= tx.custody[v.token]
    BY <1>1, <1>2, <1>5
  <2> HIDE DEF t, p, C, R
  <2>3. /\ u \in Tx /\ u.vestings = tx.vestings /\ u.legacy = tx.legacy
        /\ u.batchInfo = tx.batchInfo /\ u.funded = tx.funded
        /\ u.toRecipient = tx.toRecipient
        /\ u.ok = tx.ok /\ u.custody = C /\ u.toSender = R
    BY <2>2 DEF Tx
  <2> HIDE DEF u
  <2> QED
    BY <2>1, <2>2, <2>3 DEF t, p, C, R, Gained, Spent
<1> QED
  BY <1>1, <1>3, <1>4, <1>5 DEF Gained, Spent

-----------------------------------------------------------------------------
(* Money *)

Owing(b, id, tok) ==
    IF id \in DOMAIN b /\ b[id].token = tok THEN b[id].total - b[id].released ELSE 0

Debt(b, tok) == SumOver([id \in Ids |-> Owing(b, id, tok)])

\* The ids with a deposit are the first k.
Numbered(F, k) == {id \in Ids : F[id] > 0} = 1 .. k

Within(F, R, S) == \A id \in Ids : R[id] + S[id] <= F[id]

\* What was deposited (F), paid to recipients (R) and to senders (S) for each id
\* accounts for what the book says of it, and custody C for the whole book.
Money(b, C, F, R, S) ==
    /\ \E k \in 0 .. K : Numbered(F, k)
    /\ \A id \in DOMAIN b :
           /\ F[id] > 0 /\ R[id] = b[id].released /\ S[id] + b[id].total = F[id]
           /\ b[id].released <= b[id].total
    /\ \A id \in Ids : F[id] = 0 => R[id] = 0 /\ S[id] = 0
    /\ Within(F, R, S) => \A tok \in Tokens : C[tok] = Debt(b, tok)
    /\ LegacyHoldsValue => \A id \in DOMAIN b : S[id] = 0 => b[id].released < b[id].total

\* The fields of an entry of the book have their types.
LEMMA BookAt ==
  ASSUME NEW b, IsBook(b), NEW id \in DOMAIN b
  PROVE  /\ id \in Ids /\ b[id] \in Shape /\ b[id].total \in Nat /\ b[id].released \in Nat
         /\ b[id].token \in Tokens /\ b[id].win \in Window /\ b[id].owner \in Recipients
         /\ b[id].sender \in Senders
<1>1. id \in Ids /\ b[id] \in Shape
  BY DEF IsBook
<1> QED
  BY <1>1 DEF Shape

\* What an id owes is an integer.
LEMMA OwingType ==
  ASSUME NEW b, IsBook(b), NEW id \in Ids, NEW tok \in Tokens
  PROVE  Owing(b, id, tok) \in Int
<1>1. id \in DOMAIN b => b[id].total \in Nat /\ b[id].released \in Nat
  BY BookAt
<1> QED
  BY <1>1 DEF Owing

\* The debt changes with what one id owes.
LEMMA DebtChanges ==
  ASSUME NEW b, IsBook(b), NEW c, IsBook(c), NEW id \in Ids, NEW tok \in Tokens,
         \A x \in Ids : x # id => Owing(c, x, tok) = Owing(b, x, tok)
  PROVE  /\ Debt(c, tok) = Debt(b, tok) + Owing(c, id, tok) - Owing(b, id, tok)
         /\ Debt(b, tok) \in Int
<1> DEFINE g == [x \in Ids |-> Owing(b, x, tok)]
           h == [x \in Ids |-> Owing(c, x, tok)]
<1>1. g \in [Ids -> Int] /\ Owing(c, id, tok) \in Int
  BY OwingType
<1>2. h = [g EXCEPT ![id] = Owing(c, id, tok)] /\ g[id] = Owing(b, id, tok)
  OBVIOUS
<1>3. Debt(b, tok) = SumOver(g) /\ Debt(c, tok) = SumOver(h)
  BY DEF Debt
<1> HIDE DEF g, h
<1>4. SumOver(h) = SumOver(g) + Owing(c, id, tok) - g[id] /\ SumOver(g) \in Int
  BY <1>1, <1>2, SumChanges, SumType
<1> QED
  BY <1>2, <1>3, <1>4

\* p goes to the holder and q to the sender of schedule id, which stays, smaller by
\* as much.
LEMMA MoneyStays ==
  ASSUME NEW b, IsBook(b), NEW C \in [Tokens -> Nat], NEW F \in [Ids -> Nat],
         NEW R \in [Ids -> Nat], NEW S \in [Ids -> Nat], Money(b, C, F, R, S),
         NEW id \in DOMAIN b, NEW p \in Nat, NEW q \in Nat, NEW e \in Shape,
         e.token = b[id].token, e.released = b[id].released + p, e.total = b[id].total - q,
         e.released <= e.total,
         q = 0 /\ p # 0 => e.released < e.total
  PROVE  LET c == Put(b, id, e)
         IN  /\ IsBook(c)
             /\ Money(c, Spent(C, e.token, p + q), F, Gained(R, id, p), Gained(S, id, q))
<1> DEFINE c == [b EXCEPT ![id] = e]
           tok0 == e.token
           C2 == [C EXCEPT ![tok0] = @ - (p + q)]
           R2 == [R EXCEPT ![id] = @ + p]
           S2 == [S EXCEPT ![id] = @ + q]
<1>1. /\ id \in Ids /\ b[id].total \in Nat /\ b[id].released \in Nat /\ tok0 \in Tokens
      /\ e.total \in Nat /\ e.released \in Nat
  BY BookAt DEF Shape
<1>2. /\ DOMAIN c = DOMAIN b /\ c[id] = e /\ \A x \in DOMAIN b : x # id => c[x] = b[x]
      /\ IsBook(c)
  BY DEF IsBook
<1>3. /\ R2[id] = R[id] + p /\ S2[id] = S[id] + q
      /\ \A x \in Ids : x # id => R2[x] = R[x] /\ S2[x] = S[x]
      /\ \A x \in Ids : R[x] \in Nat /\ S[x] \in Nat /\ F[x] \in Nat
  BY <1>1
<1>4. /\ C2[tok0] = C[tok0] - (p + q) /\ \A tok \in Tokens : tok # tok0 => C2[tok] = C[tok]
      /\ \A tok \in Tokens : C[tok] \in Nat
  BY <1>1
<1> HIDE DEF c, R2, S2, C2, tok0
<1>5. DOMAIN b \subseteq Ids
  BY DEF IsBook
<1>6. ASSUME NEW x \in DOMAIN c
      PROVE  /\ F[x] > 0 /\ R2[x] = c[x].released /\ S2[x] + c[x].total = F[x]
             /\ c[x].released <= c[x].total
  <2>1. /\ F[x] > 0 /\ R[x] = b[x].released /\ S[x] + b[x].total = F[x]
        /\ b[x].released <= b[x].total
    BY <1>2 DEF Money
  <2>2. CASE x = id
    BY <1>1, <1>2, <1>3, <2>1, <2>2
  <2>3. CASE x # id
    BY <1>2, <1>3, <1>5, <2>1, <2>3
  <2> QED
    BY <2>2, <2>3
<1>7. ASSUME NEW x \in Ids, F[x] = 0 PROVE R2[x] = 0 /\ S2[x] = 0
  <2>1. x # id
    BY <1>7 DEF Money
  <2> QED
    BY <1>3, <1>7, <2>1 DEF Money
<1>8. ASSUME Within(F, R2, S2), NEW tok \in Tokens PROVE C2[tok] = Debt(c, tok)
  <2>1. Within(F, R, S)
    <3>1. ASSUME NEW x \in Ids PROVE R[x] + S[x] <= F[x]
      <4>1. R2[x] + S2[x] <= F[x]
        BY <1>8 DEF Within
      <4> QED
        BY <1>3, <4>1
    <3> QED
      BY <3>1 DEF Within
  <2>2. C[tok] = Debt(b, tok)
    BY <2>1 DEF Money
  <2>3. \A x \in Ids : x # id => Owing(c, x, tok) = Owing(b, x, tok)
    BY <1>2 DEF Owing
  <2>4. /\ Debt(c, tok) = Debt(b, tok) + Owing(c, id, tok) - Owing(b, id, tok)
        /\ Debt(b, tok) \in Int
    BY <1>1, <1>2, <2>3, DebtChanges
  <2>5. /\ Owing(c, id, tok) = IF tok0 = tok THEN e.total - e.released ELSE 0
        /\ Owing(b, id, tok) = IF tok0 = tok THEN b[id].total - b[id].released ELSE 0
    BY <1>2 DEF Owing, tok0
  <2> QED
    BY <1>1, <1>4, <2>2, <2>4, <2>5
<1>9. ASSUME LegacyHoldsValue, NEW x \in DOMAIN c, S2[x] = 0 PROVE c[x].released < c[x].total
  <2>1. CASE x = id
    <3>1. q = 0 /\ S[id] = 0
      BY <1>1, <1>3, <1>9, <2>1
    <3>2. b[id].released < b[id].total
      BY <1>9, <3>1 DEF Money
    <3> QED
      BY <1>1, <1>2, <2>1, <3>1, <3>2
  <2>2. CASE x # id
    <3>1. x \in DOMAIN b /\ x \in Ids /\ S[x] = 0 /\ c[x] = b[x]
      BY <1>2, <1>3, <1>5, <1>9, <2>2
    <3> QED
      BY <1>9, <3>1 DEF Money
  <2> QED
    BY <2>1, <2>2
<1>10. \E k \in 0 .. K : Numbered(F, k)
  BY DEF Money
<1>11. Money(c, C2, F, R2, S2)
  BY <1>6, <1>7, <1>8, <1>9, <1>10 DEF Money
<1> QED
  BY <1>2, <1>11 DEF c, R2, S2, C2, tok0, Put, Gained, Spent

\* The same for a schedule that goes, when at least what was left on it is paid.
LEMMA MoneyGoes ==
  ASSUME NEW b, IsBook(b), NEW C \in [Tokens -> Nat], NEW F \in [Ids -> Nat],
         NEW R \in [Ids -> Nat], NEW S \in [Ids -> Nat], Money(b, C, F, R, S),
         NEW id \in DOMAIN b, NEW p \in Nat, NEW q \in Nat,
         b[id].released + p + q >= b[id].total
  PROVE  LET c == Without(b, id)
         IN  /\ IsBook(c)
             /\ Money(c, Spent(C, b[id].token, p + q), F, Gained(R, id, p), Gained(S, id, q))
<1> DEFINE c == Without(b, id)
           tok0 == b[id].token
           C2 == [C EXCEPT ![tok0] = @ - (p + q)]
           R2 == [R EXCEPT ![id] = @ + p]
           S2 == [S EXCEPT ![id] = @ + q]
<1>1. id \in Ids /\ b[id].total \in Nat /\ b[id].released \in Nat /\ tok0 \in Tokens
  BY BookAt
<1>2. /\ DOMAIN c = DOMAIN b \ {id} /\ \A x \in DOMAIN c : c[x] = b[x]
      /\ IsBook(c)
  BY DEF IsBook, Without
<1>3. /\ R2[id] = R[id] + p /\ S2[id] = S[id] + q
      /\ \A x \in Ids : x # id => R2[x] = R[x] /\ S2[x] = S[x]
      /\ \A x \in Ids : R[x] \in Nat /\ S[x] \in Nat /\ F[x] \in Nat
  BY <1>1
<1>4. /\ C2[tok0] = C[tok0] - (p + q) /\ \A tok \in Tokens : tok # tok0 => C2[tok] = C[tok]
      /\ \A tok \in Tokens : C[tok] \in Nat
  BY <1>1
<1> HIDE DEF c, R2, S2, C2, tok0
<1>5. DOMAIN b \subseteq Ids
  BY DEF IsBook
<1>6. ASSUME NEW x \in DOMAIN c
      PROVE  /\ F[x] > 0 /\ R2[x] = c[x].released /\ S2[x] + c[x].total = F[x]
             /\ c[x].released <= c[x].total
  <2>1. x \in DOMAIN b /\ x # id /\ x \in Ids /\ c[x] = b[x]
    BY <1>2, <1>5
  <2> QED
    BY <1>3, <2>1 DEF Money
<1>7. ASSUME NEW x \in Ids, F[x] = 0 PROVE R2[x] = 0 /\ S2[x] = 0
  <2>1. x # id
    BY <1>7 DEF Money
  <2> QED
    BY <1>3, <1>7, <2>1 DEF Money
<1>8. ASSUME Within(F, R2, S2), NEW tok \in Tokens PROVE C2[tok] = Debt(c, tok)
  <2>1. Within(F, R, S)
    <3>1. ASSUME NEW x \in Ids PROVE R[x] + S[x] <= F[x]
      <4>1. R2[x] + S2[x] <= F[x]
        BY <1>8 DEF Within
      <4> QED
        BY <1>3, <4>1
    <3> QED
      BY <3>1 DEF Within
  <2>2. C[tok] = Debt(b, tok)
    BY <2>1 DEF Money
  <2>3. \A x \in Ids : x # id => Owing(c, x, tok) = Owing(b, x, tok)
    BY <1>2 DEF Owing
  <2>4. /\ Debt(c, tok) = Debt(b, tok) + Owing(c, id, tok) - Owing(b, id, tok)
        /\ Debt(b, tok) \in Int
    BY <1>1, <1>2, <2>3, DebtChanges
  <2>5. /\ Owing(c, id, tok) = 0
        /\ Owing(b, id, tok) = IF tok0 = tok THEN b[id].total - b[id].released ELSE 0
    BY <1>2 DEF Owing, tok0
  <2>6. p + q = b[id].total - b[id].released
    <3>1. R2[id] + S2[id] <= F[id]
      BY <1>1, <1>8 DEF Within
    <3>2. R[id] = b[id].released /\ S[id] + b[id].total = F[id]
      BY DEF Money
    <3> QED
      BY <1>1, <1>3, <3>1, <3>2
  <2> QED
    BY <1>1, <1>4, <2>2, <2>4, <2>5, <2>6
<1>9. ASSUME LegacyHoldsValue, NEW x \in DOMAIN c, S2[x] = 0 PROVE c[x].released < c[x].total
  <2>1. x \in DOMAIN b /\ x # id /\ x \in Ids /\ c[x] = b[x]
    BY <1>2, <1>5
  <2>2. S[x] = 0
    BY <1>3, <1>9, <2>1
  <2> QED
    BY <1>9, <2>1, <2>2 DEF Money
<1>10. \E k \in 0 .. K : Numbered(F, k)
  BY DEF Money
<1>11. Money(c, C2, F, R2, S2)
  BY <1>6, <1>7, <1>8, <1>9, <1>10 DEF Money
<1> QED
  BY <1>2, <1>11 DEF c, R2, S2, C2, tok0, Put, Gained, Spent

-----------------------------------------------------------------------------
(* Migration and removal *)

Sound(b, tx) ==
    /\ tx \in Tx /\ IsBook(b)
    /\ Describes(b, tx.vestings, tx.legacy)
    /\ Named(tx.vestings, tx.batchInfo)
    /\ Money(b, tx.custody, tx.funded, tx.toRecipient, tx.toSender)

SameMoney(tx, t) ==
    /\ t.custody = tx.custody /\ t.funded = tx.funded
    /\ t.toRecipient = tx.toRecipient /\ t.toSender = tx.toSender

\* The fields of a transaction have their types.
LEMMA TxFields ==
  ASSUME NEW tx \in Tx
  PROVE  /\ tx.ok \in BOOLEAN /\ tx.vestings \in Lists /\ tx.legacy \in Lists
         /\ tx.batchInfo \in Seq(Senders) /\ tx.custody \in [Tokens -> Nat]
         /\ tx.funded \in [Ids -> Nat] /\ tx.toRecipient \in [Ids -> Nat]
         /\ tx.toSender \in [Ids -> Nat]
         /\ \A r \in Recipients : /\ tx.vestings[r] \in Seq(Schedule)
                                  /\ Len(tx.vestings[r]) \in Nat
                                  /\ DOMAIN tx.vestings[r] = 1 .. Len(tx.vestings[r])
                                  /\ \A i \in DOMAIN tx.vestings[r] :
                                         tx.vestings[r][i] \in Schedule
<1>1. /\ tx.ok \in BOOLEAN /\ tx.vestings \in Lists /\ tx.legacy \in Lists
      /\ tx.batchInfo \in Seq(Senders) /\ tx.custody \in [Tokens -> Nat]
      /\ tx.funded \in [Ids -> Nat] /\ tx.toRecipient \in [Ids -> Nat]
      /\ tx.toSender \in [Ids -> Nat]
  BY DEF Tx
<1>2. \A r \in Recipients : tx.vestings[r] \in Seq(Schedule)
  BY <1>1 DEF Lists
<1> QED
  BY <1>1, <1>2

\* Migration leaves lists of schedules, and batches that name senders.
LEMMA MigratedTypes ==
  ASSUME NEW V \in Lists, NEW L \in Lists, NEW B \in Seq(Senders), NEW r \in Recipients
  PROVE  /\ MovedIn(V, L, B, r) \in Lists
         /\ Emptied(L, r) \in Lists
         /\ WithBatches(L, B, r) \in Seq(Senders)
<1> DEFINE old == L[r]
           moved == Moved(old, Len(B))
           from == [k \in DOMAIN old |-> old[k].sender]
<1>1. V[r] \in Seq(Schedule) /\ old \in Seq(Schedule) /\ Len(B) \in Nat
  BY DEF Lists
<1>2. moved \in Seq(Schedule)
  <2> HIDE DEF old
  <2> QED BY <1>1, MovedAt
<1>3. from \in Seq(Senders)
  <2> HIDE DEF old
  <2>1. DOMAIN old = 1 .. Len(old) /\ Len(old) \in Nat /\ \A k \in DOMAIN old : old[k] \in Schedule
    BY <1>1
  <2>2. \A k \in DOMAIN old : old[k].sender \in Senders
    BY <2>1 DEF Schedule
  <2> QED
    BY <2>1, <2>2
<1> HIDE DEF moved, from
<1>4. V[r] \o moved \in Seq(Schedule) /\ B \o from \in Seq(Senders)
  BY <1>1, <1>2, <1>3
<1>5. [V EXCEPT ![r] = V[r] \o moved] \in Lists /\ [L EXCEPT ![r] = <<>>] \in Lists
  BY <1>4 DEF Lists
<1> QED
  BY <1>4, <1>5 DEF moved, from, old, MovedIn, Emptied, WithBatches

\* Migration moves entries of one recipient and no money.
LEMMA MigrateIs ==
  ASSUME NEW tx \in Tx, NEW r \in Recipients
  PROVE  LET t == Migrate(tx, r)
         IN  /\ t \in Tx /\ t.ok = tx.ok /\ SameMoney(tx, t)
             /\ t.legacy = Emptied(tx.legacy, r) /\ t.legacy[r] = <<>>
             /\ t.vestings = MovedIn(tx.vestings, tx.legacy, tx.batchInfo, r)
             /\ t.batchInfo = WithBatches(tx.legacy, tx.batchInfo, r)
             /\ \A b : Sound(b, tx) =>
                    /\ Sound(b, t)
                    /\ Len(tx.batchInfo) <= Len(t.batchInfo)
                    /\ \A k \in DOMAIN tx.batchInfo : t.batchInfo[k] = tx.batchInfo[k]
<1> DEFINE V == tx.vestings
           L == tx.legacy
           B == tx.batchInfo
           V2 == MovedIn(V, L, B, r)
           L2 == Emptied(L, r)
           B2 == WithBatches(L, B, r)
           u == [tx EXCEPT !.vestings = V2, !.batchInfo = B2, !.legacy = L2]
           t == Migrate(tx, r)
<1>1. t = u
  BY DEF Migrate, Moved, MovedIn, Emptied, WithBatches
<1>0. V \in Lists /\ L \in Lists /\ B \in Seq(Senders)
  BY TxFields
<1>2. V2 \in Lists /\ L2 \in Lists /\ B2 \in Seq(Senders)
  <2> HIDE DEF V, L, B
  <2> QED
    BY <1>0, MigratedTypes
<1>3. L2[r] = <<>>
  BY TxFields DEF Lists, Emptied
<1>4. ASSUME NEW b, Sound(b, tx)
      PROVE  /\ Describes(b, V2, L2) /\ Named(V2, B2)
             /\ Len(tx.batchInfo) <= Len(B2)
             /\ \A k \in DOMAIN tx.batchInfo : B2[k] = tx.batchInfo[k]
  <2>1. Describes(b, V, L) /\ Named(V, B)
    BY <1>4 DEF Sound
  <2> HIDE DEF V, L, B
  <2>2. /\ Describes(b, V2, L2) /\ Named(V2, B2)
        /\ Len(B) <= Len(B2)
        /\ \A k \in DOMAIN B : B2[k] = B[k]
    BY <1>0, <2>1, MigrationKeeps
  <2> QED
    BY <2>2 DEF B
<1> HIDE DEF V2, L2, B2
<1>5. /\ u \in Tx /\ u.ok = tx.ok /\ SameMoney(tx, u)
      /\ u.vestings = V2 /\ u.legacy = L2 /\ u.batchInfo = B2
  BY <1>2 DEF Tx, SameMoney
<1> HIDE DEF u, t
<1>6. ASSUME NEW b, Sound(b, tx)
      PROVE  /\ Sound(b, t)
             /\ Len(tx.batchInfo) <= Len(t.batchInfo)
             /\ \A k \in DOMAIN tx.batchInfo : t.batchInfo[k] = tx.batchInfo[k]
  BY <1>1, <1>4, <1>5, <1>6 DEF Sound, SameMoney
<1> QED
  BY <1>1, <1>3, <1>5, <1>6 DEF V2, L2, B2, V, L, B, t

\* A list without its i-th entry, as remove_vesting leaves it.
LEMMA RemoveIs ==
  ASSUME NEW tx \in Tx, NEW r \in Recipients, NEW i \in DOMAIN tx.vestings[r]
  PROVE  LET t == [tx EXCEPT !.vestings[r] = SwapRemove(@, i)]
         IN  /\ t \in Tx
             /\ OnlyLists(tx, t, Put(tx.vestings, r, SwapRemove(tx.vestings[r], i)))
             /\ \A B : Named(tx.vestings, B) => Named(t.vestings, B)
<1> DEFINE M == SwapRemove(tx.vestings[r], i)
           t == [tx EXCEPT !.vestings[r] = M]
           n == Len(tx.vestings[r])
<1>1. M \in Seq(Schedule) /\ Len(M) = n - 1
      /\ \A j \in 1 .. n - 1 : M[j] = IF j = i THEN tx.vestings[r][n] ELSE tx.vestings[r][j]
  <2> DEFINE s == tx.vestings[r]
  <2>1. s \in Seq(Schedule) /\ i \in DOMAIN s
    BY TxFields
  <2> HIDE DEF s
  <2>2. /\ SwapRemove(s, i) \in Seq(Schedule) /\ Len(SwapRemove(s, i)) = Len(s) - 1
        /\ \A j \in 1 .. Len(s) - 1 : SwapRemove(s, i)[j] = IF j = i THEN s[Len(s)] ELSE s[j]
    BY <2>1, SwapRemoved
  <2> QED
    BY <2>2 DEF s
<1> HIDE DEF M
<1>2. t \in Tx /\ OnlyLists(tx, t, Put(tx.vestings, r, M))
  BY <1>1, ListSet
<1>3. t.vestings = [tx.vestings EXCEPT ![r] = M]
  BY <1>2 DEF OnlyLists, Put
<1> HIDE DEF t
<1>4. ASSUME NEW B, Named(tx.vestings, B) PROVE Named(t.vestings, B)
  <2>1. ASSUME NEW s \in Recipients, NEW j \in DOMAIN t.vestings[s]
        PROVE  \E k \in DOMAIN tx.vestings[s] : t.vestings[s][j] = tx.vestings[s][k]
    <3>1. CASE s = r
      <4>1. t.vestings[s] = M
        BY <1>3, <3>1, TxFields DEF Lists
      <4>2. DOMAIN tx.vestings[r] = 1 .. n /\ n \in Nat
        BY TxFields
      <4> HIDE DEF n
      <4>3. j \in 1 .. n - 1
        BY <1>1, <4>1, <4>2
      <4> QED
        BY <1>1, <3>1, <4>1, <4>2, <4>3
    <3>2. CASE s # r
      <4>1. t.vestings[s] = tx.vestings[s]
        BY <1>3, <3>2, TxFields DEF Lists
      <4> QED
        BY <4>1
    <3> QED
      BY <3>1, <3>2
  <2> QED
    BY <1>4, <2>1 DEF Named
<1> QED
  BY <1>2, <1>4 DEF M, t

-----------------------------------------------------------------------------
(* Releases *)

Raised(v, a) == [v EXCEPT !.released = @ + a]

\* Raising or lowering by nothing changes nothing.
LEMMA GainedNothing ==
  ASSUME NEW D, NEW f \in [D -> Nat], NEW x \in D
  PROVE  Gained(f, x, 0) = f /\ Spent(f, x, 0) = f
<1>1. [f EXCEPT ![x] = f[x] + 0] = f /\ [f EXCEPT ![x] = f[x] - 0] = f
  OBVIOUS
<1> QED
  BY <1>1 DEF Gained, Spent

\* An entry rewritten with its sender and batch still has its sender named.
LEMMA PutKeepsNamed ==
  ASSUME NEW V \in Lists, NEW B, Named(V, B), NEW r \in Recipients, NEW i \in DOMAIN V[r],
         NEW v \in Schedule, v.batch = V[r][i].batch, v.sender = V[r][i].sender
  PROVE  Named(Put(V, r, Put(V[r], i, v)), B)
<1> DEFINE M == Put(V[r], i, v)
           V2 == Put(V, r, M)
<1>1. V[r] \in Seq(Schedule)
  BY DEF Lists
<1>2. DOMAIN M = DOMAIN V[r] /\ \A j \in DOMAIN V[r] : M[j] = IF j = i THEN v ELSE V[r][j]
  BY <1>1, ReplacedAt DEF Put
<1> HIDE DEF M
<1>3. V2[r] = M /\ \A s \in Recipients : s # r => V2[s] = V[s]
  BY DEF Lists, Put
<1> HIDE DEF V2
<1>4. Named(V2, B)
  <2> SUFFICES ASSUME NEW s \in Recipients, NEW j \in DOMAIN V2[s]
               PROVE  V2[s][j].batch \in DOMAIN B /\ B[V2[s][j].batch] = V2[s][j].sender
    BY DEF Named
  <2>1. CASE s = r
    BY <1>2, <1>3, <2>1 DEF Named
  <2>2. CASE s # r
    BY <1>3, <2>2 DEF Named
  <2> QED
    BY <2>1, <2>2
<1> QED
  BY <1>4 DEF V2, M

\* An entry of a list gives an entry of the book.
LEMMA InBook ==
  ASSUME NEW b, NEW tx, Sound(b, tx), NEW r \in Recipients, NEW i \in DOMAIN tx.vestings[r]
  PROVE  LET v == tx.vestings[r][i]
         IN  /\ v \in Schedule /\ v.id \in DOMAIN b /\ b[v.id] = Shown(r, v)
             /\ b[v.id].owner = r /\ b[v.id].sender = v.sender /\ b[v.id].total = v.total
             /\ b[v.id].released = v.released /\ b[v.id].win = v.win /\ b[v.id].token = v.token
             /\ v.total \in Nat /\ v.released \in Nat /\ v.released <= v.total
             /\ v.win \in Window /\ v.token \in Tokens /\ v.id \in Ids
<1>1. tx.vestings[r][i] \in Schedule
  BY TxFields DEF Sound
<1> DEFINE v == tx.vestings[r][i]
<1>2. v.id \in DOMAIN b /\ b[v.id] = Shown(r, v)
  BY DEF Sound, Describes
<1>3. b[v.id].released <= b[v.id].total
  BY <1>2 DEF Sound, Money
<1> HIDE DEF v
<1>4. /\ b[v.id].owner = r /\ b[v.id].sender = v.sender /\ b[v.id].total = v.total
      /\ b[v.id].released = v.released /\ b[v.id].win = v.win /\ b[v.id].token = v.token
  BY <1>2 DEF Shown
<1>5. /\ v.total \in Nat /\ v.released \in Nat /\ v.win \in Window /\ v.token \in Tokens
      /\ v.id \in Ids
  BY <1>1 DEF v, Schedule
<1> QED
  BY <1>1, <1>2, <1>3, <1>4, <1>5 DEF v

\* A release removes an entry or raises what was released of it.
LEMMA ReleaseTypes ==
  ASSUME NEW tx \in Tx, NEW r \in Recipients, NEW i \in DOMAIN tx.vestings[r],
         NEW amount \in Nat
  PROVE  LET v == tx.vestings[r][i]
             t == ReleaseTx(tx, r, i, amount)
             p == PayRecipient(tx, v, amount)
             M == IF v.released + amount >= v.total THEN SwapRemove(tx.vestings[r], i)
                  ELSE Put(tx.vestings[r], i, Raised(v, amount))
         IN  /\ t \in Tx /\ OnlyLists(p, t, Put(tx.vestings, r, M)) /\ p \in Tx
             /\ v \in Schedule /\ Raised(v, amount) \in Schedule
             /\ M \in Seq(Schedule)
<1> DEFINE v == tx.vestings[r][i]
           t == ReleaseTx(tx, r, i, amount)
           p == PayRecipient(tx, v, amount)
           v2 == Raised(v, amount)
<1>1. v \in Schedule /\ tx.vestings[r] \in Seq(Schedule)
  BY TxFields
<1>2. p \in Tx /\ p.vestings = tx.vestings
  <2>1. amount \in Int
    OBVIOUS
  <2> HIDE DEF v
  <2> QED
    BY <1>1, <2>1, PaysRecipient
<1>3. v2 \in Schedule
  <2> HIDE DEF v
  <2>1. v.released + amount \in Nat
    BY <1>1 DEF Schedule
  <2> QED
    BY <1>1, <2>1 DEF Schedule, Raised
<1> HIDE DEF p
<1>4. CASE v.released + amount >= v.total
  <2>1. t = [p EXCEPT !.vestings[r] = SwapRemove(@, i)]
    BY <1>4 DEF ReleaseTx, p
  <2>2. t \in Tx /\ OnlyLists(p, t, Put(p.vestings, r, SwapRemove(p.vestings[r], i)))
    <3> DEFINE u == [p EXCEPT !.vestings[r] = SwapRemove(@, i)]
    <3>1. i \in DOMAIN p.vestings[r]
      BY <1>2
    <3>2. u \in Tx /\ OnlyLists(p, u, Put(p.vestings, r, SwapRemove(p.vestings[r], i)))
      BY <1>2, <3>1, RemoveIs
    <3> HIDE DEF t, u
    <3> QED
      BY <2>1, <3>2 DEF u
  <2>3. SwapRemove(tx.vestings[r], i) \in Seq(Schedule)
    BY <1>1, SwapRemoved
  <2> HIDE DEF t, v, v2
  <2> QED
    BY <1>1, <1>2, <1>3, <1>4, <2>2, <2>3 DEF p, v, t, v2
<1>5. CASE ~(v.released + amount >= v.total)
  <2> DEFINE M == Put(tx.vestings[r], i, v2)
             V == Put(tx.vestings, r, M)
  <2>1. M \in Seq(Schedule)
    BY <1>1, <1>3, ReplacedAt DEF Put
  <2>2. t = [p EXCEPT !.vestings[r][i].released = @ + amount]
    BY <1>5 DEF ReleaseTx, p
  <2>3. t = [p EXCEPT !.vestings[r] = M]
    BY <1>2, <2>2 DEF Put, Raised
  <2> HIDE DEF M
  <2>4. t \in Tx /\ OnlyLists(p, t, Put(p.vestings, r, M))
    BY <1>2, <2>1, <2>3, ListSet
  <2> HIDE DEF t, v, v2
  <2> QED
    BY <1>1, <1>2, <1>3, <1>5, <2>1, <2>4 DEF p, v, t, v2, M
<1> QED
  BY <1>4, <1>5

AfterRelease(b, id, a) ==
    IF b[id].released + a >= b[id].total THEN Without(b, id)
    ELSE Put(b, id, Raised(b[id], a))

\* Releasing part of an entry keeps the books: the schedule grows, or closes once all
\* of it is released, and exactly what leaves custody is paid.
LEMMA ReleaseSound ==
  ASSUME NEW b, NEW tx, Sound(b, tx), NEW r \in Recipients, tx.legacy[r] = <<>>,
         NEW i \in DOMAIN tx.vestings[r], NEW amount \in Nat \ {0},
         tx.vestings[r][i].released + amount <= tx.vestings[r][i].total,
         ReleaseTx(tx, r, i, amount).ok
  PROVE  LET t == ReleaseTx(tx, r, i, amount)
             id == tx.vestings[r][i].id
         IN  /\ tx.ok
             /\ t.toRecipient = Gained(tx.toRecipient, id, amount)
             /\ t.toSender = tx.toSender /\ t.funded = tx.funded
             /\ t.legacy = tx.legacy /\ t.batchInfo = tx.batchInfo
             /\ Sound(AfterRelease(b, id, amount), t)
<1> DEFINE v == tx.vestings[r][i]
           t == ReleaseTx(tx, r, i, amount)
           p == PayRecipient(tx, v, amount)
           v2 == Raised(v, amount)
           id == v.id
           M == IF v.released + amount >= v.total THEN SwapRemove(tx.vestings[r], i)
                ELSE Put(tx.vestings[r], i, v2)
           c == AfterRelease(b, id, amount)
<1>0. tx \in Tx
  BY DEF Sound
<1>1. /\ t \in Tx /\ OnlyLists(p, t, Put(tx.vestings, r, M)) /\ p \in Tx
      /\ v \in Schedule /\ v2 \in Schedule
  BY <1>0, ReleaseTypes
<1>2. /\ id \in DOMAIN b /\ b[id] = Shown(r, v) /\ id \in Ids
      /\ b[id].owner = r /\ b[id].sender = v.sender /\ b[id].total = v.total
      /\ b[id].released = v.released /\ b[id].win = v.win /\ b[id].token = v.token
      /\ v.total \in Nat /\ v.released \in Nat /\ v.token \in Tokens
  BY InBook
<1>3. /\ tx.ok /\ p.vestings = tx.vestings /\ p.legacy = tx.legacy /\ p.batchInfo = tx.batchInfo
      /\ p.funded = tx.funded /\ p.toSender = tx.toSender
      /\ p.custody = Spent(tx.custody, v.token, amount)
      /\ p.toRecipient = Gained(tx.toRecipient, id, amount)
  <2>1. p.ok
    BY <1>1 DEF OnlyLists
  <2>2. amount \in Int /\ Positive(amount) = amount
    BY DEF Positive
  <2> HIDE DEF v
  <2> QED
    BY <1>0, <1>1, <2>1, <2>2, PaysRecipient
<1>4. /\ tx.custody \in [Tokens -> Nat] /\ tx.funded \in [Ids -> Nat]
      /\ tx.toRecipient \in [Ids -> Nat] /\ tx.toSender \in [Ids -> Nat]
      /\ tx.vestings \in Lists /\ tx.legacy \in Lists
  BY <1>0, TxFields
<1>5. IsBook(b) /\ Describes(b, tx.vestings, tx.legacy) /\ Named(tx.vestings, tx.batchInfo)
      /\ Money(b, tx.custody, tx.funded, tx.toRecipient, tx.toSender)
  BY DEF Sound
<1>6. /\ t.vestings = Put(tx.vestings, r, M) /\ t.legacy = tx.legacy
      /\ t.batchInfo = tx.batchInfo /\ t.funded = tx.funded /\ t.toSender = tx.toSender
      /\ t.custody = Spent(tx.custody, v.token, amount)
      /\ t.toRecipient = Gained(tx.toRecipient, id, amount)
  BY <1>1, <1>3 DEF OnlyLists
<1>7. Gained(tx.toSender, id, 0) = tx.toSender
  BY <1>2, <1>4, GainedNothing
<1>8. v.released + amount <= v.total /\ amount \in Nat /\ amount # 0 /\ amount + 0 = amount
  OBVIOUS
<1>9. CASE v.released + amount >= v.total
  <2>1. c = Without(b, id) /\ M = SwapRemove(tx.vestings[r], i)
    BY <1>2, <1>9 DEF AfterRelease
  <2>2. Describes(c, t.vestings, t.legacy)
    BY <1>4, <1>5, <1>6, <2>1, Removed
  <2>3. Named(t.vestings, t.batchInfo)
    <3> DEFINE u == [tx EXCEPT !.vestings[r] = SwapRemove(@, i)]
    <3>1. /\ OnlyLists(tx, u, Put(tx.vestings, r, SwapRemove(tx.vestings[r], i)))
          /\ Named(u.vestings, tx.batchInfo)
      BY <1>0, <1>5, RemoveIs
    <3> HIDE DEF u
    <3>2. u.vestings = t.vestings
      BY <1>6, <2>1, <3>1 DEF OnlyLists
    <3> QED
      BY <1>6, <3>1, <3>2
  <2>4. IsBook(c) /\ Money(c, t.custody, t.funded, t.toRecipient, t.toSender)
    <3>1. b[id].released + amount + 0 >= b[id].total
      BY <1>2, <1>8, <1>9
    <3> DEFINE C == tx.custody
               F == tx.funded
               R == tx.toRecipient
               S == tx.toSender
    <3>2. C \in [Tokens -> Nat] /\ F \in [Ids -> Nat] /\ R \in [Ids -> Nat] /\ S \in [Ids -> Nat]
          /\ Money(b, C, F, R, S)
      BY <1>4, <1>5
    <3> HIDE DEF C, F, R, S, id, c
    <3>3. /\ IsBook(Without(b, id))
          /\ Money(Without(b, id), Spent(C, b[id].token, amount + 0), F,
                   Gained(R, id, amount), Gained(S, id, 0))
      BY <1>2, <1>5, <1>8, <3>1, <3>2, MoneyGoes
    <3> QED
      BY <1>2, <1>6, <1>7, <1>8, <2>1, <3>3 DEF C, F, R, S
  <2> QED
    BY <1>1, <1>3, <1>6, <2>2, <2>3, <2>4 DEF Sound
<1>10. CASE ~(v.released + amount >= v.total)
  <2> DEFINE e == Raised(b[id], amount)
  <2>1. c = Put(b, id, e) /\ M = Put(tx.vestings[r], i, v2)
    BY <1>2, <1>10 DEF AfterRelease
  <2>2. /\ v2.id = id /\ v2.batch = v.batch /\ v2.sender = v.sender
        /\ e = Shown(r, v2)
        /\ e.token = v.token /\ e.total = b[id].total /\ e.released = b[id].released + amount
    <3> HIDE DEF v
    <3>1. /\ v2.id = id /\ v2.batch = v.batch /\ v2.sender = v.sender /\ v2.total = v.total
          /\ v2.win = v.win /\ v2.token = v.token /\ v2.released = v.released + amount
      BY <1>1 DEF Schedule, Raised
    <3> HIDE DEF v2, id
    <3> QED
      BY <1>2, <3>1 DEF Shown, Raised
  <2>3. e \in Shape
    BY <1>1, <2>2, ShownType
  <2>4. Describes(c, t.vestings, t.legacy)
    <3> DEFINE V == tx.vestings
               L == tx.legacy
    <3>1. V \in Lists /\ L \in Lists /\ Describes(b, V, L) /\ L[r] = <<>> /\ i \in DOMAIN V[r]
          /\ v2.id = V[r][i].id
      BY <1>4, <1>5, <2>2
    <3> HIDE DEF V, L, v2
    <3>2. Describes(Put(b, v2.id, Shown(r, v2)), Put(V, r, Put(V[r], i, v2)), L)
      BY <1>1, <3>1, Replaced
    <3> HIDE DEF t, c, M, e, id
    <3> QED
      BY <1>6, <2>1, <2>2, <3>2 DEF V, L
  <2>5. Named(t.vestings, t.batchInfo)
    <3> DEFINE V == tx.vestings
    <3>1. V \in Lists /\ Named(V, tx.batchInfo) /\ i \in DOMAIN V[r]
          /\ v2.batch = V[r][i].batch /\ v2.sender = V[r][i].sender
      BY <1>4, <1>5, <2>2
    <3> HIDE DEF V, v2
    <3>2. Named(Put(V, r, Put(V[r], i, v2)), tx.batchInfo)
      BY <1>1, <3>1, PutKeepsNamed
    <3> HIDE DEF t, c, M, e, id
    <3> QED
      BY <1>6, <2>1, <3>2 DEF V
  <2>6. IsBook(c) /\ Money(c, t.custody, t.funded, t.toRecipient, t.toSender)
    <3> DEFINE C == tx.custody
               F == tx.funded
               R == tx.toRecipient
               S == tx.toSender
    <3>1. /\ e.token = b[id].token /\ e.released = b[id].released + amount
          /\ e.total = b[id].total - 0 /\ e.released < e.total /\ e.released <= e.total
      BY <1>2, <1>8, <1>10, <2>2
    <3>2. C \in [Tokens -> Nat] /\ F \in [Ids -> Nat] /\ R \in [Ids -> Nat] /\ S \in [Ids -> Nat]
          /\ Money(b, C, F, R, S)
      BY <1>4, <1>5
    <3>3. 0 \in Nat
      OBVIOUS
    <3> HIDE DEF C, F, R, S, id, c, e
    <3>4. /\ IsBook(Put(b, id, e))
          /\ Money(Put(b, id, e), Spent(C, e.token, amount + 0), F,
                   Gained(R, id, amount), Gained(S, id, 0))
      BY <1>2, <1>5, <1>8, <2>3, <3>1, <3>2, <3>3, MoneyStays
    <3> QED
      BY <1>6, <1>7, <1>8, <2>1, <2>2, <3>4 DEF C, F, R, S
  <2> QED
    BY <1>1, <1>3, <1>6, <2>4, <2>5, <2>6 DEF Sound
<1> QED
  BY <1>3, <1>6, <1>9, <1>10

-----------------------------------------------------------------------------
(* Revocations *)

\* Two payments out of custody are one of their sum.
LEMMA SpentTwice ==
  ASSUME NEW D, NEW f \in [D -> Nat], NEW x \in D, NEW p \in Nat, NEW q \in Nat
  PROVE  Spent(Spent(f, x, p), x, q) = Spent(f, x, q + p)
<1>1. Spent(f, x, p) = [y \in D |-> IF y = x THEN f[x] - p ELSE f[y]]
  BY DEF Spent
<1>2. Spent(Spent(f, x, p), x, q) = [y \in D |-> IF y = x THEN f[x] - p - q ELSE f[y]]
  BY <1>1 DEF Spent
<1>3. Spent(f, x, q + p) = [y \in D |-> IF y = x THEN f[x] - (q + p) ELSE f[y]]
  BY DEF Spent
<1>4. f[x] - p - q = f[x] - (q + p)
  OBVIOUS
<1> QED
  BY <1>2, <1>3, <1>4

\* What has vested now is between nothing and the total.
LEMMA VestedNowType ==
  ASSUME now \in Nat, NEW v \in Schedule
  PROVE  VestedNow(v) \in Nat /\ VestedNow(v) <= v.total
         /\ v.total \in Nat /\ v.released \in Nat
<1>1. v.total \in Nat /\ v.released \in Nat /\ v.win \in Window
  BY DEF Schedule
<1> QED
  BY <1>1, VestedBounds DEF VestedNow

\* A revocation, when it does not fail.
LEMMA RevokeIs ==
  ASSUME now \in Nat, NEW tx \in Tx, NEW q, q.recipient \in Recipients,
         q.index \in DOMAIN tx.vestings[q.recipient]
  PROVE  LET r == q.recipient
             v == tx.vestings[r][q.index]
             t == RevokeEntry(tx, q)
             p == Positive(VestedNow(v) - v.released)
             s == v.total - VestedNow(v)
         IN  /\ t \in Tx /\ v \in Schedule
             /\ t.legacy = tx.legacy /\ t.batchInfo = tx.batchInfo /\ t.funded = tx.funded
             /\ t.ok =>
                /\ tx.ok /\ ~OverflowsNow(v)
                /\ t.vestings = Put(tx.vestings, r, SwapRemove(tx.vestings[r], q.index))
                /\ t.custody = Spent(tx.custody, v.token, p + s)
                /\ t.toRecipient = Gained(tx.toRecipient, v.id, p)
                /\ t.toSender = Gained(tx.toSender, v.id, s)
                /\ p \in Nat /\ s \in Nat
<1> DEFINE r == q.recipient
           i == q.index
           v == tx.vestings[r][i]
           t == RevokeEntry(tx, q)
           a == VestedNow(v) - v.released
           s == v.total - VestedNow(v)
           removed == [tx EXCEPT !.vestings[r] = SwapRemove(@, i)]
           paid == PaySender(removed, v, s)
           last == PayRecipient(paid, v, a)
<1>1. v \in Schedule
  BY TxFields
<1>2. a \in Int /\ s \in Nat /\ s \in Int /\ Positive(a) \in Nat /\ Positive(s) = s
  BY <1>1, VestedNowType DEF Positive
<1>3. /\ removed \in Tx
      /\ OnlyLists(tx, removed, Put(tx.vestings, r, SwapRemove(tx.vestings[r], i)))
  BY RemoveIs
<1>4. v.token \in Tokens /\ tx.custody \in [Tokens -> Nat]
  BY <1>1, TxFields DEF Schedule
<1>5. CASE OverflowsNow(v)
  <2>1. t = Panic(tx)
    BY <1>5 DEF RevokeEntry
  <2>2. Panic(tx) \in Tx /\ ~Panic(tx).ok /\ Panic(tx).legacy = tx.legacy
    BY PanicIs
  <2>3. Panic(tx).batchInfo = tx.batchInfo /\ Panic(tx).funded = tx.funded
    BY DEF Tx, Panic
  <2> HIDE DEF t
  <2> QED
    BY <1>1, <2>1, <2>2, <2>3 DEF t
<1>6. CASE ~OverflowsNow(v)
  <2>1. t = last
    BY <1>6 DEF RevokeEntry
  <2> HIDE DEF v, a, s, removed
  <2>2. /\ paid \in Tx /\ paid.vestings = removed.vestings /\ paid.legacy = removed.legacy
        /\ paid.batchInfo = removed.batchInfo /\ paid.funded = removed.funded
        /\ paid.toRecipient = removed.toRecipient
        /\ paid.ok => /\ removed.ok
                      /\ paid.custody = Spent(removed.custody, v.token, s)
                      /\ paid.toSender = Gained(removed.toSender, v.id, s)
    BY <1>1, <1>2, <1>3, PaysSender
  <2> HIDE DEF paid
  <2>3. /\ last \in Tx /\ last.vestings = paid.vestings /\ last.legacy = paid.legacy
        /\ last.batchInfo = paid.batchInfo /\ last.funded = paid.funded
        /\ last.toSender = paid.toSender
        /\ last.ok => /\ paid.ok
                      /\ last.custody = Spent(paid.custody, v.token, Positive(a))
                      /\ last.toRecipient = Gained(paid.toRecipient, v.id, Positive(a))
    BY <1>1, <1>2, <2>2, PaysRecipient
  <2>4. Spent(Spent(tx.custody, v.token, s), v.token, Positive(a))
          = Spent(tx.custody, v.token, Positive(a) + s)
    BY <1>2, <1>4, SpentTwice
  <2> HIDE DEF t, last
  <2>5. /\ t \in Tx /\ t.legacy = tx.legacy /\ t.batchInfo = tx.batchInfo /\ t.funded = tx.funded
        /\ t.ok =>
           /\ tx.ok
           /\ t.vestings = Put(tx.vestings, r, SwapRemove(tx.vestings[r], i))
           /\ t.custody = Spent(tx.custody, v.token, Positive(a) + s)
           /\ t.toRecipient = Gained(tx.toRecipient, v.id, Positive(a))
           /\ t.toSender = Gained(tx.toSender, v.id, s)
    BY <1>3, <2>1, <2>2, <2>3, <2>4 DEF OnlyLists
  <2> QED
    BY <1>1, <1>2, <1>6, <2>5 DEF t, v, a, s
<1> QED
  BY <1>5, <1>6

\* Closing a schedule by a revocation keeps the books.
LEMMA RevokeSound ==
  ASSUME now \in Nat, NEW b, NEW tx, Sound(b, tx), NEW q, q.recipient \in Recipients,
         tx.legacy[q.recipient] = <<>>,
         q.index \in DOMAIN tx.vestings[q.recipient], RevokeEntry(tx, q).ok
  PROVE  Sound(Without(b, tx.vestings[q.recipient][q.index].id), RevokeEntry(tx, q))
<1> DEFINE r == q.recipient
           i == q.index
           v == tx.vestings[r][i]
           t == RevokeEntry(tx, q)
           a == VestedNow(v) - v.released
           p == Positive(a)
           s == v.total - VestedNow(v)
           id == v.id
           c == Without(b, id)
           C == tx.custody
           F == tx.funded
           R == tx.toRecipient
           S == tx.toSender
<1>0. tx \in Tx
  BY DEF Sound
<1>1. /\ t \in Tx /\ v \in Schedule
      /\ t.legacy = tx.legacy /\ t.batchInfo = tx.batchInfo /\ t.funded = F
      /\ t.vestings = Put(tx.vestings, r, SwapRemove(tx.vestings[r], i))
      /\ t.custody = Spent(C, v.token, p + s)
      /\ t.toRecipient = Gained(R, id, p)
      /\ t.toSender = Gained(S, id, s)
      /\ p \in Nat /\ s \in Nat
  BY <1>0, RevokeIs
<1>2. /\ id \in DOMAIN b /\ id \in Ids /\ b[id].total = v.total
      /\ b[id].released = v.released /\ b[id].token = v.token
      /\ v.total \in Nat /\ v.released \in Nat /\ v.released <= v.total
  BY InBook
<1>3. VestedNow(v) \in Nat
  BY <1>1, VestedNowType
<1>4. b[id].released + p + s >= b[id].total
  <2> HIDE DEF v
  <2>1. p >= VestedNow(v) - v.released
    BY <1>2, <1>3 DEF Positive
  <2> HIDE DEF p, id
  <2> QED
    BY <1>1, <1>2, <1>3, <2>1
<1>5. IsBook(b) /\ Describes(b, tx.vestings, tx.legacy) /\ Named(tx.vestings, tx.batchInfo)
      /\ Money(b, C, F, R, S)
  BY DEF Sound
<1>6. C \in [Tokens -> Nat] /\ F \in [Ids -> Nat] /\ R \in [Ids -> Nat] /\ S \in [Ids -> Nat]
      /\ tx.vestings \in Lists /\ tx.legacy \in Lists
  BY <1>0, TxFields
<1>7. Describes(c, t.vestings, t.legacy)
  <2> DEFINE V == tx.vestings
             L == tx.legacy
  <2>1. V \in Lists /\ L \in Lists /\ Describes(b, V, L) /\ L[r] = <<>> /\ i \in DOMAIN V[r]
        /\ id = V[r][i].id /\ t.vestings = Put(V, r, SwapRemove(V[r], i)) /\ t.legacy = L
    BY <1>1, <1>5, <1>6
  <2> HIDE DEF V, L, t, v
  <2>2. Describes(Without(b, V[r][i].id), Put(V, r, SwapRemove(V[r], i)), L)
    BY <2>1, Removed
  <2> QED
    BY <2>1, <2>2
<1>8. Named(t.vestings, t.batchInfo)
  <2> DEFINE u == [tx EXCEPT !.vestings[r] = SwapRemove(@, i)]
  <2>1. /\ OnlyLists(tx, u, Put(tx.vestings, r, SwapRemove(tx.vestings[r], i)))
        /\ Named(u.vestings, tx.batchInfo)
    BY <1>0, <1>5, RemoveIs
  <2> HIDE DEF u, t
  <2> QED
    BY <1>1, <2>1 DEF OnlyLists
<1>9. IsBook(c) /\ Money(c, t.custody, t.funded, t.toRecipient, t.toSender)
  <2> HIDE DEF v, id, p, s, t, c, C, F, R, S
  <2>1. /\ IsBook(Without(b, id))
        /\ Money(Without(b, id), Spent(C, b[id].token, p + s), F, Gained(R, id, p), Gained(S, id, s))
    BY <1>1, <1>2, <1>4, <1>5, <1>6, MoneyGoes
  <2> QED
    BY <1>1, <1>2, <2>1 DEF c
<1>10. Sound(c, t)
  BY <1>1, <1>7, <1>8, <1>9 DEF Sound
<1> QED
  BY <1>10

-----------------------------------------------------------------------------
(* Smaller schedules and handed rights *)

Shrunk(v, a) == [v EXCEPT !.total = @ - a]

\* An entry made smaller, the difference paid to its sender.
Reduced(tx, r, i, amount) ==
    PaySender([tx EXCEPT !.vestings[r][i].total = @ - amount], tx.vestings[r][i], amount)

\* Making a schedule smaller keeps the books.
LEMMA PartialSound ==
  ASSUME NEW b, NEW tx, Sound(b, tx), NEW r \in Recipients, tx.legacy[r] = <<>>,
         NEW i \in DOMAIN tx.vestings[r], NEW amount \in Nat \ {0},
         amount <= tx.vestings[r][i].total - tx.vestings[r][i].released,
         Reduced(tx, r, i, amount).ok
  PROVE  LET v == tx.vestings[r][i]
             t == Reduced(tx, r, i, amount)
         IN  /\ tx.ok /\ t.toRecipient = tx.toRecipient /\ t.funded = tx.funded
             /\ t.toSender = Gained(tx.toSender, v.id, amount)
             /\ Sound(Put(b, v.id, Shrunk(b[v.id], amount)), t)
<1> DEFINE v == tx.vestings[r][i]
           u == [tx EXCEPT !.vestings[r][i].total = @ - amount]
           t == PaySender(u, v, amount)
           v2 == Shrunk(v, amount)
           id == v.id
           V == tx.vestings
           L == tx.legacy
           M == Put(V[r], i, v2)
           e == Shrunk(b[id], amount)
           c == Put(b, id, e)
           C == tx.custody
           F == tx.funded
           R == tx.toRecipient
           S == tx.toSender
<1>0. tx \in Tx
  BY DEF Sound
<1>1. /\ id \in DOMAIN b /\ b[id] = Shown(r, v) /\ id \in Ids
      /\ b[id].total = v.total
      /\ b[id].released = v.released /\ b[id].token = v.token
      /\ v.total \in Nat /\ v.released \in Nat /\ v.token \in Tokens /\ v \in Schedule
  BY InBook
<1>2. /\ C \in [Tokens -> Nat] /\ F \in [Ids -> Nat] /\ R \in [Ids -> Nat] /\ S \in [Ids -> Nat]
      /\ V \in Lists /\ L \in Lists /\ V[r] \in Seq(Schedule)
  BY <1>0, TxFields
<1>3. IsBook(b) /\ Describes(b, V, L) /\ Named(V, tx.batchInfo) /\ Money(b, C, F, R, S)
  BY DEF Sound
<1>4. amount \in Nat /\ amount # 0 /\ amount \in Int /\ Positive(amount) = amount
      /\ v.released <= v.total - amount /\ v.total - amount \in Nat
  BY <1>1 DEF Positive
<1>5. /\ v2 \in Schedule /\ v2.id = id /\ v2.batch = v.batch /\ v2.sender = v.sender
      /\ v2.total = v.total - amount /\ v2.released = v.released /\ v2.win = v.win
      /\ v2.token = v.token
  <2> HIDE DEF v
  <2> QED
    BY <1>1, <1>4 DEF Schedule, Shrunk
<1>6. /\ e = Shown(r, v2)
      /\ e.token = b[id].token /\ e.released = b[id].released + 0 /\ e.total = b[id].total - amount
      /\ e.released <= e.total
  <2> HIDE DEF v, v2, id
  <2> QED
    BY <1>1, <1>4, <1>5 DEF Shown, Shrunk
<1>7. e \in Shape
  BY <1>5, <1>6, ShownType
<1>8. u \in Tx /\ OnlyLists(tx, u, Put(V, r, M))
  <2>1. M \in Seq(Schedule)
    BY <1>2, <1>5, ReplacedAt DEF Put
  <2>2. u = [tx EXCEPT !.vestings[r] = M]
    BY DEF Put, Shrunk
  <2> HIDE DEF M
  <2> QED
    BY <1>0, <2>1, <2>2, ListSet
<1>9. /\ t \in Tx /\ tx.ok /\ t.vestings = Put(V, r, M) /\ t.legacy = L
      /\ t.batchInfo = tx.batchInfo /\ t.funded = F
      /\ t.toRecipient = R /\ t.custody = Spent(C, v.token, amount)
      /\ t.toSender = Gained(S, id, amount)
  <2>1. t.ok
    BY DEF Reduced
  <2> HIDE DEF u, v
  <2>2. /\ t \in Tx /\ t.vestings = u.vestings /\ t.legacy = u.legacy
        /\ t.batchInfo = u.batchInfo /\ t.funded = u.funded /\ t.toRecipient = u.toRecipient
        /\ u.ok /\ t.custody = Spent(u.custody, v.token, amount)
        /\ t.toSender = Gained(u.toSender, v.id, amount)
    BY <1>1, <1>4, <1>8, <2>1, PaysSender
  <2> QED
    BY <1>8, <2>2 DEF OnlyLists
<1>10. Describes(c, t.vestings, t.legacy)
  <2>1. i \in DOMAIN V[r] /\ v2.id = V[r][i].id /\ L[r] = <<>>
    BY <1>5
  <2> HIDE DEF V, L, v2
  <2>2. Describes(Put(b, v2.id, Shown(r, v2)), Put(V, r, Put(V[r], i, v2)), L)
    BY <1>2, <1>3, <1>5, <2>1, Replaced
  <2> HIDE DEF t, e, id
  <2> QED
    BY <1>5, <1>6, <1>9, <2>2
<1>11. Named(t.vestings, t.batchInfo)
  <2>1. i \in DOMAIN V[r] /\ v2.batch = V[r][i].batch /\ v2.sender = V[r][i].sender
    BY <1>5
  <2> HIDE DEF V, v2
  <2>2. Named(Put(V, r, Put(V[r], i, v2)), tx.batchInfo)
    BY <1>2, <1>3, <1>5, <2>1, PutKeepsNamed
  <2> HIDE DEF t
  <2> QED
    BY <1>9, <2>2
<1>12. IsBook(c) /\ Money(c, t.custody, t.funded, t.toRecipient, t.toSender)
  <2>1. Gained(R, id, 0) = R
    <3> HIDE DEF R, id, v
    <3> QED
      BY <1>1, <1>2, GainedNothing
  <2>2. 0 \in Nat /\ 0 + amount = amount
    BY <1>4
  <2> HIDE DEF C, F, R, S, id, c, e, t, v
  <2>3. /\ IsBook(Put(b, id, e))
        /\ Money(Put(b, id, e), Spent(C, e.token, 0 + amount), F,
                 Gained(R, id, 0), Gained(S, id, amount))
    BY <1>1, <1>2, <1>3, <1>4, <1>6, <1>7, <2>2, MoneyStays
  <2> QED
    BY <1>1, <1>6, <1>9, <2>1, <2>2, <2>3 DEF c
<1>13. Sound(c, t)
  BY <1>9, <1>10, <1>11, <1>12 DEF Sound
<1>14. t = Reduced(tx, r, i, amount)
  BY DEF Reduced
<1> HIDE DEF t
<1> QED
  BY <1>9, <1>13, <1>14 DEF c, e, id

\* A new entry whose batch names its sender keeps the batches right.
LEMMA AppendKeepsNamed ==
  ASSUME NEW V \in Lists, NEW B, Named(V, B), NEW r \in Recipients,
         NEW v \in Schedule, v.batch \in DOMAIN B, B[v.batch] = v.sender
  PROVE  Named(Put(V, r, Append(V[r], v)), B)
<1> DEFINE M == Append(V[r], v)
           W == Put(V, r, M)
           n == Len(V[r])
<1>1. V[r] \in Seq(Schedule)
  BY DEF Lists
<1>2. /\ DOMAIN M = 1 .. n + 1 /\ DOMAIN V[r] = 1 .. n /\ n \in Nat
      /\ M[n + 1] = v /\ \A j \in 1 .. n : M[j] = V[r][j]
  BY <1>1, AppendedAt
<1> HIDE DEF M, n
<1>3. W[r] = M /\ \A s \in Recipients : s # r => W[s] = V[s]
  BY DEF Lists, Put
<1> HIDE DEF W
<1>4. ASSUME NEW s \in Recipients, NEW j \in DOMAIN W[s]
      PROVE  W[s][j].batch \in DOMAIN B /\ B[W[s][j].batch] = W[s][j].sender
  <2>1. CASE s # r
    BY <1>3, <2>1 DEF Named
  <2>2. CASE s = r /\ j = n + 1
    BY <1>2, <1>3, <2>2
  <2>3. CASE s = r /\ j # n + 1
    <3>1. j \in 1 .. n
      BY <1>2, <1>3, <2>3
    <3> QED
      BY <1>2, <1>3, <2>3, <3>1 DEF Named
  <2> QED
    BY <2>1, <2>2, <2>3
<1> QED
  BY <1>4 DEF W, M, Named

\* An entry handed from one list to another, after both were migrated.
HandOver(tx, r, i, new) ==
    LET removed == [tx EXCEPT !.vestings[r] = SwapRemove(@, i)]
    IN  [removed EXCEPT !.vestings[new] = Append(@, tx.vestings[r][i])]

Handed(e, new) == [e EXCEPT !.owner = new]

\* Handing an entry to another recipient changes its owner in the book and nothing else.
LEMMA HandOverSound ==
  ASSUME NEW b, NEW tx, Sound(b, tx), NEW r \in Recipients, NEW new \in Recipients,
         tx.legacy[r] = <<>>, tx.legacy[new] = <<>>, NEW i \in DOMAIN tx.vestings[r]
  PROVE  LET id == tx.vestings[r][i].id
             t == HandOver(tx, r, i, new)
         IN  /\ t.ok = tx.ok /\ SameMoney(tx, t)
             /\ Sound(Put(b, id, Handed(b[id], new)), t)
<1> DEFINE v == tx.vestings[r][i]
           id == v.id
           u == [tx EXCEPT !.vestings[r] = SwapRemove(@, i)]
           t == [u EXCEPT !.vestings[new] = Append(@, v)]
           V == tx.vestings
           U == u.vestings
           L == tx.legacy
           e == Handed(b[id], new)
           c == Put(b, id, e)
           d == Without(b, id)
           C == tx.custody
           F == tx.funded
           R == tx.toRecipient
           S == tx.toSender
<1>0. tx \in Tx /\ t = HandOver(tx, r, i, new)
  BY DEF Sound, HandOver
<1>1. /\ id \in DOMAIN b /\ b[id] = Shown(r, v) /\ id \in Ids /\ v \in Schedule
      /\ v.token \in Tokens /\ b[id].token = v.token
      /\ b[id].released <= b[id].total /\ b[id].total \in Nat /\ b[id].released \in Nat
  BY InBook
<1>2. /\ C \in [Tokens -> Nat] /\ F \in [Ids -> Nat] /\ R \in [Ids -> Nat] /\ S \in [Ids -> Nat]
      /\ V \in Lists /\ L \in Lists /\ V[r] \in Seq(Schedule)
  BY <1>0, TxFields
<1>3. IsBook(b) /\ Describes(b, V, L) /\ Named(V, tx.batchInfo) /\ Money(b, C, F, R, S)
  BY DEF Sound
<1>4. /\ u \in Tx /\ OnlyLists(tx, u, Put(V, r, SwapRemove(V[r], i)))
      /\ Named(U, tx.batchInfo)
  BY <1>0, <1>3, RemoveIs
<1>5. U = Put(V, r, SwapRemove(V[r], i)) /\ U \in Lists /\ U[new] \in Seq(Schedule)
  BY <1>4, TxFields DEF OnlyLists
<1>6. Describes(d, U, L)
  <2>1. i \in DOMAIN V[r] /\ L[r] = <<>> /\ id = V[r][i].id
    OBVIOUS
  <2> HIDE DEF V, L, v, u
  <2>2. Describes(Without(b, V[r][i].id), Put(V, r, SwapRemove(V[r], i)), L)
    BY <1>2, <1>3, <2>1, Removed
  <2> HIDE DEF U, id
  <2> QED
    BY <1>5, <2>1, <2>2
<1>7. t \in Tx /\ OnlyLists(u, t, Put(U, new, Append(U[new], v)))
  <2>1. Append(U[new], v) \in Seq(Schedule)
    BY <1>1, <1>5
  <2> HIDE DEF u, v
  <2> QED
    BY <1>4, <2>1, ListSet
<1>8. e = Shown(new, v) /\ e \in Shape
  <2>1. e = Shown(new, v)
    BY <1>1 DEF Shown, Handed
  <2> QED
    BY <1>1, <2>1, ShownType
<1>9. c = With(d, id, e)
  <2> HIDE DEF e, id
  <2>1. DOMAIN b = (DOMAIN b \ {id}) \cup {id}
    BY <1>1
  <2>2. c = [x \in DOMAIN b |-> IF x = id THEN e ELSE b[x]]
    <3>1. b = [x \in DOMAIN b |-> b[x]]
      BY <1>3 DEF IsBook
    <3> QED
      BY <1>1, <3>1 DEF Put
  <2>3. With(d, id, e) = [x \in DOMAIN b |-> IF x = id THEN e ELSE b[x]]
    BY <1>1, <2>1 DEF With, Without
  <2> QED
    BY <2>2, <2>3
<1>10. Describes(c, Put(U, new, Append(U[new], v)), L)
  <2>1. v.id \notin DOMAIN d /\ L[new] = <<>> /\ id = v.id
    BY DEF Without
  <2> HIDE DEF U, L, v, d
  <2>2. Describes(With(d, v.id, Shown(new, v)), Put(U, new, Append(U[new], v)), L)
    BY <1>1, <1>2, <1>5, <1>6, <2>1, Appended
  <2> HIDE DEF id, c, e
  <2> QED
    BY <1>8, <1>9, <2>1, <2>2
<1>11. Named(Put(U, new, Append(U[new], v)), tx.batchInfo)
  <2>1. v.batch \in DOMAIN tx.batchInfo /\ tx.batchInfo[v.batch] = v.sender
    BY <1>3 DEF Named
  <2> HIDE DEF U, v, u, V
  <2> QED
    BY <1>1, <1>4, <1>5, <2>1, AppendKeepsNamed
<1>12. IsBook(c) /\ Money(c, C, F, R, S)
  <2>1. Gained(R, id, 0) = R /\ Gained(S, id, 0) = S /\ Spent(C, v.token, 0) = C
    BY <1>1, <1>2, GainedNothing
  <2>2. /\ e.token = b[id].token /\ e.released = b[id].released + 0 /\ e.total = b[id].total - 0
        /\ e.released <= e.total
    <3>1. e.token = b[id].token /\ e.released = b[id].released /\ e.total = b[id].total
      BY <1>1 DEF Shown, Handed
    <3> HIDE DEF e, id
    <3> QED
      BY <1>1, <3>1
  <2>3. 0 \in Nat /\ 0 + 0 = 0
    OBVIOUS
  <2> HIDE DEF C, F, R, S, id, c, e, v
  <2>4. /\ IsBook(Put(b, id, e))
        /\ Money(Put(b, id, e), Spent(C, e.token, 0 + 0), F, Gained(R, id, 0), Gained(S, id, 0))
    BY <1>1, <1>2, <1>3, <1>8, <2>2, <2>3, MoneyStays
  <2> QED
    BY <1>1, <2>1, <2>2, <2>3, <2>4 DEF c
<1>13. Sound(c, t) /\ t.ok = tx.ok /\ SameMoney(tx, t)
  <2> HIDE DEF u, v, c
  <2>1. /\ t.vestings = Put(U, new, Append(U[new], v)) /\ t.legacy = L /\ t.batchInfo = tx.batchInfo
        /\ t.custody = C /\ t.funded = F /\ t.toRecipient = R /\ t.toSender = S /\ t.ok = tx.ok
    BY <1>4, <1>7 DEF OnlyLists
  <2> HIDE DEF t
  <2> QED
    BY <1>7, <1>10, <1>11, <1>12, <2>1 DEF Sound, SameMoney
<1> QED
  BY <1>0, <1>13

-----------------------------------------------------------------------------
(* Deposits *)

\* The same for a new schedule, that takes the first free id.
LEMMA MoneyComes ==
  ASSUME NEW b, IsBook(b), NEW C \in [Tokens -> Nat], NEW F \in [Ids -> Nat],
         NEW R \in [Ids -> Nat], NEW S \in [Ids -> Nat], Money(b, C, F, R, S),
         NEW id \in Ids, Numbered(F, id - 1),
         NEW e \in Shape, e.total > 0, e.released = 0
  PROVE  LET c == With(b, id, e)
         IN  /\ id \notin DOMAIN b /\ IsBook(c)
             /\ Money(c, Gained(C, e.token, e.total), Put(F, id, e.total), R, S)
             /\ Numbered(Put(F, id, e.total), id)
<1> DEFINE c == With(b, id, e)
           C2 == Gained(C, e.token, e.total)
           F2 == Put(F, id, e.total)
<1>1. /\ e.total \in Nat /\ e.token \in Tokens /\ id \in 1 .. K /\ K \in Nat /\ Ids = 1 .. K
      /\ DOMAIN b \subseteq Ids
  BY IdsAre DEF Shape, IsBook
<1>2. F[id] = 0 /\ \A x \in Ids : F[x] > 0 <=> x \in 1 .. id - 1
  <2>1. id \notin 1 .. id - 1
    BY <1>1
  <2>2. ASSUME NEW x \in Ids PROVE F[x] > 0 <=> x \in 1 .. id - 1
    <3>1. x \in {y \in Ids : F[y] > 0} <=> F[x] > 0
      OBVIOUS
    <3> QED
      BY <3>1 DEF Numbered
  <2>3. F[id] \in Nat /\ ~(F[id] > 0)
    BY <2>1, <2>2
  <2> QED
    BY <2>2, <2>3
<1>3. id \notin DOMAIN b
  BY <1>2 DEF Money
<1>4. /\ DOMAIN c = DOMAIN b \cup {id} /\ c[id] = e /\ \A x \in DOMAIN b : c[x] = b[x]
      /\ IsBook(c)
  BY <1>3 DEF IsBook, With
<1>5. F2[id] = e.total /\ \A x \in Ids : x # id => F2[x] = F[x]
  BY DEF Put
<1>6. /\ C2[e.token] = C[e.token] + e.total
      /\ \A tok \in Tokens : tok # e.token => C2[tok] = C[tok]
      /\ \A tok \in Tokens : C[tok] \in Nat
  BY <1>1 DEF Gained
<1>7. \A x \in Ids : R[x] \in Nat /\ S[x] \in Nat /\ F[x] \in Nat
  OBVIOUS
<1> HIDE DEF c, C2, F2
<1>8. R[id] = 0 /\ S[id] = 0
  BY <1>2 DEF Money
<1>9. Numbered(F2, id)
  <2>1. ASSUME NEW x \in Ids PROVE F2[x] > 0 <=> x \in 1 .. id
    <3>1. CASE x = id
      BY <1>1, <1>5, <3>1
    <3>2. CASE x # id
      <4>1. x \in 1 .. id - 1 <=> x \in 1 .. id
        BY <1>1, <3>2
      <4> QED
        BY <1>2, <1>5, <3>2, <4>1
    <3> QED
      BY <3>1, <3>2
  <2> QED
    BY <1>1, <2>1 DEF Numbered
<1>10. ASSUME NEW x \in DOMAIN c
       PROVE  /\ F2[x] > 0 /\ R[x] = c[x].released /\ S[x] + c[x].total = F2[x]
              /\ c[x].released <= c[x].total
  <2>1. CASE x = id
    BY <1>1, <1>4, <1>5, <1>8, <2>1
  <2>2. CASE x # id
    <3>1. x \in DOMAIN b /\ x \in Ids
      BY <1>1, <1>4, <2>2
    <3> QED
      BY <1>4, <1>5, <2>2, <3>1 DEF Money
  <2> QED
    BY <2>1, <2>2
<1>11. ASSUME NEW x \in Ids, F2[x] = 0 PROVE R[x] = 0 /\ S[x] = 0
  BY <1>5, <1>8, <1>11 DEF Money
<1>12. ASSUME Within(F2, R, S), NEW tok \in Tokens PROVE C2[tok] = Debt(c, tok)
  <2>1. Within(F, R, S)
    <3>1. ASSUME NEW x \in Ids PROVE R[x] + S[x] <= F[x]
      BY <1>2, <1>5, <1>7, <1>8, <1>12 DEF Within
    <3> QED
      BY <3>1 DEF Within
  <2>2. C[tok] = Debt(b, tok)
    BY <2>1 DEF Money
  <2>3. \A x \in Ids : x # id => Owing(c, x, tok) = Owing(b, x, tok)
    BY <1>4 DEF Owing
  <2>4. /\ Debt(c, tok) = Debt(b, tok) + Owing(c, id, tok) - Owing(b, id, tok)
        /\ Debt(b, tok) \in Int
    BY <1>4, <2>3, DebtChanges
  <2>5. /\ Owing(b, id, tok) = 0
        /\ Owing(c, id, tok) = IF e.token = tok THEN e.total ELSE 0
    BY <1>1, <1>3, <1>4 DEF Owing
  <2> QED
    BY <1>1, <1>6, <2>2, <2>4, <2>5
<1>13. ASSUME LegacyHoldsValue, NEW x \in DOMAIN c, S[x] = 0 PROVE c[x].released < c[x].total
  <2>1. CASE x = id
    BY <1>1, <1>4, <2>1
  <2>2. CASE x # id
    BY <1>4, <1>13, <2>2 DEF Money
  <2> QED
    BY <2>1, <2>2
<1>14. \E k \in 0 .. K : Numbered(F2, k)
  <2>1. id \in 0 .. K
    BY <1>1
  <2> QED
    BY <1>9, <2>1
<1>15. Money(c, C2, F2, R, S)
  BY <1>10, <1>11, <1>12, <1>13, <1>14 DEF Money
<1> QED
  BY <1>3, <1>4, <1>9, <1>15 DEF c, C2, F2

\* What a deposit of one entry puts in the book.
Deposited(sender, w, entry) ==
    [owner |-> entry.recipient, sender |-> sender, total |-> entry.amount, released |-> 0,
     win |-> w, token |-> entry.token]

\* What one entry of a deposit writes, when it does not fail.
LEMMA DepositIs ==
  ASSUME batchInfo \in Seq(Senders), NEW tx \in Tx, NEW sender \in Senders, NEW w \in Window,
         NEW id \in Ids, NEW entry \in Entry
  PROVE  LET m == Migrate(tx, entry.recipient)
             t == DepositEntry(tx, sender, w, id, entry)
             r == entry.recipient
             v == [id |-> id, total |-> entry.amount, released |-> 0, win |-> w,
                   sender |-> sender, batch |-> Len(batchInfo) + 1, token |-> entry.token]
         IN  /\ t \in Tx /\ v \in Schedule /\ entry.amount \in Nat \ {0}
             /\ r \in Recipients /\ m \in Tx
             /\ t.ok => /\ m.ok /\ t.legacy = m.legacy /\ t.batchInfo = m.batchInfo
                        /\ t.vestings = Put(m.vestings, r, Append(m.vestings[r], v))
                        /\ t.custody = Gained(m.custody, entry.token, entry.amount)
                        /\ t.funded = Put(m.funded, id, entry.amount)
                        /\ t.toRecipient = m.toRecipient /\ t.toSender = m.toSender
<1> DEFINE r == entry.recipient
           a == entry.amount
           tok == entry.token
           m == Migrate(tx, r)
           v == [id |-> id, total |-> a, released |-> 0, win |-> w,
                 sender |-> sender, batch |-> Len(batchInfo) + 1, token |-> tok]
           t == DepositEntry(tx, sender, w, id, entry)
           M == Append(m.vestings[r], v)
           V2 == Put(m.vestings, r, M)
           C2 == Gained(m.custody, tok, a)
           F2 == Put(m.funded, id, a)
           u == [m EXCEPT !.vestings = V2, !.custody = C2, !.funded = F2]
<1>1. r \in Recipients /\ a \in Nat \ {0} /\ tok \in Tokens
  BY ContractAssumption DEF ContractAssumption, Entry
<1>2. t = IF Len(m.vestings[r]) >= MaxSchedulesPerRecipient THEN Panic(m) ELSE u
  BY DEF DepositEntry, Put, Gained
<1> HIDE DEF r, a, tok, t
<1>3. v \in Schedule
  <2>1. Len(batchInfo) + 1 \in Nat
    OBVIOUS
  <2> QED
    BY <1>1, <2>1 DEF Schedule
<1>4. m \in Tx
  BY <1>1, MigrateIs
<1> HIDE DEF m, v
<1>5. /\ m.vestings \in Lists /\ m.vestings[r] \in Seq(Schedule)
      /\ m.custody \in [Tokens -> Nat] /\ m.funded \in [Ids -> Nat]
  BY <1>1, <1>4, TxFields
<1>6. V2 \in Lists /\ C2 \in [Tokens -> Nat] /\ F2 \in [Ids -> Nat]
  <2>1. M \in Seq(Schedule)
    BY <1>3, <1>5
  <2> HIDE DEF M
  <2>2. V2 \in Lists
    BY <1>5, <2>1 DEF Lists, Put
  <2>3. C2 \in [Tokens -> Nat] /\ F2 \in [Ids -> Nat]
    BY <1>1, <1>5 DEF Gained, Put
  <2> QED
    BY <2>2, <2>3
<1> HIDE DEF V2, C2, F2
<1>7. /\ u \in Tx /\ u.ok = m.ok /\ u.vestings = V2 /\ u.legacy = m.legacy
      /\ u.batchInfo = m.batchInfo /\ u.custody = C2 /\ u.funded = F2
      /\ u.toRecipient = m.toRecipient /\ u.toSender = m.toSender
  BY <1>4, <1>6 DEF Tx
<1>8. Panic(m) \in Tx /\ ~Panic(m).ok
  BY <1>4, PanicIs
<1> HIDE DEF u
<1> QED
  BY <1>1, <1>2, <1>3, <1>4, <1>7, <1>8 DEF r, a, tok, m, v, t, V2, C2, F2, M

\* One entry of a deposit opens the next free id in the book and keeps the books.
LEMMA DepositSound ==
  ASSUME batchInfo \in Seq(Senders), NEW b, NEW tx, Sound(b, tx),
         NEW sender \in Senders, NEW w \in Window, NEW id \in Ids, NEW entry \in Entry,
         Numbered(tx.funded, id - 1),
         Len(batchInfo) + 1 \in DOMAIN tx.batchInfo,
         tx.batchInfo[Len(batchInfo) + 1] = sender,
         DepositEntry(tx, sender, w, id, entry).ok
  PROVE  LET t == DepositEntry(tx, sender, w, id, entry)
         IN  /\ tx.ok /\ id \notin DOMAIN b
             /\ Sound(With(b, id, Deposited(sender, w, entry)), t)
             /\ t.funded = Put(tx.funded, id, entry.amount)
             /\ t.toRecipient = tx.toRecipient /\ t.toSender = tx.toSender
             /\ Numbered(t.funded, id)
             /\ Len(batchInfo) + 1 \in DOMAIN t.batchInfo
             /\ t.batchInfo[Len(batchInfo) + 1] = sender
<1> DEFINE r == entry.recipient
           a == entry.amount
           tok == entry.token
           n == Len(batchInfo) + 1
           m == Migrate(tx, r)
           v == [id |-> id, total |-> a, released |-> 0, win |-> w,
                 sender |-> sender, batch |-> n, token |-> tok]
           t == DepositEntry(tx, sender, w, id, entry)
           e == Deposited(sender, w, entry)
           c == With(b, id, e)
           V == m.vestings
           L == m.legacy
           B == m.batchInfo
           C == m.custody
           F == m.funded
           R == m.toRecipient
           S == m.toSender
<1>0. tx \in Tx /\ t.ok
  BY DEF Sound
<1>1. /\ t \in Tx /\ v \in Schedule /\ a \in Nat \ {0} /\ r \in Recipients /\ m \in Tx
      /\ m.ok /\ t.legacy = L /\ t.batchInfo = B
      /\ t.vestings = Put(V, r, Append(V[r], v))
      /\ t.custody = Gained(C, tok, a) /\ t.funded = Put(F, id, a)
      /\ t.toRecipient = R /\ t.toSender = S
  <2>1. /\ t \in Tx /\ v \in Schedule /\ a \in Nat \ {0} /\ r \in Recipients /\ m \in Tx
        /\ t.ok => /\ m.ok /\ t.legacy = L /\ t.batchInfo = B
                   /\ t.vestings = Put(V, r, Append(V[r], v))
                   /\ t.custody = Gained(C, tok, a) /\ t.funded = Put(F, id, a)
                   /\ t.toRecipient = R /\ t.toSender = S
    BY <1>0, DepositIs
  <2> HIDE DEF t, v, a, r, m
  <2> QED
    BY <1>0, <2>1
<1>2. /\ m.ok = tx.ok /\ SameMoney(tx, m) /\ L[r] = <<>> /\ Sound(b, m)
      /\ Len(tx.batchInfo) <= Len(B)
      /\ \A k \in DOMAIN tx.batchInfo : B[k] = tx.batchInfo[k]
  <2>1. /\ m.ok = tx.ok /\ SameMoney(tx, m) /\ L[r] = <<>>
        /\ \A x : Sound(x, tx) => /\ Sound(x, m)
                                  /\ Len(tx.batchInfo) <= Len(B)
                                  /\ \A k \in DOMAIN tx.batchInfo : B[k] = tx.batchInfo[k]
    BY <1>0, <1>1, MigrateIs
  <2> HIDE DEF m
  <2> QED
    BY <2>1
<1>3. IsBook(b) /\ Describes(b, V, L) /\ Named(V, B) /\ Money(b, C, F, R, S)
  BY <1>2 DEF Sound
<1>4. n \in DOMAIN B /\ B[n] = sender
  <2>1. tx.batchInfo \in Seq(Senders) /\ B \in Seq(Senders)
    BY <1>0, <1>1, TxFields
  <2> DEFINE A == tx.batchInfo
  <2>2. n \in DOMAIN A /\ A[n] = sender /\ A \in Seq(Senders) /\ B \in Seq(Senders)
        /\ Len(A) <= Len(B) /\ \A k \in DOMAIN A : B[k] = A[k]
    BY <1>2, <2>1
  <2> HIDE DEF A, B, n
  <2> QED
    BY <2>2
<1>5. /\ C \in [Tokens -> Nat] /\ F \in [Ids -> Nat] /\ R \in [Ids -> Nat] /\ S \in [Ids -> Nat]
      /\ V \in Lists /\ L \in Lists /\ B \in Seq(Senders) /\ V[r] \in Seq(Schedule)
  BY <1>1, TxFields
<1>6. F = tx.funded /\ R = tx.toRecipient /\ S = tx.toSender
  BY <1>2 DEF SameMoney
<1>7. /\ e = Shown(r, v) /\ e \in Shape /\ e.total = a /\ e.total > 0 /\ e.released = 0
      /\ e.token = tok
  <2>1. e = Shown(r, v) /\ e.total = a /\ e.released = 0 /\ e.token = tok
    BY DEF Shown, Deposited
  <2> HIDE DEF e, v, r, a, tok
  <2> QED
    BY <1>1, <2>1, ShownType
<1>8. v.id = id /\ v.batch = n /\ v.sender = sender
  OBVIOUS
<1>9. /\ id \notin DOMAIN b /\ IsBook(c)
      /\ Money(c, Gained(C, tok, a), Put(F, id, a), R, S)
      /\ Numbered(Put(F, id, a), id)
  <2>1. Numbered(F, id - 1)
    BY <1>6
  <2> HIDE DEF C, F, R, S, e, tok, a, v, t, m, c, r, V, L, B, n
  <2>2. /\ id \notin DOMAIN b /\ IsBook(With(b, id, e))
        /\ Money(With(b, id, e), Gained(C, e.token, e.total), Put(F, id, e.total), R, S)
        /\ Numbered(Put(F, id, e.total), id)
    BY <1>3, <1>5, <1>7, <2>1, MoneyComes
  <2> QED
    BY <1>7, <2>2 DEF c
<1> HIDE DEF v, e, C, F, R, S, V, L, B, r, a, tok, m, n
<1>10. Describes(c, Put(V, r, Append(V[r], v)), L)
  <2>1. Describes(With(b, v.id, Shown(r, v)), Put(V, r, Append(V[r], v)), L)
    BY <1>1, <1>2, <1>3, <1>5, <1>8, <1>9, Appended
  <2> QED
    BY <1>7, <1>8, <2>1
<1>11. Named(Put(V, r, Append(V[r], v)), B)
  BY <1>1, <1>3, <1>4, <1>5, <1>8, AppendKeepsNamed
<1> HIDE DEF t, c
<1>12. Sound(c, t)
  BY <1>1, <1>9, <1>10, <1>11 DEF Sound
<1> QED
  BY <1>1, <1>2, <1>4, <1>6, <1>9, <1>12 DEF t, c, e, n, a, B, r, m

-----------------------------------------------------------------------------
(* The loops of the batch operations *)

\* The elements of a batch of requests.
LEMMA BatchType ==
  ASSUME NEW S, NEW q \in Batches(S)
  PROVE  Len(q) \in Nat /\ DOMAIN q = 1 .. Len(q) /\ \A n \in 1 .. Len(q) : q[n] \in S
<1>1. PICK n \in 1 .. MaxBatchSize : q \in [1 .. n -> S]
  BY DEF Batches
<1>2. n \in Nat /\ Len(q) = n
  BY <1>1
<1> QED
  BY <1>1, <1>2

\* The loop of deposit (lib.rs), as the transactions after 0, 1, .. entries.
LEMMA DepositTurns ==
  ASSUME batchInfo \in Seq(Senders), Begin \in Tx, NEW sender \in Senders, NEW w \in Window,
         NEW entries \in Batches(Entry),
         \A n \in 1 .. Len(entries) : NextId + n - 1 \in Ids
  PROVE  \E f \in [0 .. Len(entries) -> Tx] :
            /\ f[0] = [Begin EXCEPT !.batchInfo = Append(@, sender)]
            /\ \A n \in 1 .. Len(entries) :
                   f[n] = DepositEntry(f[n - 1], sender, w, NextId + n - 1, entries[n])
            /\ DepositTx(sender, w, entries) = f[Len(entries)]
<1> DEFINE N == Len(entries)
           base == [Begin EXCEPT !.batchInfo = Append(@, sender)]
           turn(t, n) == DepositEntry(t, sender, w, NextId + n - 1, entries[n])
           T == [n \in 0 .. N |-> Tx]
           step == [n \in 1 .. N |-> [t \in Tx |-> turn(t, n)]]
           body(f) == [n \in 0 .. N |-> IF n = 0 THEN base ELSE turn(f[n - 1], n)]
           upTo == CHOOSE f : f = body(f)
<1>1. N \in Nat /\ \A n \in 1 .. N : entries[n] \in Entry
  BY BatchType
<1>2. base \in Tx
  <2> DEFINE A == Append(Begin.batchInfo, sender)
  <2>1. A \in Seq(Senders)
    BY DEF Begin
  <2>2. base = [Begin EXCEPT !.batchInfo = A]
    OBVIOUS
  <2> HIDE DEF A, base
  <2> QED
    BY <2>1, <2>2 DEF Tx
<1>3. \A n \in 1 .. N : \A t \in Tx : turn(t, n) \in Tx
  BY <1>1, DepositIs
<1>4. DepositTx(sender, w, entries) = upTo[N]
  BY Zenon DEF DepositTx
<1> HIDE DEF turn, base, N
<1>5. PICK h : Turns(h, N, base, step) /\ \A n \in 0 .. N : h[n] \in T[n]
  <2>1. base \in T[0]
    BY <1>1, <1>2
  <2>2. \A n \in 1 .. N : step[n] \in [T[n - 1] -> T[n]]
    BY <1>1, <1>3
  <2> HIDE DEF T, step
  <2> QED
    BY <1>1, <2>1, <2>2, Recursion
<1>6. h = body(h)
  <2>1. \A n \in 1 .. N : h[n - 1] \in Tx
    BY <1>1, <1>5
  <2>2. \A n \in 1 .. N : step[n][h[n - 1]] = turn(h[n - 1], n)
    BY <2>1
  <2> HIDE DEF step
  <2>3. h = [n \in 0 .. N |-> IF n = 0 THEN base ELSE step[n][h[n - 1]]]
    BY <1>5 DEF Turns
  <2>4. \A n \in 0 .. N : (IF n = 0 THEN base ELSE step[n][h[n - 1]])
                          = (IF n = 0 THEN base ELSE turn(h[n - 1], n))
    BY <1>1, <2>2
  <2> QED
    BY <2>3, <2>4
<1>7. upTo = body(upTo)
  <2> HIDE DEF body
  <2> QED
    BY <1>6
<1> HIDE DEF upTo
<1>8. upTo[0] = base /\ \A n \in 1 .. N : upTo[n] = turn(upTo[n - 1], n)
  BY <1>1, <1>7
<1>9. 0 .. N \subseteq {n \in 0 .. N : upTo[n] \in Tx}
  <2> DEFINE S == {n \in 0 .. N : upTo[n] \in Tx}
  <2>1. 0 \in S
    BY <1>1, <1>2, <1>8
  <2>2. \A n \in 1 .. N : n - 1 \in S => n \in S
    BY <1>1, <1>3, <1>8
  <2> HIDE DEF S
  <2> QED
    BY <1>1, <2>1, <2>2, Upwards DEF S
<1>10. upTo \in [0 .. N -> Tx]
  BY <1>7, <1>9
<1> QED
  BY <1>4, <1>8, <1>10 DEF N, turn, base

\* The turns of the two batch revocations end in transactions.
LEMMA RevocationTypes ==
  ASSUME now \in Nat, NEW tx \in Tx, NEW caller \in Senders, NEW q \in Request
  PROVE  /\ Migrate(tx, q.recipient) \in Tx
         /\ RevokeIfAllowed(tx, caller, q) \in Tx
         /\ RevokeOrPanic(tx, caller, q) \in Tx
<1> DEFINE t == Migrate(tx, q.recipient)
<1>1. q.recipient \in Recipients
  BY DEF Request
<1>2. t \in Tx
  BY <1>1, MigrateIs
<1>3. RevokeIfAllowed(tx, caller, q) = IF Revocable(t, caller, q) THEN RevokeEntry(t, q) ELSE t
  BY DEF RevokeIfAllowed
<1>4. RevokeOrPanic(tx, caller, q) = IF Revocable(t, caller, q) THEN RevokeEntry(t, q) ELSE Panic(t)
  BY DEF RevokeOrPanic
<1> HIDE DEF t
<1>5. Revocable(t, caller, q) => RevokeEntry(t, q) \in Tx
  <2> SUFFICES ASSUME Revocable(t, caller, q) PROVE RevokeEntry(t, q) \in Tx
    OBVIOUS
  <2>1. q.index \in DOMAIN t.vestings[q.recipient]
    BY DEF Revocable
  <2> QED
    BY <1>1, <1>2, <2>1, RevokeIs
<1>6. Panic(t) \in Tx
  BY <1>2, PanicIs
<1> QED
  BY <1>2, <1>3, <1>4, <1>5, <1>6 DEF t

\* The loop of batch_revoke (lib.rs), as the transactions after 0, 1, .. requests.
LEMMA BatchRevokeTurns ==
  ASSUME now \in Nat, Begin \in Tx, NEW caller \in Senders, NEW reqs \in Batches(Request)
  PROVE  \E f \in [0 .. Len(reqs) -> Tx] :
            /\ f[0] = Begin
            /\ \A n \in 1 .. Len(reqs) : f[n] = RevokeIfAllowed(f[n - 1], caller, reqs[n])
            /\ BatchRevokeTx(caller, reqs) = f[Len(reqs)]
<1> DEFINE N == Len(reqs)
           base == Begin
           turn(t, n) == RevokeIfAllowed(t, caller, reqs[n])
           T == [n \in 0 .. N |-> Tx]
           step == [n \in 1 .. N |-> [t \in Tx |-> turn(t, n)]]
           body(f) == [n \in 0 .. N |-> IF n = 0 THEN base ELSE turn(f[n - 1], n)]
           upTo == CHOOSE f : f = body(f)
<1>1. N \in Nat /\ \A n \in 1 .. N : reqs[n] \in Request
  BY BatchType
<1>2. base \in Tx
  OBVIOUS
<1>3. \A n \in 1 .. N : \A t \in Tx : turn(t, n) \in Tx
  BY <1>1, RevocationTypes
<1>4. BatchRevokeTx(caller, reqs) = upTo[N]
  BY Zenon DEF BatchRevokeTx
<1> HIDE DEF turn, base, N
<1>5. PICK h : Turns(h, N, base, step) /\ \A n \in 0 .. N : h[n] \in T[n]
  <2>1. base \in T[0]
    BY <1>1, <1>2
  <2>2. \A n \in 1 .. N : step[n] \in [T[n - 1] -> T[n]]
    BY <1>1, <1>3
  <2> HIDE DEF T, step
  <2> QED
    BY <1>1, <2>1, <2>2, Recursion
<1>6. h = body(h)
  <2>1. \A n \in 1 .. N : h[n - 1] \in Tx
    BY <1>1, <1>5
  <2>2. \A n \in 1 .. N : step[n][h[n - 1]] = turn(h[n - 1], n)
    BY <2>1
  <2> HIDE DEF step, T
  <2>3. h = [n \in 0 .. N |-> IF n = 0 THEN base ELSE step[n][h[n - 1]]]
    BY <1>5 DEF Turns
  <2>4. \A n \in 0 .. N : (IF n = 0 THEN base ELSE step[n][h[n - 1]])
                          = (IF n = 0 THEN base ELSE turn(h[n - 1], n))
    BY <1>1, <2>2
  <2> QED
    BY <2>3, <2>4
<1>7. upTo = body(upTo)
  <2> HIDE DEF body
  <2> QED
    BY <1>6
<1> HIDE DEF upTo
<1>8. upTo[0] = base /\ \A n \in 1 .. N : upTo[n] = turn(upTo[n - 1], n)
  BY <1>1, <1>7
<1>9. 0 .. N \subseteq {n \in 0 .. N : upTo[n] \in Tx}
  <2> DEFINE S == {n \in 0 .. N : upTo[n] \in Tx}
  <2>1. 0 \in S
    BY <1>1, <1>2, <1>8
  <2>2. \A n \in 1 .. N : n - 1 \in S => n \in S
    BY <1>1, <1>3, <1>8
  <2> HIDE DEF S
  <2> QED
    BY <1>1, <2>1, <2>2, Upwards DEF S
<1>10. upTo \in [0 .. N -> Tx]
  BY <1>7, <1>9
<1> QED
  BY <1>4, <1>8, <1>10 DEF N, turn, base

\* The loop of revoke_batch (lib.rs), as the transactions after 0, 1, .. requests.
LEMMA RevokeBatchTurns ==
  ASSUME now \in Nat, Begin \in Tx, NEW caller \in Senders, NEW reqs \in Batches(Request)
  PROVE  \E f \in [0 .. Len(reqs) -> Tx] :
            /\ f[0] = Begin
            /\ \A n \in 1 .. Len(reqs) : f[n] = RevokeOrPanic(f[n - 1], caller, reqs[n])
            /\ RevokeBatchTx(caller, reqs) = f[Len(reqs)]
<1> DEFINE N == Len(reqs)
           base == Begin
           turn(t, n) == RevokeOrPanic(t, caller, reqs[n])
           T == [n \in 0 .. N |-> Tx]
           step == [n \in 1 .. N |-> [t \in Tx |-> turn(t, n)]]
           body(f) == [n \in 0 .. N |-> IF n = 0 THEN base ELSE turn(f[n - 1], n)]
           upTo == CHOOSE f : f = body(f)
<1>1. N \in Nat /\ \A n \in 1 .. N : reqs[n] \in Request
  BY BatchType
<1>2. base \in Tx
  OBVIOUS
<1>3. \A n \in 1 .. N : \A t \in Tx : turn(t, n) \in Tx
  BY <1>1, RevocationTypes
<1>4. RevokeBatchTx(caller, reqs) = upTo[N]
  BY Zenon DEF RevokeBatchTx
<1> HIDE DEF turn, base, N
<1>5. PICK h : Turns(h, N, base, step) /\ \A n \in 0 .. N : h[n] \in T[n]
  <2>1. base \in T[0]
    BY <1>1, <1>2
  <2>2. \A n \in 1 .. N : step[n] \in [T[n - 1] -> T[n]]
    BY <1>1, <1>3
  <2> HIDE DEF T, step
  <2> QED
    BY <1>1, <2>1, <2>2, Recursion
<1>6. h = body(h)
  <2>1. \A n \in 1 .. N : h[n - 1] \in Tx
    BY <1>1, <1>5
  <2>2. \A n \in 1 .. N : step[n][h[n - 1]] = turn(h[n - 1], n)
    BY <2>1
  <2> HIDE DEF step, T
  <2>3. h = [n \in 0 .. N |-> IF n = 0 THEN base ELSE step[n][h[n - 1]]]
    BY <1>5 DEF Turns
  <2>4. \A n \in 0 .. N : (IF n = 0 THEN base ELSE step[n][h[n - 1]])
                          = (IF n = 0 THEN base ELSE turn(h[n - 1], n))
    BY <1>1, <2>2
  <2> QED
    BY <2>3, <2>4
<1>7. upTo = body(upTo)
  <2> HIDE DEF body
  <2> QED
    BY <1>6
<1> HIDE DEF upTo
<1>8. upTo[0] = base /\ \A n \in 1 .. N : upTo[n] = turn(upTo[n - 1], n)
  BY <1>1, <1>7
<1>9. 0 .. N \subseteq {n \in 0 .. N : upTo[n] \in Tx}
  <2> DEFINE S == {n \in 0 .. N : upTo[n] \in Tx}
  <2>1. 0 \in S
    BY <1>1, <1>2, <1>8
  <2>2. \A n \in 1 .. N : n - 1 \in S => n \in S
    BY <1>1, <1>3, <1>8
  <2> HIDE DEF S
  <2> QED
    BY <1>1, <2>1, <2>2, Upwards DEF S
<1>10. upTo \in [0 .. N -> Tx]
  BY <1>7, <1>9
<1> QED
  BY <1>4, <1>8, <1>10 DEF N, turn, base

\* One turn of claim_all leaves the entries below its own as they are.
LEMMA ClaimEntryTypes ==
  ASSUME now \in Nat, NEW tx \in Tx, NEW r \in Recipients, NEW i \in DOMAIN tx.vestings[r]
  PROVE  LET t == ClaimEntry(tx, r, i)
         IN  /\ t \in Tx /\ Len(t.vestings[r]) >= i - 1
             /\ \A j \in 1 .. i - 1 : t.vestings[r][j] = tx.vestings[r][j]
             /\ \A s \in Recipients : s # r => t.vestings[s] = tx.vestings[s]
<1> DEFINE V == tx.vestings
           v == V[r][i]
           claimable == VestedNow(v) - v.released
           t == ReleaseTx(tx, r, i, claimable)
           p == PayRecipient(tx, v, claimable)
           M == IF v.released + claimable >= v.total THEN SwapRemove(V[r], i)
                ELSE Put(V[r], i, Raised(v, claimable))
           n == Len(V[r])
<1>1. /\ V \in Lists /\ V[r] \in Seq(Schedule) /\ n \in Nat /\ DOMAIN V[r] = 1 .. n
      /\ v \in Schedule /\ i \in 1 .. n
  BY TxFields
<1>2. VestedNow(v) \in Nat /\ v.released \in Nat
  BY <1>1, VestedNowType
<1>3. CASE ~(claimable > 0) \/ now < v.win.cliff
  <2>1. ClaimEntry(tx, r, i) = tx \/ ClaimEntry(tx, r, i) = Panic(tx)
    BY <1>3 DEF ClaimEntry
  <2>2. Panic(tx) \in Tx /\ Panic(tx).vestings = V
    BY PanicIs
  <2> QED
    BY <1>1, <2>1, <2>2
<1>4. CASE claimable > 0 /\ ~(now < v.win.cliff)
  <2>1. claimable \in Nat
    BY <1>2, <1>4
  <2>2. t \in Tx /\ t.vestings = Put(V, r, M) /\ M \in Seq(Schedule) /\ Raised(v, claimable) \in Schedule
    <3> HIDE DEF claimable
    <3> QED
      BY <2>1, ReleaseTypes DEF OnlyLists
  <2>3. Len(M) >= i - 1 /\ \A j \in 1 .. i - 1 : M[j] = V[r][j]
    <3> HIDE DEF v, claimable
    <3> DEFINE s == V[r]
    <3>1. s \in Seq(Schedule) /\ i \in DOMAIN s /\ i \in 1 .. n /\ n = Len(s) /\ n \in Nat
          /\ Raised(v, claimable) \in Schedule
      BY <1>1, <2>2
    <3>2. M = SwapRemove(s, i) \/ M = Put(s, i, Raised(v, claimable))
      OBVIOUS
    <3> HIDE DEF s, M, n
    <3>3. CASE M = SwapRemove(s, i)
      <4>1. Len(M) = n - 1 /\ \A j \in 1 .. n - 1 : M[j] = IF j = i THEN s[n] ELSE s[j]
        BY <3>1, <3>3, SwapRemoved
      <4> QED
        BY <3>1, <4>1 DEF s
    <3>4. CASE M = Put(s, i, Raised(v, claimable))
      <4>1. M \in Seq(Schedule) /\ DOMAIN M = 1 .. n
            /\ \A j \in 1 .. n : M[j] = IF j = i THEN Raised(v, claimable) ELSE s[j]
        BY <3>1, <3>4, ReplacedAt DEF Put
      <4>2. Len(M) = n
        BY <3>1, <4>1
      <4> QED
        BY <3>1, <4>1, <4>2 DEF s
    <3> QED
      BY <3>2, <3>3, <3>4
  <2>4. ClaimEntry(tx, r, i) = t \/ ClaimEntry(tx, r, i) = Panic(tx)
    BY <1>4 DEF ClaimEntry
  <2>5. Panic(tx) \in Tx /\ Panic(tx).vestings = V
    BY PanicIs
  <2> HIDE DEF t, M
  <2>6. t.vestings[r] = M /\ \A s \in Recipients : s # r => t.vestings[s] = V[s]
    BY <1>1, <2>2 DEF Put, Lists
  <2> QED
    BY <1>1, <2>2, <2>3, <2>4, <2>5, <2>6
<1> QED
  BY <1>3, <1>4

\* The transactions that still have the first m entries r had in tx.
Keeping(tx, r, m) ==
    {t \in Tx : Len(t.vestings[r]) >= m /\ \A j \in 1 .. m : t.vestings[r][j] = tx.vestings[r][j]}

\* f holds the transactions of claim_all after 0, 1, .. turns.
ClaimTurns(f, tx, r) ==
    LET last == Len(tx.vestings[r])
    IN  /\ f[0] = tx
        /\ \A n \in 0 .. last : f[n] \in Keeping(tx, r, last - n)
        /\ \A n \in 1 .. last : f[n] = ClaimEntry(f[n - 1], r, last + 1 - n)
        /\ ClaimAllTx(r) = f[last]

\* The loop of claim_all (lib.rs), as the transactions after 0, 1, .. entries.
LEMMA ClaimAllTurns ==
  ASSUME now \in Nat, Begin \in Tx, NEW r \in Recipients
  PROVE  \E f : ClaimTurns(f, Migrate(Begin, r), r)
<1> DEFINE base == Migrate(Begin, r)
           N == Len(base.vestings[r])
           turn(t, n) == ClaimEntry(t, r, N + 1 - n)
           T == [n \in 0 .. N |-> Keeping(base, r, N - n)]
           step == [n \in 1 .. N |-> [t \in T[n - 1] |-> turn(t, n)]]
           body(f) == [n \in 0 .. N |-> IF n = 0 THEN base ELSE turn(f[n - 1], n)]
           upTo == CHOOSE f : f = body(f)
<1>0. base \in Tx
  BY MigrateIs
<1>1. N \in Nat
  <2> HIDE DEF base
  <2> QED
    BY <1>0, TxFields
<1>2. base \in T[0]
  <2> HIDE DEF base
  <2>1. T[0] = Keeping(base, r, N)
    BY <1>1
  <2> QED
    BY <1>0, <1>1, <2>1 DEF Keeping
<1>4. ClaimAllTx(r) = upTo[N]
  BY Zenon DEF ClaimAllTx
<1>3. \A n \in 1 .. N : \A t \in T[n - 1] : turn(t, n) \in T[n]
  <2> SUFFICES ASSUME NEW n \in 1 .. N, NEW t \in T[n - 1] PROVE turn(t, n) \in T[n]
    OBVIOUS
  <2> DEFINE i == N + 1 - n
  <2> HIDE DEF base, N
  <2>1. /\ T[n - 1] = Keeping(base, r, N - (n - 1)) /\ T[n] = Keeping(base, r, N - n)
        /\ n \in Nat /\ N - (n - 1) = i /\ N - n = i - 1 /\ i \in Nat /\ i >= 1
    BY <1>1
  <2>2. t \in Keeping(base, r, i)
    BY <2>1
  <2> HIDE DEF T, i
  <2>3. /\ t \in Tx /\ Len(t.vestings[r]) >= i
        /\ \A j \in 1 .. i : t.vestings[r][j] = base.vestings[r][j]
    BY <2>2 DEF Keeping
  <2>4. i \in DOMAIN t.vestings[r]
    BY <2>1, <2>3, TxFields
  <2> DEFINE u == ClaimEntry(t, r, i)
  <2>5. /\ u \in Tx /\ Len(u.vestings[r]) >= i - 1
        /\ \A j \in 1 .. i - 1 : u.vestings[r][j] = t.vestings[r][j]
    BY <2>3, <2>4, ClaimEntryTypes
  <2> HIDE DEF u
  <2>6. \A j \in 1 .. i - 1 : u.vestings[r][j] = base.vestings[r][j]
    BY <2>1, <2>3, <2>5
  <2>7. u \in Keeping(base, r, i - 1)
    BY <2>5, <2>6 DEF Keeping
  <2> QED
    BY <2>1, <2>7 DEF u, i
<1> HIDE DEF turn, base, N
<1>5. PICK h : Turns(h, N, base, step) /\ \A n \in 0 .. N : h[n] \in T[n]
  <2>2. \A n \in 1 .. N : step[n] \in [T[n - 1] -> T[n]]
    BY <1>1, <1>3
  <2> HIDE DEF T, step
  <2> QED
    BY <1>1, <1>2, <2>2, Recursion
<1>6. h = body(h)
  <2>1. \A n \in 1 .. N : h[n - 1] \in T[n - 1]
    BY <1>1, <1>5
  <2>2. \A n \in 1 .. N : step[n][h[n - 1]] = turn(h[n - 1], n)
    BY <2>1
  <2> HIDE DEF step, T
  <2>3. h = [n \in 0 .. N |-> IF n = 0 THEN base ELSE step[n][h[n - 1]]]
    BY <1>5 DEF Turns
  <2>4. \A n \in 0 .. N : (IF n = 0 THEN base ELSE step[n][h[n - 1]])
                          = (IF n = 0 THEN base ELSE turn(h[n - 1], n))
    BY <1>1, <2>2
  <2> QED
    BY <2>3, <2>4
<1>7. upTo = body(upTo)
  <2> HIDE DEF body
  <2> QED
    BY <1>6
<1> HIDE DEF upTo
<1>8. upTo[0] = base /\ \A n \in 1 .. N : upTo[n] = turn(upTo[n - 1], n)
  BY <1>1, <1>7
<1>9. 0 .. N \subseteq {n \in 0 .. N : upTo[n] \in T[n]}
  <2> DEFINE S == {n \in 0 .. N : upTo[n] \in T[n]}
  <2>1. 0 \in S
    BY <1>1, <1>2, <1>8
  <2>2. \A n \in 1 .. N : n - 1 \in S => n \in S
    <3> HIDE DEF T
    <3> QED
      BY <1>1, <1>3, <1>8
  <2> HIDE DEF S
  <2> QED
    BY <1>1, <2>1, <2>2, Upwards DEF S
<1>10. \A n \in 0 .. N : upTo[n] \in Keeping(base, r, N - n)
  BY <1>9
<1>11. ClaimTurns(upTo, base, r)
  BY <1>4, <1>8, <1>10 DEF ClaimTurns, N, turn
<1> QED
  BY <1>11 DEF base

-----------------------------------------------------------------------------
(* Books after whole batches *)

\* What can be claimed of a schedule of the book now, and what has not vested.
Due(e) == Positive(VestedNow(e) - e.released)
Unvested(e) == e.total - VestedNow(e)

\* The book, and what recipients and senders were paid, when everything due on the
\* schedules of S was released, and when those schedules were revoked.
Released(b, S) ==
    [id \in DOMAIN b \ {x \in S : b[x].released + Due(b[x]) >= b[x].total} |->
        IF id \in S THEN Raised(b[id], Due(b[id])) ELSE b[id]]
Revoked(b, S) == [id \in DOMAIN b \ S |-> b[id]]
PaidDue(b, S, R) == [id \in Ids |-> IF id \in S THEN R[id] + Due(b[id]) ELSE R[id]]
PaidBack(b, S, T) == [id \in Ids |-> IF id \in S THEN T[id] + Unvested(b[id]) ELSE T[id]]

\* What is due, and what has not vested, lies within what was not released.
LEMMA DueType ==
  ASSUME now \in Nat, NEW e \in Shape
  PROVE  /\ Due(e) \in Nat /\ Unvested(e) \in Nat /\ VestedNow(e) \in Nat
         /\ e.total \in Nat /\ e.released \in Nat /\ VestedNow(e) <= e.total
         /\ e.released <= e.total => e.released + Due(e) <= e.total
<1>1. e.total \in Nat /\ e.released \in Nat /\ e.win \in Window
  BY DEF Shape
<1>2. VestedNow(e) \in Nat /\ VestedNow(e) <= e.total
  BY <1>1, VestedBounds DEF VestedNow
<1> QED
  BY <1>1, <1>2 DEF Due, Unvested, Positive

\* One schedule more.
LEMMA OneMore ==
  ASSUME now \in Nat, NEW b, IsBook(b), NEW S, S \subseteq DOMAIN b, NEW id \in DOMAIN b, id \notin S,
         NEW R \in [Ids -> Nat]
  PROVE  /\ AfterRelease(Released(b, S), id, Due(b[id])) = Released(b, S \cup {id})
         /\ Without(Revoked(b, S), id) = Revoked(b, S \cup {id})
         /\ Gained(PaidDue(b, S, R), id, Due(b[id])) = PaidDue(b, S \cup {id}, R)
         /\ Gained(PaidBack(b, S, R), id, Unvested(b[id])) = PaidBack(b, S \cup {id}, R)
         /\ id \in DOMAIN Released(b, S) /\ Released(b, S)[id] = b[id]
         /\ id \in DOMAIN Revoked(b, S) /\ Revoked(b, S)[id] = b[id]
<1> DEFINE d == Due(b[id])
           c == Released(b, S)
           u == S \cup {id}
           gone(X) == {x \in X : b[x].released + Due(b[x]) >= b[x].total}
<1>1. id \in Ids
  BY DEF IsBook
<1>2. /\ id \in DOMAIN c /\ c[id] = b[id]
      /\ DOMAIN c = DOMAIN b \ gone(S)
      /\ \A x \in DOMAIN c : c[x] = IF x \in S THEN Raised(b[x], Due(b[x])) ELSE b[x]
  BY DEF Released
<1>3. AfterRelease(c, id, d) = Released(b, u)
  <2> DEFINE f == Released(b, u)
  <2>1. /\ DOMAIN f = DOMAIN b \ gone(u)
        /\ f = [x \in DOMAIN b \ gone(u) |-> IF x \in u THEN Raised(b[x], Due(b[x])) ELSE b[x]]
    BY DEF Released
  <2>2. c = [x \in DOMAIN b \ gone(S) |-> IF x \in S THEN Raised(b[x], Due(b[x])) ELSE b[x]]
    BY DEF Released
  <2> HIDE DEF c, f
  <2>3. CASE b[id].released + d >= b[id].total
    <3>1. gone(u) = gone(S) \cup {id}
      BY <2>3
    <3>2. AfterRelease(c, id, d) = [x \in DOMAIN c \ {id} |-> c[x]]
      BY <1>2, <2>3 DEF AfterRelease, Without
    <3>3. DOMAIN c \ {id} = DOMAIN b \ gone(u)
      BY <1>2, <3>1
    <3>4. \A x \in DOMAIN c \ {id} : c[x] = IF x \in u THEN Raised(b[x], Due(b[x])) ELSE b[x]
      BY <1>2
    <3> HIDE DEF gone
    <3> QED
      BY <2>1, <3>2, <3>3, <3>4 DEF f
  <2>4. CASE ~(b[id].released + d >= b[id].total)
    <3>1. gone(u) = gone(S)
      BY <2>4
    <3>2. AfterRelease(c, id, d) = [x \in DOMAIN c |-> IF x = id THEN Raised(b[id], d) ELSE c[x]]
      BY <1>2, <2>2, <2>4 DEF AfterRelease, Put
    <3>3. DOMAIN c = DOMAIN b \ gone(u)
      BY <1>2, <3>1
    <3>4. \A x \in DOMAIN c : (IF x = id THEN Raised(b[id], d) ELSE c[x])
                              = IF x \in u THEN Raised(b[x], Due(b[x])) ELSE b[x]
      BY <1>2
    <3> HIDE DEF gone
    <3> QED
      BY <2>1, <3>2, <3>3, <3>4 DEF f
  <2> QED
    BY <2>3, <2>4 DEF f
<1>4. Without(Revoked(b, S), id) = Revoked(b, u)
  BY DEF Without, Revoked
<1>5. Gained(PaidDue(b, S, R), id, d) = PaidDue(b, u, R)
  BY <1>1 DEF PaidDue, Gained
<1>6. Gained(PaidBack(b, S, R), id, Unvested(b[id])) = PaidBack(b, u, R)
  BY <1>1 DEF PaidBack, Gained
<1>7. id \in DOMAIN Revoked(b, S) /\ Revoked(b, S)[id] = b[id]
  BY DEF Revoked
<1> QED
  BY <1>2, <1>3, <1>4, <1>5, <1>6, <1>7

\* A turn of claim_all releases what is due on its entry.
LEMMA ClaimEntrySound ==
  ASSUME now \in Nat, NEW b, NEW tx, Sound(b, tx), NEW r \in Recipients, tx.legacy[r] = <<>>,
         NEW i \in DOMAIN tx.vestings[r], ClaimEntry(tx, r, i).ok
  PROVE  LET t == ClaimEntry(tx, r, i)
             id == tx.vestings[r][i].id
             d == Due(b[id])
         IN  /\ tx.ok /\ t.legacy = tx.legacy /\ t.funded = tx.funded /\ t.toSender = tx.toSender
             /\ id \in DOMAIN b
             /\ t.toRecipient = Gained(tx.toRecipient, id, d)
             /\ Sound(IF d > 0 THEN AfterRelease(b, id, d) ELSE b, t)
<1> DEFINE v == tx.vestings[r][i]
           id == v.id
           claimable == VestedNow(v) - v.released
           t == ClaimEntry(tx, r, i)
           d == Due(b[id])
<1>0. tx \in Tx
  BY DEF Sound
<1>1. /\ v \in Schedule /\ id \in DOMAIN b /\ id \in Ids
      /\ b[id].total = v.total /\ b[id].released = v.released /\ b[id].win = v.win
      /\ v.total \in Nat /\ v.released \in Nat /\ v.released <= v.total
  BY InBook
<1>2. VestedNow(v) \in Nat /\ VestedNow(v) <= v.total /\ VestedNow(b[id]) = VestedNow(v)
  <2>1. VestedNow(v) \in Nat /\ VestedNow(v) <= v.total
    BY <1>1, VestedNowType
  <2> HIDE DEF v
  <2> QED
    BY <1>1, <2>1 DEF VestedNow
<1>3. d = Positive(claimable) /\ claimable \in Int
  BY <1>1, <1>2 DEF Due
<1> HIDE DEF d
<1>4. CASE claimable > 0 /\ ~(now < v.win.cliff)
  <2>1. ~OverflowsNow(v)
    <3> SUFFICES ASSUME OverflowsNow(v) PROVE FALSE
      OBVIOUS
    <3>1. ClaimEntry(tx, r, i) = Panic(tx)
      BY <1>4 DEF ClaimEntry
    <3> QED
      BY <1>0, <3>1, PanicIs
  <2>2. t = ReleaseTx(tx, r, i, claimable)
    BY <1>4, <2>1 DEF ClaimEntry
  <2>3. claimable \in Nat \ {0} /\ v.released + claimable <= v.total /\ d = claimable /\ d > 0
    <3> HIDE DEF v
    <3> QED
      BY <1>1, <1>2, <1>3, <1>4 DEF Positive
  <2> HIDE DEF claimable
  <2> DEFINE u == ReleaseTx(tx, r, i, claimable)
  <2>4. u.ok /\ u = t
    BY <2>2
  <2> HIDE DEF t
  <2>5. /\ tx.ok /\ u.toRecipient = Gained(tx.toRecipient, id, claimable)
        /\ u.toSender = tx.toSender /\ u.funded = tx.funded
        /\ u.legacy = tx.legacy /\ Sound(AfterRelease(b, id, claimable), u)
    BY <2>3, <2>4, ReleaseSound
  <2> HIDE DEF u, v
  <2> QED
    BY <1>1, <2>3, <2>4, <2>5 DEF t, v, d
<1>5. CASE ~(claimable > 0 /\ ~(now < v.win.cliff))
  <2>1. d = 0
    <3>1. CASE now < v.win.cliff
      <4>1. VestedNow(v) = 0
        BY <3>1 DEF VestedNow, Vested
      <4> QED
        BY <1>1, <1>3, <4>1 DEF Positive
    <3>2. CASE ~(claimable > 0)
      BY <1>3, <3>2 DEF Positive
    <3> QED
      BY <1>5, <3>1, <3>2
  <2>2. t = tx \/ t = Panic(tx)
    BY <1>5 DEF ClaimEntry
  <2>3. t = tx
    BY <1>0, <2>2, PanicIs
  <2>4. Gained(tx.toRecipient, id, 0) = tx.toRecipient
    <3> DEFINE R == tx.toRecipient
    <3>1. R \in [Ids -> Nat]
      BY <1>0, TxFields
    <3> HIDE DEF R, id
    <3> QED
      BY <1>1, <3>1, GainedNothing DEF R
  <2>5. tx.ok
    BY <2>3
  <2> HIDE DEF t, id
  <2>6. ~(d > 0)
    BY <2>1
  <2> QED
    BY <1>1, <2>1, <2>3, <2>4, <2>5, <2>6 DEF t, id, d
<1> QED
  BY <1>4, <1>5

\* Releasing or revoking no schedule changes nothing.
LEMMA NoneYet ==
  ASSUME NEW b, IsBook(b), NEW R \in [Ids -> Nat]
  PROVE  /\ Released(b, {}) = b /\ Revoked(b, {}) = b
         /\ PaidDue(b, {}, R) = R /\ PaidBack(b, {}, R) = R
<1>1. b = [id \in DOMAIN b |-> b[id]]
  BY DEF IsBook
<1>2. Released(b, {}) = b
  <2>1. {x \in {} : b[x].released + Due(b[x]) >= b[x].total} = {}
    OBVIOUS
  <2>2. Released(b, {}) = [id \in DOMAIN b |-> b[id]]
    BY <2>1 DEF Released
  <2> QED
    BY <1>1, <2>2
<1>3. Revoked(b, {}) = b
  BY <1>1 DEF Revoked
<1>4. PaidDue(b, {}, R) = R /\ PaidBack(b, {}, R) = R
  BY DEF PaidDue, PaidBack
<1> QED
  BY <1>2, <1>3, <1>4

\* The ids in a list from position i on, and those of them on which something is due.
IdsFrom(list, i) == {list[j].id : j \in i .. Len(list)}
DueIn(b, I) == {id \in I : Due(b[id]) > 0}

\* After the entries of r from i up, claim_all has released what was due on them.
Visited(b, tx, r, i, t) ==
    LET S == DueIn(b, IdsFrom(tx.vestings[r], i))
    IN  /\ t.legacy = tx.legacy /\ t.funded = tx.funded /\ t.toSender = tx.toSender
        /\ t.toRecipient = PaidDue(b, S, tx.toRecipient)
        /\ Sound(Released(b, S), t)

\* Before its first turn claim_all has visited nothing.
LEMMA VisitedNone ==
  ASSUME NEW b, NEW tx, Sound(b, tx), NEW r \in Recipients
  PROVE  Visited(b, tx, r, Len(tx.vestings[r]) + 1, tx)
<1> DEFINE n == Len(tx.vestings[r])
           S == DueIn(b, IdsFrom(tx.vestings[r], n + 1))
<1>1. tx \in Tx /\ IsBook(b)
  BY DEF Sound
<1>2. n \in Nat /\ tx.toRecipient \in [Ids -> Nat]
  BY <1>1, TxFields
<1>3. S = {}
  BY <1>2 DEF DueIn, IdsFrom
<1> HIDE DEF S
<1>4. Released(b, S) = b /\ PaidDue(b, S, tx.toRecipient) = tx.toRecipient
  BY <1>1, <1>2, <1>3, NoneYet
<1> QED
  BY <1>4 DEF Visited, S

\* A turn of claim_all visits one entry more; those below it are where they were.
LEMMA VisitedNext ==
  ASSUME now \in Nat, NEW b, NEW tx, Sound(b, tx), NEW r \in Recipients, tx.legacy[r] = <<>>,
         NEW i \in DOMAIN tx.vestings[r], NEW t \in Keeping(tx, r, i),
         ClaimEntry(t, r, i).ok, t.ok => Visited(b, tx, r, i + 1, t)
  PROVE  Visited(b, tx, r, i, ClaimEntry(t, r, i))
<1> DEFINE list == tx.vestings[r]
           id == list[i].id
           S == DueIn(b, IdsFrom(list, i + 1))
           S2 == DueIn(b, IdsFrom(list, i))
           u == ClaimEntry(t, r, i)
           c == Released(b, S)
           d == Due(b[id])
           R == tx.toRecipient
<1>1. /\ tx \in Tx /\ IsBook(b) /\ t \in Tx /\ u.ok
      /\ Describes(b, tx.vestings, tx.legacy)
  BY DEF Sound, Keeping
<1>2. /\ list \in Seq(Schedule) /\ Len(list) \in Nat /\ DOMAIN list = 1 .. Len(list)
      /\ R \in [Ids -> Nat] /\ i \in 1 .. Len(list)
  BY <1>1, TxFields
<1>3. i \in DOMAIN t.vestings[r] /\ t.vestings[r][i] = list[i]
  <2>1. Len(t.vestings[r]) >= i /\ \A j \in 1 .. i : t.vestings[r][j] = list[j]
    BY DEF Keeping
  <2>2. DOMAIN t.vestings[r] = 1 .. Len(t.vestings[r]) /\ Len(t.vestings[r]) \in Nat
    BY <1>1, TxFields
  <2> QED
    BY <1>2, <2>1, <2>2
<1>4. t.ok
  <2> SUFFICES ASSUME ~t.ok PROVE FALSE
    OBVIOUS
  <2> DEFINE p == PayRecipient(t, t.vestings[r][i], VestedNow(t.vestings[r][i]) - t.vestings[r][i].released)
             a == VestedNow(t.vestings[r][i]) - t.vestings[r][i].released
  <2>1. t.vestings[r][i] \in Schedule
    BY <1>1, <1>3, TxFields
  <2>2. a \in Int
    BY <2>1, VestedNowType
  <2>3. ~p.ok
    <3> HIDE DEF a
    <3>1. PayRecipient(t, t.vestings[r][i], a).ok => t.ok
      BY <1>1, <2>1, <2>2, PaysRecipient
    <3> QED
      BY <3>1 DEF a
  <2>4. a > 0 => ~ReleaseTx(t, r, i, a).ok
    <3> SUFFICES ASSUME a > 0 PROVE ~ReleaseTx(t, r, i, a).ok
      OBVIOUS
    <3>1. a \in Nat
      BY <2>2
    <3> HIDE DEF a
    <3>2. OnlyLists(PayRecipient(t, t.vestings[r][i], a), ReleaseTx(t, r, i, a),
             Put(t.vestings, r, IF t.vestings[r][i].released + a >= t.vestings[r][i].total
                                THEN SwapRemove(t.vestings[r], i)
                                ELSE Put(t.vestings[r], i, Raised(t.vestings[r][i], a))))
      BY <1>1, <1>3, <3>1, ReleaseTypes
    <3> QED
      BY <2>3, <3>2 DEF OnlyLists, a
  <2>5. u = t \/ u = Panic(t) \/ (a > 0 /\ u = ReleaseTx(t, r, i, a))
    BY DEF ClaimEntry
  <2> QED
    BY <1>1, <2>4, <2>5, PanicIs
<1>5. /\ t.legacy = tx.legacy /\ t.funded = tx.funded /\ t.toSender = tx.toSender
      /\ t.toRecipient = PaidDue(b, S, R) /\ Sound(c, t)
  BY <1>4 DEF Visited
<1>6. id \in DOMAIN b /\ S \subseteq DOMAIN b
  BY <1>1, <1>2 DEF DueIn, IdsFrom, Describes
<1>7. id \notin S
  <2>1. \A j \in i + 1 .. Len(list) : list[j].id # id
    BY <1>1, <1>2 DEF Describes
  <2> QED
    BY <2>1 DEF DueIn, IdsFrom
<1>8. S2 = IF d > 0 THEN S \cup {id} ELSE S
  <2>1. i .. Len(list) = {i} \cup (i + 1 .. Len(list))
    BY <1>2
  <2>2. IdsFrom(list, i) = IdsFrom(list, i + 1) \cup {id}
    BY <2>1 DEF IdsFrom
  <2> QED
    BY <2>2 DEF DueIn
<1> HIDE DEF S, S2, id, d
<1>9. /\ AfterRelease(c, id, d) = Released(b, S \cup {id}) /\ c[id] = b[id]
      /\ Gained(PaidDue(b, S, R), id, d) = PaidDue(b, S \cup {id}, R)
  <2>1. R \in [Ids -> Nat]
    BY <1>2
  <2> HIDE DEF R, list
  <2> QED
    BY <1>1, <1>6, <1>7, <2>1, OneMore DEF d
<1> HIDE DEF c, u, R
<1>10. /\ u.legacy = t.legacy /\ u.funded = t.funded /\ u.toSender = t.toSender
       /\ u.toRecipient = Gained(t.toRecipient, id, d)
       /\ Sound(IF d > 0 THEN AfterRelease(c, id, d) ELSE c, u)
  <2>1. t.vestings[r][i].id = id /\ Due(c[id]) = d /\ ClaimEntry(t, r, i).ok /\ t.legacy[r] = <<>>
    BY <1>3, <1>5, <1>9 DEF id, d
  <2> DEFINE k == t.vestings[r][i].id
             w == ClaimEntry(t, r, i)
  <2>2. /\ w.legacy = t.legacy /\ w.funded = t.funded /\ w.toSender = t.toSender
        /\ w.toRecipient = Gained(t.toRecipient, k, Due(c[k]))
        /\ Sound(IF Due(c[k]) > 0 THEN AfterRelease(c, k, Due(c[k])) ELSE c, w)
    BY <1>3, <1>5, <2>1, ClaimEntrySound
  <2>3. k = id /\ w = u
    BY <2>1 DEF u
  <2> HIDE DEF k, w
  <2> QED
    BY <2>1, <2>2, <2>3
<1>11. CASE d > 0
  BY <1>5, <1>8, <1>9, <1>10, <1>11 DEF Visited, S2, R, u, list
<1>12. CASE ~(d > 0)
  <2>1. d = 0 /\ id \in Ids
    <3>1. b[id] \in Shape /\ id \in Ids
      BY <1>1, <1>6, BookAt
    <3> QED
      BY <1>12, <3>1, DueType DEF d
  <2>2. Gained(PaidDue(b, S, R), id, d) = PaidDue(b, S, R)
    <3>1. t.toRecipient \in [Ids -> Nat]
      BY <1>1, TxFields
    <3> QED
      BY <1>5, <2>1, <3>1, GainedNothing
  <2> QED
    BY <1>5, <1>8, <1>10, <1>12, <2>2 DEF Visited, S2, R, u, list, c
<1> QED
  BY <1>11, <1>12

\* The open schedules of a recipient on which something is due.
DueTo(b, r) == {id \in DOMAIN b : b[id].owner = r /\ Due(b[id]) > 0}

\* claim_all releases everything due to the recipient.
LEMMA ClaimAllSound ==
  ASSUME now \in Nat, NEW b, Sound(b, Begin), NEW r \in Recipients, ClaimAllTx(r).ok
  PROVE  LET t == ClaimAllTx(r)
         IN  /\ t.funded = funded /\ t.toSender = toSender
             /\ t.toRecipient = PaidDue(b, DueTo(b, r), toRecipient)
             /\ Sound(Released(b, DueTo(b, r)), t)
<1> DEFINE tx == Migrate(Begin, r)
           last == Len(tx.vestings[r])
           list == tx.vestings[r]
<1>1. Begin \in Tx
  BY DEF Sound
<1>2. tx \in Tx /\ SameMoney(Begin, tx) /\ tx.legacy[r] = <<>> /\ Sound(b, tx)
  BY <1>1, MigrateIs
<1>3. PICK f : /\ f[0] = tx
               /\ \A n \in 0 .. last : f[n] \in Keeping(tx, r, last - n)
               /\ \A n \in 1 .. last : f[n] = ClaimEntry(f[n - 1], r, last + 1 - n)
               /\ ClaimAllTx(r) = f[last]
  <2>1. PICK f : ClaimTurns(f, tx, r)
    BY <1>1, ClaimAllTurns
  <2> HIDE DEF tx
  <2> QED
    BY <2>1 DEF ClaimTurns
<1> HIDE DEF tx
<1>4. last \in Nat /\ DOMAIN list = 1 .. last
  BY <1>2, TxFields
<1> HIDE DEF last
<1> DEFINE S == {n \in 0 .. last : f[n].ok => Visited(b, tx, r, last + 1 - n, f[n])}
<1>5. 0 \in S
  <2>1. last + 1 - 0 = Len(tx.vestings[r]) + 1
    BY <1>4 DEF last
  <2> QED
    BY <1>2, <1>3, <1>4, <2>1, VisitedNone
<1>6. ASSUME NEW n \in 1 .. last, n - 1 \in S PROVE n \in S
  <2> DEFINE i == last + 1 - n
             t == f[n - 1]
  <2>1. /\ n \in 0 .. last /\ n - 1 \in 0 .. last
        /\ last - (n - 1) = i /\ i + 1 = last + 1 - (n - 1) /\ i \in 1 .. last
    BY <1>4
  <2>2. t \in Keeping(tx, r, i) /\ i \in DOMAIN tx.vestings[r] /\ f[n] = ClaimEntry(t, r, i)
    BY <1>3, <1>4, <2>1
  <2>3. t.ok => Visited(b, tx, r, i + 1, t)
    BY <1>6, <2>1
  <2> HIDE DEF i, t, S
  <2>4. f[n].ok => Visited(b, tx, r, i, f[n])
    BY <1>2, <2>2, <2>3, VisitedNext
  <2> QED
    BY <2>1, <2>4 DEF S, i
<1> HIDE DEF S
<1>7. last \in S
  <2>1. 0 .. last \subseteq S
    BY <1>4, <1>5, <1>6, Upwards
  <2> QED
    BY <1>4, <2>1
<1>8. Visited(b, tx, r, 1, ClaimAllTx(r))
  BY <1>3, <1>4, <1>7 DEF S
<1>9. DueIn(b, IdsFrom(tx.vestings[r], 1)) = DueTo(b, r)
  <2>1. Describes(b, tx.vestings, tx.legacy)
    BY <1>2 DEF Sound
  <2>2. 1 .. Len(tx.vestings[r]) = DOMAIN tx.vestings[r]
    BY <1>4 DEF last
  <2>3. IdsFrom(tx.vestings[r], 1) = {id \in DOMAIN b : b[id].owner = r}
    <3>0. \A s, v : Shown(s, v).owner = s
      BY DEF Shown
    <3>1. ASSUME NEW j \in DOMAIN list
          PROVE  list[j].id \in DOMAIN b /\ b[list[j].id].owner = r
      BY <2>1, <3>0 DEF Describes
    <3>2. ASSUME NEW id \in DOMAIN b, b[id].owner = r PROVE \E j \in DOMAIN list : list[j].id = id
      <4>1. PICK s \in Recipients : \/ \E j \in DOMAIN tx.vestings[s] : tx.vestings[s][j].id = id
                                    \/ \E j \in DOMAIN tx.legacy[s] : tx.legacy[s][j].id = id
        BY <2>1 DEF Describes
      <4>2. b[id].owner = s
        BY <2>1, <3>0, <4>1 DEF Describes
      <4> QED
        BY <1>2, <3>2, <4>1, <4>2
    <3> QED
      BY <2>2, <3>1, <3>2 DEF IdsFrom
  <2> QED
    BY <2>3 DEF DueIn, DueTo
<1>10. Begin.funded = funded /\ Begin.toSender = toSender /\ Begin.toRecipient = toRecipient
  BY DEF Begin
<1> QED
  BY <1>2, <1>8, <1>9, <1>10 DEF Visited, SameMoney

\* Requests of a batch may only name schedules of their caller that have not ended.
MayRevoke(b, caller, id) == b[id].sender = caller /\ now < b[id].win.end

\* After the first turns, some of the caller's schedules are closed.
SomeRevoked(b, caller, tx, t) ==
    \E S \in SUBSET DOMAIN b :
        /\ \A id \in S : MayRevoke(b, caller, id)
        /\ t.funded = tx.funded
        /\ t.toSender = PaidBack(b, S, tx.toSender)
        /\ t.toRecipient = PaidDue(b, S, tx.toRecipient)
        /\ Sound(Revoked(b, S), t)

\* A revocation pays both sides exactly their parts of the closed schedule.
LEMMA RevokePays ==
  ASSUME now \in Nat, NEW b, NEW tx, Sound(b, tx), NEW caller \in Senders, NEW q \in Request,
         tx.legacy[q.recipient] = <<>>, Revocable(tx, caller, q), RevokeEntry(tx, q).ok
  PROVE  LET t == RevokeEntry(tx, q)
             id == tx.vestings[q.recipient][q.index].id
         IN  /\ tx.ok /\ id \in DOMAIN b /\ MayRevoke(b, caller, id)
             /\ t.funded = tx.funded /\ t.legacy = tx.legacy
             /\ t.toSender = Gained(tx.toSender, id, Unvested(b[id]))
             /\ t.toRecipient = Gained(tx.toRecipient, id, Due(b[id]))
             /\ Sound(Without(b, id), t)
<1> DEFINE v == tx.vestings[q.recipient][q.index]
           id == v.id
           t == RevokeEntry(tx, q)
<1>1. /\ tx \in Tx /\ q.recipient \in Recipients
      /\ q.index \in DOMAIN tx.vestings[q.recipient] /\ now < v.win.end
      /\ tx.batchInfo[v.batch] = caller
  BY DEF Sound, Revocable, Request
<1>2. /\ v \in Schedule /\ id \in DOMAIN b /\ b[id].sender = v.sender
      /\ b[id].total = v.total /\ b[id].released = v.released /\ b[id].win = v.win
  BY <1>1, InBook
<1>3. v.sender = caller
  BY <1>1 DEF Sound, Named
<1>4. VestedNow(b[id]) = VestedNow(v)
  <2> HIDE DEF v
  <2> QED
    BY <1>2 DEF VestedNow
<1>5. /\ tx.ok /\ t.funded = tx.funded /\ t.legacy = tx.legacy
      /\ t.toSender = Gained(tx.toSender, id, v.total - VestedNow(v))
      /\ t.toRecipient = Gained(tx.toRecipient, id, Positive(VestedNow(v) - v.released))
  <2>1. /\ t.legacy = tx.legacy /\ t.funded = tx.funded
        /\ t.ok => /\ tx.ok
                   /\ t.toRecipient = Gained(tx.toRecipient, v.id, Positive(VestedNow(v) - v.released))
                   /\ t.toSender = Gained(tx.toSender, v.id, v.total - VestedNow(v))
    BY <1>1, RevokeIs
  <2> QED
    BY <2>1
<1>6. Sound(Without(b, id), t)
  BY <1>1, RevokeSound
<1> HIDE DEF v, t
<1> QED
  BY <1>2, <1>3, <1>4, <1>5, <1>6, <1>1 DEF MayRevoke, Unvested, Due, v, t

\* Before its first turn a batch revocation has closed nothing.
LEMMA NoneRevoked ==
  ASSUME NEW b, NEW tx, Sound(b, tx), NEW caller \in Senders
  PROVE  SomeRevoked(b, caller, tx, tx)
<1>1. tx \in Tx /\ IsBook(b)
  BY DEF Sound
<1>2. tx.toRecipient \in [Ids -> Nat] /\ tx.toSender \in [Ids -> Nat]
  BY <1>1, TxFields
<1>3. /\ Revoked(b, {}) = b /\ PaidDue(b, {}, tx.toRecipient) = tx.toRecipient
      /\ PaidBack(b, {}, tx.toSender) = tx.toSender
  BY <1>1, <1>2, NoneYet
<1>4. {} \in SUBSET DOMAIN b
  OBVIOUS
<1> QED
  BY <1>3, <1>4 DEF SomeRevoked

\* A turn of a batch revocation closes at most one schedule more, of the caller's.
LEMMA RevokedNext ==
  ASSUME now \in Nat, NEW b, NEW tx, Sound(b, tx), NEW caller \in Senders, NEW q \in Request,
         NEW t \in Tx, SomeRevoked(b, caller, tx, t)
  PROVE  LET m == Migrate(t, q.recipient)
         IN  /\ m.ok = t.ok /\ m \in Tx
             /\ SomeRevoked(b, caller, tx, m)
             /\ Revocable(m, caller, q) /\ RevokeEntry(m, q).ok =>
                    m.ok /\ SomeRevoked(b, caller, tx, RevokeEntry(m, q))
<1> DEFINE m == Migrate(t, q.recipient)
<1>1. q.recipient \in Recipients
  BY DEF Request
<1>2. PICK S \in SUBSET DOMAIN b :
         /\ \A id \in S : MayRevoke(b, caller, id)
         /\ t.funded = tx.funded
         /\ t.toSender = PaidBack(b, S, tx.toSender)
         /\ t.toRecipient = PaidDue(b, S, tx.toRecipient)
         /\ Sound(Revoked(b, S), t)
  BY DEF SomeRevoked
<1>3. /\ m \in Tx /\ m.ok = t.ok /\ SameMoney(t, m) /\ m.legacy[q.recipient] = <<>>
      /\ Sound(Revoked(b, S), m)
  BY <1>1, <1>2, MigrateIs
<1> HIDE DEF m
<1>4. SomeRevoked(b, caller, tx, m)
  BY <1>2, <1>3 DEF SomeRevoked, SameMoney
<1>5. ASSUME Revocable(m, caller, q), RevokeEntry(m, q).ok
      PROVE  m.ok /\ SomeRevoked(b, caller, tx, RevokeEntry(m, q))
  <2> DEFINE c == Revoked(b, S)
             u == RevokeEntry(m, q)
             id == m.vestings[q.recipient][q.index].id
             S2 == S \cup {id}
             R == tx.toRecipient
             T == tx.toSender
  <2> HIDE DEF c
  <2>1. /\ m.ok /\ id \in DOMAIN c /\ MayRevoke(c, caller, id)
        /\ u.funded = m.funded
        /\ u.toSender = Gained(m.toSender, id, Unvested(c[id]))
        /\ u.toRecipient = Gained(m.toRecipient, id, Due(c[id]))
        /\ Sound(Without(c, id), u)
    BY <1>3, <1>5, RevokePays DEF c
  <2> HIDE DEF u, id
  <2>2. id \in DOMAIN b /\ id \notin S /\ c[id] = b[id]
    BY <2>1 DEF c, Revoked
  <2>3. tx \in Tx /\ IsBook(b) /\ S \subseteq DOMAIN b
    BY DEF Sound
  <2>4. R \in [Ids -> Nat] /\ T \in [Ids -> Nat]
    BY <2>3, TxFields
  <2> HIDE DEF R, T
  <2>5. /\ Without(Revoked(b, S), id) = Revoked(b, S2)
        /\ Gained(PaidDue(b, S, R), id, Due(b[id])) = PaidDue(b, S2, R)
        /\ Gained(PaidBack(b, S, T), id, Unvested(b[id])) = PaidBack(b, S2, T)
    <3>1. Without(Revoked(b, S), id) = Revoked(b, S \cup {id})
      BY <2>2, <2>3, <2>4, OneMore
    <3>2. Gained(PaidDue(b, S, R), id, Due(b[id])) = PaidDue(b, S \cup {id}, R)
      BY <2>2, <2>3, <2>4, OneMore
    <3>3. Gained(PaidBack(b, S, T), id, Unvested(b[id])) = PaidBack(b, S \cup {id}, T)
      BY <2>2, <2>3, <2>4, OneMore
    <3> QED
      BY <3>1, <3>2, <3>3
  <2>6. \A x \in S2 : MayRevoke(b, caller, x)
    BY <1>2, <2>1, <2>2 DEF MayRevoke
  <2>7. u.funded = tx.funded /\ m.toSender = PaidBack(b, S, T) /\ m.toRecipient = PaidDue(b, S, R)
    BY <1>2, <1>3, <2>1 DEF SameMoney, R, T
  <2>8. S2 \in SUBSET DOMAIN b
    BY <2>2
  <2> HIDE DEF S2
  <2>9. SomeRevoked(b, caller, tx, u)
    BY <2>1, <2>2, <2>5, <2>6, <2>7, <2>8 DEF SomeRevoked, R, T, c
  <2> QED
    BY <2>1, <2>9 DEF u
<1> QED
  BY <1>3, <1>4, <1>5 DEF m

\* batch_revoke (lib.rs) closes some schedules of its caller's, paid out in full.
LEMMA BatchRevokeSound ==
  ASSUME now \in Nat, NEW b, Sound(b, Begin), NEW caller \in Senders,
         NEW reqs \in Batches(Request), BatchRevokeTx(caller, reqs).ok
  PROVE  SomeRevoked(b, caller, Begin, BatchRevokeTx(caller, reqs))
<1> DEFINE N == Len(reqs)
<1>1. Begin \in Tx
  BY DEF Sound
<1>2. N \in Nat /\ \A n \in 1 .. N : reqs[n] \in Request
  BY BatchType
<1>3. PICK f \in [0 .. N -> Tx] :
         /\ f[0] = Begin
         /\ \A n \in 1 .. N : f[n] = RevokeIfAllowed(f[n - 1], caller, reqs[n])
         /\ BatchRevokeTx(caller, reqs) = f[N]
  BY <1>1, BatchRevokeTurns
<1> HIDE DEF N
<1> DEFINE S == {n \in 0 .. N : f[n].ok => SomeRevoked(b, caller, Begin, f[n])}
<1>4. 0 \in S
  BY <1>2, <1>3, NoneRevoked
<1>5. ASSUME NEW n \in 1 .. N, n - 1 \in S PROVE n \in S
  <2> DEFINE t == f[n - 1]
             q == reqs[n]
             m == Migrate(t, q.recipient)
  <2>1. t \in Tx /\ q \in Request /\ n \in 0 .. N /\ f[n] = RevokeIfAllowed(t, caller, q)
    BY <1>2, <1>3
  <2>2. t.ok => SomeRevoked(b, caller, Begin, t)
    BY <1>5
  <2> HIDE DEF t, q, S
  <2>3. f[n] = IF Revocable(m, caller, q) THEN RevokeEntry(m, q) ELSE m
    BY <2>1 DEF RevokeIfAllowed
  <2>4. q.recipient \in Recipients
    BY <2>1 DEF Request
  <2>5. m \in Tx /\ m.ok = t.ok
    BY <2>1, <2>4, MigrateIs
  <2>6. ASSUME f[n].ok PROVE SomeRevoked(b, caller, Begin, f[n])
    <3>1. Revocable(m, caller, q) => (RevokeEntry(m, q).ok => m.ok)
      <4> HIDE DEF m
      <4> QED
        BY <2>4, <2>5, RevokeIs DEF Revocable
    <3>2. m.ok
      BY <2>3, <2>5, <2>6, <3>1, PanicIs
    <3>3. SomeRevoked(b, caller, Begin, t)
      BY <2>2, <2>5, <3>2
    <3>4. /\ SomeRevoked(b, caller, Begin, m)
          /\ Revocable(m, caller, q) /\ RevokeEntry(m, q).ok =>
                 SomeRevoked(b, caller, Begin, RevokeEntry(m, q))
      BY <2>1, <3>3, RevokedNext
    <3> HIDE DEF m
    <3> QED
      BY <2>3, <2>6, <3>2, <3>4
  <2> QED
    BY <2>1, <2>6 DEF S
<1> HIDE DEF S
<1>6. N \in S
  <2>1. 0 .. N \subseteq S
    BY <1>2, <1>4, <1>5, Upwards
  <2> QED
    BY <1>2, <2>1
<1> QED
  BY <1>3, <1>6 DEF S

\* So does revoke_batch.
LEMMA RevokeBatchSound ==
  ASSUME now \in Nat, NEW b, Sound(b, Begin), NEW caller \in Senders,
         NEW reqs \in Batches(Request), RevokeBatchTx(caller, reqs).ok
  PROVE  SomeRevoked(b, caller, Begin, RevokeBatchTx(caller, reqs))
<1> DEFINE N == Len(reqs)
<1>1. Begin \in Tx
  BY DEF Sound
<1>2. N \in Nat /\ \A n \in 1 .. N : reqs[n] \in Request
  BY BatchType
<1>3. PICK f \in [0 .. N -> Tx] :
         /\ f[0] = Begin
         /\ \A n \in 1 .. N : f[n] = RevokeOrPanic(f[n - 1], caller, reqs[n])
         /\ RevokeBatchTx(caller, reqs) = f[N]
  BY <1>1, RevokeBatchTurns
<1> HIDE DEF N
<1> DEFINE S == {n \in 0 .. N : f[n].ok => SomeRevoked(b, caller, Begin, f[n])}
<1>4. 0 \in S
  BY <1>2, <1>3, NoneRevoked
<1>5. ASSUME NEW n \in 1 .. N, n - 1 \in S PROVE n \in S
  <2> DEFINE t == f[n - 1]
             q == reqs[n]
             m == Migrate(t, q.recipient)
  <2>1. t \in Tx /\ q \in Request /\ n \in 0 .. N /\ f[n] = RevokeOrPanic(t, caller, q)
    BY <1>2, <1>3
  <2>2. t.ok => SomeRevoked(b, caller, Begin, t)
    BY <1>5
  <2> HIDE DEF t, q, S
  <2>3. f[n] = IF Revocable(m, caller, q) THEN RevokeEntry(m, q) ELSE Panic(m)
    BY <2>1 DEF RevokeOrPanic
  <2>4. q.recipient \in Recipients
    BY <2>1 DEF Request
  <2>5. m \in Tx /\ m.ok = t.ok
    BY <2>1, <2>4, MigrateIs
  <2>6. ASSUME f[n].ok PROVE SomeRevoked(b, caller, Begin, f[n])
    <3>1. Revocable(m, caller, q) => (RevokeEntry(m, q).ok => m.ok)
      <4> HIDE DEF m
      <4> QED
        BY <2>4, <2>5, RevokeIs DEF Revocable
    <3>2. m.ok /\ Revocable(m, caller, q)
      BY <2>3, <2>5, <2>6, <3>1, PanicIs
    <3>3. SomeRevoked(b, caller, Begin, t)
      BY <2>2, <2>5, <3>2
    <3>4. /\ SomeRevoked(b, caller, Begin, m)
          /\ Revocable(m, caller, q) /\ RevokeEntry(m, q).ok =>
                 SomeRevoked(b, caller, Begin, RevokeEntry(m, q))
      BY <2>1, <3>3, RevokedNext
    <3> HIDE DEF m
    <3> QED
      BY <2>3, <2>6, <3>2, <3>4
  <2> QED
    BY <2>1, <2>6 DEF S
<1> HIDE DEF S
<1>6. N \in S
  <2>1. 0 .. N \subseteq S
    BY <1>2, <1>4, <1>5, Upwards
  <2> QED
    BY <1>2, <2>1
<1> QED
  BY <1>3, <1>6 DEF S

-----------------------------------------------------------------------------
(* Whole deposits *)

\* Ids are given out in order.
LEMMA FreshIds ==
  ASSUME funded \in [Ids -> Nat], NEW k \in 0 .. K, Numbered(funded, k)
  PROVE  NextId = k + 1 /\ Cardinality(Fresh) = K - k
<1>1. K \in Nat /\ Ids = 1 .. K
  BY IdsAre
<1>2. {id \in Ids : funded[id] > 0} = 1 .. k
  BY DEF Numbered
<1>3. Ids \ Fresh = 1 .. k
  <2>1. \A id \in Ids : funded[id] \in Nat
    OBVIOUS
  <2>2. Ids \ Fresh = {id \in Ids : funded[id] > 0}
    BY <2>1 DEF Fresh
  <2> QED
    BY <1>2, <2>2
<1>4. Fresh = k + 1 .. K
  <2>1. Fresh \subseteq Ids
    BY DEF Fresh
  <2>2. Fresh = Ids \ (1 .. k)
    BY <1>3, <2>1
  <2> QED
    BY <1>1, <2>2
<1>5. Cardinality(1 .. k) = k /\ Cardinality(k + 1 .. K) = K - k
  <2>1. Cardinality(1 .. k) = (IF 1 > k THEN 0 ELSE k - 1 + 1)
    BY FS_Interval
  <2>2. Cardinality(k + 1 .. K) = (IF k + 1 > K THEN 0 ELSE K - (k + 1) + 1)
    BY <1>1, FS_Interval
  <2> QED
    BY <1>1, <2>1, <2>2
<1> QED
  BY <1>3, <1>4, <1>5 DEF NextId

\* The book and what was deposited after the first n entries, from id k + 1 on.
Opened(b, k, n, sender, w, entries) ==
    [id \in DOMAIN b \cup (k + 1 .. k + n) |->
        IF id \in DOMAIN b THEN b[id] ELSE Deposited(sender, w, entries[id - k])]
Filled(F, k, n, entries) ==
    [id \in Ids |-> IF id \in k + 1 .. k + n THEN entries[id - k].amount ELSE F[id]]

\* After n entries of a deposit.
Holding(b, k, n, sender, w, entries, t) ==
    /\ Sound(Opened(b, k, n, sender, w, entries), t)
    /\ t.funded = Filled(funded, k, n, entries)
    /\ Numbered(t.funded, k + n)
    /\ t.toRecipient = toRecipient /\ t.toSender = toSender
    /\ Len(batchInfo) + 1 \in DOMAIN t.batchInfo
    /\ t.batchInfo[Len(batchInfo) + 1] = sender

\* Before its first entry a deposit has only recorded its batch.
LEMMA HoldingFirst ==
  ASSUME NEW b, Sound(b, Begin), NEW k \in 0 .. K, Numbered(funded, k),
         NEW sender \in Senders, NEW w \in Window, NEW entries \in Batches(Entry)
  PROVE  Holding(b, k, 0, sender, w, entries, [Begin EXCEPT !.batchInfo = Append(@, sender)])
<1> DEFINE t == [Begin EXCEPT !.batchInfo = Append(@, sender)]
           B == Append(batchInfo, sender)
<1>1. /\ Begin \in Tx /\ IsBook(b) /\ Describes(b, vestings, legacy) /\ Named(vestings, batchInfo)
      /\ Money(b, custody, funded, toRecipient, toSender)
  BY DEF Sound, Begin
<1>2. batchInfo \in Seq(Senders) /\ funded \in [Ids -> Nat]
  BY <1>1 DEF Tx, Begin
<1>3. /\ B \in Seq(Senders) /\ DOMAIN B = 1 .. Len(batchInfo) + 1
      /\ DOMAIN batchInfo = 1 .. Len(batchInfo) /\ Len(batchInfo) \in Nat
      /\ \A i \in DOMAIN batchInfo : B[i] = batchInfo[i]
      /\ B[Len(batchInfo) + 1] = sender
  BY <1>2, AppendedAt
<1> HIDE DEF B
<1>4. /\ t \in Tx /\ t.vestings = vestings /\ t.legacy = legacy /\ t.batchInfo = B
      /\ t.custody = custody /\ t.funded = funded
      /\ t.toRecipient = toRecipient /\ t.toSender = toSender
  <2>1. t = [Begin EXCEPT !.batchInfo = B]
    BY DEF B, Begin
  <2> HIDE DEF t
  <2> QED
    BY <1>1, <1>3, <2>1 DEF Tx, Begin
<1> HIDE DEF t
<1>5. Named(vestings, B)
  <2>1. DOMAIN batchInfo \subseteq DOMAIN B
    BY <1>3
  <2> QED
    BY <1>1, <1>3, <2>1 DEF Named
<1>6. Sound(b, t)
  BY <1>1, <1>4, <1>5 DEF Sound
<1>7. Opened(b, k, 0, sender, w, entries) = b /\ Filled(funded, k, 0, entries) = funded /\ k + 0 = k
  <2>1. k \in Nat /\ k + 1 .. k + 0 = {}
    BY IdsAre
  <2>2. b = [id \in DOMAIN b |-> b[id]]
    BY <1>1 DEF IsBook
  <2>3. Opened(b, k, 0, sender, w, entries) = b
    BY <2>1, <2>2 DEF Opened
  <2>4. Filled(funded, k, 0, entries) = funded
    BY <1>2, <2>1 DEF Filled
  <2> QED
    BY <2>1, <2>3, <2>4
<1> QED
  BY <1>3, <1>4, <1>6, <1>7 DEF Holding, t

\* An entry of a deposit is opened under the next id.
LEMMA HoldingNext ==
  ASSUME batchInfo \in Seq(Senders), NEW b, IsBook(b), NEW k \in 0 .. K,
         \A id \in DOMAIN b : id \in 1 .. k,
         NEW sender \in Senders, NEW w \in Window, NEW entries \in Batches(Entry),
         NEW n \in 1 .. Len(entries), k + n \in Ids, NEW t,
         Holding(b, k, n - 1, sender, w, entries, t),
         DepositEntry(t, sender, w, k + n, entries[n]).ok
  PROVE  /\ Holding(b, k, n, sender, w, entries, DepositEntry(t, sender, w, k + n, entries[n]))
<1> DEFINE c == Opened(b, k, n - 1, sender, w, entries)
           c2 == Opened(b, k, n, sender, w, entries)
           F == Filled(funded, k, n - 1, entries)
           F2 == Filled(funded, k, n, entries)
           id == k + n
           e == Deposited(sender, w, entries[n])
           u == DepositEntry(t, sender, w, id, entries[n])
<1>1. n \in Nat /\ k \in Nat /\ n >= 1 /\ entries[n] \in Entry /\ id - k = n /\ k + (n - 1) = id - 1
  BY IdsAre, BatchType
<1>2. k + 1 .. k + n = (k + 1 .. k + (n - 1)) \cup {id} /\ id \notin k + 1 .. k + (n - 1)
      /\ id \notin DOMAIN b
  BY <1>1
<1>3. With(c, id, e) = c2
  BY <1>1, <1>2 DEF With, Opened
<1>4. Put(F, id, entries[n].amount) = F2
  BY <1>1, <1>2 DEF Put, Filled
<1>5. /\ Sound(c, t) /\ t.funded = F /\ Numbered(t.funded, id - 1)
      /\ t.toRecipient = toRecipient /\ t.toSender = toSender
      /\ Len(batchInfo) + 1 \in DOMAIN t.batchInfo
      /\ t.batchInfo[Len(batchInfo) + 1] = sender
  BY <1>1 DEF Holding
<1> HIDE DEF c, c2, F, F2, e
<1> DEFINE entry == entries[n]
<1>6. entry \in Entry /\ e = Deposited(sender, w, entry) /\ u = DepositEntry(t, sender, w, id, entry)
      /\ id \in Ids /\ u.ok
  BY <1>1 DEF e
<1> HIDE DEF entry, id
<1>7. /\ Sound(With(c, id, Deposited(sender, w, entry)), u)
      /\ u.funded = Put(t.funded, id, entry.amount)
      /\ u.toRecipient = t.toRecipient /\ u.toSender = t.toSender
      /\ Numbered(u.funded, id)
      /\ Len(batchInfo) + 1 \in DOMAIN u.batchInfo
      /\ u.batchInfo[Len(batchInfo) + 1] = sender
  BY <1>5, <1>6, DepositSound
<1> HIDE DEF u
<1> QED
  BY <1>3, <1>4, <1>5, <1>6, <1>7 DEF Holding, c, c2, F, F2, u, id, entry

\* The entries of a deposit take the next ids, in order.
LEMMA DepositTxSound ==
  ASSUME NEW b, Sound(b, Begin), NEW sender \in Senders, NEW w \in Window,
         NEW entries \in Deposits, DepositTx(sender, w, entries).ok
  PROVE  \E k \in 0 .. K :
            /\ Numbered(funded, k) /\ k + Len(entries) <= K
            /\ Holding(b, k, Len(entries), sender, w, entries, DepositTx(sender, w, entries))
<1> DEFINE N == Len(entries)
           t == DepositTx(sender, w, entries)
<1>1. Begin \in Tx /\ IsBook(b) /\ Money(b, custody, funded, toRecipient, toSender)
  BY DEF Sound, Begin
<1>2. batchInfo \in Seq(Senders) /\ funded \in [Ids -> Nat]
  BY <1>1 DEF Tx, Begin
<1>3. PICK k \in 0 .. K : Numbered(funded, k)
  BY <1>1 DEF Money
<1>4. NextId = k + 1 /\ Cardinality(Fresh) = K - k
  BY <1>2, <1>3, FreshIds
<1>5. entries \in Batches(Entry) /\ N <= Cardinality(Fresh)
  BY DEF Deposits
<1>6. N \in Nat /\ \A n \in 1 .. N : entries[n] \in Entry
  BY <1>5, BatchType
<1> HIDE DEF N
<1>7. K \in Nat /\ Ids = 1 .. K /\ k \in Nat /\ k + N <= K
  BY <1>4, <1>5, <1>6, IdsAre
<1>8. \A n \in 1 .. N : NextId + n - 1 = k + n /\ k + n \in Ids
  BY <1>4, <1>6, <1>7
<1>9. PICK f \in [0 .. N -> Tx] :
         /\ f[0] = [Begin EXCEPT !.batchInfo = Append(@, sender)]
         /\ \A n \in 1 .. N :
                f[n] = DepositEntry(f[n - 1], sender, w, NextId + n - 1, entries[n])
         /\ DepositTx(sender, w, entries) = f[N]
  <2>1. \A n \in 1 .. Len(entries) : NextId + n - 1 \in Ids
    BY <1>8 DEF N
  <2> QED
    BY <1>1, <1>2, <1>5, <2>1, DepositTurns DEF N
<1>10. \A id \in DOMAIN b : id \in 1 .. k
  <2>1. ASSUME NEW id \in DOMAIN b PROVE id \in 1 .. k
    <3>1. id \in Ids /\ funded[id] > 0
      BY <1>1 DEF Money, IsBook
    <3>2. {x \in Ids : funded[x] > 0} = 1 .. k
      BY <1>3 DEF Numbered
    <3> QED
      BY <3>1, <3>2
  <2> QED
    BY <2>1
<1> DEFINE S == {n \in 0 .. N : f[n].ok => Holding(b, k, n, sender, w, entries, f[n])}
<1>11. 0 \in S
  <2>1. Holding(b, k, 0, sender, w, entries, [Begin EXCEPT !.batchInfo = Append(@, sender)])
    BY <1>3, <1>5, HoldingFirst
  <2>2. Holding(b, k, 0, sender, w, entries, f[0])
    BY <1>9, <2>1
  <2> QED
    BY <1>6, <2>2
<1>12. ASSUME NEW n \in 1 .. N, n - 1 \in S PROVE n \in S
  <2> DEFINE p == f[n - 1]
  <2>1. /\ n \in 0 .. N /\ n - 1 \in 0 .. N /\ p \in Tx /\ n \in 1 .. Len(entries)
        /\ f[n] = DepositEntry(p, sender, w, k + n, entries[n]) /\ k + n \in Ids
        /\ entries[n] \in Entry
    BY <1>6, <1>8, <1>9 DEF N
  <2>2. p.ok => Holding(b, k, n - 1, sender, w, entries, p)
    BY <1>12
  <2> HIDE DEF p, S
  <2>3. ASSUME f[n].ok PROVE Holding(b, k, n, sender, w, entries, f[n])
    <3>1. p.ok
      <4> DEFINE m == Migrate(p, entries[n].recipient)
      <4>1. DepositEntry(p, sender, w, k + n, entries[n]).ok => m.ok
        BY <1>2, <2>1, DepositIs
      <4>2. entries[n].recipient \in Recipients
        BY <2>1 DEF Entry
      <4>3. m.ok = p.ok
        BY <2>1, <4>2, MigrateIs
      <4> HIDE DEF m
      <4> QED
        BY <2>1, <2>3, <4>1, <4>3
    <3>2. DepositEntry(p, sender, w, k + n, entries[n]).ok
      BY <2>1, <2>3
    <3>3. Holding(b, k, n, sender, w, entries, DepositEntry(p, sender, w, k + n, entries[n]))
      BY <1>1, <1>2, <1>5, <1>10, <2>1, <2>2, <3>1, <3>2, HoldingNext
    <3> QED
      BY <2>1, <3>3
  <2> QED
    BY <2>1, <2>3 DEF S
<1> HIDE DEF S
<1>13. N \in S
  <2>1. 0 .. N \subseteq S
    BY <1>6, <1>11, <1>12, Upwards
  <2> QED
    BY <1>6, <2>1
<1>14. Holding(b, k, N, sender, w, entries, t)
  BY <1>9, <1>13 DEF S
<1> QED
  BY <1>3, <1>7, <1>14 DEF N, t

-----------------------------------------------------------------------------
(* Steps *)

\* A committed transaction becomes the state.
LEMMA CommitIs ==
  ASSUME NEW tx \in Tx, Commit(tx)
  PROVE  /\ tx.ok /\ Begin' = tx /\ UNCHANGED <<now, paused>>
         /\ funded' = tx.funded /\ toRecipient' = tx.toRecipient /\ toSender' = tx.toSender
<1>1. tx = [ok |-> tx.ok, vestings |-> tx.vestings, legacy |-> tx.legacy,
            batchInfo |-> tx.batchInfo, custody |-> tx.custody, funded |-> tx.funded,
            toRecipient |-> tx.toRecipient, toSender |-> tx.toSender]
  BY DEF Tx
<1>2. /\ tx.ok /\ vestings' = tx.vestings /\ legacy' = tx.legacy /\ batchInfo' = tx.batchInfo
      /\ custody' = tx.custody /\ funded' = tx.funded
      /\ toRecipient' = tx.toRecipient /\ toSender' = tx.toSender
      /\ UNCHANGED <<now, paused>>
  BY DEF Commit
<1>3. tx.ok = TRUE
  BY <1>2 DEF Tx
<1>4. Begin' = [ok |-> TRUE, vestings |-> vestings', legacy |-> legacy',
                batchInfo |-> batchInfo', custody |-> custody', funded |-> funded',
                toRecipient |-> toRecipient', toSender |-> toSender']
  BY DEF Begin
<1> QED
  BY <1>1, <1>2, <1>3, <1>4

\* Some book accounts for all the storage, balances and payments.
Inv ==
    /\ now \in 0 .. MaxTime
    /\ paused \subseteq Ops
    /\ \E b : Sound(b, Begin)

\* The book after a claim.
LEMMA ClaimStep ==
  ASSUME now \in Nat, NEW b, Sound(b, Begin), NEW r \in Recipients, NEW i, NEW amount \in Parts,
         Claim(r, i, amount)
  PROVE  \E id \in DOMAIN b : \E p \in 1 .. Due(b[id]) :
            /\ Sound(AfterRelease(b, id, p), Begin')
            /\ toRecipient' = Gained(toRecipient, id, p)
            /\ UNCHANGED <<now, paused, funded, toSender>>
<1> DEFINE tx == Migrate(Begin, r)
           v == tx.vestings[r][i]
           id == v.id
           claimable == VestedNow(v) - v.released
           p == IF amount < claimable THEN amount ELSE claimable
           t == ReleaseTx(tx, r, i, p)
<1>1. Begin \in Tx
  BY DEF Sound
<1>2. /\ tx \in Tx /\ SameMoney(Begin, tx) /\ tx.legacy[r] = <<>> /\ Sound(b, tx)
  BY <1>1, MigrateIs
<1>3. i \in DOMAIN tx.vestings[r] /\ claimable > 0 /\ Commit(t)
  BY DEF Claim
<1> HIDE DEF tx
<1>4. /\ v \in Schedule /\ id \in DOMAIN b /\ b[id].total = v.total
      /\ b[id].released = v.released /\ b[id].win = v.win
      /\ v.total \in Nat /\ v.released \in Nat
  BY <1>2, <1>3, InBook
<1>5. /\ VestedNow(v) \in Nat /\ VestedNow(v) <= v.total
      /\ VestedNow(b[id]) = VestedNow(v)
  <2>1. VestedNow(v) \in Nat /\ VestedNow(v) <= v.total
    BY <1>4, VestedNowType
  <2> HIDE DEF v
  <2> QED
    BY <1>4, <2>1 DEF VestedNow
<1>6. p \in Nat \ {0} /\ v.released + p <= v.total /\ p \in 1 .. Due(b[id])
  <2>1. amount \in Nat \ {0}
    BY ContractAssumption DEF ContractAssumption
  <2> HIDE DEF v, id
  <2> QED
    BY <1>3, <1>4, <1>5, <2>1 DEF Due, Positive
<1>7. t \in Tx
  <2> HIDE DEF v, p
  <2> QED
    BY <1>2, <1>3, <1>6, ReleaseTypes
<1> HIDE DEF p, claimable
<1>8. t.ok /\ Begin' = t /\ UNCHANGED <<now, paused>>
      /\ funded' = t.funded /\ toRecipient' = t.toRecipient /\ toSender' = t.toSender
  <2> HIDE DEF t
  <2> QED
    BY <1>3, <1>7, CommitIs
<1>9. /\ t.toRecipient = Gained(tx.toRecipient, id, p)
      /\ t.toSender = tx.toSender /\ t.funded = tx.funded
      /\ Sound(AfterRelease(b, id, p), t)
  BY <1>2, <1>3, <1>6, <1>8, ReleaseSound
<1>10. tx.toRecipient = toRecipient /\ tx.toSender = toSender /\ tx.funded = funded
  BY <1>2 DEF SameMoney, Begin
<1> HIDE DEF t, v, id
<1> QED
  BY <1>4, <1>6, <1>8, <1>9, <1>10 DEF id

\* claim_all releases what is due on every schedule of its recipient.
LEMMA ClaimAllStep ==
  ASSUME now \in Nat, NEW b, Sound(b, Begin), NEW r \in Recipients, ClaimAll(r)
  PROVE  /\ Sound(Released(b, DueTo(b, r)), Begin')
         /\ toRecipient' = PaidDue(b, DueTo(b, r), toRecipient)
         /\ UNCHANGED <<now, paused, funded, toSender>>
<1> DEFINE t == ClaimAllTx(r)
<1>1. Begin \in Tx
  BY DEF Sound
<1>2. Commit(t)
  BY DEF ClaimAll
<1>3. /\ t.funded = funded /\ t.toSender = toSender
      /\ t.toRecipient = PaidDue(b, DueTo(b, r), toRecipient)
      /\ Sound(Released(b, DueTo(b, r)), t)
  <2>1. t.ok
    BY <1>2 DEF Commit
  <2> QED
    BY <2>1, ClaimAllSound
<1>4. t \in Tx
  BY <1>3 DEF Sound
<1> HIDE DEF t
<1>5. Begin' = t /\ UNCHANGED <<now, paused>>
      /\ funded' = t.funded /\ toRecipient' = t.toRecipient /\ toSender' = t.toSender
  BY <1>2, <1>4, CommitIs
<1> QED
  BY <1>3, <1>5

\* A migration alone is no step of the book.
LEMMA TouchStep ==
  ASSUME NEW b, Sound(b, Begin), NEW r \in Recipients, Touch(r)
  PROVE  /\ Sound(b, Begin')
         /\ UNCHANGED <<now, paused, funded, toRecipient, toSender>>
<1> DEFINE t == Migrate(Begin, r)
<1>1. Begin \in Tx
  BY DEF Sound
<1>2. t \in Tx /\ SameMoney(Begin, t) /\ Sound(b, t)
  BY <1>1, MigrateIs
<1>3. Commit(t)
  BY DEF Touch
<1> HIDE DEF t
<1>4. Begin' = t /\ UNCHANGED <<now, paused>>
      /\ funded' = t.funded /\ toRecipient' = t.toRecipient /\ toSender' = t.toSender
  BY <1>2, <1>3, CommitIs
<1> QED
  BY <1>2, <1>4 DEF SameMoney, Begin

\* The three revocations: some schedules of the caller's are closed.
RevokesSome(b, caller) ==
    \E S \in SUBSET DOMAIN b :
        /\ \A id \in S : MayRevoke(b, caller, id)
        /\ Sound(Revoked(b, S), Begin')
        /\ toSender' = PaidBack(b, S, toSender)
        /\ toRecipient' = PaidDue(b, S, toRecipient)
        /\ UNCHANGED <<now, paused, funded>>

\* A committed batch revocation closes what its turns closed.
LEMMA RevokesCommitted ==
  ASSUME NEW b, NEW caller \in Senders, NEW t, SomeRevoked(b, caller, Begin, t), Commit(t)
  PROVE  RevokesSome(b, caller)
<1>1. PICK S \in SUBSET DOMAIN b :
         /\ \A id \in S : MayRevoke(b, caller, id)
         /\ t.funded = Begin.funded
         /\ t.toSender = PaidBack(b, S, Begin.toSender)
         /\ t.toRecipient = PaidDue(b, S, Begin.toRecipient)
         /\ Sound(Revoked(b, S), t)
  BY DEF SomeRevoked
<1>2. t \in Tx
  BY <1>1 DEF Sound
<1>3. Begin' = t /\ UNCHANGED <<now, paused>>
      /\ funded' = t.funded /\ toRecipient' = t.toRecipient /\ toSender' = t.toSender
  BY <1>2, CommitIs
<1>4. Begin.funded = funded /\ Begin.toSender = toSender /\ Begin.toRecipient = toRecipient
  BY DEF Begin
<1> QED
  BY <1>1, <1>3, <1>4 DEF RevokesSome

\* revoke closes one schedule of the caller's.
LEMMA RevokeStep ==
  ASSUME now \in Nat, NEW b, Sound(b, Begin), NEW caller \in Senders, NEW q \in Request,
         Revoke(caller, q)
  PROVE  RevokesSome(b, caller)
<1> DEFINE m == Migrate(Begin, q.recipient)
           t == RevokeEntry(m, q)
<1>1. Begin \in Tx
  BY DEF Sound
<1>2. SomeRevoked(b, caller, Begin, Begin)
  BY NoneRevoked
<1>3. Revocable(m, caller, q) /\ Commit(t) /\ t.ok
  BY DEF Revoke, Commit
<1>4. SomeRevoked(b, caller, Begin, t)
  <2>1. Revocable(m, caller, q) /\ t.ok => SomeRevoked(b, caller, Begin, t)
    BY <1>1, <1>2, RevokedNext
  <2> HIDE DEF m, t
  <2> QED
    BY <1>3, <2>1
<1> HIDE DEF t
<1> QED
  BY <1>3, <1>4, RevokesCommitted

\* The batch revocations close schedules of the caller's.
LEMMA BatchRevokeStep ==
  ASSUME now \in Nat, NEW b, Sound(b, Begin), NEW caller \in Senders,
         NEW reqs \in Batches(Request),
         BatchRevoke(caller, reqs) \/ RevokeBatch(caller, reqs)
  PROVE  RevokesSome(b, caller)
<1>1. CASE BatchRevoke(caller, reqs)
  <2>1. Commit(BatchRevokeTx(caller, reqs)) /\ BatchRevokeTx(caller, reqs).ok
    BY <1>1 DEF BatchRevoke, Commit
  <2> QED
    BY <2>1, BatchRevokeSound, RevokesCommitted
<1>2. CASE RevokeBatch(caller, reqs)
  <2>1. Commit(RevokeBatchTx(caller, reqs)) /\ RevokeBatchTx(caller, reqs).ok
    BY <1>2 DEF RevokeBatch, Commit
  <2> QED
    BY <2>1, RevokeBatchSound, RevokesCommitted
<1> QED
  BY <1>1, <1>2

\* A deposit opens the next ids with its entries.
LEMMA DepositStep ==
  ASSUME NEW b, Sound(b, Begin), NEW sender \in Senders, NEW w \in Windows,
         NEW entries \in Deposits, Deposit(sender, w, entries)
  PROVE  /\ w.end > now
         /\ \E k \in 0 .. K :
            /\ Numbered(funded, k) /\ k + Len(entries) <= K
            /\ Sound(Opened(b, k, Len(entries), sender, w, entries), Begin')
            /\ funded' = Filled(funded, k, Len(entries), entries)
            /\ UNCHANGED <<now, paused, toRecipient, toSender>>
<1> DEFINE t == DepositTx(sender, w, entries)
<1>1. w \in Window
  BY ContractAssumption DEF ContractAssumption
<1>2. Commit(t) /\ t.ok /\ w.end > now
  BY DEF Deposit, Commit
<1>3. PICK k \in 0 .. K : /\ Numbered(funded, k) /\ k + Len(entries) <= K
                          /\ Holding(b, k, Len(entries), sender, w, entries, t)
  BY <1>1, <1>2, DepositTxSound
<1> HIDE DEF t
<1>4. /\ Sound(Opened(b, k, Len(entries), sender, w, entries), t)
      /\ t.funded = Filled(funded, k, Len(entries), entries)
      /\ t.toRecipient = toRecipient /\ t.toSender = toSender
  BY <1>3 DEF Holding
<1>5. t \in Tx
  BY <1>4 DEF Sound
<1>6. Begin' = t /\ UNCHANGED <<now, paused>>
      /\ funded' = t.funded /\ toRecipient' = t.toRecipient /\ toSender' = t.toSender
  BY <1>2, <1>5, CommitIs
<1> QED
  BY <1>2, <1>3, <1>4, <1>6

\* revoke_partial takes part of what has neither vested nor been released.
LEMMA RevokePartialStep ==
  ASSUME now \in Nat, NEW b, Sound(b, Begin), NEW caller \in Senders, NEW q \in Request,
         NEW amount \in Parts, RevokePartial(caller, q, amount)
  PROVE  \E id \in DOMAIN b :
            /\ MayRevoke(b, caller, id)
            /\ amount > 0 /\ amount + VestedNow(b[id]) <= b[id].total
            /\ amount + b[id].released <= b[id].total
            /\ Sound(Put(b, id, Shrunk(b[id], amount)), Begin')
            /\ toSender' = Gained(toSender, id, amount)
            /\ UNCHANGED <<now, paused, funded, toRecipient>>
<1> DEFINE r == q.recipient
           i == q.index
           tx == Migrate(Begin, r)
           v == tx.vestings[r][i]
           id == v.id
           t == Reduced(tx, r, i, amount)
           protected == IF VestedNow(v) > v.released THEN VestedNow(v) ELSE v.released
<1>1. Begin \in Tx /\ r \in Recipients
  BY DEF Sound, Request
<1>2. /\ tx \in Tx /\ SameMoney(Begin, tx) /\ tx.legacy[r] = <<>> /\ Sound(b, tx)
  BY <1>1, MigrateIs
<1>3. /\ amount > 0 /\ Revocable(tx, caller, q) /\ amount <= v.total - protected
      /\ Commit(t) /\ t.ok
  BY DEF RevokePartial, Commit, Reduced
<1>4. i \in DOMAIN tx.vestings[r] /\ now < v.win.end /\ tx.batchInfo[v.batch] = caller
  BY <1>3 DEF Revocable
<1> HIDE DEF tx, r, i
<1>5. /\ v \in Schedule /\ id \in DOMAIN b /\ b[id].total = v.total
      /\ b[id].released = v.released /\ b[id].win = v.win /\ b[id].sender = v.sender
      /\ v.total \in Nat /\ v.released \in Nat
  BY <1>1, <1>2, <1>4, InBook
<1>6. v.sender = caller
  BY <1>1, <1>2, <1>4 DEF Sound, Named
<1>7. /\ VestedNow(v) \in Nat /\ VestedNow(b[id]) = VestedNow(v)
  <2>1. VestedNow(v) \in Nat
    BY <1>5, VestedNowType
  <2> HIDE DEF v
  <2> QED
    BY <1>5, <2>1 DEF VestedNow
<1>8. /\ amount \in Nat \ {0} /\ amount + VestedNow(v) <= v.total
      /\ amount + v.released <= v.total /\ amount <= v.total - v.released
  <2>1. amount \in Nat \ {0}
    BY ContractAssumption DEF ContractAssumption
  <2> HIDE DEF v
  <2> QED
    BY <1>3, <1>5, <1>7, <2>1
<1>9. /\ t.toRecipient = tx.toRecipient /\ t.funded = tx.funded
      /\ t.toSender = Gained(tx.toSender, id, amount)
      /\ Sound(Put(b, id, Shrunk(b[id], amount)), t)
  BY <1>1, <1>2, <1>3, <1>4, <1>8, PartialSound
<1> HIDE DEF t, v, id
<1>10. t \in Tx
  BY <1>9 DEF Sound
<1>11. Begin' = t /\ UNCHANGED <<now, paused>>
      /\ funded' = t.funded /\ toRecipient' = t.toRecipient /\ toSender' = t.toSender
  BY <1>3, <1>10, CommitIs
<1>12. tx.toRecipient = toRecipient /\ tx.toSender = toSender /\ tx.funded = funded
  BY <1>2 DEF SameMoney, Begin
<1>13. MayRevoke(b, caller, id)
  BY <1>4, <1>5, <1>6 DEF MayRevoke, id
<1> QED
  BY <1>5, <1>7, <1>8, <1>9, <1>11, <1>12, <1>13 DEF id

\* transfer_vesting_rights changes the owner of one schedule.
LEMMA TransferStep ==
  ASSUME NEW b, Sound(b, Begin), NEW r \in Recipients, NEW new \in Recipients, NEW i,
         TransferVestingRights(r, i, new)
  PROVE  \E id \in DOMAIN b :
            /\ Sound(Put(b, id, Handed(b[id], new)), Begin')
            /\ UNCHANGED <<now, paused, funded, toRecipient, toSender>>
<1> DEFINE m == Migrate(Begin, r)
           tx == Migrate(m, new)
           t == HandOver(tx, r, i, new)
           id == tx.vestings[r][i].id
<1>1. Begin \in Tx
  BY DEF Sound
<1>2. m \in Tx /\ SameMoney(Begin, m) /\ m.legacy[r] = <<>> /\ Sound(b, m)
  BY <1>1, MigrateIs
<1>3. i \in DOMAIN tx.vestings[r] /\ Commit(t)
  BY DEF TransferVestingRights, HandOver
<1> HIDE DEF m
<1>4. /\ tx \in Tx /\ SameMoney(m, tx) /\ tx.legacy[new] = <<>> /\ Sound(b, tx)
      /\ tx.legacy = Emptied(m.legacy, new)
  BY <1>2, MigrateIs
<1> HIDE DEF tx
<1>5. tx.legacy[r] = <<>>
  BY <1>2, <1>4, TxFields DEF Emptied, Lists
<1>6. /\ SameMoney(tx, t) /\ Sound(Put(b, id, Handed(b[id], new)), t)
  BY <1>3, <1>4, <1>5, HandOverSound
<1> HIDE DEF t
<1>7. id \in DOMAIN b
  BY <1>3, <1>4, InBook
<1>8. t \in Tx
  BY <1>6 DEF Sound
<1>9. Begin' = t /\ UNCHANGED <<now, paused>>
      /\ funded' = t.funded /\ toRecipient' = t.toRecipient /\ toSender' = t.toSender
  BY <1>3, <1>8, CommitIs
<1> QED
  BY <1>2, <1>4, <1>6, <1>7, <1>9 DEF SameMoney, Begin

-----------------------------------------------------------------------------
(* The start *)

\* A sum of naturals is one.
LEMMA SumNat ==
  ASSUME NEW g \in [Ids -> Nat]
  PROVE  SumOver(g) \in Nat
<1>1. PICK f : /\ f \in [0 .. K -> Int] /\ f[0] = 0
               /\ \A n \in 1 .. K : f[n] = f[n - 1] + g[n]
               /\ SumOver(g) = f[K]
  <2>1. g \in [Ids -> Int]
    OBVIOUS
  <2> QED
    BY <2>1, SumTurns
<1>2. K \in Nat /\ Ids = 1 .. K
  BY IdsAre
<1> DEFINE S == {n \in 0 .. K : f[n] \in Nat}
<1>3. 0 \in S
  BY <1>1, <1>2
<1>4. ASSUME NEW n \in 1 .. K, n - 1 \in S PROVE n \in S
  <2>1. g[n] \in Nat /\ f[n - 1] \in Nat /\ f[n] = f[n - 1] + g[n] /\ n \in 0 .. K
    BY <1>1, <1>2, <1>4
  <2> QED
    BY <2>1
<1> HIDE DEF S
<1>5. K \in S
  <2>1. 0 .. K \subseteq S
    BY <1>2, <1>3, <1>4, Upwards
  <2> QED
    BY <1>2, <2>1
<1> QED
  BY <1>1, <1>5 DEF S

\* The old entries are found by their ids.
LEMMA LegacyFacts ==
  /\ LegacyLists \in Lists
  /\ \A v \in AllLegacy : /\ v \in Schedule /\ v.total > 0 /\ v.released <= v.total
                          /\ \E r \in Recipients : \E i \in DOMAIN LegacyLists[r] :
                                 LegacyLists[r][i] = v
  /\ \A r \in Recipients : \A i \in DOMAIN LegacyLists[r] :
         LegacyLists[r][i] \in AllLegacy /\ LegacyLists[r][i].id \in LegacyIds
  /\ \A v, w \in AllLegacy : v.id = w.id => v = w
  /\ LegacyIds \subseteq Ids
  /\ \A id \in LegacyIds : \E v \in AllLegacy : v.id = id
<1>1. LegacyLists \in Lists /\ \A v \in AllLegacy : v.total > 0 /\ v.released <= v.total
  BY LegacyAssumption DEF LegacyAssumption, Lists
<1>2. \A v \in AllLegacy : \E r \in Recipients : \E i \in DOMAIN LegacyLists[r] :
          LegacyLists[r][i] = v
  BY DEF AllLegacy, LegacyEntries, ToSet
<1>3. \A r \in Recipients : \A i \in DOMAIN LegacyLists[r] : LegacyLists[r][i] \in Schedule
  BY <1>1 DEF Lists
<1>4. \A r \in Recipients : \A i \in DOMAIN LegacyLists[r] : LegacyLists[r][i] \in AllLegacy
  BY DEF AllLegacy, LegacyEntries, ToSet
<1>5. \A v \in AllLegacy : v \in Schedule
  BY <1>2, <1>3
<1>6. ASSUME NEW v \in AllLegacy, NEW w \in AllLegacy, v.id = w.id PROVE v = w
  <2>1. PICK r \in Recipients : \E i \in DOMAIN LegacyLists[r] : LegacyLists[r][i] = v
    BY <1>2
  <2>2. PICK i \in DOMAIN LegacyLists[r] : LegacyLists[r][i] = v
    BY <2>1
  <2>3. PICK s \in Recipients : \E j \in DOMAIN LegacyLists[s] : LegacyLists[s][j] = w
    BY <1>2
  <2>4. PICK j \in DOMAIN LegacyLists[s] : LegacyLists[s][j] = w
    BY <2>3
  <2>5. r = s /\ i = j
    BY <1>6, <2>2, <2>4, LegacyAssumption DEF LegacyAssumption
  <2> QED
    BY <2>2, <2>4, <2>5
<1>7. LegacyIds \subseteq Ids /\ \A id \in LegacyIds : \E v \in AllLegacy : v.id = id
  BY <1>5 DEF LegacyIds, Schedule
<1>8. \A v \in AllLegacy : v.id \in LegacyIds
  BY DEF LegacyIds
<1> QED
  BY <1>1, <1>2, <1>4, <1>5, <1>6, <1>7, <1>8

\* The book of the old entries.
FirstHolder(id) == CHOOSE r \in Recipients : \E i \in DOMAIN LegacyLists[r] : LegacyLists[r][i].id = id
FirstIndex(id) ==
    CHOOSE i \in DOMAIN LegacyLists[FirstHolder(id)] : LegacyLists[FirstHolder(id)][i].id = id
FirstBook ==
    [id \in LegacyIds |-> Shown(FirstHolder(id), Renewed(LegacyLists[FirstHolder(id)][FirstIndex(id)]))]

\* Every old entry is in the first book as it will be migrated.
LEMMA FirstBookAt ==
  ASSUME NEW r \in Recipients, NEW i \in DOMAIN LegacyLists[r]
  PROVE  LET v == LegacyLists[r][i]
         IN  /\ v.id \in DOMAIN FirstBook /\ FirstBook[v.id] = Shown(r, Renewed(v))
             /\ FirstBook[v.id] \in Shape
             /\ FirstBook[v.id].total = v.total /\ FirstBook[v.id].released = v.released
             /\ FirstBook[v.id].token = v.token
<1> DEFINE v == LegacyLists[r][i]
           id == v.id
           s == FirstHolder(id)
           j == FirstIndex(id)
<1>1. v \in Schedule /\ id \in LegacyIds
  BY LegacyFacts
<1>2. s \in Recipients /\ \E k \in DOMAIN LegacyLists[s] : LegacyLists[s][k].id = id
  <2>1. \E x \in Recipients : \E k \in DOMAIN LegacyLists[x] : LegacyLists[x][k].id = id
    OBVIOUS
  <2> HIDE DEF id
  <2> QED
    BY <2>1 DEF FirstHolder
<1>3. j \in DOMAIN LegacyLists[s] /\ LegacyLists[s][j].id = id
  <2> HIDE DEF id
  <2> QED
    BY <1>2 DEF FirstIndex
<1>4. s = r /\ j = i
  <2> HIDE DEF s, j
  <2> QED
    BY <1>2, <1>3, LegacyAssumption DEF LegacyAssumption
<1>5. FirstBook[id] = Shown(r, Renewed(v)) /\ DOMAIN FirstBook = LegacyIds
  <2>1. FirstBook[id] = Shown(s, Renewed(LegacyLists[s][j])) /\ DOMAIN FirstBook = LegacyIds
    BY <1>1 DEF FirstBook
  <2> HIDE DEF s, j
  <2> QED
    BY <1>4, <2>1
<1> HIDE DEF v, id
<1>6. /\ Renewed(v) \in Schedule /\ Renewed(v).total = v.total
      /\ Renewed(v).released = v.released /\ Renewed(v).token = v.token
  BY <1>1, SenderOfWindow
<1>7. /\ FirstBook[id] \in Shape /\ FirstBook[id].total = v.total
      /\ FirstBook[id].released = v.released /\ FirstBook[id].token = v.token
  <2>1. Shown(r, Renewed(v)) \in Shape
    BY <1>6, ShownType
  <2> QED
    BY <1>5, <1>6, <2>1 DEF Shown
<1> QED
  BY <1>1, <1>5, <1>7 DEF v, id

\* At the start the first book describes the storage.
LEMMA FirstDescribes == IsBook(FirstBook) /\ Describes(FirstBook, [r \in Recipients |-> <<>>], LegacyLists)
<1> DEFINE V == [r \in Recipients |-> <<>>]
           b == FirstBook
<1>1. \A r \in Recipients : DOMAIN V[r] = {}
  OBVIOUS
<1> HIDE DEF V
<1>2. \A r \in Recipients : \A i \in DOMAIN LegacyLists[r] :
          /\ LegacyLists[r][i].id \in DOMAIN b
          /\ b[LegacyLists[r][i].id] = Shown(r, Renewed(LegacyLists[r][i]))
          /\ b[LegacyLists[r][i].id] \in Shape
  BY FirstBookAt
<1>3. DOMAIN b = LegacyIds /\ LegacyIds \subseteq Ids
  BY LegacyFacts DEF FirstBook
<1>4. ASSUME NEW id \in LegacyIds
      PROVE  \E r \in Recipients : \E i \in DOMAIN LegacyLists[r] : LegacyLists[r][i].id = id
  <2>1. PICK v \in AllLegacy : v.id = id
    BY LegacyFacts
  <2> QED
    BY <2>1, LegacyFacts
<1>5. \A r \in Recipients : \A i, j \in DOMAIN LegacyLists[r] :
          LegacyLists[r][i].id = LegacyLists[r][j].id => i = j
  BY LegacyAssumption DEF LegacyAssumption
<1>6. \A id \in DOMAIN b : b[id] \in Shape
  <2>1. ASSUME NEW id \in DOMAIN b PROVE b[id] \in Shape
    <3>1. PICK r \in Recipients : \E i \in DOMAIN LegacyLists[r] : LegacyLists[r][i].id = id
      BY <1>3, <1>4
    <3> QED
      BY <1>2, <3>1
  <2> QED
    BY <2>1
<1>7. b = [id \in DOMAIN b |-> b[id]]
  BY DEF FirstBook
<1> HIDE DEF b
<1>8. IsBook(b)
  BY <1>3, <1>6, <1>7 DEF IsBook
<1>9. Describes(b, V, LegacyLists)
  BY <1>1, <1>2, <1>3, <1>4, <1>5 DEF Describes
<1> QED
  BY <1>8, <1>9 DEF b, V

\* What the old entries owe is what the first book owes.
LEMMA LeftIsOwing ==
  ASSUME NEW id \in Ids, NEW tok \in Tokens
  PROVE  LeftOn(AllLegacy, id, tok) = Owing(FirstBook, id, tok)
         /\ Owing(FirstBook, id, tok) \in Nat
<1>1. DOMAIN FirstBook = LegacyIds
  BY DEF FirstBook
<1>2. ASSUME NEW v \in AllLegacy, v.id = id
      PROVE  /\ FirstBook[id].token = v.token /\ FirstBook[id].total = v.total
             /\ FirstBook[id].released = v.released /\ id \in LegacyIds
             /\ v.total - v.released \in Nat
  <2>1. PICK r \in Recipients : \E i \in DOMAIN LegacyLists[r] : LegacyLists[r][i] = v
    BY LegacyFacts
  <2>2. /\ FirstBook[id].token = v.token /\ FirstBook[id].total = v.total
        /\ FirstBook[id].released = v.released /\ id \in LegacyIds
    BY <1>1, <1>2, <2>1, FirstBookAt
  <2>3. v.total \in Nat /\ v.released \in Nat /\ v.released <= v.total
    BY LegacyFacts DEF Schedule
  <2> QED
    BY <2>2, <2>3
<1>3. CASE \E v \in AllLegacy : v.id = id /\ v.token = tok
  <2> DEFINE v == CHOOSE x \in AllLegacy : x.id = id /\ x.token = tok
  <2>1. v \in AllLegacy /\ v.id = id /\ v.token = tok
    BY <1>3
  <2>2. LeftOn(AllLegacy, id, tok) = v.total - v.released
    BY <1>3 DEF LeftOn
  <2> HIDE DEF v
  <2> QED
    BY <1>1, <1>2, <2>1, <2>2 DEF Owing
<1>4. CASE ~ \E v \in AllLegacy : v.id = id /\ v.token = tok
  <2>1. LeftOn(AllLegacy, id, tok) = 0
    BY <1>4 DEF LeftOn
  <2>2. ~(id \in DOMAIN FirstBook /\ FirstBook[id].token = tok)
    <3> SUFFICES ASSUME id \in DOMAIN FirstBook, FirstBook[id].token = tok PROVE FALSE
      OBVIOUS
    <3>1. PICK v \in AllLegacy : v.id = id
      BY <1>1, LegacyFacts
    <3> QED
      BY <1>2, <1>4, <3>1
  <2> QED
    BY <2>1, <2>2 DEF Owing
<1> QED
  BY <1>3, <1>4

\* At the start the accounts hold what the first book says, and nothing else.
LEMMA FirstAccounts ==
  ASSUME Init
  PROVE  /\ \A id \in LegacyIds :
                /\ funded[id] = FirstBook[id].total /\ toRecipient[id] = FirstBook[id].released
                /\ FirstBook[id].total \in Nat /\ FirstBook[id].released \in Nat
                /\ FirstBook[id].total > 0 /\ FirstBook[id].released <= FirstBook[id].total
                /\ LegacyHoldsValue => FirstBook[id].released < FirstBook[id].total
         /\ \A id \in Ids : id \notin LegacyIds => funded[id] = 0 /\ toRecipient[id] = 0
         /\ DOMAIN FirstBook = LegacyIds /\ LegacyIds \subseteq Ids
<1> DEFINE b == FirstBook
           of(id) == {v \in AllLegacy : v.id = id}
<1>1. DOMAIN b = LegacyIds /\ LegacyIds \subseteq Ids
  BY LegacyFacts DEF FirstBook
<1>2. ASSUME NEW id \in LegacyIds
      PROVE  /\ funded[id] = b[id].total /\ toRecipient[id] = b[id].released
             /\ b[id].total \in Nat /\ b[id].released \in Nat
             /\ b[id].total > 0 /\ b[id].released <= b[id].total
             /\ LegacyHoldsValue => b[id].released < b[id].total
  <2>1. PICK v \in AllLegacy : v.id = id
    BY LegacyFacts
  <2>2. of(id) = {v}
    BY <2>1, LegacyFacts
  <2>3. funded[id] = v.total /\ toRecipient[id] = v.released
    <3>1. /\ funded[id] = IF of(id) = {} THEN 0 ELSE (CHOOSE x \in of(id) : TRUE).total
          /\ toRecipient[id] = IF of(id) = {} THEN 0 ELSE (CHOOSE x \in of(id) : TRUE).released
      BY <1>1 DEF Init
    <3> HIDE DEF of
    <3> QED
      BY <2>2, <3>1
  <2>4. PICK r \in Recipients : \E i \in DOMAIN LegacyLists[r] : LegacyLists[r][i] = v
    BY LegacyFacts
  <2>5. b[id].total = v.total /\ b[id].released = v.released
    BY <2>1, <2>4, FirstBookAt
  <2>6. v \in Schedule /\ v.total > 0 /\ v.released <= v.total
    BY LegacyFacts
  <2>7. LegacyHoldsValue => v.released < v.total
    BY DEF LegacyHoldsValue
  <2> HIDE DEF b
  <2> QED
    BY <2>3, <2>5, <2>6, <2>7 DEF Schedule
<1>3. ASSUME NEW id \in Ids, id \notin LegacyIds PROVE funded[id] = 0 /\ toRecipient[id] = 0
  <2>1. of(id) = {}
    BY <1>3 DEF LegacyIds
  <2>2. /\ funded[id] = IF of(id) = {} THEN 0 ELSE (CHOOSE x \in of(id) : TRUE).total
        /\ toRecipient[id] = IF of(id) = {} THEN 0 ELSE (CHOOSE x \in of(id) : TRUE).released
    BY DEF Init
  <2> HIDE DEF of
  <2> QED
    BY <2>1, <2>2
<1> QED
  BY <1>1, <1>2, <1>3

\* At the start the money matches the first book.
LEMMA InitMoney ==
  ASSUME Init
  PROVE  /\ funded \in [Ids -> Nat] /\ toRecipient \in [Ids -> Nat] /\ toSender \in [Ids -> Nat]
         /\ custody \in [Tokens -> Nat]
         /\ Money(FirstBook, custody, funded, toRecipient, toSender)
<1> DEFINE b == FirstBook
<1>1. DOMAIN b = LegacyIds /\ LegacyIds \subseteq Ids
  BY LegacyFacts DEF FirstBook
<1>2. ASSUME NEW id \in LegacyIds
      PROVE  /\ funded[id] = b[id].total /\ toRecipient[id] = b[id].released
             /\ b[id].total \in Nat /\ b[id].released \in Nat
             /\ b[id].total > 0 /\ b[id].released <= b[id].total
             /\ LegacyHoldsValue => b[id].released < b[id].total
  BY FirstAccounts
<1>3. ASSUME NEW id \in Ids, id \notin LegacyIds PROVE funded[id] = 0 /\ toRecipient[id] = 0
  BY <1>3, FirstAccounts
<1>4. toSender = [id \in Ids |-> 0] /\ \A id \in Ids : toSender[id] = 0
  BY DEF Init
<1>5. DOMAIN funded = Ids /\ DOMAIN toRecipient = Ids /\ funded = [id \in Ids |-> funded[id]]
      /\ toRecipient = [id \in Ids |-> toRecipient[id]]
  BY DEF Init
<1>6. \A id \in Ids : funded[id] \in Nat /\ toRecipient[id] \in Nat
  BY <1>2, <1>3
<1>7. funded \in [Ids -> Nat] /\ toRecipient \in [Ids -> Nat] /\ toSender \in [Ids -> Nat]
  BY <1>4, <1>5, <1>6
<1>8. custody = [tok \in Tokens |-> Debt(b, tok)] /\ \A tok \in Tokens : Debt(b, tok) \in Nat
  <2>1. ASSUME NEW tok \in Tokens PROVE TotalOf(AllLegacy, tok) = Debt(b, tok) /\ Debt(b, tok) \in Nat
    <3>1. [id \in Ids |-> LeftOn(AllLegacy, id, tok)] = [id \in Ids |-> Owing(b, id, tok)]
          /\ [id \in Ids |-> Owing(b, id, tok)] \in [Ids -> Nat]
      BY LeftIsOwing
    <3>2. SumOver([id \in Ids |-> Owing(b, id, tok)]) \in Nat
      BY <3>1, SumNat
    <3> QED
      BY <3>1, <3>2 DEF TotalOf, Debt
  <2>2. custody = [tok \in Tokens |-> TotalOf(AllLegacy, tok)]
    BY DEF Init
  <2> HIDE DEF b
  <2> QED
    BY <2>1, <2>2
<1>9. \E k \in 0 .. K : Numbered(funded, k)
  <2> DEFINE k == Cardinality(LegacyIds)
  <2>1. LegacyIds = 1 .. k
    BY LegacyAssumption DEF LegacyAssumption
  <2>2. IsFiniteSet(Ids)
    BY ContractAssumption DEF ContractAssumption
  <2>3. k \in Nat /\ k <= K
    BY <1>1, <2>2, FS_Subset, FS_CardinalityType DEF K
  <2>4. {id \in Ids : funded[id] > 0} = LegacyIds
    <3>1. ASSUME NEW id \in Ids PROVE funded[id] > 0 <=> id \in LegacyIds
      BY <1>2, <1>3
    <3> QED
      BY <1>1, <3>1
  <2> HIDE DEF k
  <2>5. Numbered(funded, k)
    BY <2>1, <2>4 DEF Numbered
  <2> QED
    BY <2>3, <2>5, IdsAre
<1> HIDE DEF b
<1>10. ASSUME NEW id \in DOMAIN b
       PROVE  /\ funded[id] > 0 /\ toRecipient[id] = b[id].released
              /\ toSender[id] + b[id].total = funded[id] /\ b[id].released <= b[id].total
  BY <1>1, <1>2, <1>4
<1>11. ASSUME NEW id \in Ids, funded[id] = 0 PROVE toRecipient[id] = 0 /\ toSender[id] = 0
  BY <1>2, <1>3, <1>4, <1>11
<1>12. Money(b, custody, funded, toRecipient, toSender)
  BY <1>1, <1>2, <1>8, <1>9, <1>10, <1>11 DEF Money
<1> QED
  BY <1>7, <1>8, <1>12 DEF b

\* So the first book accounts for everything.
LEMMA FirstSound ==
  ASSUME Init
  PROVE  Sound(FirstBook, Begin)
<1>1. /\ funded \in [Ids -> Nat] /\ toRecipient \in [Ids -> Nat] /\ toSender \in [Ids -> Nat]
      /\ custody \in [Tokens -> Nat]
      /\ Money(FirstBook, custody, funded, toRecipient, toSender)
  BY InitMoney
<1>2. /\ vestings = [r \in Recipients |-> <<>>] /\ legacy = LegacyLists /\ batchInfo = <<>>
      /\ now = 0 /\ paused = {}
  BY DEF Init
<1>3. vestings \in Lists /\ legacy \in Lists /\ batchInfo \in Seq(Senders)
  BY <1>2, LegacyFacts DEF Lists
<1>4. Named(vestings, batchInfo)
  BY <1>2 DEF Named
<1>5. IsBook(FirstBook) /\ Describes(FirstBook, vestings, legacy)
  BY <1>2, FirstDescribes
<1>6. Sound(FirstBook, Begin)
  <2>1. Begin \in Tx
    BY <1>1, <1>3 DEF Begin, Tx
  <2> QED
    BY <1>1, <1>4, <1>5, <2>1 DEF Sound, Begin
<1> QED
  BY <1>6

\* The contract starts with sound books.
LEMMA InitInv == Init => Inv
<1> SUFFICES ASSUME Init PROVE Inv
  OBVIOUS
<1>1. Sound(FirstBook, Begin)
  BY FirstSound
<1>2. now \in 0 .. MaxTime /\ paused \subseteq Ops
  BY ContractAssumption DEF Init, ContractAssumption
<1> QED
  BY <1>1, <1>2 DEF Inv

-----------------------------------------------------------------------------
(* The theorems *)

\* Every operation leads from sound books to sound books.
LEMMA BookStep ==
  ASSUME now \in Nat, NEW b, Sound(b, Begin), [Next]_vars
  PROVE  \E c : Sound(c, Begin')
<1>1. CASE Tick
  BY <1>1 DEF Tick, Begin
<1>2. ASSUME NEW mask \in Masks, TogglePause(mask) PROVE \E c : Sound(c, Begin')
  BY <1>2 DEF TogglePause, Begin
<1>3. ASSUME NEW s \in Senders, NEW w \in Windows, NEW entries \in Deposits, Deposit(s, w, entries)
      PROVE  \E c : Sound(c, Begin')
  BY <1>3, DepositStep
<1>4. ASSUME NEW r \in Recipients, NEW i \in Indices, NEW a \in Parts, Claim(r, i, a)
      PROVE  \E c : Sound(c, Begin')
  BY <1>4, ClaimStep
<1>5. ASSUME NEW r \in Recipients, ClaimAll(r) PROVE \E c : Sound(c, Begin')
  BY <1>5, ClaimAllStep
<1>6. ASSUME NEW r \in Recipients, Touch(r) PROVE \E c : Sound(c, Begin')
  BY <1>6, TouchStep
<1>7. ASSUME NEW s \in Senders, NEW q \in Request, Revoke(s, q) PROVE \E c : Sound(c, Begin')
  BY <1>7, RevokeStep DEF RevokesSome
<1>8. ASSUME NEW s \in Senders, NEW reqs \in Batches(Request),
             BatchRevoke(s, reqs) \/ RevokeBatch(s, reqs)
      PROVE  \E c : Sound(c, Begin')
  BY <1>8, BatchRevokeStep DEF RevokesSome
<1>9. ASSUME NEW r \in Recipients, NEW new \in Recipients, NEW i \in Indices,
             TransferVestingRights(r, i, new)
      PROVE  \E c : Sound(c, Begin')
  BY <1>9, TransferStep
<1>10. ASSUME NEW s \in Senders, NEW q \in Request, NEW a \in Parts, RevokePartial(s, q, a)
       PROVE  \E c : Sound(c, Begin')
  BY <1>10, RevokePartialStep
<1>11. CASE UNCHANGED vars
  BY <1>11 DEF vars, Begin
<1> QED
  BY <1>1, <1>2, <1>3, <1>4, <1>5, <1>6, <1>7, <1>8, <1>9, <1>10, <1>11 DEF Next

\* The clock and the pause mask.
LEMMA ClockStep ==
  ASSUME now \in 0 .. MaxTime, paused \subseteq Ops, NEW b, Sound(b, Begin), [Next]_vars
  PROVE  now' \in 0 .. MaxTime /\ paused' \subseteq Ops
<1>0. MaxTime \in Nat /\ now \in Nat
  BY ContractAssumption DEF ContractAssumption
<1>1. CASE Tick
  BY <1>0, <1>1 DEF Tick
<1>2. ASSUME NEW mask \in Masks, TogglePause(mask) PROVE now' \in 0 .. MaxTime /\ paused' \subseteq Ops
  BY <1>2, ContractAssumption DEF ContractAssumption, TogglePause, Ops
<1>3. ASSUME NEW tx, Commit(tx) PROVE now' \in 0 .. MaxTime /\ paused' \subseteq Ops
  BY <1>3 DEF Commit
<1>4. CASE UNCHANGED vars
  BY <1>4 DEF vars
<1> QED
  BY <1>1, <1>2, <1>3, <1>4
     DEF Next, Deposit, Claim, ClaimAll, Touch, Revoke, BatchRevoke, RevokeBatch,
         TransferVestingRights, RevokePartial

\* The invariant is inductive.
LEMMA InvStep == Inv /\ [Next]_vars => Inv'
<1> SUFFICES ASSUME Inv, [Next]_vars PROVE Inv'
  OBVIOUS
<1>1. PICK b : Sound(b, Begin)
  BY DEF Inv
<1>2. now \in 0 .. MaxTime /\ paused \subseteq Ops /\ now \in Nat
  BY ContractAssumption DEF Inv, ContractAssumption
<1>3. \E c : Sound(c, Begin')
  BY <1>1, <1>2, BookStep
<1>4. now' \in 0 .. MaxTime /\ paused' \subseteq Ops
  BY <1>1, <1>2, ClockStep
<1> QED
  BY <1>3, <1>4 DEF Inv

\* The books are sound in every state of the contract.
LEMMA Invariance == Spec => []Inv
<1>1. Init => Inv
  BY InitInv
<1>2. Inv /\ [Next]_vars => Inv'
  BY InvStep
<1> QED
  BY <1>1, <1>2, PTL DEF Spec

\* The stored entries are those of the book.
LEMMA StoredInBook ==
  ASSUME NEW b, Sound(b, Begin)
  PROVE  /\ \A p \in Stored :
               /\ p[1] \in Recipients /\ p[2].id \in DOMAIN b
               /\ b[p[2].id] = Shown(p[1], p[2])
         /\ \A id \in DOMAIN b : \E p \in Stored : p[2].id = id
<1>1. Describes(b, vestings, legacy) /\ vestings \in Lists /\ legacy \in Lists
  BY DEF Sound, Begin, Tx
<1>2. \A r \in Recipients : \A i \in DOMAIN legacy[r] :
          legacy[r][i] \in Schedule /\ Renewed(legacy[r][i]).id = legacy[r][i].id
  <2>1. \A r \in Recipients : \A i \in DOMAIN legacy[r] : legacy[r][i] \in Schedule
    BY <1>1 DEF Lists
  <2> QED
    BY <2>1, SenderOfWindow
<1>3. Stored = InNewLists \cup InOldLists
  BY DEF Stored
<1>4a. ASSUME NEW p \in InNewLists
       PROVE  \E r \in Recipients : \E i \in DOMAIN vestings[r] : p = <<r, vestings[r][i]>>
  <2>1. PICK r \in Recipients : p \in {<<r, v>> : v \in ToSet(vestings[r])}
    BY DEF InNewLists
  <2>2. PICK v \in ToSet(vestings[r]) : p = <<r, v>>
    BY <2>1
  <2>3. PICK i \in DOMAIN vestings[r] : v = vestings[r][i]
    BY <2>2 DEF ToSet
  <2> QED
    BY <2>2, <2>3
<1>4b. ASSUME NEW p \in InOldLists
       PROVE  \E r \in Recipients : \E i \in DOMAIN legacy[r] : p = <<r, Renewed(legacy[r][i])>>
  <2>1. PICK r \in Recipients : p \in {<<r, Renewed(v)>> : v \in ToSet(legacy[r])}
    BY DEF InOldLists, Renewed
  <2>2. PICK v \in ToSet(legacy[r]) : p = <<r, Renewed(v)>>
    BY <2>1
  <2>3. PICK i \in DOMAIN legacy[r] : v = legacy[r][i]
    BY <2>2 DEF ToSet
  <2> QED
    BY <2>2, <2>3
<1>4c. ASSUME NEW r \in Recipients, NEW i \in DOMAIN vestings[r]
       PROVE  <<r, vestings[r][i]>> \in InNewLists
  <2>1. vestings[r][i] \in ToSet(vestings[r])
    BY DEF ToSet
  <2>2. <<r, vestings[r][i]>> \in {<<r, v>> : v \in ToSet(vestings[r])}
    BY <2>1
  <2> QED
    BY <2>2 DEF InNewLists
<1>4d. ASSUME NEW r \in Recipients, NEW i \in DOMAIN legacy[r]
       PROVE  <<r, Renewed(legacy[r][i])>> \in InOldLists
  <2>1. legacy[r][i] \in ToSet(legacy[r])
    BY DEF ToSet
  <2>2. <<r, Renewed(legacy[r][i])>> \in {<<r, Renewed(v)>> : v \in ToSet(legacy[r])}
    BY <2>1
  <2>3. InOldLists = UNION {{<<q, Renewed(v)>> : v \in ToSet(legacy[q])} : q \in Recipients}
    BY DEF InOldLists, Renewed
  <2> QED
    BY <2>2, <2>3
<1>4. ASSUME NEW p \in Stored
      PROVE  \E r \in Recipients :
                \/ \E i \in DOMAIN vestings[r] : p = <<r, vestings[r][i]>>
                \/ \E i \in DOMAIN legacy[r] : p = <<r, Renewed(legacy[r][i])>>
  <2>1. CASE p \in InNewLists
    BY <1>4a, <2>1
  <2>2. CASE p \in InOldLists
    BY <1>4b, <2>2
  <2> QED
    BY <1>3, <2>1, <2>2
<1>5. ASSUME NEW p \in Stored
      PROVE  /\ p[1] \in Recipients /\ p[2].id \in DOMAIN b
             /\ b[p[2].id] = Shown(p[1], p[2])
  <2>1. PICK r \in Recipients :
                \/ \E i \in DOMAIN vestings[r] : p = <<r, vestings[r][i]>>
                \/ \E i \in DOMAIN legacy[r] : p = <<r, Renewed(legacy[r][i])>>
    BY <1>4
  <2>2. ASSUME NEW i \in DOMAIN vestings[r], p = <<r, vestings[r][i]>>
        PROVE  /\ p[1] \in Recipients /\ p[2].id \in DOMAIN b
               /\ b[p[2].id] = Shown(p[1], p[2])
    <3>1. p[1] = r /\ p[2] = vestings[r][i]
      BY <2>2
    <3> QED
      BY <1>1, <3>1 DEF Describes
  <2>3. ASSUME NEW i \in DOMAIN legacy[r], p = <<r, Renewed(legacy[r][i])>>
        PROVE  /\ p[1] \in Recipients /\ p[2].id \in DOMAIN b
               /\ b[p[2].id] = Shown(p[1], p[2])
    <3>1. p[1] = r /\ p[2] = Renewed(legacy[r][i])
      BY <2>3
    <3> QED
      BY <1>1, <1>2, <3>1 DEF Describes
  <2> QED
    BY <2>1, <2>2, <2>3
<1>6. ASSUME NEW id \in DOMAIN b PROVE \E p \in Stored : p[2].id = id
  <2>1. PICK r \in Recipients : \/ \E i \in DOMAIN vestings[r] : vestings[r][i].id = id
                                \/ \E i \in DOMAIN legacy[r] : legacy[r][i].id = id
    BY <1>1 DEF Describes
  <2>2. ASSUME NEW i \in DOMAIN vestings[r], vestings[r][i].id = id PROVE \E p \in Stored : p[2].id = id
    <3>1. <<r, vestings[r][i]>> \in Stored
      BY <1>3, <1>4c
    <3> QED
      BY <2>2, <3>1
  <2>3. ASSUME NEW i \in DOMAIN legacy[r], legacy[r][i].id = id PROVE \E p \in Stored : p[2].id = id
    <3>1. <<r, Renewed(legacy[r][i])>> \in Stored
      BY <1>3, <1>4d
    <3> QED
      BY <1>2, <2>3, <3>1
  <2> QED
    BY <2>1, <2>2, <2>3
<1> QED
  BY <1>5, <1>6

\* What is owed on the stored schedules is the debt of the book.
LEMMA OwedIsDebt ==
  ASSUME NEW b, Sound(b, Begin), NEW tok \in Tokens
  PROVE  Owed(tok) = Debt(b, tok)
<1> DEFINE S == {p[2] : p \in Stored}
<1>1. ASSUME NEW v \in S
      PROVE  /\ v.id \in DOMAIN b /\ b[v.id].token = v.token /\ b[v.id].total = v.total
             /\ b[v.id].released = v.released
  <2>1. PICK p \in Stored : v = p[2]
    OBVIOUS
  <2>2. v.id \in DOMAIN b /\ b[v.id] = Shown(p[1], v)
    BY <2>1, StoredInBook
  <2> QED
    BY <2>2 DEF Shown
<1>2. \A id \in DOMAIN b : \E v \in S : v.id = id
  BY StoredInBook
<1>3. Owed(tok) = TotalOf(S, tok)
  BY DEF Owed
<1> HIDE DEF S
<1>4. ASSUME NEW id \in Ids PROVE LeftOn(S, id, tok) = Owing(b, id, tok)
  <2>1. CASE \E v \in S : v.id = id /\ v.token = tok
    <3> DEFINE v == CHOOSE x \in S : x.id = id /\ x.token = tok
    <3>1. v \in S /\ v.id = id /\ v.token = tok
      BY <2>1
    <3>2. LeftOn(S, id, tok) = v.total - v.released
      BY <2>1 DEF LeftOn
    <3> HIDE DEF v
    <3> QED
      BY <1>1, <3>1, <3>2 DEF Owing
  <2>2. CASE ~ \E v \in S : v.id = id /\ v.token = tok
    <3>1. LeftOn(S, id, tok) = 0
      BY <2>2 DEF LeftOn
    <3>2. ~(id \in DOMAIN b /\ b[id].token = tok)
      BY <1>1, <1>2, <2>2
    <3> QED
      BY <3>1, <3>2 DEF Owing
  <2> QED
    BY <2>1, <2>2
<1>5. [id \in Ids |-> LeftOn(S, id, tok)] = [id \in Ids |-> Owing(b, id, tok)]
  BY <1>4
<1> QED
  BY <1>3, <1>5 DEF TotalOf, Debt

\* Storage, balances and the per-id history always have their types.
THEOREM ContractTypes == Spec => []TypeOK
<1>1. Inv => TypeOK
  BY DEF Inv, Sound, Begin, Tx, Lists, TypeOK
<1> QED
  BY <1>1, Invariance, PTL

\* A stored schedule's batch always names its own depositor.
THEOREM ContractNamesDepositor == Spec => []BatchNamesDepositor
<1>1. Inv => BatchNamesDepositor
  BY DEF Inv, Sound, Begin, Named, BatchNamesDepositor
<1> QED
  BY <1>1, Invariance, PTL

\* Custody is always exactly what is owed, unless a schedule was overpaid.
THEOREM ContractCustodyIsExact == Spec => []CustodyIsExact
<1>1. Inv => CustodyIsExact
  <2> SUFFICES ASSUME Inv, Overpaid = {}, NEW tok \in Tokens PROVE custody[tok] = Owed(tok)
    BY DEF CustodyIsExact
  <2>1. PICK b : Sound(b, Begin)
    BY DEF Inv
  <2>2. Money(b, custody, funded, toRecipient, toSender)
    BY <2>1 DEF Sound, Begin
  <2>3. \A id \in Ids : funded[id] \in Nat /\ toRecipient[id] \in Nat /\ toSender[id] \in Nat
    BY <2>1 DEF Sound, Begin, Tx
  <2>4. Within(funded, toRecipient, toSender)
    <3>1. ASSUME NEW id \in Ids PROVE toRecipient[id] + toSender[id] <= funded[id]
      BY <2>3 DEF Overpaid
    <3> QED
      BY <3>1 DEF Within
  <2>5. custody[tok] = Debt(b, tok)
    BY <2>2, <2>4 DEF Money
  <2> QED
    BY <2>1, <2>5, OwedIsDebt
<1> QED
  BY <1>1, Invariance, PTL

\* No empty schedule lingers in storage.
THEOREM ContractStoredHoldsValue ==
  ASSUME LegacyHoldsValue
  PROVE  Spec => []StoredHoldsValue
<1>1. Inv => StoredHoldsValue
  <2> SUFFICES ASSUME Inv, NEW p \in Stored, toSender[p[2].id] = 0
               PROVE  p[2].released < p[2].total
    BY DEF StoredHoldsValue
  <2>1. PICK b : Sound(b, Begin)
    BY DEF Inv
  <2>2. p[2].id \in DOMAIN b /\ b[p[2].id] = Shown(p[1], p[2])
    BY <2>1, StoredInBook
  <2>3. b[p[2].id].released < b[p[2].id].total
    BY <2>1, <2>2 DEF Sound, Begin, Money
  <2> QED
    BY <2>2, <2>3 DEF Shown
<1> QED
  BY <1>1, Invariance, PTL

-----------------------------------------------------------------------------
(* The ledger that the storage implements *)

\* The book as the ledger has it.
OfLedger(e) ==
    [owner |-> e.owner, sender |-> e.sender, total |-> e.total, released |-> e.released,
     win |-> e.win]
Plain(b) == [id \in DOMAIN b |-> OfLedger(b[id])]

\* The ledger computes what has vested in the same way.
LEMMA SameVested ==
  ASSUME NEW total, NEW w, NEW t
  PROVE  Ledger!Vested(total, w, t) = Vested(total, w, t)
  BY DEF Ledger!Vested, Vested, Ledger!Elapsed, Elapsed, Ledger!Duration, Duration,
         Ledger!StepsDone, StepsDone, Ledger!StepsAll, StepsAll

\* The ledger sees the book.
LEMMA SchedIs ==
  ASSUME NEW b, Sound(b, Begin)
  PROVE  LedgerSched = Plain(b)
<1> DEFINE S == Stored
           entry(id) == CHOOSE p \in S : p[2].id = id
<1>1. /\ \A p \in S : p[1] \in Recipients /\ p[2].id \in DOMAIN b /\ b[p[2].id] = Shown(p[1], p[2])
      /\ \A id \in DOMAIN b : \E p \in S : p[2].id = id
  BY StoredInBook
<1> HIDE DEF S
<1>2. {p[2].id : p \in S} = DOMAIN b
  BY <1>1
<1>3. ASSUME NEW id \in DOMAIN b
      PROVE  LedgerEntry(entry(id)[1], entry(id)[2]) = OfLedger(b[id])
  <2>1. entry(id) \in S /\ entry(id)[2].id = id
    BY <1>1
  <2> HIDE DEF entry
  <2>2. b[id] = Shown(entry(id)[1], entry(id)[2])
    BY <1>1, <2>1
  <2> QED
    BY <2>2 DEF Shown, LedgerEntry, OfLedger
<1>4. LedgerSched = [id \in {p[2].id : p \in S} |-> LedgerEntry(entry(id)[1], entry(id)[2])]
  BY DEF LedgerSched, S
<1> HIDE DEF entry
<1>5. [id \in {p[2].id : p \in S} |-> LedgerEntry(entry(id)[1], entry(id)[2])]
      = [id \in DOMAIN b |-> OfLedger(b[id])]
  BY <1>2, <1>3
<1> QED
  BY <1>4, <1>5 DEF Plain

\* What it sees of it.
LEMMA LedgerSees ==
  ASSUME now \in Nat, NEW b, Sound(b, Begin)
  PROVE  /\ LedgerSched = Plain(b) /\ DOMAIN LedgerSched = DOMAIN b /\ Ledger!Open = DOMAIN b
         /\ DOMAIN b \subseteq Ids
         /\ \A id \in DOMAIN b :
                /\ LedgerSched[id] = OfLedger(b[id])
                /\ LedgerSched[id].owner = b[id].owner /\ LedgerSched[id].sender = b[id].sender
                /\ LedgerSched[id].total = b[id].total
                /\ LedgerSched[id].released = b[id].released
                /\ LedgerSched[id].win = b[id].win
                /\ b[id] \in Shape /\ b[id].released <= b[id].total
                /\ Ledger!VestedOf(id) = VestedNow(b[id])
                /\ Ledger!Claimable(id) = VestedNow(b[id]) - b[id].released
                /\ VestedNow(b[id]) \in Nat /\ VestedNow(b[id]) <= b[id].total
<1>1. LedgerSched = Plain(b)
  BY SchedIs
<1>2. /\ DOMAIN LedgerSched = DOMAIN b
      /\ \A id \in DOMAIN b : LedgerSched[id] = OfLedger(b[id])
  BY <1>1 DEF Plain
<1>3. IsBook(b)
  BY DEF Sound
<1>4. Ledger!Open = DOMAIN b /\ DOMAIN b \subseteq Ids
  BY <1>2, <1>3 DEF Ledger!Open, IsBook
<1>5. ASSUME NEW id \in DOMAIN b
      PROVE  /\ LedgerSched[id].owner = b[id].owner /\ LedgerSched[id].sender = b[id].sender
             /\ LedgerSched[id].total = b[id].total
             /\ LedgerSched[id].released = b[id].released
             /\ LedgerSched[id].win = b[id].win
             /\ b[id] \in Shape /\ b[id].released <= b[id].total
             /\ Ledger!VestedOf(id) = VestedNow(b[id])
             /\ Ledger!Claimable(id) = VestedNow(b[id]) - b[id].released
             /\ VestedNow(b[id]) \in Nat /\ VestedNow(b[id]) <= b[id].total
  <2>1. /\ LedgerSched[id].owner = b[id].owner /\ LedgerSched[id].sender = b[id].sender
        /\ LedgerSched[id].total = b[id].total
        /\ LedgerSched[id].released = b[id].released
        /\ LedgerSched[id].win = b[id].win
    BY <1>2 DEF OfLedger
  <2>2. b[id] \in Shape
    BY <1>3, BookAt
  <2>3. b[id].released <= b[id].total
    BY DEF Sound, Money
  <2>4. VestedNow(b[id]) \in Nat /\ VestedNow(b[id]) <= b[id].total
    BY <2>2, DueType
  <2>5. Ledger!VestedOf(id) = VestedNow(b[id])
    BY <2>1, SameVested DEF Ledger!VestedOf, VestedNow
  <2>6. Ledger!Claimable(id) = VestedNow(b[id]) - b[id].released
    BY <2>1, <2>5 DEF Ledger!Claimable
  <2> QED
    BY <2>1, <2>2, <2>3, <2>4, <2>5, <2>6
<1> QED
  BY <1>1, <1>2, <1>4, <1>5

\* The books seen by the ledger, in every state.
Faithful == \A b : Sound(b, Begin) => LedgerSched = Plain(b)

\* In every reachable state, any book that matches the storage is what the ledger sees.
LEMMA AlwaysFaithful == Spec => []Faithful
<1>1. Faithful
  BY SchedIs DEF Faithful
<1> QED
  BY <1>1, PTL

\* So a step that leads to book c ends in a state where the ledger sees c.
LEMMA SeenNext == Faithful' => \A c : Sound(c, Begin') => LedgerSched' = Plain(c)
  BY DEF Faithful

\* A release in the contract is one in the ledger.
ReleasedBy(b, S, pay) ==
    [id \in DOMAIN b \ {x \in S : b[x].released + pay[x] >= b[x].total} |->
        IF id \in S THEN Raised(b[id], pay[id]) ELSE b[id]]
PaidBy(S, pay, R) == [id \in Ids |-> IF id \in S THEN R[id] + pay[id] ELSE R[id]]

\* Releasing raises what was released of one schedule of the ledger.
LEMMA RaisedIs ==
  ASSUME NEW e \in Shape, NEW n \in Nat
  PROVE  OfLedger(Raised(e, n)) = [OfLedger(e) EXCEPT !.released = @ + n]
<1> DEFINE m == e.released + n
<1>1. Raised(e, n) = [e EXCEPT !.released = m]
  BY DEF Raised
<1>2. [OfLedger(e) EXCEPT !.released = @ + n] = [OfLedger(e) EXCEPT !.released = m]
  BY DEF OfLedger
<1> HIDE DEF m
<1>3. OfLedger([e EXCEPT !.released = m]) = [OfLedger(e) EXCEPT !.released = m]
  BY DEF OfLedger, Shape
<1> QED
  BY <1>1, <1>2, <1>3

\* A release seen by the ledger: each schedule of S grows by what it is paid.
LEMMA ReleaseSeen ==
  ASSUME now \in Nat, NEW b, Sound(b, Begin), NEW S \in SUBSET DOMAIN b, NEW pay \in [S -> Nat],
         LedgerSched' = Plain(ReleasedBy(b, S, pay)),
         toRecipient' = PaidBy(S, pay, toRecipient),
         UNCHANGED <<now, funded, toSender>>
  PROVE  Ledger!Release(S, pay)
<1> DEFINE done == {id \in S : LedgerSched[id].released + pay[id] >= LedgerSched[id].total}
           c == ReleasedBy(b, S, pay)
           old == {x \in S : b[x].released + pay[x] >= b[x].total}
<1>1. /\ Ledger!Open = DOMAIN b
      /\ \A id \in DOMAIN b : /\ LedgerSched[id] = OfLedger(b[id]) /\ b[id] \in Shape
                              /\ LedgerSched[id].total = b[id].total
                              /\ LedgerSched[id].released = b[id].released
  BY LedgerSees
<1>2. done = old
  BY <1>1
<1>3. DOMAIN c = DOMAIN b \ old
  BY DEF ReleasedBy
<1>4. ASSUME NEW id \in DOMAIN b \ old
      PROVE  OfLedger(c[id]) = IF id \in S THEN [LedgerSched[id] EXCEPT !.released = @ + pay[id]]
                               ELSE LedgerSched[id]
  <2>1. c[id] = IF id \in S THEN Raised(b[id], pay[id]) ELSE b[id]
    BY DEF ReleasedBy
  <2>2. CASE id \in S
    <3>1. OfLedger(Raised(b[id], pay[id])) = [OfLedger(b[id]) EXCEPT !.released = @ + pay[id]]
      BY <1>1, <2>2, RaisedIs
    <3> QED
      BY <1>1, <2>1, <2>2, <3>1
  <2>3. CASE id \notin S
    BY <1>1, <2>1, <2>3
  <2> QED
    BY <2>2, <2>3
<1> HIDE DEF c, old
<1>5. LedgerSched' = [id \in DOMAIN b \ old |->
                         IF id \in S THEN [LedgerSched[id] EXCEPT !.released = @ + pay[id]]
                         ELSE LedgerSched[id]]
  <2>1. LedgerSched' = [id \in DOMAIN b \ old |-> OfLedger(c[id])]
    BY <1>3 DEF Plain, c
  <2> QED
    BY <1>4, <2>1
<1>6. LedgerSched' = [id \in Ledger!Open \ done |->
                         IF id \in S THEN [LedgerSched[id] EXCEPT !.released = @ + pay[id]]
                         ELSE LedgerSched[id]]
  BY <1>1, <1>2, <1>5
<1>7. toRecipient' = [id \in Ids |->
          IF id \in S THEN toRecipient[id] + pay[id] ELSE toRecipient[id]]
  BY DEF PaidBy
<1> QED
  BY <1>6, <1>7 DEF Ledger!Release

\* claim (lib.rs) in the ledger.
LEMMA ClaimSeen ==
  ASSUME now \in Nat, NEW b, Sound(b, Begin), NEW id \in DOMAIN b, NEW p \in 1 .. Due(b[id]),
         LedgerSched' = Plain(AfterRelease(b, id, p)),
         toRecipient' = Gained(toRecipient, id, p),
         UNCHANGED <<now, funded, toSender>>
  PROVE  Ledger!Next
<1> DEFINE S == {id}
           pay == [i \in {id} |-> p]
<1>1. /\ Ledger!Open = DOMAIN b /\ b[id] \in Shape /\ id \in Ids
      /\ Ledger!Claimable(id) = VestedNow(b[id]) - b[id].released
      /\ VestedNow(b[id]) \in Nat /\ b[id].released \in Nat
  BY LedgerSees DEF Shape
<1>2. p \in 1 .. Ledger!Claimable(id) /\ p \in Nat
  BY <1>1 DEF Due, Positive
<1>3. ReleasedBy(b, S, pay) = AfterRelease(b, id, p)
  <2>1. CASE b[id].released + p >= b[id].total
    BY <2>1 DEF ReleasedBy, AfterRelease, Without
  <2>2. CASE ~(b[id].released + p >= b[id].total)
    <3>1. IsBook(b)
      BY DEF Sound
    <3>2. AfterRelease(b, id, p) = [b EXCEPT ![id] = Raised(b[id], p)]
      BY <2>2 DEF AfterRelease, Put
    <3>3. ReleasedBy(b, S, pay) = [x \in DOMAIN b |-> IF x = id THEN Raised(b[x], p) ELSE b[x]]
      BY <2>2 DEF ReleasedBy
    <3> QED
      BY <3>1, <3>2, <3>3 DEF IsBook
  <2> QED
    BY <2>1, <2>2
<1>4. PaidBy(S, pay, toRecipient) = Gained(toRecipient, id, p)
  <2>1. toRecipient \in [Ids -> Nat]
    BY DEF Sound, Tx, Begin
  <2> QED
    BY <1>1, <2>1 DEF PaidBy, Gained
<1>5. S \in SUBSET DOMAIN b /\ pay \in [S -> Nat]
  BY <1>2
<1>6. Ledger!Release(S, pay)
  <2> HIDE DEF S, pay
  <2> QED
    BY <1>3, <1>4, <1>5, ReleaseSeen
<1>7. Ledger!Claim(id, p)
  BY <1>2, <1>6 DEF Ledger!Claim
<1> QED
  BY <1>1, <1>2, <1>7 DEF Ledger!Next

\* claim_all (lib.rs) in the ledger.
LEMMA ClaimAllSeen ==
  ASSUME now \in Nat, NEW b, Sound(b, Begin), NEW r \in Recipients, DueTo(b, r) # {},
         LedgerSched' = Plain(Released(b, DueTo(b, r))),
         toRecipient' = PaidDue(b, DueTo(b, r), toRecipient),
         UNCHANGED <<now, funded, toSender>>
  PROVE  Ledger!Next
<1> DEFINE S == {id \in Ledger!Open : LedgerSched[id].owner = r /\ Ledger!Claimable(id) > 0}
           pay == [id \in S |-> Ledger!Claimable(id)]
<1>1. /\ Ledger!Open = DOMAIN b
      /\ \A id \in DOMAIN b :
             /\ LedgerSched[id].owner = b[id].owner
             /\ Ledger!Claimable(id) = VestedNow(b[id]) - b[id].released
             /\ VestedNow(b[id]) \in Nat /\ b[id].released \in Nat
  BY LedgerSees DEF Shape
<1>2. \A id \in DOMAIN b : /\ Due(b[id]) > 0 <=> Ledger!Claimable(id) > 0
                           /\ Due(b[id]) > 0 => Due(b[id]) = Ledger!Claimable(id)
                           /\ Due(b[id]) \in Nat
  BY <1>1 DEF Due, Positive
<1>3. S = DueTo(b, r) /\ S \in SUBSET DOMAIN b
  BY <1>1, <1>2 DEF DueTo
<1>4. \A id \in S : Ledger!Claimable(id) = Due(b[id]) /\ Due(b[id]) \in Nat
  BY <1>2, <1>3
<1> HIDE DEF S
<1>5. pay \in [S -> Nat] /\ \A id \in S : pay[id] = Due(b[id])
  BY <1>4
<1> HIDE DEF pay
<1>6. ReleasedBy(b, S, pay) = Released(b, S)
  <2>1. {x \in S : b[x].released + pay[x] >= b[x].total}
        = {x \in S : b[x].released + Due(b[x]) >= b[x].total}
    BY <1>5
  <2> QED
    BY <1>5, <2>1 DEF ReleasedBy, Released
<1>7. PaidBy(S, pay, toRecipient) = PaidDue(b, S, toRecipient)
  BY <1>5 DEF PaidBy, PaidDue
<1>8. Ledger!Release(S, pay)
  BY <1>3, <1>5, <1>6, <1>7, ReleaseSeen
<1>9. Ledger!ClaimAll(r)
  BY <1>3, <1>8 DEF Ledger!ClaimAll, S, pay
<1> QED
  BY <1>9 DEF Ledger!Next

\* The three revocations in the ledger; one that finds nothing to revoke is no step.
LEMMA RevokeSeen ==
  ASSUME now \in Nat, NEW b, Sound(b, Begin), NEW caller \in Senders,
         NEW S \in SUBSET DOMAIN b, \A id \in S : MayRevoke(b, caller, id),
         LedgerSched' = Plain(Revoked(b, S)),
         toSender' = PaidBack(b, S, toSender),
         toRecipient' = PaidDue(b, S, toRecipient),
         UNCHANGED <<now, funded>>
  PROVE  [Ledger!Next]_Ledger!vars
<1>1. /\ Ledger!Open = DOMAIN b /\ LedgerSched = Plain(b)
      /\ \A id \in DOMAIN b :
             /\ id \in Ids
             /\ LedgerSched[id] = OfLedger(b[id])
             /\ LedgerSched[id].sender = b[id].sender /\ LedgerSched[id].win = b[id].win
             /\ LedgerSched[id].total = b[id].total
             /\ Ledger!VestedOf(id) = VestedNow(b[id])
             /\ Ledger!Claimable(id) = VestedNow(b[id]) - b[id].released
             /\ VestedNow(b[id]) \in Nat /\ b[id].released \in Nat
  BY LedgerSees DEF Shape
<1>2. toRecipient \in [Ids -> Nat] /\ toSender \in [Ids -> Nat] /\ IsBook(b)
  BY DEF Sound, Tx, Begin
<1>3. CASE S = {}
  <2>1. Revoked(b, S) = b /\ PaidBack(b, S, toSender) = toSender
        /\ PaidDue(b, S, toRecipient) = toRecipient
    BY <1>2, <1>3, NoneYet
  <2> QED
    BY <1>1, <2>1 DEF Ledger!vars
<1>4. CASE S # {}
  <2>1. Ledger!RevocableAll(caller, S)
    BY <1>1, <1>4 DEF Ledger!RevocableAll, MayRevoke
  <2>2. LedgerSched' = Ledger!Closed(S)
    <3> DEFINE c == Revoked(b, S)
    <3>1. DOMAIN c = DOMAIN b \ S /\ \A id \in DOMAIN b \ S : c[id] = b[id]
      BY DEF Revoked
    <3> HIDE DEF c
    <3>2. Plain(c) = [id \in DOMAIN b \ S |-> LedgerSched[id]]
      BY <1>1, <3>1 DEF Plain
    <3> QED
      BY <1>1, <3>2 DEF Ledger!Closed, c
  <2>3. toSender' = [id \in Ids |->
           IF id \in S THEN toSender[id] + (LedgerSched[id].total - Ledger!VestedOf(id))
                       ELSE toSender[id]]
    BY <1>1 DEF PaidBack, Unvested
  <2>4. toRecipient' = [id \in Ids |->
           IF id \in S /\ Ledger!Claimable(id) > 0 THEN toRecipient[id] + Ledger!Claimable(id)
                                                   ELSE toRecipient[id]]
    <3>1. ASSUME NEW id \in Ids
          PROVE  (IF id \in S THEN toRecipient[id] + Due(b[id]) ELSE toRecipient[id])
                 = (IF id \in S /\ Ledger!Claimable(id) > 0
                    THEN toRecipient[id] + Ledger!Claimable(id) ELSE toRecipient[id])
      <4>1. toRecipient[id] \in Nat
        BY <1>2
      <4>2. CASE id \in S
        BY <1>1, <4>1, <4>2 DEF Due, Positive
      <4> QED
        BY <4>2
    <3> QED
      BY <3>1 DEF PaidDue
  <2>5. Ledger!Revoke(caller, S)
    BY <2>1, <2>2, <2>3, <2>4 DEF Ledger!Revoke
  <2> QED
    BY <1>1, <2>5 DEF Ledger!Next
<1> QED
  BY <1>3, <1>4

\* revoke_partial (lib.rs) in the ledger.
LEMMA RevokePartialSeen ==
  ASSUME now \in Nat, NEW b, Sound(b, Begin), NEW caller \in Senders,
         NEW amount \in Nat, NEW id \in DOMAIN b, MayRevoke(b, caller, id), amount > 0,
         amount + VestedNow(b[id]) <= b[id].total, amount + b[id].released <= b[id].total,
         LedgerSched' = Plain(Put(b, id, Shrunk(b[id], amount))),
         toSender' = Gained(toSender, id, amount),
         UNCHANGED <<now, funded, toRecipient>>
  PROVE  Ledger!Next
<1>1. /\ Ledger!Open = DOMAIN b /\ LedgerSched = Plain(b) /\ b[id] \in Shape
      /\ LedgerSched[id].sender = b[id].sender /\ LedgerSched[id].win = b[id].win
      /\ LedgerSched[id].total = b[id].total
      /\ LedgerSched[id].released = b[id].released
      /\ Ledger!VestedOf(id) = VestedNow(b[id])
      /\ VestedNow(b[id]) \in Nat /\ b[id].released \in Nat /\ b[id].total \in Nat
  BY LedgerSees DEF Shape
<1>2. amount \in 1 .. LedgerSched[id].total
  BY <1>1
<1> DEFINE e == Shrunk(b[id], amount)
           c == Put(b, id, e)
           m == b[id].total - amount
<1>3. LedgerSched' = [LedgerSched EXCEPT ![id].total = @ - amount]
  <2>1. DOMAIN c = DOMAIN b /\ \A x \in DOMAIN b : c[x] = IF x = id THEN e ELSE b[x]
    <3>1. b \in [DOMAIN b -> Shape]
      BY DEF Sound, IsBook
    <3> HIDE DEF e
    <3> QED
      BY <3>1 DEF Put
  <2>2. OfLedger(e) = [OfLedger(b[id]) EXCEPT !.total = m]
    <3>1. e = [b[id] EXCEPT !.total = m]
      BY DEF Shrunk
    <3> HIDE DEF e, m
    <3> QED
      BY <1>1, <3>1 DEF OfLedger, Shape
  <2> HIDE DEF c, e
  <2>3. Plain(c) = [x \in DOMAIN b |-> IF x = id THEN OfLedger(e) ELSE OfLedger(b[x])]
    BY <2>1 DEF Plain
  <2>4. LedgerSched[id] = OfLedger(b[id]) /\ LedgerSched = [x \in DOMAIN b |-> OfLedger(b[x])]
    BY <1>1 DEF Plain
  <2>5. [LedgerSched EXCEPT ![id].total = @ - amount]
        = [LedgerSched EXCEPT ![id] = [OfLedger(b[id]) EXCEPT !.total = m]]
    BY <1>1, <2>4
  <2> HIDE DEF m
  <2>6. [LedgerSched EXCEPT ![id] = [OfLedger(b[id]) EXCEPT !.total = m]]
        = [x \in DOMAIN b |-> IF x = id THEN OfLedger(e) ELSE OfLedger(b[x])]
    BY <2>2, <2>4
  <2> QED
    BY <2>3, <2>5, <2>6 DEF c, e
<1>4. Ledger!RevokePartial(caller, id, amount)
  BY <1>1, <1>3 DEF Ledger!RevokePartial, MayRevoke, Gained
<1> QED
  BY <1>1, <1>2, <1>4 DEF Ledger!Next

\* transfer_vesting_rights (lib.rs) in the ledger.
LEMMA TransferSeen ==
  ASSUME now \in Nat, NEW b, Sound(b, Begin), NEW new \in Recipients, NEW id \in DOMAIN b,
         LedgerSched' = Plain(Put(b, id, Handed(b[id], new))),
         UNCHANGED <<now, funded, toRecipient, toSender>>
  PROVE  Ledger!Next
<1>1. Ledger!Open = DOMAIN b /\ LedgerSched = Plain(b) /\ b[id] \in Shape
  BY LedgerSees
<1> DEFINE e == Handed(b[id], new)
           c == Put(b, id, e)
<1>2. DOMAIN c = DOMAIN b /\ \A x \in DOMAIN b : c[x] = IF x = id THEN e ELSE b[x]
  <2>1. b \in [DOMAIN b -> Shape]
    BY DEF Sound, IsBook
  <2> HIDE DEF e
  <2> QED
    BY <2>1 DEF Put
<1>3. OfLedger(e) = [OfLedger(b[id]) EXCEPT !.owner = new]
  BY <1>1 DEF OfLedger, Shape, Handed
<1> HIDE DEF c, e
<1>4. Plain(c) = [x \in DOMAIN b |-> IF x = id THEN OfLedger(e) ELSE OfLedger(b[x])]
  BY <1>2 DEF Plain
<1>5. LedgerSched[id] = OfLedger(b[id]) /\ LedgerSched = [x \in DOMAIN b |-> OfLedger(b[x])]
  BY <1>1 DEF Plain
<1>6. [LedgerSched EXCEPT ![id].owner = new]
      = [x \in DOMAIN b |-> IF x = id THEN OfLedger(e) ELSE OfLedger(b[x])]
  BY <1>3, <1>5
<1>7. LedgerSched' = [LedgerSched EXCEPT ![id].owner = new]
  BY <1>4, <1>6 DEF c, e
<1>8. Ledger!TransferRights(id, new)
  BY <1>7 DEF Ledger!TransferRights
<1> QED
  BY <1>1, <1>8 DEF Ledger!Next

\* deposit (lib.rs) in the ledger.
LEMMA DepositSeen ==
  ASSUME now \in Nat, NEW b, Sound(b, Begin), NEW sender \in Senders, NEW w \in Windows,
         NEW entries \in Batches(Entry), w.end > now,
         NEW k \in 0 .. K, Numbered(funded, k), k + Len(entries) <= K,
         LedgerSched' = Plain(Opened(b, k, Len(entries), sender, w, entries)),
         funded' = Filled(funded, k, Len(entries), entries),
         UNCHANGED <<now, toRecipient, toSender>>
  PROVE  Ledger!Next
<1> DEFINE n == Len(entries)
           S == k + 1 .. k + n
           owner == [id \in S |-> entries[id - k].recipient]
           amount == [id \in S |-> entries[id - k].amount]
           c == Opened(b, k, n, sender, w, entries)
<1>1. n \in Nat /\ \A i \in 1 .. n : entries[i] \in Entry
  BY BatchType
<1>2. K \in Nat /\ Ids = 1 .. K
  BY IdsAre
<1>3. /\ Ledger!Open = DOMAIN b /\ DOMAIN b \subseteq Ids
      /\ \A id \in DOMAIN b : LedgerSched[id] = OfLedger(b[id])
  BY LedgerSees
<1>4. funded \in [Ids -> Nat] /\ \A id \in DOMAIN b : funded[id] > 0
  BY DEF Sound, Money, Tx, Begin
<1> HIDE DEF n
<1>5. S \subseteq Ids /\ \A id \in S : funded[id] = 0
  <2>1. k + n <= K
    BY DEF n
  <2>2. S \subseteq Ids
    BY <1>1, <1>2, <2>1
  <2>3. ASSUME NEW id \in S PROVE funded[id] = 0
    <3>1. id \in Ids /\ id \notin 1 .. k
      BY <1>1, <2>2
    <3> QED
      BY <1>4, <3>1 DEF Numbered
  <2> QED
    BY <2>2, <2>3
<1>6. S \in SUBSET Ledger!Fresh
  BY <1>5 DEF Ledger!Fresh
<1>7. \A id \in S : id - k \in 1 .. n /\ entries[id - k] \in Entry /\ id \notin DOMAIN b
  BY <1>1, <1>4, <1>5
<1> HIDE DEF S
<1>8. owner \in [S -> Recipients \cup Senders] /\ amount \in [S -> Amounts]
  BY <1>7 DEF Entry
<1>9. \A id \in S : owner[id] = entries[id - k].recipient /\ amount[id] = entries[id - k].amount
  OBVIOUS
<1> HIDE DEF owner, amount
<1>10. funded' = [id \in Ids |-> IF id \in S THEN amount[id] ELSE funded[id]]
  <2>1. funded' = [id \in Ids |-> IF id \in S THEN entries[id - k].amount ELSE funded[id]]
    BY DEF Filled, S, n
  <2> QED
    BY <1>9, <2>1
<1>11. LedgerSched' = [id \in Ledger!Open \cup S |->
                           IF id \in S
                           THEN [owner |-> owner[id], sender |-> sender, total |-> amount[id],
                                 released |-> 0, win |-> w]
                           ELSE LedgerSched[id]]
  <2>1. DOMAIN c = DOMAIN b \cup S
    BY DEF Opened, S
  <2>2. ASSUME NEW id \in DOMAIN b \cup S
        PROVE  OfLedger(c[id]) = IF id \in S
                                 THEN [owner |-> owner[id], sender |-> sender, total |-> amount[id],
                                       released |-> 0, win |-> w]
                                 ELSE LedgerSched[id]
    <3>1. c[id] = IF id \in DOMAIN b THEN b[id] ELSE Deposited(sender, w, entries[id - k])
      BY DEF Opened, S
    <3>2. CASE id \in S
      <4>1. c[id] = Deposited(sender, w, entries[id - k])
        BY <1>7, <3>1, <3>2
      <4> QED
        BY <1>9, <3>2, <4>1 DEF Deposited, OfLedger
    <3>3. CASE id \notin S
      BY <1>3, <3>1, <3>3
    <3> QED
      BY <3>2, <3>3
  <2>3. LedgerSched' = Plain(c)
    BY DEF n
  <2> HIDE DEF c
  <2>4. LedgerSched' = [id \in DOMAIN b \cup S |-> OfLedger(c[id])]
    BY <2>1, <2>3 DEF Plain
  <2> QED
    BY <1>3, <2>2, <2>4
<1>12. Ledger!Deposit(sender, w, S)
  BY <1>8, <1>10, <1>11 DEF Ledger!Deposit
<1> QED
  BY <1>6, <1>12 DEF Ledger!Next

\* What the ledger is told to start with is the book of the old entries.
LEMMA LegacySchedIs == LegacySched = Plain(FirstBook)
<1> DEFINE holder(id) == CHOOSE x \in Recipients : \E v \in LegacyEntries(x) : v.id = id
           old(id) == CHOOSE x \in LegacyEntries(holder(id)) : x.id = id
<1>1. DOMAIN FirstBook = LegacyIds
  BY DEF FirstBook
<1>2. ASSUME NEW id \in LegacyIds
      PROVE  LedgerEntry(holder(id), Renewed(old(id))) = OfLedger(FirstBook[id])
  <2>1. PICK v \in AllLegacy : v.id = id
    BY LegacyFacts
  <2>2. PICK r \in Recipients : \E i \in DOMAIN LegacyLists[r] : LegacyLists[r][i] = v
    BY LegacyFacts
  <2>3. \A x \in Recipients : \A y \in LegacyEntries(x) :
            \E j \in DOMAIN LegacyLists[x] : LegacyLists[x][j] = y
    BY DEF LegacyEntries, ToSet
  <2>4. v \in LegacyEntries(r)
    BY <2>2 DEF LegacyEntries, ToSet
  <2>5. holder(id) \in Recipients /\ \E y \in LegacyEntries(holder(id)) : y.id = id
    BY <2>1, <2>4
  <2>6. old(id) \in LegacyEntries(holder(id)) /\ old(id).id = id
    BY <2>5
  <2> HIDE DEF old
  <2> HIDE DEF holder
  <2>7. PICK j \in DOMAIN LegacyLists[holder(id)] : LegacyLists[holder(id)][j] = old(id)
    BY <2>3, <2>5, <2>6
  <2>8. FirstBook[id] = Shown(holder(id), Renewed(old(id)))
    BY <2>5, <2>6, <2>7, FirstBookAt
  <2> QED
    BY <2>8 DEF OfLedger, Shown, LedgerEntry
<1>3. LegacySched = [id \in LegacyIds |-> LedgerEntry(holder(id), Renewed(old(id)))]
  BY DEF LegacySched, Renewed
<1> HIDE DEF holder, old
<1>4. Plain(FirstBook) = [id \in LegacyIds |-> OfLedger(FirstBook[id])]
  BY <1>1 DEF Plain
<1> QED
  BY <1>2, <1>3, <1>4

\* The old entries, as migration will leave them, are what the ledger starts with.
LEMMA FirstSeen ==
  ASSUME Init
  PROVE  Ledger!Init
<1>1. LedgerSched = Plain(FirstBook)
  BY FirstSound, SchedIs
<1>2. /\ DOMAIN LegacySched = LegacyIds
      /\ \A id \in LegacyIds : /\ LegacySched[id].total = FirstBook[id].total
                               /\ LegacySched[id].released = FirstBook[id].released
  BY LegacySchedIs DEF Plain, OfLedger, FirstBook
<1>3. /\ funded = [id \in Ids |-> funded[id]] /\ toRecipient = [id \in Ids |-> toRecipient[id]]
  BY DEF Init
<1>4. \A id \in Ids :
          /\ funded[id] = IF id \in DOMAIN LegacySched THEN LegacySched[id].total ELSE 0
          /\ toRecipient[id] = IF id \in DOMAIN LegacySched THEN LegacySched[id].released ELSE 0
  BY <1>2, FirstAccounts
<1>5. /\ funded = [id \in Ids |-> IF id \in DOMAIN LegacySched THEN LegacySched[id].total ELSE 0]
      /\ toRecipient =
             [id \in Ids |-> IF id \in DOMAIN LegacySched THEN LegacySched[id].released ELSE 0]
  BY <1>3, <1>4
<1>6. now = 0 /\ toSender = [id \in Ids |-> 0]
  BY DEF Init
<1> QED
  BY <1>1, <1>5, <1>6, LegacySchedIs DEF Ledger!Init

\* Every operation of the contract is one step of the ledger, or none.
LEMMA LedgerStep == Inv /\ Faithful' /\ [Next]_vars => [Ledger!Next]_Ledger!vars
<1> SUFFICES ASSUME Inv, Faithful', [Next]_vars PROVE [Ledger!Next]_Ledger!vars
  OBVIOUS
<1>0. PICK b : Sound(b, Begin)
  BY DEF Inv
<1>00. /\ now \in Nat /\ LedgerSched = Plain(b)
       /\ \A c : Sound(c, Begin') => LedgerSched' = Plain(c)
  <2>1. now \in Nat
    BY ContractAssumption DEF Inv, ContractAssumption
  <2>2. LedgerSched = Plain(b)
    BY <1>0, SchedIs
  <2> QED
    BY <2>1, <2>2, SeenNext
<1> DEFINE Step == [Ledger!Next]_Ledger!vars
<1>1. ASSUME Tick PROVE Step
  <2>1. Begin' = Begin /\ UNCHANGED <<funded, toRecipient, toSender>> /\ now < MaxTime /\ now' = now + 1
    BY <1>1 DEF Tick, Begin
  <2>2. LedgerSched' = LedgerSched
    BY <1>0, <1>00, <2>1
  <2> QED
    BY <2>1, <2>2 DEF Ledger!Next, Ledger!Tick
<1>2. ASSUME NEW mask \in Masks, TogglePause(mask) PROVE Step
  <2>1. Begin' = Begin /\ UNCHANGED <<now, funded, toRecipient, toSender>>
    BY <1>2 DEF TogglePause, Begin
  <2>2. LedgerSched' = LedgerSched
    BY <1>0, <1>00, <2>1
  <2> QED
    BY <2>1, <2>2 DEF Ledger!vars
<1>3. ASSUME NEW s \in Senders, NEW w \in Windows, NEW entries \in Deposits, Deposit(s, w, entries)
      PROVE  Step
  <2>1. w.end > now /\ entries \in Batches(Entry)
    BY <1>3 DEF Deposit, Deposits
  <2>2. PICK k \in 0 .. K :
            /\ Numbered(funded, k) /\ k + Len(entries) <= K
            /\ Sound(Opened(b, k, Len(entries), s, w, entries), Begin')
            /\ funded' = Filled(funded, k, Len(entries), entries)
            /\ UNCHANGED <<now, paused, toRecipient, toSender>>
    BY <1>0, <1>3, DepositStep
  <2>3. LedgerSched' = Plain(Opened(b, k, Len(entries), s, w, entries))
    BY <1>00, <2>2
  <2> QED
    BY <1>0, <1>00, <2>1, <2>2, <2>3, DepositSeen
<1>4. ASSUME NEW r \in Recipients, NEW i \in Indices, NEW a \in Parts, Claim(r, i, a)
      PROVE  Step
  <2>0. PICK id \in DOMAIN b : \E p \in 1 .. Due(b[id]) :
            /\ Sound(AfterRelease(b, id, p), Begin')
            /\ toRecipient' = Gained(toRecipient, id, p)
            /\ UNCHANGED <<now, paused, funded, toSender>>
    BY <1>0, <1>00, <1>4, ClaimStep
  <2>1. PICK p \in 1 .. Due(b[id]) :
            /\ Sound(AfterRelease(b, id, p), Begin')
            /\ toRecipient' = Gained(toRecipient, id, p)
            /\ UNCHANGED <<now, paused, funded, toSender>>
    BY <2>0
  <2>2. LedgerSched' = Plain(AfterRelease(b, id, p))
    BY <1>00, <2>1
  <2> QED
    BY <1>0, <1>00, <2>1, <2>2, ClaimSeen
<1>5. ASSUME NEW r \in Recipients, ClaimAll(r) PROVE Step
  <2>1. /\ Sound(Released(b, DueTo(b, r)), Begin')
        /\ toRecipient' = PaidDue(b, DueTo(b, r), toRecipient)
        /\ UNCHANGED <<now, paused, funded, toSender>>
    BY <1>0, <1>00, <1>5, ClaimAllStep
  <2>2. LedgerSched' = Plain(Released(b, DueTo(b, r)))
    BY <1>00, <2>1
  <2>3. DueTo(b, r) # {}
    <3>1. PICK id \in Ids : toRecipient'[id] > toRecipient[id]
      BY <1>5 DEF ClaimAll, Commit
    <3>2. toRecipient \in [Ids -> Nat]
      BY <1>0 DEF Sound, Tx, Begin
    <3>3. CASE DueTo(b, r) = {}
      BY <2>1, <3>1, <3>2, <3>3 DEF PaidDue
    <3> QED
      BY <3>3
  <2> QED
    BY <1>0, <1>00, <2>1, <2>2, <2>3, ClaimAllSeen
<1>6. ASSUME NEW r \in Recipients, Touch(r) PROVE Step
  <2>1. Sound(b, Begin') /\ UNCHANGED <<now, paused, funded, toRecipient, toSender>>
    BY <1>0, <1>6, TouchStep
  <2>2. LedgerSched' = LedgerSched
    BY <1>00, <2>1
  <2> QED
    BY <2>1, <2>2 DEF Ledger!vars
<1>7. ASSUME NEW s \in Senders, RevokesSome(b, s) PROVE Step
  <2>1. PICK S \in SUBSET DOMAIN b :
            /\ \A id \in S : MayRevoke(b, s, id)
            /\ Sound(Revoked(b, S), Begin')
            /\ toSender' = PaidBack(b, S, toSender)
            /\ toRecipient' = PaidDue(b, S, toRecipient)
            /\ UNCHANGED <<now, paused, funded>>
    BY <1>7 DEF RevokesSome
  <2>2. LedgerSched' = Plain(Revoked(b, S))
    BY <1>00, <2>1
  <2> QED
    BY <1>0, <1>00, <2>1, <2>2, RevokeSeen
<1>8. ASSUME NEW s \in Senders, NEW q \in Request, Revoke(s, q) PROVE Step
  BY <1>0, <1>00, <1>7, <1>8, RevokeStep
<1>9. ASSUME NEW s \in Senders, NEW reqs \in Batches(Request),
             BatchRevoke(s, reqs) \/ RevokeBatch(s, reqs)
      PROVE  Step
  BY <1>0, <1>00, <1>7, <1>9, BatchRevokeStep
<1>10. ASSUME NEW r \in Recipients, NEW new \in Recipients, NEW i \in Indices,
              TransferVestingRights(r, i, new)
       PROVE  Step
  <2>1. PICK id \in DOMAIN b :
            /\ Sound(Put(b, id, Handed(b[id], new)), Begin')
            /\ UNCHANGED <<now, paused, funded, toRecipient, toSender>>
    BY <1>0, <1>10, TransferStep
  <2>2. LedgerSched' = Plain(Put(b, id, Handed(b[id], new)))
    BY <1>00, <2>1
  <2> QED
    BY <1>0, <1>00, <2>1, <2>2, TransferSeen
<1>11. ASSUME NEW s \in Senders, NEW q \in Request, NEW a \in Parts, RevokePartial(s, q, a)
       PROVE  Step
  <2>1. PICK id \in DOMAIN b :
            /\ MayRevoke(b, s, id)
            /\ a > 0 /\ a + VestedNow(b[id]) <= b[id].total
            /\ a + b[id].released <= b[id].total
            /\ Sound(Put(b, id, Shrunk(b[id], a)), Begin')
            /\ toSender' = Gained(toSender, id, a)
            /\ UNCHANGED <<now, paused, funded, toRecipient>>
    BY <1>0, <1>00, <1>11, RevokePartialStep
  <2>2. LedgerSched' = Plain(Put(b, id, Shrunk(b[id], a)))
    BY <1>00, <2>1
  <2>3. a \in Nat
    BY ContractAssumption DEF ContractAssumption
  <2> QED
    BY <1>0, <1>00, <2>1, <2>2, <2>3, RevokePartialSeen
<1>12. ASSUME UNCHANGED vars PROVE Step
  <2>1. Begin' = Begin /\ UNCHANGED <<now, funded, toRecipient, toSender>>
    BY <1>12 DEF vars, Begin
  <2>2. LedgerSched' = LedgerSched
    BY <1>0, <1>00, <2>1
  <2> QED
    BY <2>1, <2>2 DEF Ledger!vars
<1> HIDE DEF Step
<1>13. ASSUME Next PROVE Step
  <2>1. \/ Tick
        \/ \E mask \in Masks : TogglePause(mask)
        \/ \E s \in Senders, w \in Windows : \E entries \in Deposits : Deposit(s, w, entries)
        \/ \E r \in Recipients, i \in Indices, a \in Parts : Claim(r, i, a)
        \/ \E r \in Recipients : ClaimAll(r)
        \/ \E r \in Recipients : Touch(r)
        \/ \E s \in Senders, q \in Request : Revoke(s, q)
        \/ \E s \in Senders, reqs \in Batches(Request) :
               BatchRevoke(s, reqs) \/ RevokeBatch(s, reqs)
        \/ \E r \in Recipients, new \in Recipients, i \in Indices : TransferVestingRights(r, i, new)
        \/ \E s \in Senders, q \in Request, a \in Parts : RevokePartial(s, q, a)
    BY <1>13 DEF Next
  <2> QED
    BY <2>1, <1>1, <1>2, <1>3, <1>4, <1>5, <1>6, <1>8, <1>9, <1>10, <1>11
<1> QED
  BY <1>12, <1>13, Zenon DEF Step

\* The contract implements the ledger: whatever the layout of its lists, every
\* invocation is one of the ledger's operations on schedules known by their ids
\* (deposit, claim, claim_all, the revocations, revoke_partial,
\* transfer_vesting_rights), or changes nothing the ledger knows.
THEOREM ContractImplementsLedger == Spec => ImplementsLedger
<1>1. Init => Ledger!Init
  BY FirstSeen
<1>2. Inv /\ Faithful' /\ [Next]_vars => [Ledger!Next]_Ledger!vars
  BY LedgerStep
<1> QED
  BY <1>1, <1>2, Invariance, AlwaysFaithful, PTL DEF Spec, ImplementsLedger, Ledger!Spec

-----------------------------------------------------------------------------
(* What batch operations do *)

\* What the ledger assumes of its constants holds of what the contract gives it, so
\* that what is proved of the ledger holds of the contract.
LEMMA LedgerAssumptionHolds ==
  /\ Amounts \subseteq Nat \ {0} /\ Windows \subseteq Window /\ MaxTime \in Nat
  /\ DOMAIN LegacySched \subseteq Ids
  /\ LegacySched \in [DOMAIN LegacySched -> Ledger!Schedule]
  /\ \A id \in DOMAIN LegacySched :
         LegacySched[id].total > 0 /\ LegacySched[id].released <= LegacySched[id].total
<1>1. Amounts \subseteq Nat \ {0} /\ Windows \subseteq Window /\ MaxTime \in Nat
  BY ContractAssumption DEF ContractAssumption
<1>2. DOMAIN FirstBook = LegacyIds /\ LegacyIds \subseteq Ids
  BY LegacyFacts DEF FirstBook
<1>3. ASSUME NEW id \in LegacyIds
      PROVE  /\ OfLedger(FirstBook[id]) \in Ledger!Schedule
             /\ OfLedger(FirstBook[id]).total > 0
             /\ OfLedger(FirstBook[id]).released <= OfLedger(FirstBook[id]).total
  <2>1. PICK v \in AllLegacy : v.id = id
    BY LegacyFacts
  <2>2. PICK r \in Recipients : \E i \in DOMAIN LegacyLists[r] : LegacyLists[r][i] = v
    BY LegacyFacts
  <2>3. /\ FirstBook[id] \in Shape /\ FirstBook[id].total = v.total
        /\ FirstBook[id].released = v.released
    BY <2>1, <2>2, FirstBookAt
  <2>4. v.total > 0 /\ v.released <= v.total
    BY LegacyFacts
  <2>5. Ledger!Window = Window
    BY DEF Ledger!Window, Window
  <2> QED
    BY <2>3, <2>4, <2>5 DEF OfLedger, Shape, Ledger!Schedule
<1>4. LegacySched = [id \in LegacyIds |-> OfLedger(FirstBook[id])]
  BY <1>2, LegacySchedIs DEF Plain
<1> QED
  BY <1>1, <1>2, <1>3, <1>4

\* A claim_all that does not fail leaves nothing claimable unpaid, and pays each
\* schedule exactly what was claimable on it, however removals shuffle the list.
THEOREM ContractClaimAllIsComplete == Spec => []ClaimAllIsComplete
<1>1. Inv => ClaimAllIsComplete
  <2> SUFFICES ASSUME Inv, NEW r \in Recipients, ClaimAllTx(r).ok, NEW id \in Ids
               PROVE  ClaimAllTx(r).toRecipient[id] - toRecipient[id]
                      = IF id \notin StoredIds \/ EntryOf(id)[1] # r THEN 0
                        ELSE LET v == EntryOf(id)[2]
                                 c == VestedNow(v) - v.released
                             IN  IF c > 0 THEN c ELSE 0
    BY DEF ClaimAllIsComplete
  <2>1. PICK b : Sound(b, Begin)
    BY DEF Inv
  <2>2. now \in Nat
    BY ContractAssumption DEF Inv, ContractAssumption
  <2>3. ClaimAllTx(r).toRecipient = PaidDue(b, DueTo(b, r), toRecipient)
    BY <2>1, <2>2, ClaimAllSound
  <2>4. toRecipient \in [Ids -> Nat] /\ IsBook(b)
    BY <2>1 DEF Sound, Tx, Begin
  <2>5. /\ \A p \in Stored :
               p[1] \in Recipients /\ p[2].id \in DOMAIN b /\ b[p[2].id] = Shown(p[1], p[2])
        /\ \A x \in DOMAIN b : \E p \in Stored : p[2].id = x
    BY <2>1, StoredInBook
  <2>6. StoredIds = DOMAIN b
    BY <2>5 DEF StoredIds
  <2>7. CASE id \in DOMAIN b
    <3> DEFINE p == EntryOf(id)
    <3>1. p \in Stored /\ p[2].id = id
      BY <2>5, <2>7 DEF EntryOf
    <3> HIDE DEF p
    <3>2. b[id] = Shown(p[1], p[2])
      BY <2>5, <3>1
    <3>3. /\ b[id].owner = p[1] /\ b[id].total = p[2].total
          /\ b[id].released = p[2].released /\ b[id].win = p[2].win
      BY <3>2 DEF Shown
    <3>4. VestedNow(p[2]) = VestedNow(b[id])
      BY <3>3 DEF VestedNow
    <3>5. Due(b[id]) = IF VestedNow(p[2]) - p[2].released > 0
                       THEN VestedNow(p[2]) - p[2].released ELSE 0
      BY <3>3, <3>4 DEF Due, Positive
    <3>6. Due(b[id]) \in Nat
      BY <2>2, <2>4, <2>7, BookAt, DueType
    <3>7. ClaimAllTx(r).toRecipient[id] - toRecipient[id] = IF p[1] # r THEN 0 ELSE Due(b[id])
      <4>1. toRecipient[id] \in Nat
        BY <2>4
      <4>2. ClaimAllTx(r).toRecipient[id]
            = IF id \in DueTo(b, r) THEN toRecipient[id] + Due(b[id]) ELSE toRecipient[id]
        BY <2>3 DEF PaidDue
      <4>3. id \in DueTo(b, r) <=> p[1] = r /\ Due(b[id]) > 0
        BY <2>7, <3>3 DEF DueTo
      <4> QED
        BY <3>6, <4>1, <4>2, <4>3
    <3> QED
      BY <2>6, <2>7, <3>5, <3>7 DEF p
  <2>8. CASE id \notin DOMAIN b
    <3>1. toRecipient[id] \in Nat
      BY <2>4
    <3>2. id \notin DueTo(b, r)
      BY <2>8 DEF DueTo
    <3>3. ClaimAllTx(r).toRecipient[id] = toRecipient[id]
      BY <2>3, <3>2 DEF PaidDue
    <3> QED
      BY <2>6, <2>8, <3>1, <3>3
  <2> QED
    BY <2>7, <2>8
<1> QED
  BY <1>1, Invariance, PTL

\* The migrations of a batch's recipients, as the transactions after 0, 1, .. of them.
LEMMA SeenTurns ==
  ASSUME Begin \in Tx, NEW reqs \in Batches(Request)
  PROVE  \E f \in [0 .. Len(reqs) -> Tx] :
            /\ f[0] = Begin
            /\ \A n \in 1 .. Len(reqs) : f[n] = Migrate(f[n - 1], reqs[n].recipient)
            /\ SeenTx(reqs) = f[Len(reqs)]
<1> DEFINE N == Len(reqs)
           base == Begin
           turn(t, n) == Migrate(t, reqs[n].recipient)
           T == [n \in 0 .. N |-> Tx]
           step == [n \in 1 .. N |-> [t \in Tx |-> turn(t, n)]]
           body(f) == [n \in 0 .. N |-> IF n = 0 THEN base ELSE turn(f[n - 1], n)]
           upTo == CHOOSE f : f = body(f)
<1>1. N \in Nat /\ \A n \in 1 .. N : reqs[n] \in Request
  BY BatchType
<1>2. base \in Tx
  OBVIOUS
<1>3. \A n \in 1 .. N : \A t \in Tx : turn(t, n) \in Tx
  BY <1>1, MigrateIs DEF Request
<1>4. SeenTx(reqs) = upTo[N]
  BY Zenon DEF SeenTx
<1> HIDE DEF turn, base, N
<1>5. PICK h : Turns(h, N, base, step) /\ \A n \in 0 .. N : h[n] \in T[n]
  <2>1. base \in T[0]
    BY <1>1, <1>2
  <2>2. \A n \in 1 .. N : step[n] \in [T[n - 1] -> T[n]]
    BY <1>1, <1>3
  <2> HIDE DEF T, step
  <2> QED
    BY <1>1, <2>1, <2>2, Recursion
<1>6. h = body(h)
  <2>1. \A n \in 1 .. N : h[n - 1] \in Tx
    BY <1>1, <1>5
  <2>2. \A n \in 1 .. N : step[n][h[n - 1]] = turn(h[n - 1], n)
    BY <2>1
  <2> HIDE DEF step, T
  <2>3. h = [n \in 0 .. N |-> IF n = 0 THEN base ELSE step[n][h[n - 1]]]
    BY <1>5 DEF Turns
  <2>4. \A n \in 0 .. N : (IF n = 0 THEN base ELSE step[n][h[n - 1]])
                          = (IF n = 0 THEN base ELSE turn(h[n - 1], n))
    BY <1>1, <2>2
  <2> QED
    BY <2>3, <2>4
<1>7. upTo = body(upTo)
  <2> HIDE DEF body
  <2> QED
    BY <1>6
<1> HIDE DEF upTo
<1>8. upTo[0] = base /\ \A n \in 1 .. N : upTo[n] = turn(upTo[n - 1], n)
  BY <1>1, <1>7
<1>9. 0 .. N \subseteq {n \in 0 .. N : upTo[n] \in Tx}
  <2> DEFINE S == {n \in 0 .. N : upTo[n] \in Tx}
  <2>1. 0 \in S
    BY <1>1, <1>2, <1>8
  <2>2. \A n \in 1 .. N : n - 1 \in S => n \in S
    BY <1>1, <1>3, <1>8
  <2> HIDE DEF S
  <2> QED
    BY <1>1, <2>1, <2>2, Upwards DEF S
<1>10. upTo \in [0 .. N -> Tx]
  BY <1>7, <1>9
<1> QED
  BY <1>4, <1>8, <1>10 DEF N, turn, base

\* After n requests, a list of r has the entries it was seen with below every index
\* requested of r.
Agree(reqs, n, r, L, M) ==
    \A j \in Nat \ {0} :
        (\A k \in 1 .. n : reqs[k].recipient = r => j < reqs[k].index) =>
            (j \in DOMAIN L <=> j \in DOMAIN M) /\ (j \in DOMAIN L => L[j] = M[j])

\* A list of which nothing was requested is as it was seen.
LEMMA AgreeFull ==
  ASSUME NEW L \in Seq(Schedule), NEW M \in Seq(Schedule), NEW reqs, NEW n, NEW r,
         Agree(reqs, n, r, L, M), \A k \in 1 .. n : reqs[k].recipient # r
  PROVE  L = M
<1>1. \A j \in Nat \ {0} : (j \in DOMAIN L <=> j \in DOMAIN M) /\ (j \in DOMAIN L => L[j] = M[j])
  BY DEF Agree
<1>2. /\ DOMAIN L = 1 .. Len(L) /\ Len(L) \in Nat /\ DOMAIN M = 1 .. Len(M) /\ Len(M) \in Nat
      /\ L \in [DOMAIN L -> Schedule] /\ M \in [DOMAIN M -> Schedule]
  OBVIOUS
<1>3. DOMAIN L \subseteq Nat \ {0} /\ DOMAIN M \subseteq Nat \ {0}
  BY <1>2
<1>4. DOMAIN L = DOMAIN M
  BY <1>1, <1>3
<1>5. L = [j \in DOMAIN L |-> L[j]] /\ M = [j \in DOMAIN M |-> M[j]]
  BY <1>2
<1> QED
  BY <1>1, <1>3, <1>4, <1>5

\* Taking the requested entry out leaves the entries below it.
LEMMA AgreeRemoved ==
  ASSUME NEW L \in Seq(Schedule), NEW M, NEW reqs, NEW n \in Nat \ {0}, NEW r,
         Agree(reqs, n - 1, r, L, M), reqs[n].recipient = r, reqs[n].index \in DOMAIN L
  PROVE  Agree(reqs, n, r, SwapRemove(L, reqs[n].index), M)
<1> DEFINE i == reqs[n].index
           S == SwapRemove(L, i)
<1>1. DOMAIN L = 1 .. Len(L) /\ Len(L) \in Nat
  OBVIOUS
<1>2. /\ S \in Seq(Schedule) /\ Len(S) = Len(L) - 1
      /\ \A j \in 1 .. Len(L) - 1 : S[j] = IF j = i THEN L[Len(L)] ELSE L[j]
  BY SwapRemoved
<1>3. DOMAIN S = 1 .. Len(L) - 1
  BY <1>2
<1> HIDE DEF S
<1> SUFFICES ASSUME NEW j \in Nat \ {0}, \A k \in 1 .. n : reqs[k].recipient = r => j < reqs[k].index
             PROVE  (j \in DOMAIN S <=> j \in DOMAIN M) /\ (j \in DOMAIN S => S[j] = M[j])
  BY DEF Agree, S
<1>4. j < i
  OBVIOUS
<1>5. \A k \in 1 .. n - 1 : reqs[k].recipient = r => j < reqs[k].index
  OBVIOUS
<1>6. (j \in DOMAIN L <=> j \in DOMAIN M) /\ (j \in DOMAIN L => L[j] = M[j])
  BY <1>5 DEF Agree
<1>7. i \in 1 .. Len(L)
  BY <1>1
<1> HIDE DEF i
<1> QED
  BY <1>1, <1>2, <1>3, <1>4, <1>6, <1>7

\* A request asks less to agree.
LEMMA AgreeLess ==
  ASSUME NEW L, NEW M, NEW reqs, NEW n \in Nat \ {0}, NEW r, Agree(reqs, n - 1, r, L, M)
  PROVE  Agree(reqs, n, r, L, M)
<1> SUFFICES ASSUME NEW j \in Nat \ {0}, \A k \in 1 .. n : reqs[k].recipient = r => j < reqs[k].index
             PROVE  (j \in DOMAIN L <=> j \in DOMAIN M) /\ (j \in DOMAIN L => L[j] = M[j])
  BY DEF Agree
<1>1. \A k \in 1 .. n - 1 : reqs[k].recipient = r => j < reqs[k].index
  OBVIOUS
<1> QED
  BY <1>1 DEF Agree

\* Migrating r leaves the others' lists, and r's when it has no old entries.
LEMMA MigrateLeaves ==
  ASSUME NEW tx \in Tx, NEW r \in Recipients, NEW x \in Recipients
  PROVE  LET t == Migrate(tx, r)
         IN  /\ x # r \/ tx.legacy[r] = <<>> => t.vestings[x] = tx.vestings[x]
             /\ tx.legacy[x] = <<>> => t.legacy[x] = <<>>
<1> DEFINE t == Migrate(tx, r)
           V == tx.vestings
           L == tx.legacy
           B == tx.batchInfo
<1>1. V \in Lists /\ L \in Lists /\ B \in Seq(Senders)
  BY TxFields
<1>2. t.vestings = MovedIn(V, L, B, r) /\ t.legacy = Emptied(L, r)
  BY MigrateIs
<1> HIDE DEF t, V, L, B
<1> DEFINE Goal == /\ x # r \/ L[r] = <<>> => t.vestings[x] = V[x]
                   /\ L[x] = <<>> => t.legacy[x] = <<>>
<1>3. ASSUME x # r PROVE Goal
  BY <1>1, <1>2, <1>3 DEF MovedIn, Emptied, Lists
<1>4. ASSUME x = r PROVE Goal
  <2>1. t.legacy[x] = <<>>
    BY <1>1, <1>2, <1>4 DEF Emptied, Lists
  <2>2. ASSUME L[r] = <<>> PROVE t.vestings[r] = V[r]
    <3>1. Moved(L[r], Len(B)) = <<>>
      BY <2>2 DEF Moved
    <3>2. V[r] \in Seq(Schedule) /\ V[r] \o <<>> = V[r]
      BY <1>1 DEF Lists
    <3>3. t.vestings[r] = V[r] \o Moved(L[r], Len(B))
      BY <1>1, <1>2 DEF MovedIn, Lists
    <3> QED
      BY <3>1, <3>2, <3>3
  <2> QED
    BY <1>4, <2>1, <2>2
<1>5. Goal
  BY <1>3, <1>4
<1> QED
  BY <1>5, Zenon DEF t, V, L

\* A batch revocation after n requests (t) and the migrations alone (g) differ only in
\* the entries that requests may have moved.
Alike(reqs, n, t, g) ==
    /\ t.legacy = g.legacy /\ t.batchInfo = g.batchInfo
    /\ \A r \in Recipients : Agree(reqs, n, r, t.vestings[r], g.vestings[r])

\* Migrating one more recipient keeps the two alike.
LEMMA AgreeMigrated ==
  ASSUME NEW t \in Tx, NEW g \in Tx, NEW reqs, NEW n, NEW r \in Recipients,
         Alike(reqs, n, t, g),
         \A k \in 1 .. n : g.legacy[reqs[k].recipient] = <<>>
  PROVE  Alike(reqs, n, Migrate(t, r), Migrate(g, r))
<1> DEFINE m == Migrate(t, r)
           h == Migrate(g, r)
           L == g.legacy
           B == g.batchInfo
<1>1. t.legacy = L /\ t.batchInfo = B
  BY DEF Alike
<1>2. /\ m.legacy = Emptied(L, r) /\ m.batchInfo = WithBatches(L, B, r)
      /\ m.vestings = MovedIn(t.vestings, L, B, r)
  <2>1. /\ m.legacy = Emptied(t.legacy, r)
        /\ m.batchInfo = WithBatches(t.legacy, t.batchInfo, r)
        /\ m.vestings = MovedIn(t.vestings, t.legacy, t.batchInfo, r)
    BY MigrateIs
  <2> QED
    BY <1>1, <2>1
<1>3. /\ h.legacy = Emptied(L, r) /\ h.batchInfo = WithBatches(L, B, r)
      /\ h.vestings = MovedIn(g.vestings, L, B, r)
  BY MigrateIs
<1>4. ASSUME NEW x \in Recipients
      PROVE  Agree(reqs, n, x, m.vestings[x], h.vestings[x])
  <2>1. Agree(reqs, n, x, t.vestings[x], g.vestings[x])
    BY DEF Alike
  <2>2. ASSUME x # r \/ L[r] = <<>>
        PROVE  m.vestings[x] = t.vestings[x] /\ h.vestings[x] = g.vestings[x]
    <3>1. t.legacy[r] = L[r]
      BY <1>1
    <3>2. x # r \/ t.legacy[r] = <<>> => m.vestings[x] = t.vestings[x]
      BY MigrateLeaves
    <3>3. x # r \/ g.legacy[r] = <<>> => h.vestings[x] = g.vestings[x]
      BY MigrateLeaves
    <3> QED
      BY <2>2, <3>1, <3>2, <3>3
  <2>3. ASSUME x = r, L[r] # <<>>
        PROVE  m.vestings[x] = h.vestings[x]
    <3>1. \A k \in 1 .. n : reqs[k].recipient # r
      BY <2>3
    <3>2. t.vestings[r] \in Seq(Schedule) /\ g.vestings[r] \in Seq(Schedule)
      BY TxFields
    <3>3. Agree(reqs, n, r, t.vestings[r], g.vestings[r])
      BY <2>1, <2>3
    <3>4. t.vestings[r] = g.vestings[r]
      BY <3>1, <3>2, <3>3, AgreeFull
    <3>5. t.vestings \in Lists /\ g.vestings \in Lists
      BY TxFields
    <3> HIDE DEF m, h, L, B
    <3>6. /\ m.vestings[r] = t.vestings[r] \o Moved(L[r], Len(B))
          /\ h.vestings[r] = g.vestings[r] \o Moved(L[r], Len(B))
      BY <1>2, <1>3, <3>5 DEF MovedIn, Lists
    <3> QED
      BY <2>3, <3>4, <3>6
  <2>4. ASSUME m.vestings[x] = h.vestings[x]
        PROVE  Agree(reqs, n, x, m.vestings[x], h.vestings[x])
    BY <2>4 DEF Agree
  <2> HIDE DEF m, h, L, B
  <2>5. CASE x # r \/ L[r] = <<>>
    BY <2>1, <2>2, <2>5
  <2>6. CASE x = r /\ L[r] # <<>>
    BY <2>3, <2>4, <2>6
  <2> QED
    BY <2>5, <2>6
<1> HIDE DEF m, h, L, B
<1>5. Alike(reqs, n, m, h)
  BY <1>2, <1>3, <1>4 DEF Alike
<1> QED
  BY <1>5, Zenon DEF m, h

\* The schedule a request names.
IdAt(tx, q) == tx.vestings[q.recipient][q.index].id

\* Migrating another recipient changes neither what a request names nor whether it may
\* be revoked.
LEMMA StillRevocable ==
  ASSUME NEW b, NEW g, Sound(b, g), NEW q \in Request, g.legacy[q.recipient] = <<>>,
         NEW r \in Recipients, NEW caller
  PROVE  LET m == Migrate(g, r)
         IN  /\ m.vestings[q.recipient] = g.vestings[q.recipient]
             /\ IdAt(m, q) = IdAt(g, q)
             /\ Revocable(m, caller, q) <=> Revocable(g, caller, q)
<1> DEFINE m == Migrate(g, r)
           x == q.recipient
<1>1. g \in Tx /\ x \in Recipients
  BY DEF Sound, Request
<1>2. m.vestings[x] = g.vestings[x]
  <2>1. x # r \/ g.legacy[r] = <<>>
    OBVIOUS
  <2> HIDE DEF x
  <2>2. x # r \/ g.legacy[r] = <<>> => m.vestings[x] = g.vestings[x]
    BY <1>1, MigrateLeaves
  <2> QED
    BY <2>1, <2>2
<1>3. \A k \in DOMAIN g.batchInfo : m.batchInfo[k] = g.batchInfo[k]
  BY <1>1, MigrateIs
<1>4. \A i \in DOMAIN g.vestings[x] : g.vestings[x][i].batch \in DOMAIN g.batchInfo
  BY <1>1 DEF Sound, Named
<1> HIDE DEF m
<1>5. IdAt(m, q) = IdAt(g, q)
  BY <1>2 DEF IdAt
<1>6. Revocable(m, caller, q) <=> Revocable(g, caller, q)
  BY <1>2, <1>3, <1>4 DEF Revocable
<1> QED
  BY <1>2, <1>5, <1>6, Zenon DEF m, x

\* The schedules that the first n requests close, as the caller sees them.
HitIds(g, caller, reqs, n) ==
    {IdAt(g, reqs[k]) : k \in {j \in 1 .. n : Revocable(g, caller, reqs[j])}}

\* After n requests (t) and their migrations alone (g), exactly those are closed.
Hit(b, caller, reqs, n, t, g) ==
    /\ Sound(b, g)
    /\ \A k \in 1 .. n : g.legacy[reqs[k].recipient] = <<>>
    /\ t.ok => /\ Alike(reqs, n, t, g)
               /\ HitIds(g, caller, reqs, n) \subseteq DOMAIN b
               /\ Sound(Revoked(b, HitIds(g, caller, reqs, n)), t)

\* Before its first request a batch revocation has closed nothing.
LEMMA HitFirst ==
  ASSUME NEW b, NEW tx, Sound(b, tx), NEW caller, NEW reqs
  PROVE  Hit(b, caller, reqs, 0, tx, tx)
<1>1. 1 .. 0 = {}
  OBVIOUS
<1>2. HitIds(tx, caller, reqs, 0) = {}
  BY <1>1 DEF HitIds
<1>3. Revoked(b, {}) = b
  <2>1. b = [id \in DOMAIN b |-> b[id]]
    BY DEF Sound, IsBook
  <2>2. DOMAIN b \ {} = DOMAIN b
    OBVIOUS
  <2> QED
    BY <2>1, <2>2 DEF Revoked
<1>4. Alike(reqs, 0, tx, tx)
  BY DEF Alike, Agree
<1> QED
  BY <1>1, <1>2, <1>3, <1>4 DEF Hit

\* Entries that agree up to a request are named alike by it.
LEMMA RequestAgrees ==
  ASSUME NEW t, NEW g, NEW reqs \in Batches(Request), Descending(reqs),
         NEW n \in 1 .. Len(reqs), Alike(reqs, n - 1, t, g), NEW caller
  PROVE  /\ Revocable(t, caller, reqs[n]) <=> Revocable(g, caller, reqs[n])
         /\ Revocable(t, caller, reqs[n]) => IdAt(t, reqs[n]) = IdAt(g, reqs[n])
<1> DEFINE q == reqs[n]
           r == q.recipient
           L == t.vestings[r]
           M == g.vestings[r]
<1>1. Len(reqs) \in Nat /\ DOMAIN reqs = 1 .. Len(reqs) /\ q \in Request
  BY BatchType
<1>2. r \in Recipients /\ q.index \in Nat \ {0}
  BY <1>1, ContractAssumption DEF Request, ContractAssumption
<1>3. \A k \in 1 .. n - 1 : reqs[k].recipient = r => q.index < reqs[k].index
  <2> SUFFICES ASSUME NEW k \in 1 .. n - 1, reqs[k].recipient = r
               PROVE  q.index < reqs[k].index
    OBVIOUS
  <2>1. k \in DOMAIN reqs /\ n \in DOMAIN reqs /\ k < n
    BY <1>1
  <2>2. reqs[k].index > q.index
    BY <2>1 DEF Descending
  <2>3. reqs[k] \in Request
    BY <2>1, <1>1, BatchType
  <2>4. reqs[k].index \in Nat
    BY <2>3, ContractAssumption DEF Request, ContractAssumption
  <2> HIDE DEF q
  <2> QED
    BY <1>2, <2>2, <2>4
<1>4. Agree(reqs, n - 1, r, L, M)
  BY <1>2 DEF Alike
<1> HIDE DEF L, M, q, r
<1>5. (q.index \in DOMAIN L <=> q.index \in DOMAIN M) /\ (q.index \in DOMAIN L => L[q.index] = M[q.index])
  BY <1>2, <1>3, <1>4 DEF Agree
<1>6. t.batchInfo = g.batchInfo
  BY DEF Alike
<1> USE DEF L, M, r
<1>7. Revocable(t, caller, q) <=> Revocable(g, caller, q)
  BY <1>5, <1>6 DEF Revocable
<1>8. Revocable(t, caller, q) => IdAt(t, q) = IdAt(g, q)
  BY <1>5 DEF Revocable, IdAt
<1> QED
  BY <1>7, <1>8 DEF q

\* Closing what a request names keeps the two alike.
LEMMA AlikeRevoked ==
  ASSUME NEW t \in Tx, NEW g \in Tx, NEW u, NEW reqs \in Batches(Request),
         NEW n \in 1 .. Len(reqs), Alike(reqs, n - 1, t, g),
         u.legacy = t.legacy, u.batchInfo = t.batchInfo,
         \/ u.vestings = t.vestings
         \/ /\ reqs[n].index \in DOMAIN t.vestings[reqs[n].recipient]
            /\ u.vestings = Put(t.vestings, reqs[n].recipient,
                                SwapRemove(t.vestings[reqs[n].recipient], reqs[n].index))
  PROVE  Alike(reqs, n, u, g)
<1> DEFINE q == reqs[n]
           r == q.recipient
           W == t.vestings
<1>1. q \in Request /\ r \in Recipients /\ n \in Nat \ {0}
  <2>1. Len(reqs) \in Nat /\ q \in Request
    BY BatchType
  <2> HIDE DEF q
  <2> QED
    BY <2>1 DEF Request
<1>2. /\ W \in [Recipients -> Seq(Schedule)] /\ u.legacy = g.legacy /\ u.batchInfo = g.batchInfo
  BY TxFields DEF Alike, Lists
<1>3. ASSUME NEW x \in Recipients
      PROVE  Agree(reqs, n, x, u.vestings[x], g.vestings[x])
  <2> DEFINE M == g.vestings[x]
  <2>1. Agree(reqs, n - 1, x, W[x], M)
    BY DEF Alike
  <2> HIDE DEF W, M
  <2>2. Agree(reqs, n, x, W[x], M)
    BY <1>1, <2>1, AgreeLess
  <2>3. ASSUME q.index \in DOMAIN W[r], x = r
        PROVE  Agree(reqs, n, x, SwapRemove(W[r], q.index), M)
    <3>1. W[r] \in Seq(Schedule) /\ Agree(reqs, n - 1, r, W[r], M) /\ q.index \in DOMAIN W[r]
      BY <1>1, <1>2, <2>1, <2>3
    <3>2. Agree(reqs, n, r, SwapRemove(W[r], q.index), M)
      BY <1>1, <3>1, AgreeRemoved
    <3> QED
      BY <2>3, <3>2
  <2>4. CASE u.vestings = W
    BY <2>2, <2>4 DEF M
  <2>5. CASE q.index \in DOMAIN W[r] /\ u.vestings = Put(W, r, SwapRemove(W[r], q.index))
    <3>1. u.vestings[x] = IF x = r THEN SwapRemove(W[r], q.index) ELSE W[x]
      BY <1>1, <1>2, <2>5 DEF Put
    <3> HIDE DEF r, q
    <3> QED
      BY <2>2, <2>3, <2>5, <3>1 DEF M
  <2> QED
    BY <2>4, <2>5 DEF W
<1> QED
  BY <1>2, <1>3 DEF Alike

\* One more request closes what it names, if it may.
LEMMA HitNext ==
  ASSUME now \in Nat, NEW b, NEW caller \in Senders, NEW reqs \in Batches(Request),
         Descending(reqs), NEW n \in 1 .. Len(reqs), NEW t \in Tx, NEW g \in Tx,
         Hit(b, caller, reqs, n - 1, t, g)
  PROVE  Hit(b, caller, reqs, n, RevokeIfAllowed(t, caller, reqs[n]),
             Migrate(g, reqs[n].recipient))
<1> DEFINE q == reqs[n]
           r == q.recipient
           m == Migrate(t, r)
           h == Migrate(g, r)
           u == RevokeIfAllowed(t, caller, q)
           H == HitIds(g, caller, reqs, n - 1)
<1>1. Len(reqs) \in Nat /\ (\A k \in 1 .. Len(reqs) : reqs[k] \in Request) /\ q \in Request
  BY BatchType
<1>2. r \in Recipients /\ \A k \in 1 .. Len(reqs) : reqs[k].recipient \in Recipients
  BY <1>1 DEF Request
<1>3. n \in Nat \ {0} /\ \A k \in 1 .. n : k \in 1 .. n - 1 \/ k = n
  BY <1>1
<1>4. \A k \in 1 .. n - 1 : k \in 1 .. Len(reqs) /\ g.legacy[reqs[k].recipient] = <<>>
  BY <1>1 DEF Hit
<1>5. Sound(b, g)
  BY DEF Hit
<1>6. h \in Tx /\ Sound(b, h) /\ h.legacy[r] = <<>>
  BY <1>2, <1>5, MigrateIs
<1>7. m \in Tx /\ m.ok = t.ok /\ m.legacy[r] = <<>>
  BY <1>2, MigrateIs
<1>8. u = IF Revocable(m, caller, q) THEN RevokeEntry(m, q) ELSE m
  BY DEF RevokeIfAllowed
<1>9. \A k \in 1 .. n : h.legacy[reqs[k].recipient] = <<>>
  <2>1. ASSUME NEW k \in 1 .. n - 1 PROVE h.legacy[reqs[k].recipient] = <<>>
    <3> DEFINE x == reqs[k].recipient
    <3>1. x \in Recipients /\ g.legacy[x] = <<>>
      BY <1>2, <1>4
    <3> HIDE DEF x
    <3>2. g.legacy[x] = <<>> => h.legacy[x] = <<>>
      BY <1>2, <3>1, MigrateLeaves
    <3> QED
      BY <3>1, <3>2 DEF x
  <2> HIDE DEF h
  <2> QED
    BY <1>3, <1>6, <2>1
<1>10. \A k \in 1 .. n - 1 : /\ Revocable(h, caller, reqs[k]) <=> Revocable(g, caller, reqs[k])
                             /\ IdAt(h, reqs[k]) = IdAt(g, reqs[k])
  <2> SUFFICES ASSUME NEW k \in 1 .. n - 1
               PROVE  /\ Revocable(h, caller, reqs[k]) <=> Revocable(g, caller, reqs[k])
                      /\ IdAt(h, reqs[k]) = IdAt(g, reqs[k])
    OBVIOUS
  <2>1. reqs[k] \in Request /\ g.legacy[reqs[k].recipient] = <<>>
    BY <1>1, <1>4
  <2> QED
    BY <1>2, <1>5, <2>1, StillRevocable
<1> HIDE DEF m, h, q, r
<1>11. HitIds(h, caller, reqs, n - 1) = H
  BY <1>10 DEF HitIds
<1>12. HitIds(h, caller, reqs, n) = H \cup {IdAt(h, x) : x \in {y \in {q} : Revocable(h, caller, y)}}
  <2> HIDE DEF H
  <2>1. HitIds(h, caller, reqs, n) =
        HitIds(h, caller, reqs, n - 1) \cup {IdAt(h, x) : x \in {y \in {q} : Revocable(h, caller, y)}}
    <3>1. \A k : k \in 1 .. n <=> k \in 1 .. n - 1 \/ k = n
      BY <1>3
    <3> QED
      BY <3>1 DEF HitIds, q
  <2> QED
    BY <1>11, <2>1
<1>13. ASSUME u.ok
       PROVE  /\ Alike(reqs, n, u, h)
              /\ HitIds(h, caller, reqs, n) \subseteq DOMAIN b
              /\ Sound(Revoked(b, HitIds(h, caller, reqs, n)), u)
  <2> HIDE DEF u
  <2>1. Revocable(m, caller, q) => RevokeEntry(m, q).ok
    BY <1>8, <1>13
  <2>2. Revocable(m, caller, q) => q.index \in DOMAIN m.vestings[r]
    BY DEF Revocable, r
  <2>3. Revocable(m, caller, q) =>
           /\ m.ok /\ u.legacy = m.legacy /\ u.batchInfo = m.batchInfo
           /\ u.vestings = Put(m.vestings, r, SwapRemove(m.vestings[r], q.index))
    <3> SUFFICES ASSUME Revocable(m, caller, q)
                 PROVE  /\ m.ok /\ u.legacy = m.legacy /\ u.batchInfo = m.batchInfo
                        /\ u.vestings = Put(m.vestings, r, SwapRemove(m.vestings[r], q.index))
      OBVIOUS
    <3>1. u = RevokeEntry(m, q)
      BY <1>8
    <3>2. q.recipient \in Recipients /\ q.index \in DOMAIN m.vestings[q.recipient]
      BY <1>2, <2>2 DEF r
    <3>3. LET w == RevokeEntry(m, q)
          IN  /\ w.legacy = m.legacy /\ w.batchInfo = m.batchInfo
              /\ w.ok => m.ok /\ w.vestings = Put(m.vestings, q.recipient,
                                     SwapRemove(m.vestings[q.recipient], q.index))
      BY <1>7, <3>2, RevokeIs
    <3> QED
      BY <2>1, <3>1, <3>3 DEF r
  <2>4. t.ok
    BY <1>7, <1>8, <1>13, <2>3
  <2>5. Alike(reqs, n - 1, t, g) /\ H \subseteq DOMAIN b /\ Sound(Revoked(b, H), t)
    BY <2>4 DEF Hit
  <2>6. Alike(reqs, n - 1, m, h)
    <3>1. \A k \in 1 .. n - 1 : g.legacy[reqs[k].recipient] = <<>>
      BY <1>4
    <3> QED
      BY <1>2, <2>5, <3>1, AgreeMigrated DEF m, h
  <2>7. Sound(Revoked(b, H), m)
    <3> DEFINE c == Revoked(b, H)
    <3>1. Sound(c, t)
      BY <2>5
    <3> HIDE DEF c, H
    <3>2. Sound(c, m)
      BY <1>2, <3>1, MigrateIs DEF m
    <3> QED
      BY <3>2 DEF c
  <2> HIDE DEF H
  <2>8. /\ Revocable(m, caller, q) <=> Revocable(h, caller, q)
        /\ Revocable(m, caller, q) => IdAt(m, q) = IdAt(h, q)
    BY <2>6, RequestAgrees DEF q
  <2>9. Alike(reqs, n, u, h)
    <3>1. u.legacy = m.legacy /\ u.batchInfo = m.batchInfo
      BY <1>8, <2>3
    <3>2. \/ u.vestings = m.vestings
          \/ /\ q.index \in DOMAIN m.vestings[r]
             /\ u.vestings = Put(m.vestings, r, SwapRemove(m.vestings[r], q.index))
      BY <1>8, <2>2, <2>3
    <3> QED
      BY <1>6, <1>7, <2>6, <3>1, <3>2, AlikeRevoked DEF q, r
  <2>10. CASE ~Revocable(m, caller, q)
    <3>1. HitIds(h, caller, reqs, n) = H
      BY <1>12, <2>8, <2>10
    <3>2. u = m
      BY <1>8, <2>10
    <3> QED
      BY <2>5, <2>7, <2>9, <3>1, <3>2
  <2>11. CASE Revocable(m, caller, q)
    <3> DEFINE c == Revoked(b, H)
               id == IdAt(m, q)
    <3>1. HitIds(h, caller, reqs, n) = H \cup {id}
      BY <1>12, <2>8, <2>11
    <3>2. u = RevokeEntry(m, q) /\ u.ok
      BY <1>8, <1>13, <2>11
    <3> HIDE DEF c
    <3>3. id \in DOMAIN c /\ Sound(Without(c, id), u)
      <4>1. Sound(c, m) /\ m.legacy[q.recipient] = <<>>
        BY <1>7, <2>7 DEF c, r
      <4>2. RevokeEntry(m, q).ok
        BY <3>2
      <4>3. LET w == RevokeEntry(m, q)
                x == m.vestings[q.recipient][q.index].id
            IN  x \in DOMAIN c /\ Sound(Without(c, x), w)
        BY <1>1, <2>11, <4>1, <4>2, RevokePays
      <4> QED
        BY <3>2, <4>3 DEF IdAt
    <3> HIDE DEF id
    <3>4. id \in DOMAIN b /\ id \notin H
      BY <3>3 DEF c, Revoked
    <3>5. Without(c, id) = Revoked(b, H \cup {id})
      <4>1. IsBook(b) /\ H \subseteq DOMAIN b /\ g.toSender \in [Ids -> Nat]
        BY <1>5, <2>5, TxFields DEF Sound
      <4> DEFINE R == g.toSender
      <4> HIDE DEF R
      <4>2. R \in [Ids -> Nat]
        BY <4>1 DEF R
      <4>3. Without(Revoked(b, H), id) = Revoked(b, H \cup {id})
        BY <3>4, <4>1, <4>2, OneMore
      <4> QED
        BY <4>3 DEF c
    <3>6. H \cup {id} \subseteq DOMAIN b
      BY <2>5, <3>4
    <3> QED
      BY <2>9, <3>1, <3>3, <3>5, <3>6
  <2> QED
    BY <2>10, <2>11 DEF u
<1> QED
  BY <1>6, <1>9, <1>13 DEF Hit, u, h, q, r

\* After all its requests, a batch revocation has closed exactly what they name.
LEMMA BatchHits ==
  ASSUME now \in Nat, NEW b, Sound(b, Begin), NEW caller \in Senders,
         NEW reqs \in Batches(Request), Descending(reqs)
  PROVE  Hit(b, caller, reqs, Len(reqs), BatchRevokeTx(caller, reqs), SeenTx(reqs))
<1> DEFINE N == Len(reqs)
<1>1. N \in Nat /\ Begin \in Tx
  BY BatchType DEF Sound
<1>2. PICK f \in [0 .. N -> Tx] :
          /\ f[0] = Begin
          /\ \A n \in 1 .. N : f[n] = RevokeIfAllowed(f[n - 1], caller, reqs[n])
          /\ BatchRevokeTx(caller, reqs) = f[N]
  BY <1>1, BatchRevokeTurns
<1>3. PICK g \in [0 .. N -> Tx] :
          /\ g[0] = Begin
          /\ \A n \in 1 .. N : g[n] = Migrate(g[n - 1], reqs[n].recipient)
          /\ SeenTx(reqs) = g[N]
  BY <1>1, SeenTurns
<1> DEFINE S == {n \in 0 .. N : Hit(b, caller, reqs, n, f[n], g[n])}
<1>4. 0 \in S
  BY <1>1, <1>2, <1>3, HitFirst
<1>5. ASSUME NEW n \in 1 .. N, n - 1 \in S PROVE n \in S
  <2>1. f[n - 1] \in Tx /\ g[n - 1] \in Tx
    BY <1>1
  <2>2. Hit(b, caller, reqs, n - 1, f[n - 1], g[n - 1])
    BY <1>5
  <2>3. Hit(b, caller, reqs, n, RevokeIfAllowed(f[n - 1], caller, reqs[n]),
            Migrate(g[n - 1], reqs[n].recipient))
    BY <2>1, <2>2, HitNext
  <2>4. Hit(b, caller, reqs, n, f[n], g[n]) /\ n \in 0 .. N
    BY <1>1, <1>2, <1>3, <2>3
  <2> QED
    BY <2>4
<1> HIDE DEF S
<1>6. 0 .. N \subseteq S
  BY <1>1, <1>4, <1>5, Upwards
<1>7. N \in S
  BY <1>1, <1>6
<1> QED
  BY <1>2, <1>3, <1>7 DEF S

\* The ids in the storage of a transaction are those of the book it matches.
LEMMA IdsOfBook ==
  ASSUME NEW b, NEW tx, Sound(b, tx)
  PROVE  IdsIn(tx) = DOMAIN b
<1> DEFINE A(r) == ToSet(tx.vestings[r]) \cup ToSet(tx.legacy[r])
           U == UNION {A(r) : r \in Recipients}
<1>1. /\ \A r \in Recipients : \A i \in DOMAIN tx.vestings[r] : tx.vestings[r][i].id \in DOMAIN b
      /\ \A r \in Recipients : \A i \in DOMAIN tx.legacy[r] : tx.legacy[r][i].id \in DOMAIN b
      /\ \A id \in DOMAIN b : \E r \in Recipients :
             \/ \E i \in DOMAIN tx.vestings[r] : tx.vestings[r][i].id = id
             \/ \E i \in DOMAIN tx.legacy[r] : tx.legacy[r][i].id = id
  BY DEF Sound, Describes
<1>2. ASSUME NEW v \in U PROVE v.id \in DOMAIN b
  <2>1. PICK r \in Recipients : v \in A(r)
    OBVIOUS
  <2>2. CASE v \in ToSet(tx.vestings[r])
    <3>1. PICK i \in DOMAIN tx.vestings[r] : v = tx.vestings[r][i]
      BY <2>2 DEF ToSet
    <3> QED
      BY <1>1, <3>1
  <2>3. CASE v \in ToSet(tx.legacy[r])
    <3>1. PICK i \in DOMAIN tx.legacy[r] : v = tx.legacy[r][i]
      BY <2>3 DEF ToSet
    <3> QED
      BY <1>1, <3>1
  <2> QED
    BY <2>1, <2>2, <2>3
<1>3. ASSUME NEW id \in DOMAIN b PROVE \E v \in U : v.id = id
  <2>1. PICK r \in Recipients : \/ \E i \in DOMAIN tx.vestings[r] : tx.vestings[r][i].id = id
                                \/ \E i \in DOMAIN tx.legacy[r] : tx.legacy[r][i].id = id
    BY <1>1
  <2>2. A(r) \subseteq U
    OBVIOUS
  <2> HIDE DEF U
  <2>3. CASE \E i \in DOMAIN tx.vestings[r] : tx.vestings[r][i].id = id
    <3>1. PICK i \in DOMAIN tx.vestings[r] : tx.vestings[r][i].id = id
      BY <2>3
    <3>2. tx.vestings[r][i] \in ToSet(tx.vestings[r])
      BY DEF ToSet
    <3> QED
      BY <2>2, <3>1, <3>2
  <2>4. CASE \E i \in DOMAIN tx.legacy[r] : tx.legacy[r][i].id = id
    <3>1. PICK i \in DOMAIN tx.legacy[r] : tx.legacy[r][i].id = id
      BY <2>4
    <3>2. tx.legacy[r][i] \in ToSet(tx.legacy[r])
      BY DEF ToSet
    <3> QED
      BY <2>2, <3>1, <3>2
  <2> QED
    BY <2>1, <2>3, <2>4
<1>4. IdsIn(tx) = {v.id : v \in U}
  BY DEF IdsIn
<1> HIDE DEF U
<1> QED
  BY <1>2, <1>3, <1>4

\* A batch revocation that succeeds closes exactly the schedules its requests named in
\* the state the caller saw, whatever swap-with-last removal and migration do between
\* the requests.
THEOREM ContractBatchRevokeHitsTargets == Spec => []BatchRevokeHitsTargets
<1>1. Inv => BatchRevokeHitsTargets
  <2> SUFFICES ASSUME Inv, NEW s \in Senders, NEW reqs \in Batches(Request), Descending(reqs),
                      BatchRevokeTx(s, reqs).ok
               PROVE  LET tx == BatchRevokeTx(s, reqs)
                          seen == SeenTx(reqs)
                          named == {seen.vestings[q.recipient][q.index].id :
                                       q \in {x \in ToSet(reqs) : Revocable(seen, s, x)}}
                      IN  StoredIds \ IdsIn(tx) = named
    BY DEF BatchRevokeHitsTargets
  <2> DEFINE tx == BatchRevokeTx(s, reqs)
             seen == SeenTx(reqs)
             named == {seen.vestings[q.recipient][q.index].id :
                          q \in {x \in ToSet(reqs) : Revocable(seen, s, x)}}
             H == HitIds(seen, s, reqs, Len(reqs))
  <2>1. PICK b : Sound(b, Begin)
    BY DEF Inv
  <2>2. now \in Nat
    BY ContractAssumption DEF Inv, ContractAssumption
  <2>3. Hit(b, s, reqs, Len(reqs), tx, seen)
    BY <2>1, <2>2, BatchHits
  <2>4. tx.ok
    OBVIOUS
  <2> HIDE DEF tx, seen
  <2>5. H \subseteq DOMAIN b /\ Sound(Revoked(b, H), tx)
    BY <2>3, <2>4 DEF Hit
  <2>6. IdsIn(tx) = DOMAIN Revoked(b, H)
    BY <2>5, IdsOfBook
  <2>7. DOMAIN Revoked(b, H) = DOMAIN b \ H
    BY DEF Revoked
  <2>8. StoredIds = DOMAIN b
    <3>1. /\ \A p \in Stored : p[2].id \in DOMAIN b
          /\ \A x \in DOMAIN b : \E p \in Stored : p[2].id = x
      BY <2>1, StoredInBook
    <3> QED
      BY <3>1 DEF StoredIds
  <2>9. named = H
    <3>1. DOMAIN reqs = 1 .. Len(reqs)
      BY BatchType
    <3>2. ToSet(reqs) = {reqs[k] : k \in 1 .. Len(reqs)}
      BY <3>1 DEF ToSet
    <3>3. ASSUME NEW x \in named PROVE x \in H
      <4>1. PICK q \in {y \in ToSet(reqs) : Revocable(seen, s, y)} :
                x = seen.vestings[q.recipient][q.index].id
        OBVIOUS
      <4>2. PICK k \in 1 .. Len(reqs) : q = reqs[k]
        BY <3>2, <4>1
      <4>3. k \in {j \in 1 .. Len(reqs) : Revocable(seen, s, reqs[j])} /\ x = IdAt(seen, reqs[k])
        BY <4>1, <4>2 DEF IdAt
      <4> QED
        BY <4>3 DEF HitIds
    <3>4. ASSUME NEW x \in H PROVE x \in named
      <4>1. PICK k \in {j \in 1 .. Len(reqs) : Revocable(seen, s, reqs[j])} : x = IdAt(seen, reqs[k])
        BY DEF HitIds
      <4> DEFINE q == reqs[k]
      <4>2. q \in {y \in ToSet(reqs) : Revocable(seen, s, y)}
        BY <3>2, <4>1
      <4>3. x = seen.vestings[q.recipient][q.index].id
        BY <4>1 DEF IdAt
      <4> HIDE DEF q
      <4> QED
        BY <4>2, <4>3
    <3> QED
      BY <3>3, <3>4
  <2> HIDE DEF named, H
  <2>10. StoredIds \ IdsIn(tx) = named
    BY <2>5, <2>6, <2>7, <2>8, <2>9
  <2> QED
    BY <2>10 DEF tx, seen, named
<1> QED
  BY <1>1, Invariance, PTL
=============================================================================
