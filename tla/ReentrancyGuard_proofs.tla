----------------------- MODULE ReentrancyGuard_proofs -----------------------
(***************************************************************************)
(* The guard's properties, for every number of tabs and of clicks.  What   *)
(* makes them inductive is how a tab's own books agree with the browser's: *)
(* its count of nested guards with how far its clicks have come, the Web   *)
(* Lock with both, and a record that is still this tab's with a click that *)
(* has not put it down.                                                    *)
(***************************************************************************)
EXTENDS ReentrancyGuard, FiniteSetTheorems, TLAPS

Rec == Record \union {None}
Middle == {"recheck", "write"}

\* How many guards a click holds where it is.
Shapes ==
    \A t \in Tabs, c \in Clicks :
        /\ flows[t][c].pc = "idle" => flows[t][c].held = 0
        /\ flows[t][c].pc \in {"asked"} \union Middle => flows[t][c].held < 2
        /\ flows[t][c].pc \in {"outer", "sign", "close"} => flows[t][c].held = 1
        /\ flows[t][c].pc = "build" => flows[t][c].held = 2

\* One click at a time is in the synchronous stretch of acquireGuard.
OneMidway ==
    \A t \in Tabs, c, d \in Clicks :
        flows[t][c].pc \in Middle /\ flows[t][d].pc \in Middle => c = d

\* Where a record comes from: its holder's present or an earlier life, and never
\* to its holder as news.
Sources ==
    /\ ~durable => storage = None
    /\ storage # None => storage.holder[2] <= life[storage.holder[1]]
    /\ \A t \in Tabs : \A i \in DOMAIN news[t] :
          news[t][i] # None => news[t][i].holder[1] # t

NoMutex == ~webLocks =>
    /\ mutex = None
    /\ \A t \in Tabs : ~releaser[t] /\ \A c \in Clicks : flows[t][c].pc # "asked"

\* The guards tab t holds, nested ones counted apart.
Once(t) == {c \in Clicks : flows[t][c].held > 0}
Twice(t) == {c \in Clicks : flows[t][c].held > 1}
HeldBy(t) == Cardinality(Once(t)) + Cardinality(Twice(t))

\* With Web Locks, whoever is past the guard holds the lock and has counted
\* right, and a record found to be one's own is that of a guard still held.
Locked == webLocks => \A t \in Tabs :
    /\ Guarded(t) \/ Midway(t) => mutex = t
    /\ Midway(t) => ~Guarded(t)
    /\ releaser[t] <=> mutex = t
    /\ refs[t] = HeldBy(t)
    /\ Mine(t, memory[t]) \/ Mine(t, storage) => Guarded(t)
    /\ Guarded(t) => written[t] > 0

\* A Web Lock nobody needs was left behind by a record that expired.
Left == webLocks /\ durable => \A t \in Tabs :
    mutex = t /\ ~Guarded(t) /\ ~Midway(t) => written[t] \in expired

GInv ==
    /\ TypeOK /\ Shapes /\ OneMidway /\ Sources /\ NoMutex
    /\ Locked /\ Left /\ RecordCoversFlow

-----------------------------------------------------------------------------
(* The values *)

(* The absent record is none of the records. *)
LEMMA NoneNotRecord ==
  ASSUME NEW r \in Record
  PROVE  r # None
  BY GuardAssumption DEF GuardAssumption, Record

-----------------------------------------------------------------------------
(* Counting the guards of a tab *)

(* Each click has one of the flow's shapes and holds at most two guards. *)
LEMMA FlowType ==
  ASSUME TypeOK
  PROVE  \A t \in Tabs, c \in Clicks : flows[t][c] \in Flow /\ flows[t][c].held \in 0..2
  BY DEF TypeOK, Flow

(* The clicks that hold guards are finitely many. *)
LEMMA HeldFinite ==
  ASSUME NEW t \in Tabs
  PROVE  /\ IsFiniteSet(Once(t)) /\ IsFiniteSet(Twice(t))
         /\ Cardinality(Once(t)) \in Nat /\ Cardinality(Twice(t)) \in Nat
<1>1. Once(t) \subseteq Clicks /\ Twice(t) \subseteq Clicks
  BY DEF Once, Twice
<1> QED BY <1>1, FS_Subset, FS_CardinalityType, GuardAssumption DEF GuardAssumption

(* A tab's guards number zero when none of its clicks is past the guard. *)
LEMMA HeldNone ==
  ASSUME TypeOK, NEW t \in Tabs
  PROVE  /\ HeldBy(t) \in Nat
         /\ HeldBy(t) = 0 <=> ~Guarded(t)
<1>1. Once(t) = {} <=> ~Guarded(t)
  BY DEF Once, Guarded
<1>2. ~Guarded(t) => Twice(t) = {}
  BY FlowType DEF Twice, Guarded
<1> QED BY <1>1, <1>2, HeldFinite, FS_EmptySet DEF HeldBy

(* The same, after a step. *)
LEMMA HeldNoneNext ==
  ASSUME TypeOK', NEW t \in Tabs
  PROVE  /\ HeldBy(t)' \in Nat
         /\ HeldBy(t)' = 0 <=> ~Guarded(t)'
<1>1. Once(t)' = {} <=> ~Guarded(t)'
  BY DEF Once, Guarded
<1>2. ~Guarded(t)' => Twice(t)' = {}
  <2>1. \A c \in Clicks : flows'[t][c].held \in 0..2
    BY DEF TypeOK, Flow
  <2> QED BY <2>1 DEF Twice, Guarded
<1>3. Once(t)' \subseteq Clicks /\ Twice(t)' \subseteq Clicks
  BY DEF Once, Twice
<1>4. /\ IsFiniteSet(Once(t)') /\ IsFiniteSet(Twice(t)')
      /\ Cardinality(Once(t)') \in Nat /\ Cardinality(Twice(t)') \in Nat
  BY <1>3, FS_Subset, FS_CardinalityType, GuardAssumption DEF GuardAssumption
<1> QED BY <1>1, <1>2, <1>4, FS_EmptySet DEF HeldBy

(* Taking a guard, the click's first or its nested one, adds one. *)
LEMMA HeldAdd ==
  ASSUME TypeOK, NEW t \in Tabs, NEW c \in Clicks,
         flows[t][c].held < 2,
         flows'[t][c].held = flows[t][c].held + 1,
         \A d \in Clicks \ {c} : flows'[t][d].held = flows[t][d].held
  PROVE  HeldBy(t)' = HeldBy(t) + 1
<1>1. CASE flows[t][c].held = 0
  <2>1. /\ Once(t)' = Once(t) \union {c} /\ c \notin Once(t)
        /\ Twice(t)' = Twice(t)
    BY <1>1 DEF Once, Twice
  <2>2. Cardinality(Once(t)') = Cardinality(Once(t)) + 1
    BY <2>1, HeldFinite, FS_AddElement
  <2> QED BY <2>1, <2>2, HeldFinite DEF HeldBy
<1>2. CASE flows[t][c].held = 1
  <2>1. /\ Twice(t)' = Twice(t) \union {c} /\ c \notin Twice(t)
        /\ Once(t)' = Once(t)
    BY <1>2 DEF Once, Twice
  <2>2. Cardinality(Twice(t)') = Cardinality(Twice(t)) + 1
    BY <2>1, HeldFinite, FS_AddElement
  <2> QED BY <2>1, <2>2, HeldFinite DEF HeldBy
<1> QED BY <1>1, <1>2, FlowType

(* Putting a guard down takes one away. *)
LEMMA HeldDrop ==
  ASSUME TypeOK, NEW t \in Tabs, NEW c \in Clicks,
         flows[t][c].held > 0,
         flows'[t][c].held = flows[t][c].held - 1,
         \A d \in Clicks \ {c} : flows'[t][d].held = flows[t][d].held
  PROVE  HeldBy(t)' = HeldBy(t) - 1
<1>1. CASE flows[t][c].held = 1
  <2>1. /\ Once(t)' = Once(t) \ {c} /\ c \in Once(t)
        /\ Twice(t)' = Twice(t)
    BY <1>1 DEF Once, Twice
  <2>2. Cardinality(Once(t)') = Cardinality(Once(t)) - 1
    BY <2>1, HeldFinite, FS_RemoveElement
  <2> QED BY <2>1, <2>2, HeldFinite DEF HeldBy
<1>2. CASE flows[t][c].held = 2
  <2>1. /\ Twice(t)' = Twice(t) \ {c} /\ c \in Twice(t)
        /\ Once(t)' = Once(t)
    BY <1>2 DEF Once, Twice
  <2>2. Cardinality(Twice(t)') = Cardinality(Twice(t)) - 1
    BY <2>1, HeldFinite, FS_RemoveElement
  <2> QED BY <2>1, <2>2, HeldFinite DEF HeldBy
<1> QED BY <1>1, <1>2, FlowType

(* A step that takes and puts down no guard of the tab leaves its count. *)
LEMMA HeldSame ==
  ASSUME NEW t \in Tabs,
         \A d \in Clicks : flows'[t][d].held = flows[t][d].held
  PROVE  HeldBy(t)' = HeldBy(t) /\ (Guarded(t)' <=> Guarded(t))
<1>1. Once(t)' = Once(t) /\ Twice(t)' = Twice(t)
  BY DEF Once, Twice
<1> QED BY <1>1 DEF HeldBy, Guarded

-----------------------------------------------------------------------------
(* Records and news *)

(* What Append returns: the old elements and the new one. *)
LEMMA Appended ==
  ASSUME NEW S, NEW s \in Seq(S), NEW e \in S
  PROVE  /\ Append(s, e) \in Seq(S)
         /\ \A i \in DOMAIN Append(s, e) :
               Append(s, e)[i] = e \/ (i \in DOMAIN s /\ Append(s, e)[i] = s[i])
  OBVIOUS

(* Telling the other tabs of a record of one's own, or of none, keeps the news of
   every tab free of records it holds. *)
LEMMA TellStep ==
  ASSUME TypeOK, Sources, NEW t \in Tabs, NEW rec \in Rec, Tell(t, rec),
         rec # None => rec.holder[1] = t
  PROVE  /\ news' \in [Tabs -> Seq(Rec)]
         /\ \A u \in Tabs : \A i \in DOMAIN news'[u] :
               news'[u][i] # None => news'[u][i].holder[1] # u
<1>1. \A u \in Tabs : news[u] \in Seq(Rec)
  BY DEF TypeOK, Rec
<1>2. \A u \in Tabs : news'[u] = IF u = t THEN news[u] ELSE Append(news[u], rec)
  BY DEF Tell
<1>3. ASSUME NEW u \in Tabs, u # t
      PROVE  /\ news'[u] \in Seq(Rec)
             /\ \A i \in DOMAIN news'[u] :
                   news'[u][i] = rec \/ (i \in DOMAIN news[u] /\ news'[u][i] = news[u][i])
  <2>1. /\ Append(news[u], rec) \in Seq(Rec)
        /\ \A i \in DOMAIN Append(news[u], rec) :
              \/ Append(news[u], rec)[i] = rec
              \/ i \in DOMAIN news[u] /\ Append(news[u], rec)[i] = news[u][i]
    <3> DEFINE s == news[u]
    <3>1. s \in Seq(Rec)
      BY <1>1
    <3> HIDE DEF s
    <3>2. /\ Append(s, rec) \in Seq(Rec)
          /\ \A i \in DOMAIN Append(s, rec) :
                Append(s, rec)[i] = rec \/ (i \in DOMAIN s /\ Append(s, rec)[i] = s[i])
      BY <3>1, Appended
    <3> QED BY <3>2 DEF s
  <2>2. news'[u] = Append(news[u], rec)
    BY <1>2, <1>3
  <2> QED BY <2>1, <2>2, Zenon
<1>4. news' \in [Tabs -> Seq(Rec)]
  BY <1>1, <1>2, <1>3 DEF Tell
<1>5. ASSUME NEW u \in Tabs, NEW i \in DOMAIN news'[u], news'[u][i] # None
      PROVE  news'[u][i].holder[1] # u
  <2>1. CASE u = t
    BY <2>1, <1>2, <1>5 DEF Sources
  <2>2. CASE u # t
    <3>1. news'[u][i] = rec \/ (i \in DOMAIN news[u] /\ news'[u][i] = news[u][i])
      BY <2>2, <1>3, <1>5
    <3> QED BY <3>1, <2>2, <1>5 DEF Sources
  <2> QED BY <2>1, <2>2
<1> QED BY <1>4, <1>5

(* getActiveLock answers with the record in storage, when it is in force, or with
   the one in memory when storage has none. *)
LEMMA FoundType ==
  ASSUME TypeOK, NEW t \in Tabs
  PROVE  /\ Found(t) \in Rec
         /\ Found(t) # None => Found(t) = storage \/ (storage = None /\ Found(t) = memory[t])
         /\ storage # None /\ Live(storage) => Found(t) = storage
         /\ storage # None /\ ~Live(storage) => Found(t) = None
  BY DEF TypeOK, Rec, Found, Live

(* getActiveLock changes storage only to clear a record past its time. *)
LEMMA LookStep ==
  ASSUME TypeOK, Sources, NEW t \in Tabs, Look(t), life' = life, durable' = durable
  PROVE  /\ storage' \in Rec /\ memory' \in [Tabs -> Rec] /\ news' \in [Tabs -> Seq(Rec)]
         /\ Sources'
         /\ storage' = storage \/ (storage' = None /\ storage # None /\ ~Live(storage))
         /\ memory' = [memory EXCEPT ![t] = Found(t)]
<1>1. memory' = [memory EXCEPT ![t] = Found(t)] /\ memory' \in [Tabs -> Rec]
  BY FoundType DEF Look, TypeOK, Rec
<1>2. CASE storage # None /\ ~Live(storage)
  <2>1. storage' \in {storage, None} /\ Tell(t, None) /\ (~durable => storage' = None)
    BY <1>2 DEF Look, Publish, Sources
  <2>2. /\ news' \in [Tabs -> Seq(Rec)]
        /\ \A u \in Tabs : \A i \in DOMAIN news'[u] :
               news'[u][i] # None => news'[u][i].holder[1] # u
    BY <2>1, TellStep DEF Rec
  <2> QED BY <1>1, <1>2, <2>1, <2>2 DEF Sources, TypeOK, Rec
<1>3. CASE ~(storage # None /\ ~Live(storage))
  BY <1>1, <1>3 DEF Look, Sources, TypeOK, Rec
<1> QED BY <1>2, <1>3

-----------------------------------------------------------------------------
(* The invariant is inductive *)

(* The part common to the steps in which no guard is taken or put down and the Web
   Lock does not move. *)
LEMMA QuietStep ==
  ASSUME GInv, TypeOK', Shapes', OneMidway', Sources',
         UNCHANGED <<webLocks, durable, mutex, releaser, refs, life, issued, written>>,
         \A u \in Tabs, d \in Clicks : flows'[u][d].pc = "asked" => webLocks,
         expired \subseteq expired',
         \A u \in Tabs, d \in Clicks : flows'[u][d].held = flows[u][d].held,
         webLocks => \A u \in Tabs : Midway(u)' <=> Midway(u),
         storage' = storage \/ (storage' = None /\ storage # None /\ ~Live(storage)),
         \A u \in Tabs : memory'[u] \in {memory[u], storage} \/ ~Mine(u, memory[u])'
  PROVE  GInv'
<1> USE DEF GInv
<1>1. ASSUME NEW u \in Tabs PROVE HeldBy(u)' = HeldBy(u) /\ (Guarded(u)' <=> Guarded(u))
  BY HeldSame
<1>2. NoMutex'
  BY DEF NoMutex
<1>3. ASSUME NEW u \in Tabs, Mine(u, memory[u])' \/ Mine(u, storage)'
      PROVE  Mine(u, memory[u]) \/ Mine(u, storage)
  BY <1>3 DEF Mine
<1>4. Locked'
  BY <1>1, <1>3 DEF Locked
<1>5. Left'
  BY <1>1 DEF Left
<1>6. RecordCoversFlow'
  BY <1>1 DEF RecordCoversFlow, Live
<1> QED BY <1>2, <1>4, <1>5, <1>6

(* acquireGuard up to its first await. *)
LEMMA AcquireStep ==
  ASSUME GInv, NEW t \in Tabs, NEW c \in Clicks, Acquire(t, c),
         flows[t][c].pc \in {"idle", "outer"}
  PROVE  GInv'
<1> USE DEF GInv
<1>1. /\ UNCHANGED <<webLocks, durable, mutex, releaser, life, issued, expired, written>>
      /\ ~Midway(t) /\ Look(t)
  BY DEF Acquire, env
<1>2. /\ storage' \in Rec /\ memory' \in [Tabs -> Rec] /\ news' \in [Tabs -> Seq(Rec)]
      /\ Sources'
      /\ storage' = storage \/ (storage' = None /\ storage # None /\ ~Live(storage))
      /\ memory' = [memory EXCEPT ![t] = Found(t)]
  BY <1>1, LookStep
<1>3. /\ flows[t][c] \in Flow
      /\ flows[t][c].held = IF flows[t][c].pc = "idle" THEN 0 ELSE 1
  BY FlowType DEF Shapes
<1>4. CASE Mine(t, Found(t)) /\ Hold(t, c) /\ refs' = [refs EXCEPT ![t] = IF @ = 0 THEN 2 ELSE @ + 1]
  <2>1. /\ flows' \in [Tabs -> [Clicks -> Flow]]
        /\ flows'[t][c] = [pc |-> IF flows[t][c].held = 0 THEN "outer" ELSE "build",
                           held |-> flows[t][c].held + 1]
        /\ \A u \in Tabs, d \in Clicks : u # t \/ d # c => flows'[u][d] = flows[u][d]
    BY <1>3, <1>4 DEF Hold, TypeOK, Flow
  <2>2. TypeOK'
    BY <1>1, <1>2, <1>4, <2>1 DEF Hold, TypeOK, Rec
  <2>3. Shapes' /\ OneMidway'
    BY <1>3, <2>1 DEF Shapes, OneMidway, Middle
  <2>4. NoMutex'
    BY <1>1, <2>1 DEF NoMutex
  <2>5. ASSUME NEW u \in Tabs PROVE Midway(u)' <=> Midway(u)
    <3>1. flows'[t][c].pc \notin Middle /\ flows[t][c].pc \notin Middle
      BY <2>1 DEF Middle
    <3> QED BY <3>1, <2>1 DEF Midway, Middle
  <2>6. ASSUME NEW u \in Tabs, u # t PROVE HeldBy(u)' = HeldBy(u) /\ (Guarded(u)' <=> Guarded(u))
    BY <2>1, <2>6, HeldSame
  <2>7. Guarded(t)' /\ HeldBy(t)' = HeldBy(t) + 1
    <3>1. HeldBy(t)' = HeldBy(t) + 1
      BY <1>3, <2>1, HeldAdd
    <3> QED BY <3>1, <1>3, <2>1 DEF Guarded, Flow
  <2>8. ASSUME webLocks PROVE Guarded(t)
    BY <1>4, <2>8, FoundType DEF Locked, Mine
  <2>9. ASSUME NEW u \in Tabs, Mine(u, memory[u])' \/ Mine(u, storage)' PROVE Mine(u, memory[u]) \/ Mine(u, storage)
    BY <1>1, <1>2, <2>9, FoundType DEF Mine, TypeOK
  <2>10. Locked'
    <3> SUFFICES ASSUME webLocks, NEW u \in Tabs
                 PROVE  /\ Guarded(u)' \/ Midway(u)' => mutex' = u
                        /\ Midway(u)' => ~Guarded(u)'
                        /\ releaser'[u] <=> mutex' = u
                        /\ refs'[u] = HeldBy(u)'
                        /\ Mine(u, memory[u])' \/ Mine(u, storage)' => Guarded(u)'
                        /\ Guarded(u)' => written'[u] > 0
      BY <1>1 DEF Locked
    <3>1. refs'[u] = HeldBy(u)'
      BY <1>4, <2>6, <2>7, <2>8, HeldNone DEF Locked, TypeOK
    <3>2. Guarded(u)' <=> Guarded(u)
      BY <2>6, <2>7, <2>8
    <3> QED BY <1>1, <2>5, <2>9, <3>1, <3>2 DEF Locked
  <2>11. Left'
    BY <1>1, <2>5, <2>6, <2>7 DEF Left
  <2>12. RecordCoversFlow'
    BY <1>1, <1>2, <2>6, <2>7, <2>8 DEF RecordCoversFlow, Live
  <2> QED BY <1>2, <2>2, <2>3, <2>4, <2>10, <2>11, <2>12
<1>5. CASE /\ UNCHANGED <<refs, busy>>
            /\ \/ Refuse(t, c)
               \/ Goto(t, c, IF webLocks THEN "asked" ELSE "recheck")
  <2>1. PICK pc \in {"idle", "close", "asked", "recheck"} :
            /\ flows' = [flows EXCEPT ![t][c].pc = pc]
            /\ pc = "idle" => flows[t][c].held = 0
            /\ pc = "close" => flows[t][c].held = 1
            /\ pc = "recheck" => ~webLocks
            /\ pc = "asked" => webLocks
    BY <1>3, <1>5 DEF Refuse, Goto
  <2>2. /\ flows' \in [Tabs -> [Clicks -> Flow]]
        /\ flows'[t][c] = [pc |-> pc, held |-> flows[t][c].held]
        /\ \A u \in Tabs, d \in Clicks : u # t \/ d # c => flows'[u][d] = flows[u][d]
    BY <1>3, <2>1 DEF TypeOK, Flow
  <2>3. TypeOK'
    BY <1>1, <1>2, <1>5, <2>2 DEF TypeOK, Rec
  <2>4. Shapes'
    BY <1>3, <2>1, <2>2 DEF Shapes, Middle
  <2>5. OneMidway'
    BY <1>1, <2>2 DEF OneMidway, Midway, Middle
  <2>6. ASSUME NEW u \in Tabs, NEW d \in Clicks PROVE flows'[u][d].held = flows[u][d].held
    BY <2>2
  <2>7. ASSUME webLocks, NEW u \in Tabs PROVE Midway(u)' <=> Midway(u)
    <3>1. flows'[t][c].pc \notin Middle /\ flows[t][c].pc \notin Middle
      BY <2>1, <2>2, <2>7 DEF Middle
    <3> QED BY <3>1, <2>2 DEF Midway, Middle
  <2>8. ASSUME NEW u \in Tabs PROVE memory'[u] \in {memory[u], storage} \/ ~Mine(u, memory[u])'
    BY <1>2, FoundType DEF Mine, TypeOK
  <2>9. ASSUME NEW u \in Tabs, NEW d \in Clicks, flows'[u][d].pc = "asked" PROVE webLocks
    BY <2>1, <2>2, <2>9 DEF NoMutex
  <2> QED BY <1>1, <1>2, <1>5, <2>3, <2>4, <2>5, <2>6, <2>7, <2>8, <2>9, QuietStep
<1> QED BY <1>4, <1>5 DEF Acquire

(* The Web Lock granted: nobody had it, so nobody is past the guard. *)
LEMMA GrantedStep ==
  ASSUME GInv, NEW t \in Tabs, NEW c \in Clicks, Granted(t, c)
  PROVE  GInv'
<1> USE DEF GInv
<1>1. /\ UNCHANGED <<webLocks, durable, storage, memory, refs, news, busy, life, issued, expired, written>>
      /\ flows[t][c].pc = "asked" /\ ~Midway(t) /\ mutex = None /\ mutex' = t
      /\ releaser' = [releaser EXCEPT ![t] = TRUE]
      /\ Goto(t, c, "recheck")
  BY DEF Granted, env, marks
<1>2. webLocks
  BY <1>1 DEF NoMutex
<1>3. ASSUME NEW u \in Tabs PROVE ~Guarded(u) /\ ~Midway(u) /\ ~releaser[u] /\ mutex # u
  BY <1>1, <1>2, GuardAssumption DEF Locked, GuardAssumption
<1>4. /\ flows' \in [Tabs -> [Clicks -> Flow]]
      /\ flows'[t][c] = [pc |-> "recheck", held |-> flows[t][c].held]
      /\ \A u \in Tabs, d \in Clicks : u # t \/ d # c => flows'[u][d] = flows[u][d]
  BY <1>1, FlowType DEF Goto, TypeOK, Flow
<1>5. TypeOK'
  BY <1>1, <1>4 DEF TypeOK
<1>6. Shapes'
  BY <1>1, <1>4 DEF Shapes, Middle
<1>7. OneMidway'
  BY <1>1, <1>4 DEF OneMidway, Midway, Middle
<1>8. Sources' /\ NoMutex'
  BY <1>1, <1>2 DEF Sources, NoMutex
<1>9. ASSUME NEW u \in Tabs PROVE HeldBy(u)' = HeldBy(u) /\ (Guarded(u)' <=> Guarded(u))
  BY <1>4, HeldSame
<1>10. ASSUME NEW u \in Tabs PROVE Midway(u)' <=> u = t
  BY <1>3, <1>4 DEF Midway
<1>11. Locked'
  BY <1>1, <1>2, <1>3, <1>9, <1>10 DEF Locked, Mine, TypeOK
<1>12. Left'
  BY <1>1, <1>10 DEF Left
<1>13. RecordCoversFlow'
  BY <1>3, <1>9 DEF RecordCoversFlow
<1> QED BY <1>5, <1>6, <1>7, <1>8, <1>11, <1>12, <1>13

(* The Web Lock refused. *)
LEMMA DeniedStep ==
  ASSUME GInv, NEW t \in Tabs, NEW c \in Clicks, Denied(t, c)
  PROVE  GInv'
<1> USE DEF GInv
<1>1. /\ UNCHANGED <<webLocks, durable, storage, memory, refs, mutex, releaser, news,
                     busy, life, issued, expired, written>>
      /\ flows[t][c].pc = "asked" /\ Refuse(t, c) /\ ~Midway(t)
  BY DEF Denied, env, marks
<1>2. PICK pc \in {"idle", "close"} :
          /\ flows' = [flows EXCEPT ![t][c].pc = pc]
          /\ flows[t][c].held = IF pc = "idle" THEN 0 ELSE 1
  <2>1. flows[t][c].held \in {0, 1}
    BY <1>1, FlowType DEF Shapes, Middle
  <2>2. CASE flows[t][c].held = 0
    BY <1>1, <2>2 DEF Refuse, Goto
  <2>3. CASE flows[t][c].held = 1
    BY <1>1, <2>3 DEF Refuse, Goto
  <2> QED BY <2>1, <2>2, <2>3
<1>3. /\ flows' \in [Tabs -> [Clicks -> Flow]]
      /\ flows'[t][c] = [pc |-> pc, held |-> flows[t][c].held]
      /\ \A u \in Tabs, d \in Clicks : u # t \/ d # c => flows'[u][d] = flows[u][d]
  BY <1>2, FlowType DEF TypeOK, Flow
<1>4. TypeOK'
  BY <1>1, <1>3 DEF TypeOK
<1>5. Shapes'
  BY <1>2, <1>3 DEF Shapes, Middle
<1>6. OneMidway'
  BY <1>3 DEF OneMidway, Middle
<1>7. Sources'
  BY <1>1 DEF Sources
<1>8. ASSUME NEW u \in Tabs PROVE Midway(u)' <=> Midway(u)
  <2>1. flows'[t][c].pc \notin Middle /\ flows[t][c].pc \notin Middle
    BY <1>1, <1>3 DEF Middle
  <2> QED BY <1>3, <2>1 DEF Midway, Middle
<1>9. ASSUME NEW u \in Tabs, NEW d \in Clicks
      PROVE  flows'[u][d].held = flows[u][d].held /\ (flows'[u][d].pc = "asked" => webLocks)
  BY <1>3 DEF NoMutex
<1> QED BY <1>1, <1>4, <1>5, <1>6, <1>7, <1>8, <1>9, QuietStep

(* The second look, which gives the Web Lock back when another tab is in. *)
LEMMA RecheckStep ==
  ASSUME GInv, NEW t \in Tabs, NEW c \in Clicks, Recheck(t, c)
  PROVE  GInv'
<1> USE DEF GInv
<1>1. /\ UNCHANGED <<webLocks, durable, refs, busy, life, issued, expired, written>>
      /\ flows[t][c].pc = "recheck" /\ Look(t)
  BY DEF Recheck, env, marks
<1>2. /\ storage' \in Rec /\ memory' \in [Tabs -> Rec] /\ news' \in [Tabs -> Seq(Rec)]
      /\ Sources'
      /\ storage' = storage \/ (storage' = None /\ storage # None /\ ~Live(storage))
      /\ memory' = [memory EXCEPT ![t] = Found(t)]
  BY <1>1, LookStep
<1>3. PICK pc \in {"idle", "close", "write"} :
          /\ flows' = [flows EXCEPT ![t][c].pc = pc]
          /\ pc = "idle" => flows[t][c].held = 0
          /\ pc = "close" => flows[t][c].held = 1
          /\ IF pc = "write" THEN UNCHANGED <<mutex, releaser>> ELSE Unlock(t)
  <2>1. flows[t][c].held \in {0, 1}
    BY <1>1, FlowType DEF Shapes, Middle
  <2>2. CASE flows[t][c].held = 0
    BY <2>2 DEF Recheck, Refuse, Goto
  <2>3. CASE flows[t][c].held = 1
    BY <2>3 DEF Recheck, Refuse, Goto
  <2> QED BY <2>1, <2>2, <2>3
<1>4. /\ flows' \in [Tabs -> [Clicks -> Flow]]
      /\ flows'[t][c] = [pc |-> pc, held |-> flows[t][c].held]
      /\ \A u \in Tabs, d \in Clicks : u # t \/ d # c => flows'[u][d] = flows[u][d]
  BY <1>3, FlowType DEF TypeOK, Flow
<1>5. mutex' \in Tabs \union {None} /\ releaser' \in [Tabs -> BOOLEAN]
  BY <1>3 DEF Unlock, TypeOK
<1>6. TypeOK'
  BY <1>1, <1>2, <1>4, <1>5 DEF TypeOK, Rec
<1>7. Shapes'
  <2>1. ASSUME NEW u \in Tabs, NEW d \in Clicks, u # t \/ d # c
        PROVE  flows'[u][d] = flows[u][d]
    BY <1>4, <2>1
  <2>2. flows[t][c].held < 2
    BY <1>1 DEF Shapes, Middle
  <2> QED BY <1>3, <1>4, <2>1, <2>2 DEF Shapes, Middle
<1>8. OneMidway'
  BY <1>1, <1>4 DEF OneMidway, Middle
<1>9. ASSUME NEW u \in Tabs, NEW d \in Clicks
      PROVE  flows'[u][d].held = flows[u][d].held /\ (flows'[u][d].pc = "asked" => webLocks)
  BY <1>4 DEF NoMutex
<1>10. ASSUME NEW u \in Tabs PROVE memory'[u] \in {memory[u], storage} \/ ~Mine(u, memory[u])'
  BY <1>2, FoundType DEF Mine, TypeOK
<1>11. CASE pc = "write"
  <2>1. ASSUME NEW u \in Tabs PROVE Midway(u)' <=> Midway(u)
    <3>1. flows'[t][c].pc \in Middle /\ flows[t][c].pc \in Middle
      BY <1>1, <1>4, <1>11 DEF Middle
    <3> QED BY <3>1, <1>4 DEF Midway, Middle
  <2> QED BY <1>1, <1>2, <1>3, <1>6, <1>7, <1>8, <1>9, <1>10, <1>11, <2>1, QuietStep
<1>12. CASE pc # "write"
  <2>1. ~Midway(t)' /\ Midway(t)
    <3>1. ASSUME NEW d \in Clicks PROVE flows'[t][d].pc \notin {"recheck", "write"}
      <4>1. CASE d = c
        BY <1>4, <1>12, <4>1
      <4>2. CASE d # c
        <5>1. flows[t][c].pc \in Middle /\ flows'[t][d] = flows[t][d]
          BY <1>1, <1>4, <4>2 DEF Middle
        <5>2. flows[t][d].pc \notin Middle
          BY <4>2, <5>1 DEF OneMidway
        <5> QED BY <5>1, <5>2 DEF Middle
      <4> QED BY <4>1, <4>2
    <3> QED BY <1>1, <3>1 DEF Midway
  <2>2. ASSUME NEW u \in Tabs, u # t PROVE Midway(u)' <=> Midway(u)
    BY <1>4, <2>2 DEF Midway
  <2>3. ASSUME NEW u \in Tabs PROVE HeldBy(u)' = HeldBy(u) /\ (Guarded(u)' <=> Guarded(u))
    BY <1>9, HeldSame
  <2>4. NoMutex'
    BY <1>1, <1>3, <1>9, <1>12 DEF NoMutex, Unlock, TypeOK
  <2>5. ASSUME webLocks
        PROVE  /\ mutex = t /\ mutex' = None /\ releaser' = [releaser EXCEPT ![t] = FALSE]
               /\ ~Guarded(t)
    BY <1>3, <1>12, <2>1, <2>5 DEF Locked, Unlock
  <2>6. ASSUME webLocks, NEW u \in Tabs PROVE ~Guarded(u) /\ mutex' # u
    BY <2>5, <2>6, GuardAssumption DEF Locked, GuardAssumption
  <2>7. ASSUME NEW u \in Tabs, Mine(u, memory[u])' \/ Mine(u, storage)'
        PROVE  Mine(u, memory[u]) \/ Mine(u, storage)
    BY <1>1, <1>2, <1>10, <2>7 DEF Mine
  <2>8. Locked'
    <3> SUFFICES ASSUME webLocks, NEW u \in Tabs
                 PROVE  /\ ~Midway(u)'
                        /\ ~Guarded(u)'
                        /\ ~releaser'[u] /\ mutex' # u
                        /\ refs'[u] = HeldBy(u)'
                        /\ ~(Mine(u, memory[u])' \/ Mine(u, storage)')
      BY <1>1 DEF Locked
    <3>1. ~Midway(u)'
      BY <2>1, <2>2, <2>5, <2>6 DEF Locked
    <3>2. ~releaser'[u] /\ mutex' # u
      BY <2>5, <2>6 DEF Locked, TypeOK
    <3> QED BY <1>1, <2>3, <2>6, <2>7, <3>1, <3>2 DEF Locked
  <2>9. Left'
    BY <1>1, <2>6 DEF Left
  <2>10. RecordCoversFlow'
    BY <1>1, <2>3, <2>6 DEF RecordCoversFlow
  <2> QED BY <1>2, <1>6, <1>7, <1>8, <2>4, <2>8, <2>9, <2>10
<1> QED BY <1>11, <1>12

(* The record is written, by the only tab past the lock. *)
LEMMA WriteStep ==
  ASSUME GInv, NEW t \in Tabs, NEW c \in Clicks, Write(t, c)
  PROVE  GInv'
<1> USE DEF GInv
<1> DEFINE rec == [id |-> issued + 1, holder |-> <<t, life[t]>>]
<1>1. /\ UNCHANGED <<webLocks, durable, mutex, releaser, life, expired>>
      /\ flows[t][c].pc = "write" /\ issued < MaxRecords /\ issued' = issued + 1
      /\ memory' = [memory EXCEPT ![t] = rec]
      /\ storage' = IF durable THEN rec ELSE storage
      /\ Tell(t, rec)
      /\ refs' = [refs EXCEPT ![t] = 1]
      /\ Hold(t, c)
      /\ written' = [written EXCEPT ![t] = issued + 1]
  BY DEF Write, Publish, env
<1>2. /\ rec \in Record /\ rec # None /\ rec.id = issued + 1
      /\ rec.holder = <<t, life[t]>> /\ rec.holder[1] = t /\ rec.holder[2] = life[t]
      /\ issued \in Nat /\ issued + 1 \in 1..MaxRecords
  BY <1>1, NoneNotRecord, GuardAssumption DEF TypeOK, Record, GuardAssumption
<1> HIDE DEF rec
<1>3. /\ news' \in [Tabs -> Seq(Rec)]
      /\ \A u \in Tabs : \A i \in DOMAIN news'[u] :
             news'[u][i] # None => news'[u][i].holder[1] # u
  BY <1>1, <1>2, TellStep DEF Rec
<1>4. flows[t][c].held \in {0, 1}
  BY <1>1, FlowType DEF Shapes, Middle
<1>5. /\ flows' \in [Tabs -> [Clicks -> Flow]]
      /\ flows'[t][c] = [pc |-> IF flows[t][c].held = 0 THEN "outer" ELSE "build",
                         held |-> flows[t][c].held + 1]
      /\ \A u \in Tabs, d \in Clicks : u # t \/ d # c => flows'[u][d] = flows[u][d]
      /\ busy' \in [Tabs -> {"no", "set", "shown"}]
  BY <1>1, <1>4 DEF Hold, TypeOK, Flow
<1>6. TypeOK'
  <2>1. storage' \in Rec /\ memory' \in [Tabs -> Rec] /\ refs' \in [Tabs -> Nat]
    BY <1>1, <1>2 DEF TypeOK, Rec
  <2>2. issued' \in 0..MaxRecords /\ expired' \subseteq 1..issued'
    BY <1>1, <1>2 DEF TypeOK
  <2>3. written' \in [Tabs -> 0..issued']
    BY <1>1, <1>2 DEF TypeOK
  <2> QED BY <1>1, <1>3, <1>5, <2>1, <2>2, <2>3 DEF TypeOK, Rec
<1>7. Shapes' /\ OneMidway'
  <2>1. Shapes'
    <3> SUFFICES ASSUME NEW u \in Tabs, NEW d \in Clicks
                 PROVE  /\ flows'[u][d].pc = "idle" => flows'[u][d].held = 0
                        /\ flows'[u][d].pc \in {"asked"} \union Middle => flows'[u][d].held < 2
                        /\ flows'[u][d].pc \in {"outer", "sign", "close"} => flows'[u][d].held = 1
                        /\ flows'[u][d].pc = "build" => flows'[u][d].held = 2
      BY DEF Shapes
    <3>1. CASE u = t /\ d = c
      BY <1>4, <1>5, <3>1 DEF Middle
    <3>2. CASE u # t \/ d # c
      BY <1>5, <3>2 DEF Shapes
    <3> QED BY <3>1, <3>2
  <2>2. flows'[t][c].pc \notin Middle
    BY <1>5 DEF Middle
  <2> QED BY <1>5, <2>1, <2>2 DEF OneMidway
<1>8. Sources'
  <2>1. life[t] \in Nat
    BY GuardAssumption DEF TypeOK, GuardAssumption
  <2>2. storage' # None => storage'.holder[2] <= life'[storage'.holder[1]]
    BY <1>1, <1>2, <2>1 DEF Sources
  <2> QED BY <1>1, <1>3, <2>2 DEF Sources
<1>9. NoMutex'
  BY <1>1, <1>4, <1>5 DEF NoMutex
<1>10. CASE ~webLocks
  BY <1>1, <1>6, <1>7, <1>8, <1>9, <1>10 DEF Locked, Left, RecordCoversFlow
<1>11. CASE webLocks
  <2>1. mutex = t /\ ~Guarded(t)
    BY <1>1, <1>11 DEF Locked, Midway
  <2>2. ASSUME NEW u \in Tabs, u # t
        PROVE  ~Guarded(u)' /\ HeldBy(u)' = HeldBy(u) /\ ~Midway(u)'
    <3>1. ~Guarded(u) /\ ~Midway(u)
      BY <1>11, <2>1, <2>2 DEF Locked
    <3>2. HeldBy(u)' = HeldBy(u) /\ (Guarded(u)' <=> Guarded(u))
      BY <1>5, <2>2, HeldSame
    <3> QED BY <1>5, <2>2, <3>1, <3>2 DEF Midway
  <2>3. HeldBy(t)' = 1 /\ Guarded(t)'
    <3>1. HeldBy(t)' = HeldBy(t) + 1
      BY <1>4, <1>5, HeldAdd
    <3>2. HeldBy(t) = 0
      BY <2>1, HeldNone
    <3>3. flows'[t][c].held > 0
      BY <1>4, <1>5
    <3> QED BY <3>1, <3>2, <3>3 DEF Guarded
  <2>4. ~Midway(t)'
    <3>1. ASSUME NEW d \in Clicks PROVE flows'[t][d].pc \notin {"recheck", "write"}
      <4>1. CASE d = c
        BY <1>5, <4>1
      <4>2. CASE d # c
        <5>1. flows[t][c].pc \in Middle /\ flows'[t][d] = flows[t][d]
          BY <1>1, <1>5, <4>2 DEF Middle
        <5>2. flows[t][d].pc \notin Middle
          BY <4>2, <5>1 DEF OneMidway
        <5> QED BY <5>1, <5>2 DEF Middle
      <4> QED BY <4>1, <4>2
    <3> QED BY <3>1 DEF Midway
  <2>5. ASSUME NEW u \in Tabs, u # t PROVE ~(Mine(u, memory[u])' \/ Mine(u, storage)')
    <3>1. ~(Mine(u, memory[u]) \/ Mine(u, storage))
      BY <1>11, <2>1, <2>5 DEF Locked
    <3> QED BY <1>1, <1>2, <2>5, <3>1 DEF Mine, TypeOK
  <2>6. Locked'
    <3> SUFFICES ASSUME NEW u \in Tabs
                 PROVE  /\ Guarded(u)' \/ Midway(u)' => mutex' = u
                        /\ Midway(u)' => ~Guarded(u)'
                        /\ releaser'[u] <=> mutex' = u
                        /\ refs'[u] = HeldBy(u)'
                        /\ Mine(u, memory[u])' \/ Mine(u, storage)' => Guarded(u)'
                        /\ Guarded(u)' => written'[u] > 0
      BY DEF Locked
    <3>1. CASE u = t
      BY <1>1, <1>2, <1>11, <2>1, <2>3, <2>4, <3>1 DEF Locked, TypeOK
    <3>2. CASE u # t
      BY <1>1, <1>11, <2>2, <2>5, <3>2 DEF Locked, TypeOK
    <3> QED BY <3>1, <3>2
  <2>7. Left'
    BY <1>1, <2>1, <2>3 DEF Left
  <2>8. RecordCoversFlow'
    BY <1>1, <1>2, <2>2 DEF RecordCoversFlow, TypeOK, rec
  <2> QED BY <1>6, <1>7, <1>8, <1>9, <2>6, <2>7, <2>8
<1> QED BY <1>10, <1>11

(* releaseGuard, nested or last: the count reaches zero exactly when the flow's
   last guard goes, and the Web Lock stays behind only when the record expired. *)
LEMMA ReleaseStep ==
  ASSUME GInv, NEW t \in Tabs, NEW c \in Clicks, Release(t),
         flows[t][c].held > 0, ~Midway(t),
         flows' \in [Tabs -> [Clicks -> Flow]],
         flows'[t][c].held = flows[t][c].held - 1,
         flows'[t][c].pc \in IF flows[t][c].held = 1 THEN {"idle"} ELSE {"sign", "close"},
         \A u \in Tabs, d \in Clicks : u # t \/ d # c => flows'[u][d] = flows[u][d],
         busy' \in [Tabs -> {"no", "set", "shown"}],
         UNCHANGED <<webLocks, durable, life, issued, expired, written>>
  PROVE  GInv'
<1> USE DEF GInv
<1>1. flows[t][c].held \in {1, 2} /\ Guarded(t)
  BY FlowType DEF Guarded
<1>2. Shapes' /\ OneMidway'
  <2>1. Shapes'
    <3> SUFFICES ASSUME NEW u \in Tabs, NEW d \in Clicks
                 PROVE  /\ flows'[u][d].pc = "idle" => flows'[u][d].held = 0
                        /\ flows'[u][d].pc \in {"asked"} \union Middle => flows'[u][d].held < 2
                        /\ flows'[u][d].pc \in {"outer", "sign", "close"} => flows'[u][d].held = 1
                        /\ flows'[u][d].pc = "build" => flows'[u][d].held = 2
      BY DEF Shapes
    <3>1. CASE u = t /\ d = c
      BY <1>1, <3>1 DEF Middle
    <3>2. CASE u # t \/ d # c
      BY <3>2 DEF Shapes
    <3> QED BY <3>1, <3>2
  <2>2. flows'[t][c].pc \notin Middle
    BY <1>1 DEF Middle
  <2> QED BY <2>1, <2>2 DEF OneMidway
<1>3. ASSUME NEW u \in Tabs PROVE Midway(u)' <=> Midway(u)
  <2>1. flows'[t][c].pc \notin {"recheck", "write"} /\ flows[t][c].pc \notin {"recheck", "write"}
    BY <1>1 DEF Midway
  <2> QED BY <2>1 DEF Midway
<1>4. ASSUME NEW u \in Tabs, u # t PROVE HeldBy(u)' = HeldBy(u) /\ (Guarded(u)' <=> Guarded(u))
  BY <1>4, HeldSame
<1>5. HeldBy(t)' = HeldBy(t) - 1
  BY HeldDrop
<1>6. /\ storage' \in Rec /\ memory' \in [Tabs -> Rec] /\ news' \in [Tabs -> Seq(Rec)]
      /\ Sources'
      /\ \/ storage' = storage
         \/ storage' = None /\ (~Live(storage) \/ Mine(t, storage))
      /\ \A u \in Tabs \ {t} : memory'[u] = memory[u]
  <2>1. CASE refs[t] > 1
    BY <2>1 DEF Release, Sources, TypeOK, Rec
  <2>2. CASE ~(refs[t] > 1) /\ (Found(t) = None \/ Mine(t, Found(t)))
    <3>1. /\ memory' = [memory EXCEPT ![t] = None]
          /\ storage' = IF durable THEN None ELSE storage
          /\ Tell(t, None)
      BY <2>2 DEF Release, Publish
    <3>2. /\ news' \in [Tabs -> Seq(Rec)]
          /\ \A u \in Tabs : \A i \in DOMAIN news'[u] :
                 news'[u][i] # None => news'[u][i].holder[1] # u
      BY <3>1, TellStep DEF Rec
    <3>3. Sources'
      BY <3>1, <3>2 DEF Sources
    <3>4. storage # None => ~Live(storage) \/ Mine(t, storage)
      BY <2>2, FoundType DEF Mine
    <3> QED BY <3>1, <3>2, <3>3, <3>4 DEF TypeOK, Rec
  <2>3. CASE ~(refs[t] > 1) /\ ~(Found(t) = None \/ Mine(t, Found(t)))
    <3>1. Look(t)
      BY <2>3 DEF Release
    <3> QED BY <3>1, LookStep, FoundType DEF TypeOK, Rec
  <2> QED BY <2>1, <2>2, <2>3
<1>7. /\ Unlock(t) \/ UNCHANGED <<mutex, releaser>>
      /\ refs' \in [Tabs -> Nat]
      /\ \A u \in Tabs \ {t} : refs'[u] = refs[u]
  <2>1. CASE refs[t] > 1
    <3>1. refs' = [refs EXCEPT ![t] = refs[t] - 1] /\ UNCHANGED <<mutex, releaser>>
      BY <2>1 DEF Release
    <3>2. refs \in [Tabs -> Nat] /\ refs[t] - 1 \in Nat
      BY <2>1 DEF TypeOK
    <3> QED BY <3>1, <3>2
  <2>2. CASE ~(refs[t] > 1)
    <3>1. refs' = [refs EXCEPT ![t] = 0]
      BY <2>2 DEF Release
    <3>2. Unlock(t) \/ UNCHANGED <<mutex, releaser>>
      BY <2>2 DEF Release
    <3> QED BY <3>1, <3>2 DEF TypeOK
  <2> QED BY <2>1, <2>2
<1>8. TypeOK'
  <2>1. mutex' \in Tabs \union {None} /\ releaser' \in [Tabs -> BOOLEAN]
    BY <1>7 DEF Unlock, TypeOK
  <2> QED BY <1>6, <1>7, <2>1 DEF TypeOK, Rec
<1>9. NoMutex'
  <2>1. ASSUME ~webLocks PROVE mutex' = None /\ \A u \in Tabs : ~releaser'[u]
    BY <1>7, <2>1 DEF NoMutex, Unlock, TypeOK
  <2>2. flows'[t][c].pc # "asked"
    BY <1>1
  <2> QED BY <2>1, <2>2 DEF NoMutex
<1>10. CASE ~webLocks
  BY <1>2, <1>6, <1>8, <1>9, <1>10 DEF Locked, Left, RecordCoversFlow
<1>11. CASE webLocks
  <2>1. mutex = t /\ refs[t] = HeldBy(t) /\ refs[t] \in Nat \ {0} /\ releaser[t]
    BY <1>1, <1>11, HeldNone DEF Locked
  <2>2. ASSUME NEW u \in Tabs, u # t
        PROVE  /\ ~Guarded(u)' /\ ~Midway(u)' /\ ~releaser'[u] /\ mutex' # u
               /\ refs'[u] = HeldBy(u)'
               /\ ~(Mine(u, memory[u])' \/ Mine(u, storage)')
    <3>1. /\ ~Guarded(u) /\ ~Midway(u) /\ ~releaser[u] /\ mutex # u /\ refs[u] = HeldBy(u)
          /\ ~(Mine(u, memory[u]) \/ Mine(u, storage))
      BY <1>11, <2>1, <2>2 DEF Locked
    <3>2. ~releaser'[u] /\ mutex' # u
      BY <1>7, <2>2, <3>1, GuardAssumption DEF Unlock, TypeOK, GuardAssumption
    <3>3. ~(Mine(u, memory[u])' \/ Mine(u, storage)')
      BY <1>6, <2>2, <3>1 DEF Mine
    <3> QED BY <1>3, <1>4, <1>7, <2>2, <3>1, <3>2, <3>3
  <2>3. releaser'[t] <=> mutex' = t
    BY <1>7, <2>1, GuardAssumption DEF Unlock, TypeOK, GuardAssumption
  <2>4. CASE refs[t] > 1
    <3>1. /\ refs' = [refs EXCEPT ![t] = @ - 1]
          /\ UNCHANGED <<storage, memory, mutex>>
      BY <2>4 DEF Release
    <3>2. refs'[t] = HeldBy(t)' /\ Guarded(t)'
      BY <1>5, <1>8, <2>1, <2>4, <3>1, HeldNoneNext DEF TypeOK
    <3>3. Locked'
      <4>1. written[t] > 0
        BY <1>1, <1>11 DEF Locked
      <4> QED BY <1>3, <2>1, <2>2, <2>3, <3>1, <3>2, <4>1 DEF Locked
    <3>4. Left'
      BY <2>2, <3>2 DEF Left
    <3>5. RecordCoversFlow'
      BY <1>1, <2>2, <3>1 DEF RecordCoversFlow
    <3> QED BY <1>2, <1>6, <1>8, <1>9, <3>3, <3>4, <3>5
  <2>5. CASE ~(refs[t] > 1)
    <3>1. refs'[t] = 0 /\ HeldBy(t)' = 0
      BY <1>5, <2>1, <2>5 DEF Release, TypeOK
    <3>2. ~Guarded(t)'
      BY <1>8, <3>1, HeldNoneNext
    <3>3. ~(Mine(t, memory[t])' \/ Mine(t, storage)')
      <4>1. CASE Found(t) = None \/ Mine(t, Found(t))
        <5>1. memory'[t] = None /\ storage' = None
          BY <2>5, <4>1 DEF Release, Publish, Sources, TypeOK
        <5> QED BY <5>1 DEF Mine
      <4>2. CASE ~(Found(t) = None \/ Mine(t, Found(t)))
        <5>1. Look(t)
          BY <2>5, <4>2 DEF Release
        <5>2. memory'[t] = Found(t) /\ (storage' # None => storage' = Found(t))
          BY <4>2, <5>1, FoundType DEF Look, Publish, TypeOK
        <5> QED BY <4>2, <5>2 DEF Mine
      <4> QED BY <4>1, <4>2
    <3>4. Locked'
      BY <1>3, <2>1, <2>2, <2>3, <3>1, <3>2, <3>3 DEF Locked
    <3>5. Left'
      <4> SUFFICES ASSUME durable, mutex' = t, written[t] \notin expired PROVE FALSE
        BY <2>2 DEF Left
      <4>1. storage = [id |-> written[t], holder |-> <<t, life[t]>>]
        BY <1>1, <1>11 DEF RecordCoversFlow, Locked
      <4>2. storage # None
        <5>1. written[t] \in Nat /\ life[t] \in Nat
          BY GuardAssumption DEF TypeOK, GuardAssumption
        <5> QED BY <4>1, <5>1, GuardAssumption DEF GuardAssumption
      <4>3. Found(t) = storage /\ Mine(t, storage)
        BY <4>1, <4>2, FoundType DEF Live, Mine
      <4>4. Unlock(t)
        BY <2>5, <4>3 DEF Release
      <4> QED BY <2>1, <4>4, GuardAssumption DEF Unlock, GuardAssumption
    <3>6. RecordCoversFlow'
      BY <2>2, <3>2 DEF RecordCoversFlow
    <3> QED BY <1>2, <1>6, <1>8, <1>9, <3>4, <3>5, <3>6
  <2> QED BY <2>4, <2>5
<1> QED BY <1>10, <1>11

(* News heard, a button redrawn, a record expiring. *)
LEMMA TabStep ==
  ASSUME GInv, Expire \/ \E t \in Tabs : Render(t) \/ Hear(t)
  PROVE  GInv'
<1> USE DEF GInv
<1>1. UNCHANGED <<webLocks, durable, storage, refs, mutex, releaser, flows, life, issued, written>>
  BY DEF Render, Hear, Expire, env, marks
<1>2. expired \subseteq expired' /\ expired' \subseteq 1..issued
  BY DEF Render, Hear, Expire, marks, TypeOK
<1>3. busy' \in [Tabs -> {"no", "set", "shown"}]
  BY DEF Render, Hear, Expire, marks, TypeOK
<1>4. /\ memory' \in [Tabs -> Rec] /\ news' \in [Tabs -> Seq(Rec)]
      /\ Sources'
      /\ \A u \in Tabs : memory'[u] = memory[u] \/ ~Mine(u, memory[u])'
  <2>1. CASE UNCHANGED <<memory, news>>
    BY <1>1, <2>1 DEF TypeOK, Sources, Rec
  <2>2. ASSUME NEW t \in Tabs, Hear(t)
        PROVE  /\ memory' \in [Tabs -> Rec] /\ news' \in [Tabs -> Seq(Rec)]
               /\ Sources'
               /\ \A u \in Tabs : memory'[u] = memory[u] \/ ~Mine(u, memory[u])'
    <3> DEFINE s == news[t]
    <3>1. s \in Seq(Rec) /\ s # <<>> /\ \A i \in DOMAIN s : s[i] # None => s[i].holder[1] # t
      BY <2>2 DEF Hear, TypeOK, Rec, Sources
    <3>2. memory' = [memory EXCEPT ![t] = Head(s)] /\ news' = [news EXCEPT ![t] = Tail(s)]
      BY <2>2 DEF Hear
    <3> HIDE DEF s
    <3>3. /\ Head(s) \in Rec /\ (Head(s) # None => Head(s).holder[1] # t)
          /\ Tail(s) \in Seq(Rec)
          /\ \A i \in DOMAIN Tail(s) : Tail(s)[i] # None => Tail(s)[i].holder[1] # t
      BY <3>1
    <3>4. memory' \in [Tabs -> Rec] /\ news' \in [Tabs -> Seq(Rec)]
      BY <3>2, <3>3 DEF TypeOK, Rec
    <3>5. Sources'
      <4>1. news'[t] = Tail(s) /\ \A u \in Tabs : u # t => news'[u] = news[u]
        BY <3>2 DEF TypeOK
      <4>2. \A u \in Tabs : \A i \in DOMAIN news'[u] :
                news'[u][i] # None => news'[u][i].holder[1] # u
        <5> SUFFICES ASSUME NEW u \in Tabs, NEW i \in DOMAIN news'[u], news'[u][i] # None
                     PROVE  news'[u][i].holder[1] # u
          OBVIOUS
        <5>1. CASE u = t
          BY <4>1, <3>3, <5>1
        <5>2. CASE u # t
          BY <4>1, <5>2 DEF Sources
        <5> QED BY <5>1, <5>2
      <4> QED BY <1>1, <4>2 DEF Sources
    <3>6. \A u \in Tabs : memory'[u] = memory[u] \/ ~Mine(u, memory[u])'
      BY <3>2, <3>3 DEF Mine, TypeOK
    <3> QED BY <3>4, <3>5, <3>6
  <2> QED BY <2>1, <2>2 DEF Render, Expire
<1>5. TypeOK'
  BY <1>1, <1>2, <1>3, <1>4 DEF TypeOK, Rec
<1>6. Shapes' /\ OneMidway'
  BY <1>1 DEF Shapes, OneMidway
<1>7. \A u \in Tabs : Midway(u)' <=> Midway(u)
  BY <1>1 DEF Midway
<1>8. \A u \in Tabs, d \in Clicks : flows'[u][d].pc = "asked" => webLocks
  BY <1>1 DEF NoMutex
<1> QED BY <1>1, <1>2, <1>4, <1>5, <1>6, <1>7, <1>8, QuietStep

(* A reload: the record left in storage is that of an earlier life. *)
LEMMA ReloadStep ==
  ASSUME GInv, NEW t \in Tabs, Reload(t)
  PROVE  GInv'
<1> USE DEF GInv
<1>1. /\ UNCHANGED <<webLocks, durable, storage, issued, expired>>
      /\ life' = [life EXCEPT ![t] = @ + 1] /\ life[t] < MaxReloads
      /\ memory' = [memory EXCEPT ![t] = None]
      /\ refs' = [refs EXCEPT ![t] = 0]
      /\ mutex' = IF mutex = t THEN None ELSE mutex
      /\ releaser' = [releaser EXCEPT ![t] = FALSE]
      /\ news' = [news EXCEPT ![t] = <<>>]
      /\ flows' = [flows EXCEPT ![t] = [c \in Clicks |-> NoFlow]]
      /\ busy' = [busy EXCEPT ![t] = "no"]
      /\ written' = [written EXCEPT ![t] = 0]
  BY DEF Reload, env
<1>2. /\ flows' \in [Tabs -> [Clicks -> Flow]]
      /\ \A d \in Clicks : flows'[t][d] = NoFlow
      /\ \A u \in Tabs : u # t => flows'[u] = flows[u]
  BY <1>1 DEF TypeOK, NoFlow, Flow
<1>3. TypeOK'
  <2>1. life' \in [Tabs -> 0..MaxReloads] /\ refs' \in [Tabs -> Nat] /\ written' \in [Tabs -> 0..issued']
    BY <1>1, GuardAssumption DEF TypeOK, GuardAssumption
  <2>2. /\ memory' \in [Tabs -> Rec] /\ mutex' \in Tabs \union {None}
        /\ releaser' \in [Tabs -> BOOLEAN] /\ busy' \in [Tabs -> {"no", "set", "shown"}]
    BY <1>1 DEF TypeOK, Rec
  <2>3. news' \in [Tabs -> Seq(Rec)]
    BY <1>1 DEF TypeOK, Rec
  <2> QED BY <1>1, <1>2, <2>1, <2>2, <2>3 DEF TypeOK, Rec
<1>4. Shapes' /\ OneMidway'
  BY <1>2 DEF Shapes, OneMidway, Middle, NoFlow
<1>5. Sources'
  <2>1. ~durable => storage' = None
    BY <1>1 DEF Sources
  <2>2. ASSUME storage' # None PROVE storage'.holder[2] <= life'[storage'.holder[1]]
    <3>1. storage \in Record /\ storage.holder[2] <= life[storage.holder[1]] /\ storage.holder[1] \in Tabs
      BY <1>1, <2>2 DEF TypeOK, Sources, Record
    <3>2. storage.holder[2] \in Nat /\ \A u \in Tabs : life[u] \in Nat
      BY <3>1, GuardAssumption DEF TypeOK, Record, GuardAssumption
    <3> QED BY <1>1, <3>1, <3>2 DEF TypeOK
  <2>3. ASSUME NEW u \in Tabs, NEW i \in DOMAIN news'[u], news'[u][i] # None
        PROVE  news'[u][i].holder[1] # u
    BY <1>1, <2>3 DEF Sources, TypeOK
  <2> QED BY <1>1, <2>1, <2>2, <2>3 DEF Sources
<1>6. NoMutex'
  BY <1>1, <1>2 DEF NoMutex, TypeOK, NoFlow
<1>7. ~Midway(t)' /\ ~Guarded(t)' /\ HeldBy(t)' = 0
  <2>1. ~Midway(t)' /\ ~Guarded(t)'
    BY <1>2 DEF Midway, Guarded, NoFlow
  <2> QED BY <2>1, <1>3, HeldNoneNext
<1>8. ASSUME NEW u \in Tabs, u # t
      PROVE  /\ HeldBy(u)' = HeldBy(u) /\ (Guarded(u)' <=> Guarded(u))
             /\ Midway(u)' <=> Midway(u)
  BY <1>2, <1>8, HeldSame DEF Midway
<1>9. ~Mine(t, memory[t])' /\ ~Mine(t, storage)'
  <2>1. ASSUME Mine(t, storage)' PROVE FALSE
    <3>1. storage # None /\ storage.holder = <<t, life[t] + 1>> /\ life[t] \in Nat
      BY <1>1, <2>1, GuardAssumption DEF Mine, TypeOK, GuardAssumption
    <3> QED BY <3>1 DEF Sources
  <2> QED BY <1>1, <2>1 DEF Mine, TypeOK
<1>10. ASSUME NEW u \in Tabs, u # t, Mine(u, memory[u])' \/ Mine(u, storage)'
       PROVE  Mine(u, memory[u]) \/ Mine(u, storage)
  BY <1>1, <1>10 DEF Mine, TypeOK
<1>11. Locked'
  <2> SUFFICES ASSUME webLocks, NEW u \in Tabs
               PROVE  /\ Guarded(u)' \/ Midway(u)' => mutex' = u
                      /\ Midway(u)' => ~Guarded(u)'
                      /\ releaser'[u] <=> mutex' = u
                      /\ refs'[u] = HeldBy(u)'
                      /\ Mine(u, memory[u])' \/ Mine(u, storage)' => Guarded(u)'
                      /\ Guarded(u)' => written'[u] > 0
    BY <1>1 DEF Locked
  <2>1. CASE u = t
    BY <1>1, <1>7, <1>9, <2>1, GuardAssumption DEF TypeOK, GuardAssumption
  <2>2. CASE u # t
    <3>1. /\ mutex' = u <=> mutex = u
          /\ releaser'[u] = releaser[u] /\ refs'[u] = refs[u] /\ written'[u] = written[u]
      BY <1>1, <2>2, GuardAssumption DEF TypeOK, GuardAssumption
    <3> QED BY <1>8, <1>10, <2>2, <3>1 DEF Locked
  <2> QED BY <2>1, <2>2
<1>12. Left'
  <2> SUFFICES ASSUME webLocks, durable, NEW u \in Tabs, mutex' = u, ~Guarded(u)', ~Midway(u)'
               PROVE  written'[u] \in expired
    BY <1>1 DEF Left
  <2>1. u # t /\ mutex = u
    BY <1>1, GuardAssumption DEF GuardAssumption
  <2> QED BY <1>1, <1>8, <2>1 DEF Left, TypeOK
<1>13. RecordCoversFlow'
  <2> SUFFICES ASSUME webLocks, durable, NEW u \in Tabs, Guarded(u)',
                      written'[u] > 0, written'[u] \notin expired
               PROVE  storage' = [id |-> written'[u], holder |-> <<u, life'[u]>>]
    BY <1>1 DEF RecordCoversFlow
  <2>1. u # t
    BY <1>7
  <2>2. Guarded(u) /\ written'[u] = written[u] /\ life'[u] = life[u]
    BY <1>1, <1>8, <2>1 DEF TypeOK
  <2> QED BY <1>1, <2>2 DEF RecordCoversFlow
<1> QED BY <1>3, <1>4, <1>5, <1>6, <1>11, <1>12, <1>13

(* Every step keeps the invariant. *)
LEMMA NextStep ==
  ASSUME GInv, [Next]_vars
  PROVE  GInv'
<1> USE DEF GInv
<1>1. ASSUME NEW t \in Tabs, NEW c \in Clicks, Click(t, c) \/ CallBuilder(t, c)
      PROVE  GInv'
  BY <1>1, AcquireStep DEF Click, CallBuilder
<1>2. ASSUME NEW t \in Tabs, NEW c \in Clicks, Built(t, c)
      PROVE  GInv'
  <2>1. PICK pc \in {"sign", "close"} :
           flows' = [flows EXCEPT ![t][c] = [pc |-> pc, held |-> flows[t][c].held - 1]]
    BY <1>2 DEF Built
  <2>2. flows[t][c].pc = "build" /\ flows[t][c].held = 2
    BY <1>2 DEF Built, Shapes
  <2>3. /\ flows' \in [Tabs -> [Clicks -> Flow]]
        /\ flows'[t][c] = [pc |-> pc, held |-> 1]
        /\ \A u \in Tabs, d \in Clicks : u # t \/ d # c => flows'[u][d] = flows[u][d]
    BY <2>1, <2>2 DEF TypeOK, Flow
  <2>4. UNCHANGED <<webLocks, durable, busy, life, issued, expired, written>>
    BY <1>2 DEF Built, env, marks
  <2>5. busy' \in [Tabs -> {"no", "set", "shown"}]
    BY <2>4 DEF TypeOK
  <2>6. Release(t) /\ ~Midway(t)
    BY <1>2 DEF Built
  <2> QED BY <2>2, <2>3, <2>4, <2>5, <2>6, ReleaseStep
<1>3. ASSUME NEW t \in Tabs, NEW c \in Clicks, Finish(t, c)
      PROVE  GInv'
  <2>1. /\ flows' = [flows EXCEPT ![t][c] = NoFlow]
        /\ Release(t) /\ ~Midway(t)
        /\ flows[t][c].held = 1
    BY <1>3 DEF Finish, Shapes
  <2>2. /\ flows' \in [Tabs -> [Clicks -> Flow]]
        /\ flows'[t][c] = [pc |-> "idle", held |-> 0]
        /\ \A u \in Tabs, d \in Clicks : u # t \/ d # c => flows'[u][d] = flows[u][d]
    BY <2>1 DEF TypeOK, Flow, NoFlow
  <2>3. UNCHANGED <<webLocks, durable, life, issued, expired, written>>
    BY <1>3 DEF Finish, env
  <2>4. busy' \in [Tabs -> {"no", "set", "shown"}]
    BY <1>3 DEF Finish, TypeOK
  <2> QED BY <2>1, <2>2, <2>3, <2>4, ReleaseStep
<1>4. CASE UNCHANGED vars
  <2>1. UNCHANGED <<webLocks, durable, storage, memory, refs, mutex, releaser, news,
                    flows, busy, life, issued, expired, written>>
    BY <1>4 DEF vars, env, marks
  <2>2. TypeOK'
    BY <2>1 DEF TypeOK
  <2>3. Shapes' /\ OneMidway' /\ Sources'
    BY <2>1 DEF Shapes, OneMidway, Sources
  <2>4. \A u \in Tabs : Midway(u)' <=> Midway(u)
    BY <2>1 DEF Midway
  <2>5. \A u \in Tabs, d \in Clicks : flows'[u][d].pc = "asked" => webLocks
    BY <2>1 DEF NoMutex
  <2> QED BY <2>1, <2>2, <2>3, <2>4, <2>5, QuietStep
<1>5. ASSUME NEW t \in Tabs, NEW c \in Clicks,
             Granted(t, c) \/ Denied(t, c) \/ Recheck(t, c) \/ Write(t, c)
      PROVE  GInv'
  BY <1>5, GrantedStep, DeniedStep, RecheckStep, WriteStep
<1>6. ASSUME NEW t \in Tabs, Render(t) \/ Hear(t) \/ Reload(t)
      PROVE  GInv'
  BY <1>6, TabStep, ReloadStep
<1>7. CASE Expire
  BY <1>7, TabStep
<1> QED BY <1>1, <1>2, <1>3, <1>4, <1>5, <1>6, <1>7 DEF Next

(* It holds when the tabs are opened. *)
LEMMA InitGuard == Init => GInv
<1> SUFFICES ASSUME Init PROVE GInv
  OBVIOUS
<1>1. TypeOK
  BY GuardAssumption DEF Init, TypeOK, Flow, NoFlow, GuardAssumption
<1>2. Shapes /\ OneMidway /\ Sources /\ NoMutex
  BY DEF Init, Shapes, OneMidway, Sources, NoMutex, Middle, NoFlow
<1>3. ASSUME NEW t \in Tabs PROVE ~Guarded(t) /\ ~Midway(t) /\ HeldBy(t) = 0
  <2>1. ~Guarded(t) /\ ~Midway(t)
    BY DEF Init, Guarded, Midway, NoFlow
  <2> QED BY <1>1, <2>1, HeldNone
<1>4. Locked /\ Left /\ RecordCoversFlow
  BY <1>3, GuardAssumption DEF Init, Locked, Left, RecordCoversFlow, Mine, GuardAssumption
<1> QED BY <1>1, <1>2, <1>4 DEF GInv

-----------------------------------------------------------------------------
(* The theorems *)

(* The inductive invariant holds of every behaviour. *)
THEOREM GuardInvariant == Spec => []GInv
<1>1. GInv /\ [Next]_vars => GInv'
  BY NextStep
<1> QED BY <1>1, InitGuard, PTL DEF Spec

(* The types of the state, with at most two guards to a click. *)
THEOREM Types == Spec => []TypeOK
<1>1. GInv => TypeOK
  BY DEF GInv
<1> QED BY <1>1, GuardInvariant, PTL

(* With Web Locks, whatever expires, is late or cannot be stored, at most one tab
   is between acquireGuard and releaseGuard. *)
THEOREM Exclusive == Spec => []ExclusiveAcrossTabs
<1>1. GInv => ExclusiveAcrossTabs
  BY DEF GInv, Locked, ExclusiveAcrossTabs
<1> QED BY <1>1, GuardInvariant, PTL

(* Until it expires, the record a flow wrote is the one every tab finds in
   localStorage, from the guard taken to the end of polling. *)
THEOREM Covered == Spec => []RecordCoversFlow
<1>1. GInv => RecordCoversFlow
  BY DEF GInv
<1> QED BY <1>1, GuardInvariant, PTL

(* A Web Lock whose tab is at rest was left there by a record that expired. *)
THEOREM MutexOutlives == Spec => []MutexOutlivesOnlyExpired
<1>1. GInv => MutexOutlivesOnlyExpired
  <2> SUFFICES ASSUME GInv, durable, NEW t \in Tabs, mutex = t, AtRest(t)
               PROVE  written[t] \in expired
    BY DEF MutexOutlivesOnlyExpired
  <2>1. webLocks
    BY GuardAssumption DEF GInv, NoMutex, GuardAssumption
  <2>2. ~Guarded(t) /\ ~Midway(t)
    BY DEF AtRest, Guarded, Midway, NoFlow
  <2> QED BY <2>1, <2>2 DEF GInv, Left
<1> QED BY <1>1, GuardInvariant, PTL

(* The step behind the next theorem: only a release clears a record in force, and
   only one of its holder. *)
LEMMA PutsDownStep ==
  ASSUME GInv, [Next]_vars, Live(storage), storage' = None
  PROVE  \E c \in Clicks :
             flows'[storage.holder[1]][c].held < flows[storage.holder[1]][c].held
<1> USE DEF GInv
<1>1. storage # None
  BY DEF Live
<1>2. ASSUME NEW t \in Tabs, Look(t) PROVE FALSE
  BY <1>1, <1>2 DEF Look
<1>3. ASSUME NEW t \in Tabs, NEW c \in Clicks, Release(t),
             flows'[t][c].held < flows[t][c].held
      PROVE  \E d \in Clicks :
                 flows'[storage.holder[1]][d].held < flows[storage.holder[1]][d].held
  <2>1. Mine(t, storage)
    <3>1. Found(t) = storage
      BY <1>1, FoundType
    <3>2. CASE refs[t] > 1
      BY <1>1, <1>3, <3>2 DEF Release
    <3>3. CASE ~(refs[t] > 1)
      BY <1>1, <1>2, <1>3, <3>1, <3>3 DEF Release
    <3> QED BY <3>2, <3>3
  <2>2. storage.holder[1] = t
    BY <2>1 DEF Mine
  <2> QED BY <1>3, <2>2
<1>4. ASSUME NEW t \in Tabs, NEW c \in Clicks, Click(t, c) \/ CallBuilder(t, c) \/ Recheck(t, c)
      PROVE  FALSE
  BY <1>2, <1>4 DEF Click, CallBuilder, Acquire, Recheck
<1>5. ASSUME NEW t \in Tabs, NEW c \in Clicks, Granted(t, c) \/ Denied(t, c)
      PROVE  FALSE
  BY <1>1, <1>5 DEF Granted, Denied
<1>6. ASSUME NEW t \in Tabs, NEW c \in Clicks, Write(t, c)
      PROVE  FALSE
  <2>1. [id |-> issued + 1, holder |-> <<t, life[t]>>] # None
    BY <1>6, GuardAssumption DEF TypeOK, GuardAssumption
  <2> QED BY <1>1, <1>6, <2>1 DEF Write, Publish
<1>7. ASSUME NEW t \in Tabs, NEW c \in Clicks, Built(t, c)
      PROVE  Release(t) /\ flows'[t][c].held < flows[t][c].held
  <2>1. PICK pc \in {"sign", "close"} :
           flows' = [flows EXCEPT ![t][c] = [pc |-> pc, held |-> flows[t][c].held - 1]]
    BY <1>7 DEF Built
  <2>2. flows'[t][c].held = flows[t][c].held - 1 /\ flows[t][c].held \in Int
    BY <2>1, FlowType DEF TypeOK
  <2> QED BY <1>7, <2>2 DEF Built
<1>8. ASSUME NEW t \in Tabs, NEW c \in Clicks, Finish(t, c)
      PROVE  Release(t) /\ flows'[t][c].held < flows[t][c].held
  <2>1. flows[t][c].held = 1
    BY <1>8 DEF Finish, Shapes
  <2>2. flows'[t][c].held = 0
    BY <1>8 DEF Finish, TypeOK, NoFlow
  <2> QED BY <1>8, <2>1, <2>2 DEF Finish
<1>9. ASSUME NEW t \in Tabs, Render(t) \/ Hear(t) \/ Reload(t)
      PROVE  FALSE
  BY <1>1, <1>9 DEF Render, Hear, Reload
<1>10. ~Expire /\ ~UNCHANGED vars
  BY <1>1 DEF Expire, vars
<1> QED BY <1>3, <1>4, <1>5, <1>6, <1>7, <1>8, <1>9, <1>10 DEF Next

(* A record in force is put down by its own holder and by no other tab. *)
THEOREM PutDown == Spec => OnlyTheHolderPutsDown
<1>1. GInv /\ [Next]_vars =>
          [ Live(storage) /\ storage' = None =>
                \E c \in Clicks :
                    flows'[storage.holder[1]][c].held < flows[storage.holder[1]][c].held ]_vars
  BY PutsDownStep
<1> QED BY <1>1, GuardInvariant, PTL DEF Spec, OnlyTheHolderPutsDown
=============================================================================
