--------------------------- MODULE ReentrancyGuard ---------------------------
(***************************************************************************)
(* The client-side guard against doing one vesting operation of one        *)
(* account twice at a time, and the vesting page that uses it: a click     *)
(* takes the guard, the transaction builder takes it again inside, the     *)
(* wallet signs, the transaction is sent and polled, the guard is put      *)
(* down.  Several tabs share localStorage, a BroadcastChannel and the      *)
(* browser's Web Locks; each has its own memory.                           *)
(*                                                                         *)
(* One (publicKey, operation) key is modelled; keys do not interact.  A    *)
(* record's age is abstracted to whether its time to live has run out.     *)
(* Code between two awaits is atomic for its own tab; other tabs, being    *)
(* other processes, may come between its read and its write of             *)
(* localStorage.                                                           *)
(***************************************************************************)
EXTENDS Integers, Sequences, FiniteSets, FiniteSetsExt

CONSTANTS
    Tabs,
    Clicks,         \* clicks on the operation's button one page can be serving
    MaxRecords,     \* bound on the records written
    MaxReloads,     \* bound on reloads and crashes, all tabs together
    None

ASSUME GuardAssumption ==
    /\ IsFiniteSet(Tabs) /\ IsFiniteSet(Clicks)
    /\ {MaxRecords, MaxReloads} \subseteq Nat
    /\ None \notin Tabs \union [id : Nat, holder : Tabs \X Nat]

VARIABLES
    webLocks,   \* the browser has navigator.locks
    durable,    \* localStorage can be used
    storage,    \* the record in localStorage
    memory,     \* memoryLockStore of each tab
    refs,       \* localRefCounts of each tab, 0 when absent
    mutex,      \* the tab that holds the Web Lock
    releaser,   \* whether webLockReleases of a tab has the key
    news,       \* what a tab has not heard yet from the others: records, None
    flows,      \* how far each click has come, and the guards it holds
    busy,       \* isProcessing of each page: "no", "set", "shown"
    life,       \* reloads of each tab, which change its LOCAL_HOLDER_ID
    issued,     \* records written so far
    expired,    \* records past their expiresAt
    written     \* history: the last record of each tab's present life

env == <<webLocks, durable>>
marks == <<busy, life, issued, expired, written>>
vars == <<env, storage, memory, refs, mutex, releaser, news, flows, marks>>

NoFlow == [pc |-> "idle", held |-> 0]

Init ==
    /\ webLocks \in BOOLEAN /\ durable \in BOOLEAN
    /\ storage = None
    /\ memory = [t \in Tabs |-> None]
    /\ refs = [t \in Tabs |-> 0]
    /\ mutex = None
    /\ releaser = [t \in Tabs |-> FALSE]
    /\ news = [t \in Tabs |-> <<>>]
    /\ flows = [t \in Tabs |-> [c \in Clicks |-> NoFlow]]
    /\ busy = [t \in Tabs |-> "no"]
    /\ life = [t \in Tabs |-> 0]
    /\ issued = 0
    /\ expired = {}
    /\ written = [t \in Tabs |-> 0]

-----------------------------------------------------------------------------
(* The guard *)

Live(rec) == rec # None /\ rec.id \notin expired
Mine(t, rec) == rec # None /\ rec.holder = <<t, life[t]>>

\* What getActiveLock returns in tab t, which is also what it leaves in memory:
\* localStorage decides when it has a record, memory otherwise.
Found(t) ==
    LET rec == IF storage # None THEN storage ELSE memory[t]
    IN  IF Live(rec) THEN rec ELSE None

\* The other tabs will hear that the record is rec, or gone.
Tell(t, rec) ==
    news' = [u \in Tabs |-> IF u = t THEN news[u] ELSE Append(news[u], rec)]

Publish(t, rec) ==
    /\ storage' = IF durable THEN rec ELSE storage
    /\ Tell(t, rec)

\* getActiveLock: an expired record is cleared, which raises a storage event.
Look(t) ==
    /\ IF storage # None /\ ~Live(storage)
       THEN Publish(t, None)
       ELSE UNCHANGED <<storage, news>>
    /\ memory' = [memory EXCEPT ![t] = Found(t)]

Goto(t, c, pc) == flows' = [flows EXCEPT ![t][c].pc = pc]

\* One more guard is held: the outer one, or the builder's.
Hold(t, c) ==
    /\ flows' = [flows EXCEPT ![t][c] =
                   [pc |-> IF @.held = 0 THEN "outer" ELSE "build", held |-> @.held + 1]]
    /\ busy' = IF flows[t][c].held = 0 THEN [busy EXCEPT ![t] = "set"] ELSE busy

\* Mutant: a guard that was refused is put down all the same.
RefuseAndPutDown(t, c) ==
    flows' = [flows EXCEPT ![t][c] =
                [pc |-> IF @.held = 0 THEN "idle" ELSE "close", held |-> @.held - 1]]

\* ReentrancyError: the click comes to nothing, or the builder throws.
Refuse(t, c) ==
    Goto(t, c, IF flows[t][c].held = 0 THEN "idle" ELSE "close")

\* A tab in the middle of a synchronous stretch of acquireGuard.
Midway(t) == \E c \in Clicks : flows[t][c].pc \in {"recheck", "write"}

\* acquireGuard up to its first await: held by this tab, by another, or free.
Acquire(t, c) ==
    /\ ~Midway(t)
    /\ Look(t)
    /\ \/ /\ Mine(t, Found(t))
          /\ refs' = [refs EXCEPT ![t] = IF @ = 0 THEN 2 ELSE @ + 1]
          /\ Hold(t, c)
       \/ /\ Found(t) # None /\ ~Mine(t, Found(t))
          /\ Refuse(t, c)
          /\ UNCHANGED <<refs, busy>>
       \/ /\ Found(t) = None
          /\ Goto(t, c, IF webLocks THEN "asked" ELSE "recheck")
          /\ UNCHANGED <<refs, busy>>
    /\ UNCHANGED <<env, mutex, releaser, life, issued, expired, written>>

\* navigator.locks.request with ifAvailable
Granted(t, c) ==
    /\ flows[t][c].pc = "asked" /\ ~Midway(t)
    /\ mutex = None
    /\ mutex' = t
    /\ releaser' = [releaser EXCEPT ![t] = TRUE]
    /\ Goto(t, c, "recheck")
    /\ UNCHANGED <<env, storage, memory, refs, news, marks>>

\* Mutant: a request that fails is taken for a granted one.
GrantedAnyway(t, c) ==
    /\ flows[t][c].pc = "asked" /\ ~Midway(t)
    /\ mutex # None
    /\ Goto(t, c, "recheck")
    /\ UNCHANGED <<env, storage, memory, refs, mutex, releaser, news, marks>>

Denied(t, c) ==
    /\ flows[t][c].pc = "asked" /\ ~Midway(t)
    /\ mutex # None
    /\ Refuse(t, c)
    /\ UNCHANGED <<env, storage, memory, refs, mutex, releaser, news, marks>>

Unlock(t) ==
    /\ mutex' = IF releaser[t] THEN None ELSE mutex
    /\ releaser' = [releaser EXCEPT ![t] = FALSE]

\* The second getActiveLock, behind the mutex where there is one.
Recheck(t, c) ==
    /\ flows[t][c].pc = "recheck"
    /\ Look(t)
    /\ IF Found(t) # None /\ ~Mine(t, Found(t))
       THEN Unlock(t) /\ Refuse(t, c)
       ELSE Goto(t, c, "write") /\ UNCHANGED <<mutex, releaser>>
    /\ UNCHANGED <<env, refs, marks>>

\* The record is published.
Write(t, c) ==
    /\ flows[t][c].pc = "write"
    /\ issued < MaxRecords
    /\ LET rec == [id |-> issued + 1, holder |-> <<t, life[t]>>] IN
       /\ memory' = [memory EXCEPT ![t] = rec]
       /\ Publish(t, rec)
    /\ refs' = [refs EXCEPT ![t] = 1]
    /\ Hold(t, c)
    /\ issued' = issued + 1
    /\ written' = [written EXCEPT ![t] = issued']
    /\ UNCHANGED <<env, mutex, releaser, life, expired>>

\* Mutant: the first release puts the record down, nested or not.
ReleaseAtOnce(t) ==
    /\ refs' = [refs EXCEPT ![t] = 0]
    /\ memory' = [memory EXCEPT ![t] = None]
    /\ Publish(t, None)
    /\ Unlock(t)

\* Mutant: the holder of the record found is not compared.
ReleaseAnybodys(t) ==
    IF refs[t] > 1
    THEN /\ refs' = [refs EXCEPT ![t] = @ - 1]
         /\ UNCHANGED <<storage, memory, mutex, releaser, news>>
    ELSE ReleaseAtOnce(t)

\* Mutant: the Web Lock is kept although the record is put down.
ReleaseKeepsMutex(t) ==
    IF refs[t] > 1
    THEN /\ refs' = [refs EXCEPT ![t] = @ - 1]
         /\ UNCHANGED <<storage, memory, mutex, releaser, news>>
    ELSE /\ refs' = [refs EXCEPT ![t] = 0]
         /\ memory' = [memory EXCEPT ![t] = None]
         /\ Publish(t, None)
         /\ UNCHANGED <<mutex, releaser>>

\* releaseGuard: a nested release only counts down.  The last one puts the
\* record down, unless another tab's is in its place by now; the Web Lock goes
\* with a record of this tab's, and only with one.
Release(t) ==
    IF refs[t] > 1
    THEN /\ refs' = [refs EXCEPT ![t] = @ - 1]
         /\ UNCHANGED <<storage, memory, mutex, releaser, news>>
    ELSE /\ refs' = [refs EXCEPT ![t] = 0]
         /\ IF Found(t) = None \/ Mine(t, Found(t))
            THEN /\ memory' = [memory EXCEPT ![t] = None]
                 /\ Publish(t, None)
            ELSE Look(t)
         /\ IF Mine(t, Found(t)) THEN Unlock(t) ELSE UNCHANGED <<mutex, releaser>>

-----------------------------------------------------------------------------
(* The vesting page.  Its buttons are disabled once isProcessing is shown. *)

Click(t, c) ==
    /\ flows[t][c].pc = "idle" /\ busy[t] # "shown"
    /\ Acquire(t, c)

Render(t) ==
    /\ busy[t] = "set" /\ ~Midway(t)
    /\ busy' = [busy EXCEPT ![t] = "shown"]
    /\ UNCHANGED <<env, storage, memory, refs, mutex, releaser, news, flows,
                   life, issued, expired, written>>

CallBuilder(t, c) ==
    /\ flows[t][c].pc = "outer"
    /\ Acquire(t, c)

\* The builder returns the transaction, or throws; its guard is put down.
Built(t, c) ==
    /\ flows[t][c].pc = "build" /\ ~Midway(t)
    /\ Release(t)
    /\ \E pc \in {"sign", "close"} :
          flows' = [flows EXCEPT ![t][c] = [pc |-> pc, held |-> @.held - 1]]
    /\ UNCHANGED <<env, marks>>

\* Signed, sent and polled to an end, or refused, or given up on.
Finish(t, c) ==
    /\ flows[t][c].pc \in {"sign", "close"} /\ ~Midway(t)
    /\ Release(t)
    /\ flows' = [flows EXCEPT ![t][c] = NoFlow]
    /\ busy' = [busy EXCEPT ![t] = "no"]
    /\ UNCHANGED <<env, life, issued, expired, written>>

-----------------------------------------------------------------------------
(* Messages, time and reloads *)

\* The handlers of the BroadcastChannel and of storage events.  Both bring the
\* same news; the model delivers it once, when the later of the two would.
Hear(t) ==
    /\ news[t] # <<>> /\ ~Midway(t)
    /\ memory' = [memory EXCEPT ![t] = Head(news[t])]
    /\ news' = [news EXCEPT ![t] = Tail(@)]
    /\ UNCHANGED <<env, storage, refs, mutex, releaser, flows, marks>>

\* Records expire in the order they were written.
Expire ==
    /\ \E id \in 1..issued :
          /\ id \notin expired /\ 1..(id - 1) \subseteq expired
          /\ expired' = expired \union {id}
    /\ UNCHANGED <<env, storage, memory, refs, mutex, releaser, news, flows,
                   busy, life, issued, written>>

\* The tab is reloaded, or crashes and is opened again: the browser frees its
\* Web Lock, localStorage keeps its record.
Reload(t) ==
    /\ \A u \in Tabs : life[u] < MaxReloads
    /\ life' = [life EXCEPT ![t] = @ + 1]
    /\ memory' = [memory EXCEPT ![t] = None]
    /\ refs' = [refs EXCEPT ![t] = 0]
    /\ mutex' = IF mutex = t THEN None ELSE mutex
    /\ releaser' = [releaser EXCEPT ![t] = FALSE]
    /\ news' = [news EXCEPT ![t] = <<>>]
    /\ flows' = [flows EXCEPT ![t] = [c \in Clicks |-> NoFlow]]
    /\ busy' = [busy EXCEPT ![t] = "no"]
    /\ written' = [written EXCEPT ![t] = 0]
    /\ UNCHANGED <<env, storage, issued, expired>>

-----------------------------------------------------------------------------
Next ==
    \/ \E t \in Tabs, c \in Clicks :
          \/ Click(t, c) \/ CallBuilder(t, c) \/ Built(t, c) \/ Finish(t, c)
          \/ Granted(t, c) \/ Denied(t, c) \/ Recheck(t, c) \/ Write(t, c)
    \/ \E t \in Tabs : Render(t) \/ Hear(t) \/ Reload(t)
    \/ Expire

Spec == Init /\ [][Next]_vars

-----------------------------------------------------------------------------
Record == [id : 1..MaxRecords, holder : Tabs \X (0..MaxReloads)]
Flow == [pc : {"idle", "asked", "recheck", "write", "outer", "build", "sign", "close"},
         held : 0..2]

(* The types of the state; no tab knows a record newer than those issued, and a
   click holds the guard at most twice, once per nesting. *)
TypeOK ==
    /\ webLocks \in BOOLEAN /\ durable \in BOOLEAN
    /\ storage \in Record \union {None}
    /\ memory \in [Tabs -> Record \union {None}]
    /\ refs \in [Tabs -> Nat]
    /\ mutex \in Tabs \union {None}
    /\ releaser \in [Tabs -> BOOLEAN]
    /\ news \in [Tabs -> Seq(Record \union {None})]
    /\ flows \in [Tabs -> [Clicks -> Flow]]
    /\ busy \in [Tabs -> {"no", "set", "shown"}]
    /\ life \in [Tabs -> 0..MaxReloads]
    /\ issued \in 0..MaxRecords
    /\ expired \subseteq 1..issued
    /\ written \in [Tabs -> 0..issued]

Guarded(t) == \E c \in Clicks : flows[t][c].held > 0
AtRest(t) == flows[t] = [c \in Clicks |-> NoFlow]

(* With Web Locks at most one tab at a time is between taking the guard and
   putting it down, whether or not records expire meanwhile, messages are late
   or localStorage is unavailable. *)
ExclusiveAcrossTabs ==
    webLocks => \A t, u \in Tabs : Guarded(t) /\ Guarded(u) => t = u

(* From taking the guard to the end of polling, every tab finds the flow's
   record in localStorage as long as it has not expired: the builder's release
   does not put it down, nor does a second click's, another tab's or a late
   message. *)
RecordCoversFlow ==
    webLocks /\ durable =>
        \A t \in Tabs : Guarded(t) /\ written[t] > 0 /\ written[t] \notin expired =>
            storage = [id |-> written[t], holder |-> <<t, life[t]>>]

(* A record in force disappears only when its own holder puts it down, never by
   the release of a tab whose time had run out and whose place was taken. *)
OnlyTheHolderPutsDown ==
    [][ Live(storage) /\ storage' = None =>
            \E c \in Clicks :
                flows'[storage.holder[1]][c].held < flows[storage.holder[1]][c].held ]_vars

(* A Web Lock outlives the flow it was taken for only when the record expired
   before the guard was put down: then releaseGuard finds no record, leaves the
   lock alone, and every later click in every tab is refused until the tab that
   holds it is closed. *)
MutexOutlivesOnlyExpired ==
    durable => \A t \in Tabs : mutex = t /\ AtRest(t) => written[t] \in expired
=============================================================================
