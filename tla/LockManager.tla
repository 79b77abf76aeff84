----------------------------- MODULE LockManager -----------------------------
(***************************************************************************)
(* The lock manager (src/src/core/lock_manager.cpp): a table of per-key    *)
(* lock entries with SHARED / EXCLUSIVE holders and a FIFO queue of        *)
(* waiters.  Every public operation runs under lock_table_mutex_, so it is *)
(* one atomic step here, except acquireLock, which releases the mutex in   *)
(* cv->wait_for: a call that has to wait is AcquireWait followed either by *)
(* WakeGranted or by Timeout.                                              *)
(*                                                                         *)
(* A transaction is driven by one session thread, so it has at most one    *)
(* call in progress.  The `deadlocked' flag of a waiter is left out: no    *)
(* code ever sets it.                                                      *)
(***************************************************************************)
EXTENDS Naturals, Sequences

CONSTANTS
  Txn,      \* transaction ids
  Key,
  NoKey     \* "not blocked in acquireLock"

ASSUME NoKeyAssumption == NoKey \notin Key

VARIABLES
  lock_table,  \* lock_table_: a LockEntry for each key that has one
  call         \* call[t]: the acquireLock call in which t's thread is blocked

lockVars == <<lock_table, call>>

LockMode    == {"NONE", "SHARED", "EXCLUSIVE"}
RequestMode == {"SHARED", "EXCLUSIVE"}
LockWaiter  == [txn : Txn, mode : RequestMode]
LockEntry   == [mode : LockMode, holders : SUBSET Txn, queue : Seq(LockWaiter)]
NewEntry    == [mode |-> "NONE", holders |-> {}, queue |-> <<>>]

\* The stack frame of a blocked call: the entry it refers to, what it asked
\* for, and *granted_flag, which the releasing thread sets.
Call == [key : Key, mode : RequestMode, granted : BOOLEAN]
Idle == [key |-> NoKey, mode |-> "NONE", granted |-> FALSE]

TypeOK ==
  /\ DOMAIN lock_table \subseteq Key
  /\ lock_table \in [DOMAIN lock_table -> LockEntry]
  /\ call \in [Txn -> Call \cup {Idle}]

Init ==
  /\ lock_table = [k \in {} |-> NewEntry]
  /\ call = [t \in Txn |-> Idle]

-----------------------------------------------------------------------------
(* Reading and writing the table                                           *)

\* lock_table_[key], which default-constructs a missing entry.
entryOf(k) == IF k \in DOMAIN lock_table THEN lock_table[k] ELSE NewEntry

setEntry(k, e) ==
  [j \in DOMAIN lock_table \cup {k} |-> IF j = k THEN e ELSE lock_table[j]]

MutCompatible(held, requested) == held = "NONE" \/ requested = "SHARED"

isCompatible(held, requested) ==
  \/ held = "NONE" \/ requested = "NONE"
  \/ held = "SHARED" /\ requested = "SHARED"

hasLock(t, k, m) ==
  /\ t \in entryOf(k).holders
  /\ m = "EXCLUSIVE" => entryOf(k).mode = "EXCLUSIVE"

-----------------------------------------------------------------------------
(* processWaiters: grant from the front of the queue while compatible.     *)
(* Granting into NONE sets the mode to that of the first waiter; after     *)
(* that only SHARED joins SHARED, so the mode does not change again.       *)

modeBefore(e, i) == IF i = 1 \/ e.mode # "NONE" THEN e.mode ELSE e.queue[1].mode

compatibleAt(e, i) == isCompatible(modeBefore(e, i), e.queue[i].mode)

\* The number of waiters the loop grants.
grantCount(e) ==
  CHOOSE n \in 0 .. Len(e.queue) :
    /\ \A i \in 1 .. n : compatibleAt(e, i)
    /\ n < Len(e.queue) => ~compatibleAt(e, n + 1)

grantees(e) == {e.queue[i].txn : i \in 1 .. grantCount(e)}

MutProcessWaiters(e) ==
  [mode    |-> IF grantCount(e) = 0 THEN e.mode ELSE "SHARED",
   holders |-> e.holders \cup grantees(e),
   queue   |-> SubSeq(e.queue, grantCount(e) + 1, Len(e.queue))]

processWaiters(e) ==
  [mode    |-> IF grantCount(e) = 0 THEN e.mode ELSE modeBefore(e, 2),
   holders |-> e.holders \cup grantees(e),
   queue   |-> SubSeq(e.queue, grantCount(e) + 1, Len(e.queue))]

-----------------------------------------------------------------------------
(* acquireLock: the three ways to return true at once, and the wait        *)

AlreadyHeld(t, k, m) ==
  /\ t \in entryOf(k).holders
  /\ entryOf(k).mode = "EXCLUSIVE" \/ m = "SHARED"

MutCanUpgrade(t, k, m) ==
  /\ t \in entryOf(k).holders
  /\ ~AlreadyHeld(t, k, m)
  /\ entryOf(k).queue # <<>> => Head(entryOf(k).queue).txn = t

CanUpgrade(t, k, m) ==
  /\ entryOf(k).holders = {t}
  /\ ~AlreadyHeld(t, k, m)
  /\ entryOf(k).queue # <<>> => Head(entryOf(k).queue).txn = t

MutCanGrant(t, k, m) ==
  /\ t \notin entryOf(k).holders
  /\ isCompatible(entryOf(k).mode, m)

CanGrant(t, k, m) ==
  /\ t \notin entryOf(k).holders
  /\ isCompatible(entryOf(k).mode, m)
  /\ entryOf(k).queue = <<>>

AcquireHeld(t, k, m) ==
  /\ call[t] = Idle
  /\ AlreadyHeld(t, k, m)
  /\ UNCHANGED lockVars

AcquireUpgrade(t, k, m) ==
  /\ call[t] = Idle
  /\ CanUpgrade(t, k, m)
  /\ LET e == entryOf(k)
         q == IF e.queue = <<>> THEN <<>> ELSE Tail(e.queue)
     IN  lock_table' = setEntry(k,
           [mode |-> "EXCLUSIVE", holders |-> e.holders, queue |-> q])
  /\ UNCHANGED call

AcquireGrant(t, k, m) ==
  /\ call[t] = Idle
  /\ CanGrant(t, k, m)
  /\ LET e == entryOf(k)
     IN  lock_table' = setEntry(k,
           [mode    |-> IF e.mode = "NONE" \/ m = "EXCLUSIVE" THEN m ELSE e.mode,
            holders |-> e.holders \cup {t},
            queue   |-> e.queue])
  /\ UNCHANGED call

\* add_to_wait_queue: push_back and cv->wait_for.
AcquireWait(t, k, m) ==
  /\ call[t] = Idle
  /\ ~AlreadyHeld(t, k, m) /\ ~CanUpgrade(t, k, m) /\ ~CanGrant(t, k, m)
  /\ LET e == entryOf(k)
     IN  lock_table' = setEntry(k,
           [e EXCEPT !.queue = Append(@, [txn |-> t, mode |-> m])])
  /\ call' = [call EXCEPT ![t] = [key |-> k, mode |-> m, granted |-> FALSE]]

MutWakeGranted(t) ==
  /\ call[t].granted
  /\ call' = [call EXCEPT ![t].key = NoKey, ![t].mode = "NONE"]
  /\ UNCHANGED lock_table

\* wait_for returns because *granted_flag is set: acquireLock returns true.
WakeGranted(t) ==
  /\ call[t].granted
  /\ call' = [call EXCEPT ![t] = Idle]
  /\ UNCHANGED lock_table

\* queue without t's waiter.  The code's remove_if drops every waiter of t;
\* t has one, because its thread is blocked in this one call.
removeWaiter(q, t) ==
  LET i == CHOOSE j \in DOMAIN q : q[j].txn = t
  IN  SubSeq(q, 1, i - 1) \o SubSeq(q, i + 1, Len(q))

MutTimeout(t) ==
  /\ call[t].key # NoKey
  /\ ~call[t].granted
  /\ call' = [call EXCEPT ![t] = Idle]
  /\ UNCHANGED lock_table

MutWaitForever(t) == FALSE

\* wait_for gives up after timeout_ms: the waiter is removed, acquireLock
\* returns false.  processWaiters is not called.
Timeout(t) ==
  /\ call[t].key # NoKey
  /\ ~call[t].granted
  /\ lock_table' = [lock_table EXCEPT ![call[t].key].queue = removeWaiter(@, t)]
  /\ call' = [call EXCEPT ![t] = Idle]

-----------------------------------------------------------------------------
(* releaseLock and releaseAllLocks                                         *)

\* The entry with t erased from its holders and its mode NONE if none is left.
withoutHolder(e, t) ==
  LET h == e.holders \ {t}
  IN  [mode |-> IF h = {} THEN "NONE" ELSE e.mode, holders |-> h, queue |-> e.queue]

MutReleased(e, t) == withoutHolder(e, t)

MutReleasedAll(e, t) == processWaiters([NewEntry EXCEPT !.queue = e.queue])

\* The waiters are looked at only when the last holder is gone.
released(e, t) ==
  LET w == withoutHolder(e, t)
  IN  IF w.holders = {} THEN processWaiters(w) ELSE w

MutWokenBy(e, t) == IF e.queue = <<>> THEN {} ELSE {Head(e.queue).txn}

wokenBy(e, t) ==
  LET w == withoutHolder(e, t)
  IN  IF w.holders = {} THEN grantees(w) ELSE {}

\* t releases the keys K of the table; an entry left with neither holders nor
\* waiters is erased.
release(t, K) ==
  LET gone == {k \in K : LET r == released(lock_table[k], t)
                         IN  r.holders = {} /\ r.queue = <<>>}
  IN  /\ lock_table' = [k \in DOMAIN lock_table \ gone |->
                          IF k \in K THEN released(lock_table[k], t)
                                     ELSE lock_table[k]]
      /\ call' = [w \in Txn |->
                    IF \E k \in K : w \in wokenBy(lock_table[k], t)
                    THEN [call[w] EXCEPT !.granted = TRUE] ELSE call[w]]

ReleaseLock(t, k) ==
  /\ call[t] = Idle
  /\ release(t, {k} \cap DOMAIN lock_table)

ReleaseAllLocks(t) ==
  /\ call[t] = Idle
  /\ release(t, {k \in DOMAIN lock_table : t \in lock_table[k].holders})

-----------------------------------------------------------------------------
Next ==
  \E t \in Txn :
    \/ \E k \in Key, m \in RequestMode :
         \/ AcquireHeld(t, k, m)
         \/ AcquireUpgrade(t, k, m)
         \/ AcquireGrant(t, k, m)
         \/ AcquireWait(t, k, m)
    \/ WakeGranted(t)
    \/ Timeout(t)
    \/ \E k \in Key : ReleaseLock(t, k)
    \/ ReleaseAllLocks(t)

Spec == Init /\ [][Next]_lockVars

\* wait_for returns: soon after the flag is set, and at the latest when the
\* timeout (a real clock) has passed.
FairSpec == Spec /\ \A t \in Txn : WF_lockVars(WakeGranted(t)) /\ WF_lockVars(Timeout(t))

-----------------------------------------------------------------------------
(* Properties                                                              *)

\* An EXCLUSIVE lock has one holder: the lock excludes, through grants,
\* upgrades, hand-overs in processWaiters and time-outs.
MutualExclusion ==
  \A k \in DOMAIN lock_table : \A t, u \in lock_table[k].holders :
    lock_table[k].mode = "EXCLUSIVE" => t = u

\* acquireLock holds a reference to the entry across its wait (`entry' at
\* lock_manager.cpp:29, used at 97).  The entry stays in the table, and the
\* blocked call has one waiter in it, until it is granted or times out; no
\* other queue position belongs to it or to a call that is not blocked.
WaitersMatchCalls ==
  /\ \A t \in Txn : call[t].key # NoKey /\ ~call[t].granted =>
       /\ call[t].key \in DOMAIN lock_table
       /\ \E i \in DOMAIN lock_table[call[t].key].queue :
            lock_table[call[t].key].queue[i].txn = t
  /\ \A k \in DOMAIN lock_table : \A i, j \in DOMAIN lock_table[k].queue :
       LET w == lock_table[k].queue[i] IN
         /\ call[w.txn] = [key |-> k, mode |-> w.mode, granted |-> FALSE]
         /\ lock_table[k].queue[j].txn = w.txn => i = j

\* A granted flag is the truth: from the moment processWaiters sets it until
\* the woken thread returns true, the transaction holds what it asked for.
GrantIsHeld ==
  \A t \in Txn : call[t].granted =>
    call[t].key # NoKey /\ hasLock(t, call[t].key, call[t].mode)

\* The table has an entry exactly for the locked keys (what \LOCKS and
\* getLockedKeyCount report): no entry survives its last holder and waiter,
\* and no waiter is left behind on a key nobody holds.
EntriesAreLocks ==
  \A k \in DOMAIN lock_table :
    lock_table[k].holders # {} /\ lock_table[k].mode # "NONE"

\* Nobody loses a lock, or has it weakened, but by its own release call.
NoPreemption ==
  [][\A t \in Txn, k \in Key, m \in RequestMode :
       hasLock(t, k, m) /\ ~hasLock(t, k, m)' =>
         ReleaseLock(t, k) \/ ReleaseAllLocks(t)]_lockVars

\* First come, first served: when a transaction becomes a holder of a key,
\* every waiter that was queued on the key ahead of it (all of them, if it
\* was not queued) becomes or is a holder too.  So readers arriving later
\* cannot starve a queued writer.
NoOvertaking ==
  [][\A k \in Key : \A t \in entryOf(k)'.holders \ entryOf(k).holders :
       \A i \in DOMAIN entryOf(k).queue :
         (\A j \in 1 .. i : entryOf(k).queue[j].txn # t) =>
            entryOf(k).queue[i].txn \in entryOf(k)'.holders]_lockVars

\* What the code does with an upgrade that had to wait: processWaiters runs
\* only when a key has no holder left, and the upgrader is a holder, so the
\* wait never ends in a grant.
QueuedUpgradeNeverGranted ==
  [][\A t \in Txn :
       (/\ call[t].key # NoKey
        /\ t \in entryOf(call[t].key).holders
        /\ ~call[t].granted) => ~call'[t].granted]_lockVars

\* Every acquireLock call returns (FairSpec).
BlockedCallReturns == \A t \in Txn : call[t] # Idle ~> call[t] = Idle

=============================================================================
