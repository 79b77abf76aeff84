-------------------------- MODULE LockManagerProofs --------------------------
(* Proofs about LockManager, for any set of transactions and of keys.      *)
EXTENDS LockManager, SequenceFacts, WellFoundedInduction, TLAPS

\* A non-empty set of natural numbers has a least element.
LEMMA LeastElement ==
  ASSUME NEW S, S \subseteq Nat, S # {}
  PROVE  \E m \in S : \A y \in S : m <= y
<1> DEFINE R == {ss \in Nat \X Nat : ss[1] < ss[2]}
<1>1. IsWellFoundedOn(R, Nat)
  BY NatLessThanWellFounded DEF OpToRel
<1>2. \A y, m \in Nat : y < m => <<y, m>> \in R
  OBVIOUS
<1> HIDE DEF R
<1>3. PICK m \in S : \A y \in S : ~(<<y, m>> \in R)
  BY <1>1, WFMin
<1>4. ASSUME NEW y \in S
      PROVE  m <= y
  <2>1. m \in Nat /\ y \in Nat
    OBVIOUS
  <2>2. ~(y < m)
    BY <2>1, <1>2, <1>3
  <2> QED BY <2>1, <2>2
<1> QED BY <1>4

\* grantCount is the number of waiters that the loop of processWaiters grants:
\* the CHOOSE that defines it has a witness.
LEMMA GrantCountSpec ==
  ASSUME NEW e \in LockEntry
  PROVE  /\ grantCount(e) \in 0 .. Len(e.queue)
         /\ \A i \in 1 .. grantCount(e) : compatibleAt(e, i)
         /\ grantCount(e) < Len(e.queue) => ~compatibleAt(e, grantCount(e) + 1)
<1> DEFINE P(n) == /\ \A i \in 1 .. n : compatibleAt(e, i)
                   /\ n < Len(e.queue) => ~compatibleAt(e, n + 1)
           B == {i \in 1 .. Len(e.queue) : ~compatibleAt(e, i)}
<1>1. Len(e.queue) \in Nat
  BY LenProperties DEF LockEntry
<1>2. \E n \in 0 .. Len(e.queue) : P(n)
  <2>1. CASE B = {}
    <3>1. P(Len(e.queue))
      BY <1>1, <2>1
    <3> QED BY <1>1, <3>1
  <2>2. CASE B # {}
    <3>1. B \subseteq Nat
      BY <1>1
    <3>2. PICK m \in B : \A y \in B : m <= y
      <4> HIDE DEF B
      <4> QED BY <2>2, <3>1, LeastElement
    <3>3. m - 1 \in 0 .. Len(e.queue) /\ m \in Nat
      BY <1>1
    <3>4. P(m - 1)
      BY <3>2, <3>3, <1>1
    <3> QED BY <3>3, <3>4
  <2> QED BY <2>1, <2>2
<1> QED BY <1>2 DEF grantCount

\* What processWaiters makes of an entry that has lost its last holder: the
\* first grantCount waiters hold the lock, in the mode they asked for, the rest
\* of the queue stays in order, and an EXCLUSIVE waiter is granted alone.
LEMMA ProcessWaitersSpec ==
  ASSUME NEW e \in LockEntry, e.mode = "NONE", e.holders = {}
  PROVE  LET r == processWaiters(e)
             n == grantCount(e)
         IN  /\ r \in LockEntry
             /\ n \in 0 .. Len(e.queue)
             /\ e.queue = <<>> => r.holders = {} /\ r.queue = <<>>
             /\ e.queue # <<>> => r.holders # {} /\ r.mode # "NONE"
             /\ r.holders = grantees(e)
             /\ r.mode = "EXCLUSIVE" => \A t, u \in r.holders : t = u
             /\ \A i \in 1 .. n : e.queue[i].mode = "EXCLUSIVE" => r.mode = "EXCLUSIVE"
             /\ DOMAIN r.queue = 1 .. Len(e.queue) - n
             /\ \A i \in 1 .. Len(e.queue) - n : r.queue[i] = e.queue[n + i]
<1> DEFINE r == processWaiters(e)
           n == grantCount(e)
           q == e.queue
<1>1. /\ q \in Seq(LockWaiter) /\ Len(q) \in Nat /\ DOMAIN q = 1 .. Len(q)
      /\ \A i \in 1 .. Len(q) : q[i] \in LockWaiter
  BY LenProperties, ElementOfSeq DEF LockEntry
<1>2. /\ n \in 0 .. Len(q)
      /\ \A i \in 1 .. n : compatibleAt(e, i)
      /\ n < Len(q) => ~compatibleAt(e, n + 1)
  BY GrantCountSpec
<1> DEFINE md == IF n = 0 THEN "NONE" ELSE q[1].mode
           hs == {q[i].txn : i \in 1 .. n}
           sq == SubSeq(q, n + 1, Len(q))
<1>a. r = [mode |-> IF n = 0 THEN e.mode ELSE modeBefore(e, 2),
           holders |-> {} \cup hs, queue |-> sq]
  BY DEF processWaiters, grantees
<1>b. modeBefore(e, 2) = q[1].mode /\ {} \cup hs = hs
  BY DEF modeBefore
<1>c. r = [mode |-> md, holders |-> hs, queue |-> sq]
  BY <1>a, <1>b
<1>3. r.mode = md /\ r.holders = hs /\ r.queue = sq
  <2> HIDE DEF r, md, hs, sq
  <2> QED BY <1>c
<1> HIDE DEF r, n
<1>4. /\ r.queue \in Seq(LockWaiter)
      /\ Len(r.queue) = Len(q) - n
      /\ \A i \in 1 .. Len(q) - n : r.queue[i] = q[n + i]
  <2>1. \A i \in n + 1 .. Len(q) : q[i] \in LockWaiter
    BY <1>1, <1>2
  <2>2. /\ sq \in Seq(LockWaiter)
        /\ Len(sq) = IF n + 1 <= Len(q) THEN Len(q) - (n + 1) + 1 ELSE 0
        /\ \A i \in 1 .. Len(q) - (n + 1) + 1 : sq[i] = q[(n + 1) + i - 1]
    BY <2>1, <1>1, <1>2, SubSeqProperties
  <2> HIDE DEF sq
  <2>3. Len(sq) = Len(q) - n /\ Len(q) - (n + 1) + 1 = Len(q) - n
    BY <2>2, <1>1, <1>2
  <2>4. ASSUME NEW i \in 1 .. Len(q) - n
        PROVE  sq[i] = q[n + i]
    <3>1. (n + 1) + i - 1 = n + i
      BY <1>1, <1>2
    <3> QED BY <3>1, <2>2, <2>3
  <2> QED BY <2>2, <2>3, <2>4, <1>3
<1>5. DOMAIN r.queue = 1 .. Len(q) - n
  BY <1>4, LenProperties
<1>6. q # <<>> => n >= 1
  <2>1. q # <<>> => compatibleAt(e, 1) /\ Len(q) >= 1
    BY <1>1, EmptySeq DEF compatibleAt, modeBefore, isCompatible
  <2> QED BY <2>1, <1>2
<1>7. n >= 1 => q[1] \in LockWaiter /\ q[1].txn \in r.holders /\ r.mode \in RequestMode
  BY <1>1, <1>2, <1>3 DEF LockWaiter
<1>8. \A i \in 2 .. n : q[1].mode = "SHARED" /\ q[i].mode = "SHARED"
  <2>1. \A i \in 2 .. n : /\ isCompatible(q[1].mode, q[i].mode)
                          /\ q[1] \in LockWaiter /\ q[i] \in LockWaiter
    BY <1>1, <1>2 DEF compatibleAt, modeBefore
  <2> QED BY <2>1 DEF isCompatible, LockWaiter, RequestMode
<1>9. r.mode = "EXCLUSIVE" => r.holders = {q[1].txn}
  BY <1>8, <1>3, <1>2, <1>1
<1>10. \A i \in 1 .. n : q[i].mode = "EXCLUSIVE" => r.mode = "EXCLUSIVE"
  BY <1>8, <1>3, <1>2, <1>1
<1>11. r.holders \in SUBSET Txn
  BY <1>1, <1>2, <1>3 DEF LockWaiter
<1>12. r \in LockEntry
  <2>1. md \in LockMode
    BY <1>2, <1>3, <1>7 DEF LockMode, RequestMode
  <2> HIDE DEF md, hs, sq
  <2> QED BY <2>1, <1>c, <1>3, <1>4, <1>11 DEF LockEntry
<1>13. q = <<>> => n = 0 /\ r.holders = {} /\ r.queue = <<>>
  BY <1>2, <1>3, <1>4, EmptySeq, <1>1
<1>14. r.holders = grantees(e)
  BY <1>3 DEF grantees, n
<1>15. q # <<>> => r.holders # {} /\ r.mode # "NONE"
  BY <1>6, <1>7 DEF RequestMode
<1> QED BY <1>2, <1>4, <1>5, <1>9, <1>10, <1>12, <1>13, <1>14, <1>15 DEF r, n

\* No transaction has two places in the queue.
OneEach(q) == \A i, j \in DOMAIN q : q[i].txn = q[j].txn => i = j

\* removeWaiter takes one waiter out of the queue and keeps the others, in order.
LEMMA RemoveWaiterSpec ==
  ASSUME NEW q \in Seq(LockWaiter), NEW t, NEW p \in DOMAIN q, q[p].txn = t, OneEach(q)
  PROVE  LET r == removeWaiter(q, t)
         IN  /\ r \in Seq(LockWaiter)
             /\ OneEach(r)
             /\ \A i \in DOMAIN q : q[i].txn # t => \E j \in DOMAIN r : r[j] = q[i]
             /\ \A j \in DOMAIN r : r[j].txn # t /\ \E i \in DOMAIN q : r[j] = q[i]
<1> DEFINE r == removeWaiter(q, t)
           a == SubSeq(q, 1, p - 1)
           b == SubSeq(q, p + 1, Len(q))
<1>1. /\ Len(q) \in Nat /\ DOMAIN q = 1 .. Len(q)
      /\ \A i \in 1 .. Len(q) : q[i] \in LockWaiter
  BY LenProperties, ElementOfSeq
<1>2. r = a \o b
  <2>1. (CHOOSE j \in DOMAIN q : q[j].txn = t) = p
    BY DEF OneEach
  <2> QED BY <2>1 DEF removeWaiter
<1>3. a \in Seq(LockWaiter) /\ Len(a) = p - 1 /\ \A i \in 1 .. p - 1 : a[i] = q[i]
  <2>1. \A i \in 1 .. p - 1 : q[i] \in LockWaiter
    BY <1>1
  <2>2. /\ a \in Seq(LockWaiter)
        /\ Len(a) = IF 1 <= p - 1 THEN (p - 1) - 1 + 1 ELSE 0
        /\ \A i \in 1 .. (p - 1) - 1 + 1 : a[i] = q[1 + i - 1]
    BY <1>1, <2>1, SubSeqProperties
  <2> HIDE DEF a
  <2>3. \A i \in 1 .. p - 1 : 1 + i - 1 = i
    BY <1>1
  <2> QED BY <2>2, <2>3, <1>1
<1>4. /\ b \in Seq(LockWaiter) /\ Len(b) = Len(q) - p
      /\ \A i \in 1 .. Len(q) - p : b[i] = q[p + i]
  <2>1. \A i \in p + 1 .. Len(q) : q[i] \in LockWaiter
    BY <1>1
  <2>2. /\ b \in Seq(LockWaiter)
        /\ Len(b) = IF p + 1 <= Len(q) THEN Len(q) - (p + 1) + 1 ELSE 0
        /\ \A i \in 1 .. Len(q) - (p + 1) + 1 : b[i] = q[(p + 1) + i - 1]
    BY <1>1, <2>1, SubSeqProperties
  <2> HIDE DEF b
  <2>3. \A i \in 1 .. Len(q) - p : (p + 1) + i - 1 = p + i
    BY <1>1
  <2> QED BY <2>2, <2>3, <1>1
<1> HIDE DEF r, a, b
<1>5. /\ r \in Seq(LockWaiter)
      /\ Len(r) = Len(q) - 1
      /\ \A i \in 1 .. Len(q) - 1 : r[i] = IF i < p THEN q[i] ELSE q[i + 1]
  <2>1. /\ a \o b \in Seq(LockWaiter)
        /\ Len(a \o b) = Len(a) + Len(b)
        /\ \A i \in 1 .. Len(a) + Len(b) :
             (a \o b)[i] = IF i <= Len(a) THEN a[i] ELSE b[i - Len(a)]
    BY <1>3, <1>4, ConcatProperties
  <2>2. Len(a) + Len(b) = Len(q) - 1
    BY <1>1, <1>3, <1>4
  <2>3. ASSUME NEW i \in 1 .. Len(q) - 1
        PROVE  r[i] = IF i < p THEN q[i] ELSE q[i + 1]
    <3>1. CASE i < p
      BY <3>1, <2>1, <2>2, <1>1, <1>2, <1>3
    <3>2. CASE ~(i < p)
      <4>1. i - Len(a) \in 1 .. Len(q) - p /\ p + (i - Len(a)) = i + 1
        BY <3>2, <1>1, <1>3
      <4>2. r[i] = b[i - Len(a)]
        BY <3>2, <2>1, <2>2, <1>1, <1>2, <1>3
      <4>3. b[i - Len(a)] = q[p + (i - Len(a))]
        BY <4>1, <1>4
      <4> QED BY <4>1, <4>2, <4>3, <3>2
    <3> QED BY <3>1, <3>2
  <2> QED BY <2>1, <2>2, <2>3, <1>2
<1>6. DOMAIN r = 1 .. Len(q) - 1
  BY <1>5, LenProperties
<1>7. ASSUME NEW j \in DOMAIN r
      PROVE  r[j].txn # t /\ \E i \in DOMAIN q : r[j] = q[i]
  <2>1. PICK i \in DOMAIN q : r[j] = q[i] /\ i # p
    BY <1>1, <1>5, <1>6
  <2> QED BY <2>1 DEF OneEach
<1>8. ASSUME NEW i \in DOMAIN q, q[i].txn # t
      PROVE  \E j \in DOMAIN r : r[j] = q[i]
  <2>1. CASE i < p
    BY <2>1, <1>1, <1>5, <1>6
  <2>2. CASE i > p
    <3>1. i - 1 \in DOMAIN r /\ (i - 1) + 1 = i /\ ~(i - 1 < p)
      BY <2>2, <1>1, <1>6
    <3> QED BY <3>1, <1>5, <1>6
  <2> QED BY <2>1, <2>2, <1>1, <1>8
<1>9. OneEach(r)
  <2> SUFFICES ASSUME NEW i \in DOMAIN r, NEW j \in DOMAIN r, r[i].txn = r[j].txn
               PROVE  i = j
    BY DEF OneEach
  <2> DEFINE f(x) == IF x < p THEN x ELSE x + 1
  <2>1. /\ f(i) \in DOMAIN q /\ f(j) \in DOMAIN q
        /\ r[i] = q[f(i)] /\ r[j] = q[f(j)]
    BY <1>1, <1>5, <1>6
  <2>2. f(i) = f(j)
    <3> HIDE DEF f
    <3> QED BY <2>1 DEF OneEach
  <2> QED BY <2>2, <1>1, <1>6
<1> QED BY <1>5, <1>7, <1>8, <1>9 DEF r

\* What one key's release makes of its entry, for the waiters and for the other
\* holders (released and wokenBy are used together in release).
LEMMA ReleasedSpec ==
  ASSUME NEW e \in LockEntry, NEW t \in Txn, OneEach(e.queue),
         e.mode # "NONE",
         \A x, y \in e.holders : e.mode = "EXCLUSIVE" => x = y
  PROVE  LET r == released(e, t)
             w == wokenBy(e, t)
         IN  /\ r \in LockEntry
             /\ OneEach(r.queue)
             /\ r.holders = {} => r.queue = <<>>
             /\ r.holders # {} => r.mode # "NONE"
             /\ \A x, y \in r.holders : r.mode = "EXCLUSIVE" => x = y
             /\ \A x \in e.holders \ {t} : x \in r.holders /\ r.mode = e.mode
             /\ \A x \in w : \E i \in DOMAIN e.queue :
                  /\ e.queue[i].txn = x
                  /\ x \in r.holders
                  /\ e.queue[i].mode = "EXCLUSIVE" => r.mode = "EXCLUSIVE"
             /\ \A i \in DOMAIN e.queue : e.queue[i].txn \notin w =>
                  \E j \in DOMAIN r.queue : r.queue[j] = e.queue[i]
             /\ \A j \in DOMAIN r.queue : r.queue[j].txn \notin w
                  /\ \E i \in DOMAIN e.queue : e.queue[i] = r.queue[j]
<1> DEFINE r == released(e, t)
           w == wokenBy(e, t)
           h == e.holders \ {t}
           d == withoutHolder(e, t)
<1>1. CASE h # {}
  <2>1. /\ d = [mode |-> e.mode, holders |-> h, queue |-> e.queue]
        /\ d \in LockEntry
    BY <1>1 DEF withoutHolder, LockEntry
  <2>2. r = d /\ w = {}
    BY <1>1, <2>1 DEF released, wokenBy
  <2> HIDE DEF r, w, d
  <2> QED BY <1>1, <2>1, <2>2 DEF r, w
<1>2. CASE h = {}
  <2>1. /\ d = [mode |-> "NONE", holders |-> {}, queue |-> e.queue]
        /\ d \in LockEntry
    BY <1>2 DEF withoutHolder, LockEntry, LockMode
  <2>2. r = processWaiters(d) /\ w = grantees(d)
    BY <2>1 DEF released, wokenBy
  <2> DEFINE n == grantCount(d)
             q == e.queue
  <2> HIDE DEF r, w, d, n
  <2>3. d.mode = "NONE" /\ d.holders = {} /\ d.queue = q
    BY <2>1
  <2>4. /\ r \in LockEntry
        /\ n \in 0 .. Len(q)
        /\ q = <<>> => r.holders = {} /\ r.queue = <<>>
        /\ q # <<>> => r.holders # {} /\ r.mode # "NONE"
        /\ r.holders = w
        /\ r.mode = "EXCLUSIVE" => \A x, y \in r.holders : x = y
        /\ \A i \in 1 .. n : q[i].mode = "EXCLUSIVE" => r.mode = "EXCLUSIVE"
        /\ DOMAIN r.queue = 1 .. Len(q) - n
        /\ \A i \in 1 .. Len(q) - n : r.queue[i] = q[n + i]
    BY <2>1, <2>2, <2>3, ProcessWaitersSpec DEF n
  <2>5. w = {q[i].txn : i \in 1 .. n}
    BY <2>2, <2>3 DEF grantees, n
  <2>6. Len(q) \in Nat /\ DOMAIN q = 1 .. Len(q)
    BY LenProperties DEF LockEntry
  <2>7. \A i \in DOMAIN r.queue : r.queue[i] = q[n + i] /\ n + i \in DOMAIN q /\ n + i > n
    BY <2>4, <2>6
  <2>8. OneEach(r.queue)
    <3> SUFFICES ASSUME NEW i \in DOMAIN r.queue, NEW j \in DOMAIN r.queue,
                        r.queue[i].txn = r.queue[j].txn
                 PROVE  i = j
      BY DEF OneEach
    <3>1. n + i = n + j
      BY <2>7 DEF OneEach
    <3> QED BY <3>1, <2>4, <2>6
  <2>9. ASSUME NEW x \in w
        PROVE  \E i \in DOMAIN q : /\ q[i].txn = x
                                   /\ x \in r.holders
                                   /\ q[i].mode = "EXCLUSIVE" => r.mode = "EXCLUSIVE"
    <3>1. PICK i \in 1 .. n : q[i].txn = x
      BY <2>5
    <3> QED BY <3>1, <2>4, <2>6
  <2>10. ASSUME NEW i \in DOMAIN q, q[i].txn \notin w
         PROVE  \E j \in DOMAIN r.queue : r.queue[j] = q[i]
    <3>1. i > n
      BY <2>10, <2>4, <2>5, <2>6
    <3>2. i - n \in DOMAIN r.queue /\ n + (i - n) = i
      BY <3>1, <2>4, <2>6
    <3> QED BY <3>2, <2>7
  <2>11. ASSUME NEW j \in DOMAIN r.queue
         PROVE  r.queue[j].txn \notin w /\ \E i \in DOMAIN q : q[i] = r.queue[j]
    <3>1. ASSUME NEW i \in 1 .. n, q[i].txn = r.queue[j].txn
          PROVE  FALSE
      <4>1. i \in DOMAIN q /\ i # n + j
        BY <2>4, <2>6, <2>7
      <4> QED BY <4>1, <3>1, <2>7 DEF OneEach
    <3> QED BY <3>1, <2>5, <2>7
  <2> QED BY <1>2, <2>4, <2>8, <2>9, <2>10, <2>11 DEF r, w
<1> QED BY <1>1, <1>2

-----------------------------------------------------------------------------
(* The inductive invariant is the conjunction of the invariants: none of   *)
(* them is inductive alone.  MutualExclusion needs EntriesAreLocks (a key  *)
(* with mode NONE has no holder) and WaitersMatchCalls (a thread that      *)
(* calls has no waiter queued, so the at_front branch of an upgrade is     *)
(* never taken); GrantIsHeld needs the uniqueness in WaitersMatchCalls.    *)

IInv == /\ TypeOK
        /\ MutualExclusion
        /\ WaitersMatchCalls
        /\ GrantIsHeld
        /\ EntriesAreLocks

\* What the invariant says of one entry of the table.
LEMMA EntryFacts ==
  ASSUME IInv, NEW k \in DOMAIN lock_table
  PROVE  /\ k \in Key
         /\ lock_table[k] \in LockEntry
         /\ lock_table[k].queue \in Seq(LockWaiter)
         /\ lock_table[k].holders \subseteq Txn
         /\ lock_table[k].holders # {}
         /\ lock_table[k].mode \in RequestMode
         /\ OneEach(lock_table[k].queue)
         /\ \A x, y \in lock_table[k].holders : lock_table[k].mode = "EXCLUSIVE" => x = y
         /\ \A i \in DOMAIN lock_table[k].queue :
              /\ lock_table[k].queue[i] \in LockWaiter
              /\ call[lock_table[k].queue[i].txn] =
                   [key |-> k, mode |-> lock_table[k].queue[i].mode, granted |-> FALSE]
<1>1. lock_table[k] \in LockEntry /\ k \in Key
  BY DEF IInv, TypeOK
<1>2. /\ lock_table[k].queue \in Seq(LockWaiter)
      /\ lock_table[k].holders \subseteq Txn
      /\ lock_table[k].mode \in RequestMode
      /\ lock_table[k].holders # {}
  BY <1>1 DEF IInv, EntriesAreLocks, LockEntry, LockMode, RequestMode
<1>3. \A i \in DOMAIN lock_table[k].queue : lock_table[k].queue[i] \in LockWaiter
  BY <1>2, LenProperties, ElementOfSeq
<1>4. OneEach(lock_table[k].queue)
  BY DEF OneEach, IInv, WaitersMatchCalls
<1>5. \A i \in DOMAIN lock_table[k].queue :
         call[lock_table[k].queue[i].txn] =
           [key |-> k, mode |-> lock_table[k].queue[i].mode, granted |-> FALSE]
  BY DEF IInv, WaitersMatchCalls
<1> QED BY <1>1, <1>2, <1>3, <1>4, <1>5 DEF IInv, MutualExclusion

\* A transaction whose thread is not blocked has no waiter in any queue.
LEMMA IdleNotQueued ==
  ASSUME IInv, NEW t \in Txn, call[t] = Idle, NEW k \in DOMAIN lock_table
  PROVE  \A i \in DOMAIN lock_table[k].queue : lock_table[k].queue[i].txn # t
<1>1. /\ k \in Key
      /\ \A i \in DOMAIN lock_table[k].queue :
           call[lock_table[k].queue[i].txn] =
             [key |-> k, mode |-> lock_table[k].queue[i].mode, granted |-> FALSE]
  BY EntryFacts
<1>2. ASSUME NEW i \in DOMAIN lock_table[k].queue
      PROVE  call[lock_table[k].queue[i].txn].key = k
  <2> DEFINE m == lock_table[k].queue[i].mode
             c == call[lock_table[k].queue[i].txn]
  <2>1. c = [key |-> k, mode |-> m, granted |-> FALSE]
    BY <1>1
  <2> HIDE DEF m, c
  <2>2. c.key = k
    BY <2>1
  <2> QED BY <2>2 DEF c
<1>3. call[t].key = NoKey
  BY DEF Idle
<1> QED BY <1>1, <1>2, <1>3, NoKeyAssumption

\* acquireLock that returns true at once by granting.
LEMMA AcquireGrantInv ==
  ASSUME IInv, NEW t \in Txn, NEW k \in Key, NEW m \in RequestMode, AcquireGrant(t, k, m)
  PROVE  IInv'
<1> DEFINE e == entryOf(k)
           n == [mode    |-> IF e.mode = "NONE" \/ m = "EXCLUSIVE" THEN m ELSE e.mode,
                 holders |-> e.holders \cup {t},
                 queue   |-> e.queue]
<1>1. /\ lock_table' = setEntry(k, n) /\ call' = call
      /\ t \notin e.holders /\ isCompatible(e.mode, m) /\ e.queue = <<>>
  BY DEF AcquireGrant, CanGrant
<1>2. e \in LockEntry
  BY EntryFacts, EmptySeq DEF entryOf, NewEntry, LockEntry, LockMode
<1>3. /\ n \in LockEntry /\ n.mode # "NONE" /\ t \in n.holders /\ n.queue = <<>>
      /\ n.holders = e.holders \cup {t}
      /\ n.mode = IF e.mode = "NONE" \/ m = "EXCLUSIVE" THEN m ELSE e.mode
  BY <1>1, <1>2 DEF LockEntry, LockMode, RequestMode
<1>4. n.mode = "EXCLUSIVE" => e.holders = {}
  BY <1>1, <1>3, EntryFacts DEF isCompatible, RequestMode, entryOf, NewEntry
<1> HIDE DEF n
<1>5. /\ DOMAIN lock_table' = DOMAIN lock_table \cup {k}
      /\ lock_table'[k] = n
      /\ \A j \in DOMAIN lock_table \ {k} : lock_table'[j] = lock_table[j]
      /\ lock_table' = [j \in DOMAIN lock_table \cup {k} |-> lock_table'[j]]
  BY <1>1 DEF setEntry
<1>6. TypeOK'
  BY <1>1, <1>3, <1>5 DEF IInv, TypeOK
<1>7. MutualExclusion'
  BY <1>3, <1>4, <1>5 DEF IInv, MutualExclusion
<1>8. k \in DOMAIN lock_table => lock_table[k].queue = <<>>
  BY <1>1 DEF entryOf
<1>9. WaitersMatchCalls'
  BY <1>1, <1>3, <1>5, <1>8, EmptySeq DEF IInv, WaitersMatchCalls
<1>10. GrantIsHeld'
  <2> SUFFICES ASSUME NEW u \in Txn, call[u].granted
               PROVE  call[u].key # NoKey /\ hasLock(u, call[u].key, call[u].mode)'
    BY <1>1 DEF GrantIsHeld
  <2>1. call[u].key # NoKey /\ hasLock(u, call[u].key, call[u].mode)
    BY DEF IInv, GrantIsHeld
  <2>2. CASE call[u].key = k
    BY <2>1, <2>2, <1>1, <1>3, <1>5 DEF hasLock, entryOf, isCompatible
  <2>3. CASE call[u].key # k
    BY <2>1, <2>3, <1>1, <1>5 DEF hasLock, entryOf, NewEntry
  <2> QED BY <2>1, <2>2, <2>3
<1>11. EntriesAreLocks'
  BY <1>3, <1>5 DEF IInv, EntriesAreLocks
<1> QED BY <1>6, <1>7, <1>9, <1>10, <1>11 DEF IInv

\* acquireLock that returns true at once by upgrading: the caller is the only
\* holder, and the queue is empty, because it cannot be queued itself.
LEMMA AcquireUpgradeInv ==
  ASSUME IInv, NEW t \in Txn, NEW k \in Key, NEW m \in RequestMode, AcquireUpgrade(t, k, m)
  PROVE  IInv'
<1> DEFINE e == lock_table[k]
           n == [mode |-> "EXCLUSIVE", holders |-> e.holders, queue |-> <<>>]
<1>1. call[t] = Idle /\ call' = call /\ CanUpgrade(t, k, m)
  BY DEF AcquireUpgrade
<1>2. k \in DOMAIN lock_table /\ entryOf(k) = e /\ e.holders = {t}
  BY <1>1 DEF CanUpgrade, entryOf, NewEntry
<1>3. e.queue = <<>>
  <2> SUFFICES ASSUME e.queue # <<>> PROVE FALSE
    OBVIOUS
  <2>1. /\ e.queue \in Seq(LockWaiter)
        /\ \A i \in DOMAIN e.queue : e.queue[i].txn # t
    BY <1>1, <1>2, EntryFacts, IdleNotQueued
  <2>2. 1 \in DOMAIN e.queue /\ Head(e.queue) = e.queue[1]
    BY <2>1, LenProperties, EmptySeq
  <2> QED BY <1>1, <1>2, <2>1, <2>2 DEF CanUpgrade
<1>4. lock_table' = setEntry(k, n)
  BY <1>2, <1>3 DEF AcquireUpgrade
<1>5. n \in LockEntry
  BY <1>2, EmptySeq DEF LockEntry, LockMode
<1>6. n.mode = "EXCLUSIVE" /\ n.holders = {t} /\ n.queue = <<>>
  BY <1>2
<1> HIDE DEF n
<1>7. /\ DOMAIN lock_table' = DOMAIN lock_table
      /\ lock_table'[k] = n
      /\ \A j \in DOMAIN lock_table \ {k} : lock_table'[j] = lock_table[j]
      /\ lock_table' = [j \in DOMAIN lock_table |-> lock_table'[j]]
  BY <1>2, <1>4 DEF setEntry
<1>8. TypeOK'
  BY <1>1, <1>5, <1>7 DEF IInv, TypeOK
<1>9. MutualExclusion'
  BY <1>6, <1>7 DEF IInv, MutualExclusion
<1>10. WaitersMatchCalls'
  BY <1>1, <1>3, <1>6, <1>7, EmptySeq DEF IInv, WaitersMatchCalls
<1>11. GrantIsHeld'
  BY <1>1, <1>2, <1>6, <1>7 DEF IInv, GrantIsHeld, hasLock, entryOf, NewEntry
<1>12. EntriesAreLocks'
  BY <1>6, <1>7 DEF IInv, EntriesAreLocks
<1> QED BY <1>8, <1>9, <1>10, <1>11, <1>12 DEF IInv

\* acquireLock that has to wait.
LEMMA AcquireWaitInv ==
  ASSUME IInv, NEW t \in Txn, NEW k \in Key, NEW m \in RequestMode, AcquireWait(t, k, m)
  PROVE  IInv'
<1> DEFINE e == lock_table[k]
           w == [txn |-> t, mode |-> m]
           c == [key |-> k, mode |-> m, granted |-> FALSE]
           n == [e EXCEPT !.queue = Append(e.queue, w)]
<1>1. call[t] = Idle /\ call' = [call EXCEPT ![t] = c]
  BY DEF AcquireWait
<1>2. k \in DOMAIN lock_table /\ entryOf(k) = e
  BY DEF AcquireWait, CanGrant, entryOf, NewEntry, isCompatible
<1>3. lock_table' = setEntry(k, n)
  BY <1>2 DEF AcquireWait
<1>4. /\ e \in LockEntry /\ e.queue \in Seq(LockWaiter) /\ OneEach(e.queue)
      /\ Len(e.queue) \in Nat /\ DOMAIN e.queue = 1 .. Len(e.queue)
  BY <1>2, EntryFacts, LenProperties
<1>5. w \in LockWaiter
  BY DEF LockWaiter
<1>6. /\ n \in LockEntry /\ n.mode = e.mode /\ n.holders = e.holders
      /\ n.queue = Append(e.queue, w)
  BY <1>4, <1>5, AppendProperties DEF LockEntry
<1>7. /\ DOMAIN n.queue = 1 .. Len(e.queue) + 1
      /\ \A i \in 1 .. Len(e.queue) : n.queue[i] = e.queue[i]
      /\ n.queue[Len(e.queue) + 1] = w
  BY <1>4, <1>5, <1>6, AppendProperties, LenProperties
<1> HIDE DEF n
<1>8. /\ DOMAIN lock_table' = DOMAIN lock_table
      /\ lock_table'[k] = n
      /\ \A j \in DOMAIN lock_table \ {k} : lock_table'[j] = lock_table[j]
      /\ lock_table' = [j \in DOMAIN lock_table |-> lock_table'[j]]
  BY <1>2, <1>3 DEF setEntry
<1>9. /\ call'[t] = c
      /\ \A u \in Txn \ {t} : call'[u] = call[u]
      /\ call' \in [Txn -> Call \cup {Idle}]
  BY <1>1 DEF IInv, TypeOK, Call
<1>10. TypeOK'
  BY <1>6, <1>8, <1>9 DEF IInv, TypeOK
<1>11. MutualExclusion'
  BY <1>6, <1>8, <1>2 DEF IInv, MutualExclusion
<1>12. WaitersMatchCalls'
  <2>1. ASSUME NEW u \in Txn, call'[u].key # NoKey, ~call'[u].granted
        PROVE  /\ call'[u].key \in DOMAIN lock_table'
               /\ \E i \in DOMAIN lock_table'[call'[u].key].queue :
                    lock_table'[call'[u].key].queue[i].txn = u
    <3>1. CASE u = t
      BY <3>1, <1>2, <1>4, <1>7, <1>8, <1>9
    <3>2. CASE u # t
      <4>1. /\ call[u].key \in DOMAIN lock_table
            /\ \E i \in DOMAIN lock_table[call[u].key].queue :
                 lock_table[call[u].key].queue[i].txn = u
        BY <2>1, <3>2, <1>9 DEF IInv, WaitersMatchCalls
      <4>2. call'[u].key = call[u].key
        BY <3>2, <1>9
      <4>3. PICK i \in DOMAIN lock_table[call[u].key].queue :
                   lock_table[call[u].key].queue[i].txn = u
        BY <4>1
      <4>4. CASE call[u].key = k
        <5>1. i \in 1 .. Len(e.queue) /\ e.queue[i].txn = u
          BY <4>3, <4>4, <1>4
        <5>2. i \in DOMAIN n.queue /\ n.queue[i].txn = u
          BY <5>1, <1>4, <1>7
        <5> QED BY <5>2, <4>1, <4>2, <4>4, <1>8
      <4>5. CASE call[u].key # k
        BY <4>1, <4>2, <4>3, <4>5, <1>8
      <4> QED BY <4>4, <4>5
    <3> QED BY <3>1, <3>2
  <2>2. ASSUME NEW j \in DOMAIN lock_table', NEW a \in DOMAIN lock_table'[j].queue,
               NEW b \in DOMAIN lock_table'[j].queue
        PROVE  /\ call'[lock_table'[j].queue[a].txn] =
                    [key |-> j, mode |-> lock_table'[j].queue[a].mode, granted |-> FALSE]
               /\ lock_table'[j].queue[b].txn = lock_table'[j].queue[a].txn => a = b
    <3>1. /\ \A i \in DOMAIN lock_table[j].queue :
               /\ lock_table[j].queue[i].txn # t
               /\ lock_table[j].queue[i] \in LockWaiter
               /\ call[lock_table[j].queue[i].txn] =
                   [key |-> j, mode |-> lock_table[j].queue[i].mode, granted |-> FALSE]
          /\ OneEach(lock_table[j].queue)
      BY <1>1, <1>8, EntryFacts, IdleNotQueued
    <3>2. CASE j # k
      BY <3>1, <3>2, <1>8, <1>9 DEF LockWaiter, OneEach
    <3>3. CASE j = k
      <4>1. CASE a \in 1 .. Len(e.queue) /\ b \in 1 .. Len(e.queue)
        BY <4>1, <3>1, <3>3, <1>4, <1>7, <1>8, <1>9 DEF LockWaiter, OneEach
      <4>2. CASE a \in 1 .. Len(e.queue) /\ b = Len(e.queue) + 1
        BY <4>2, <3>1, <3>3, <1>4, <1>7, <1>8, <1>9 DEF LockWaiter, OneEach
      <4>3. CASE a = Len(e.queue) + 1
        <5>1. lock_table'[j].queue[a] = w /\ w.txn = t /\ w.mode = m
          BY <4>3, <3>3, <1>7, <1>8
        <5>2. call'[t] = [key |-> j, mode |-> m, granted |-> FALSE]
          BY <3>3, <1>9
        <5>3. b \in 1 .. Len(e.queue) => lock_table'[j].queue[b].txn # t
          BY <3>1, <3>3, <1>4, <1>7, <1>8
        <5> QED BY <4>3, <5>1, <5>2, <5>3, <3>3, <1>4, <1>7, <1>8
      <4> QED BY <4>1, <4>2, <4>3, <3>3, <1>4, <1>7, <1>8
    <3> QED BY <3>2, <3>3
  <2> QED BY <2>1, <2>2 DEF WaitersMatchCalls
<1>13. GrantIsHeld'
  BY <1>2, <1>6, <1>8, <1>9 DEF IInv, GrantIsHeld, hasLock, entryOf, NewEntry
<1>14. EntriesAreLocks'
  BY <1>2, <1>6, <1>8 DEF IInv, EntriesAreLocks
<1> QED BY <1>10, <1>11, <1>12, <1>13, <1>14 DEF IInv

\* A blocked call is a Call, an unblocked one is Idle.
LEMMA CallFacts ==
  ASSUME IInv, NEW t \in Txn
  PROVE  /\ call[t].key # NoKey => call[t] \in Call
         /\ call[t].key = NoKey => call[t] = Idle
         /\ call[t].granted => call[t].key # NoKey
BY NoKeyAssumption DEF IInv, TypeOK, Call, Idle, GrantIsHeld

\* wait_for returns with the flag set: nothing of the table changes.
LEMMA WakeGrantedInv ==
  ASSUME IInv, NEW t \in Txn, WakeGranted(t)
  PROVE  IInv'
<1>1. /\ call[t].granted /\ lock_table' = lock_table
      /\ call'[t] = Idle /\ \A u \in Txn \ {t} : call'[u] = call[u]
      /\ call' \in [Txn -> Call \cup {Idle}]
  BY DEF WakeGranted, IInv, TypeOK
<1>2. TypeOK'
  BY <1>1 DEF IInv, TypeOK
<1>3. MutualExclusion' /\ EntriesAreLocks'
  BY <1>1 DEF IInv, MutualExclusion, EntriesAreLocks
<1>4. GrantIsHeld'
  BY <1>1 DEF IInv, GrantIsHeld, hasLock, entryOf, Idle
<1>5. \A k \in DOMAIN lock_table : \A i \in DOMAIN lock_table[k].queue :
         lock_table[k].queue[i].txn # t /\ lock_table[k].queue[i].txn \in Txn
  <2> SUFFICES ASSUME NEW k \in DOMAIN lock_table, NEW i \in DOMAIN lock_table[k].queue
               PROVE  lock_table[k].queue[i].txn # t /\ lock_table[k].queue[i].txn \in Txn
    OBVIOUS
  <2> DEFINE c == call[lock_table[k].queue[i].txn]
             m == lock_table[k].queue[i].mode
  <2>1. c = [key |-> k, mode |-> m, granted |-> FALSE] /\ lock_table[k].queue[i] \in LockWaiter
    BY EntryFacts
  <2> HIDE DEF c, m
  <2>2. ~c.granted
    BY <2>1
  <2> QED BY <1>1, <2>1, <2>2 DEF c, LockWaiter
<1>6. WaitersMatchCalls'
  BY <1>1, <1>5, SMTT(30) DEF IInv, WaitersMatchCalls, Idle
<1> QED BY <1>2, <1>3, <1>4, <1>6 DEF IInv

\* wait_for gives up: the waiter leaves the queue, nobody's lock changes.
LEMMA TimeoutInv ==
  ASSUME IInv, NEW t \in Txn, Timeout(t)
  PROVE  IInv'
<1> DEFINE k == call[t].key
           e == lock_table[k]
           r == removeWaiter(e.queue, t)
           n == [e EXCEPT !.queue = r]
<1>1. call[t].key # NoKey /\ ~call[t].granted
  BY DEF Timeout
<1>2. k \in DOMAIN lock_table /\ \E i \in DOMAIN e.queue : e.queue[i].txn = t
  BY <1>1 DEF IInv, WaitersMatchCalls
<1>3. /\ e \in LockEntry /\ e.queue \in Seq(LockWaiter) /\ OneEach(e.queue)
  BY <1>2, EntryFacts
<1>4. PICK p \in DOMAIN e.queue : e.queue[p].txn = t
  BY <1>2
<1>5. /\ r \in Seq(LockWaiter)
      /\ OneEach(r)
      /\ \A i \in DOMAIN e.queue : e.queue[i].txn # t => \E j \in DOMAIN r : r[j] = e.queue[i]
      /\ \A j \in DOMAIN r : r[j].txn # t /\ \E i \in DOMAIN e.queue : r[j] = e.queue[i]
  <2> DEFINE q == e.queue
  <2> HIDE DEF q
  <2>1. q \in Seq(LockWaiter) /\ OneEach(q) /\ p \in DOMAIN q /\ q[p].txn = t
    BY <1>3, <1>4 DEF q
  <2> QED BY <2>1, RemoveWaiterSpec DEF q
<1> HIDE DEF r
<1>6. n \in LockEntry /\ n.mode = e.mode /\ n.holders = e.holders /\ n.queue = r
  BY <1>3, <1>5 DEF LockEntry
<1>7. lock_table' = [lock_table EXCEPT ![k] = n]
  BY DEF Timeout, r
<1> HIDE DEF n
<1>8. /\ DOMAIN lock_table' = DOMAIN lock_table
      /\ lock_table'[k] = n
      /\ \A j \in DOMAIN lock_table \ {k} : lock_table'[j] = lock_table[j]
      /\ lock_table' = [j \in DOMAIN lock_table |-> lock_table'[j]]
  BY <1>2, <1>7 DEF IInv, TypeOK
<1>9. /\ call'[t] = Idle /\ \A u \in Txn \ {t} : call'[u] = call[u]
      /\ call' \in [Txn -> Call \cup {Idle}]
  BY DEF Timeout, IInv, TypeOK
<1> HIDE DEF k, e
<1>10. TypeOK'
  BY <1>6, <1>8, <1>9 DEF IInv, TypeOK
<1>11. MutualExclusion'
  BY <1>2, <1>6, <1>8 DEF IInv, MutualExclusion, e
<1>12. GrantIsHeld'
  BY <1>2, <1>6, <1>8, <1>9 DEF IInv, GrantIsHeld, hasLock, entryOf, NewEntry, Idle, e
<1>13. EntriesAreLocks'
  BY <1>2, <1>6, <1>8 DEF IInv, EntriesAreLocks, e
<1>14. WaitersMatchCalls'
  <2>1. ASSUME NEW u \in Txn, call'[u].key # NoKey, ~call'[u].granted
        PROVE  /\ call'[u].key \in DOMAIN lock_table'
               /\ \E i \in DOMAIN lock_table'[call'[u].key].queue :
                    lock_table'[call'[u].key].queue[i].txn = u
    <3>1. u # t /\ call'[u] = call[u]
      BY <2>1, <1>9 DEF Idle
    <3>2. PICK i \in DOMAIN lock_table[call[u].key].queue :
               /\ call[u].key \in DOMAIN lock_table
               /\ lock_table[call[u].key].queue[i].txn = u
      BY <2>1, <3>1 DEF IInv, WaitersMatchCalls
    <3>3. CASE call[u].key = k
      <4>1. i \in DOMAIN e.queue /\ e.queue[i].txn = u
        BY <3>2, <3>3 DEF e
      <4>2. PICK j \in DOMAIN r : r[j] = e.queue[i]
        BY <4>1, <3>1, <1>5
      <4> QED BY <4>1, <4>2, <3>1, <3>2, <3>3, <1>6, <1>8
    <3>4. CASE call[u].key # k
      BY <3>1, <3>2, <3>4, <1>8
    <3> QED BY <3>3, <3>4
  <2>2. ASSUME NEW j \in DOMAIN lock_table', NEW a \in DOMAIN lock_table'[j].queue,
               NEW b \in DOMAIN lock_table'[j].queue
        PROVE  /\ call'[lock_table'[j].queue[a].txn] =
                    [key |-> j, mode |-> lock_table'[j].queue[a].mode, granted |-> FALSE]
               /\ lock_table'[j].queue[b].txn = lock_table'[j].queue[a].txn => a = b
    <3>1. /\ \A i \in DOMAIN lock_table[j].queue :
               /\ lock_table[j].queue[i] \in LockWaiter
               /\ call[lock_table[j].queue[i].txn] =
                   [key |-> j, mode |-> lock_table[j].queue[i].mode, granted |-> FALSE]
          /\ OneEach(lock_table[j].queue)
      BY <1>8, EntryFacts
    <3>2. CASE j = k
      <4>1. lock_table'[j].queue = r /\ r[a].txn # t
        BY <3>2, <1>5, <1>6, <1>8
      <4>2. PICK i \in DOMAIN e.queue : r[a] = e.queue[i]
        BY <4>1, <1>5
      <4>3. call[r[a].txn] = [key |-> j, mode |-> r[a].mode, granted |-> FALSE] /\ r[a].txn \in Txn
        BY <4>2, <3>1, <3>2 DEF e, LockWaiter
      <4>4. r[b].txn = r[a].txn => a = b
        BY <4>1, <1>5 DEF OneEach
      <4> QED BY <4>1, <4>3, <4>4, <1>9
    <3>3. CASE j # k
      <4>1. lock_table'[j].queue = lock_table[j].queue
        BY <3>3, <1>8
      <4>2. lock_table[j].queue[a].txn # t
        <5> SUFFICES ASSUME lock_table[j].queue[a].txn = t PROVE FALSE
          OBVIOUS
        <5> DEFINE m == lock_table[j].queue[a].mode
        <5>1. call[t] = [key |-> j, mode |-> m, granted |-> FALSE]
          BY <4>1, <3>1
        <5> HIDE DEF m
        <5> QED BY <5>1, <3>3 DEF k
      <4> QED BY <4>1, <4>2, <3>1, <1>9 DEF LockWaiter, OneEach
    <3> QED BY <3>2, <3>3
  <2> QED BY <2>1, <2>2 DEF WaitersMatchCalls
<1> QED BY <1>10, <1>11, <1>12, <1>13, <1>14 DEF IInv

\* releaseLock and releaseAllLocks: any set K of keys of the table.
LEMMA ReleaseInv ==
  ASSUME IInv, NEW t \in Txn, call[t] = Idle,
         NEW K, K \subseteq DOMAIN lock_table, release(t, K)
  PROVE  IInv'
<1> DEFINE R(k) == released(lock_table[k], t)
           W(k) == wokenBy(lock_table[k], t)
           gone == {k \in K : R(k).holders = {} /\ R(k).queue = <<>>}
           woken(u) == \E k \in K : u \in W(k)
<1>1. /\ lock_table' = [k \in DOMAIN lock_table \ gone |-> IF k \in K THEN R(k) ELSE lock_table[k]]
      /\ call' = [u \in Txn |-> IF woken(u) THEN [call[u] EXCEPT !.granted = TRUE] ELSE call[u]]
  BY DEF release
<1>2. ASSUME NEW k \in K
      PROVE  /\ R(k) \in LockEntry
             /\ OneEach(R(k).queue)
             /\ R(k).holders = {} => R(k).queue = <<>>
             /\ R(k).holders # {} => R(k).mode # "NONE"
             /\ \A x, y \in R(k).holders : R(k).mode = "EXCLUSIVE" => x = y
             /\ \A x \in lock_table[k].holders \ {t} :
                  x \in R(k).holders /\ R(k).mode = lock_table[k].mode
             /\ \A x \in W(k) : \E i \in DOMAIN lock_table[k].queue :
                  /\ lock_table[k].queue[i].txn = x
                  /\ x \in R(k).holders
                  /\ lock_table[k].queue[i].mode = "EXCLUSIVE" => R(k).mode = "EXCLUSIVE"
             /\ \A i \in DOMAIN lock_table[k].queue : lock_table[k].queue[i].txn \notin W(k) =>
                  \E j \in DOMAIN R(k).queue : R(k).queue[j] = lock_table[k].queue[i]
             /\ \A j \in DOMAIN R(k).queue : R(k).queue[j].txn \notin W(k)
                  /\ \E i \in DOMAIN lock_table[k].queue : lock_table[k].queue[i] = R(k).queue[j]
  <2> DEFINE e == lock_table[k]
  <2> HIDE DEF e
  <2>1. /\ e \in LockEntry /\ OneEach(e.queue) /\ e.mode # "NONE"
        /\ \A x, y \in e.holders : e.mode = "EXCLUSIVE" => x = y
    BY EntryFacts DEF RequestMode, e
  <2> QED BY <2>1, ReleasedSpec DEF e
<1>3. ASSUME NEW k \in DOMAIN lock_table, NEW i \in DOMAIN lock_table[k].queue
      PROVE  /\ lock_table[k].queue[i].txn \in Txn
             /\ lock_table[k].queue[i].mode \in RequestMode
             /\ call[lock_table[k].queue[i].txn].key = k
             /\ call[lock_table[k].queue[i].txn].mode = lock_table[k].queue[i].mode
             /\ call[lock_table[k].queue[i].txn].granted = FALSE
             /\ call[lock_table[k].queue[i].txn] \in Call
             /\ call[lock_table[k].queue[i].txn] =
                  [key |-> k, mode |-> lock_table[k].queue[i].mode, granted |-> FALSE]
  <2> DEFINE u == lock_table[k].queue[i].txn
             m == lock_table[k].queue[i].mode
             c == call[u]
  <2>1. /\ c = [key |-> k, mode |-> m, granted |-> FALSE] /\ k \in Key
        /\ u \in Txn /\ m \in RequestMode
    BY EntryFacts DEF LockWaiter
  <2> HIDE DEF u, m, c
  <2>2. c.key = k /\ c.mode = m /\ c.granted = FALSE /\ c \in Call
    BY <2>1 DEF Call
  <2> QED BY <2>1, <2>2 DEF u, m, c
<1> HIDE DEF R, W
<1>4. ASSUME NEW u \in Txn, woken(u)
      PROVE  /\ call[u] \in Call /\ call[u].key \in K /\ u \in W(call[u].key)
             /\ call'[u] = [key |-> call[u].key, mode |-> call[u].mode, granted |-> TRUE]
             /\ u \in R(call[u].key).holders
             /\ call[u].mode = "EXCLUSIVE" => R(call[u].key).mode = "EXCLUSIVE"
  <2>1. PICK k \in K : u \in W(k)
    BY <1>4
  <2>2. PICK i \in DOMAIN lock_table[k].queue :
                  /\ lock_table[k].queue[i].txn = u
                  /\ u \in R(k).holders
                  /\ lock_table[k].queue[i].mode = "EXCLUSIVE" => R(k).mode = "EXCLUSIVE"
    BY <2>1, <1>2
  <2>3. /\ call[u].key = k /\ call[u].mode = lock_table[k].queue[i].mode
        /\ call[u] \in Call
    BY <2>2, <1>3
  <2>4. call'[u] = [call[u] EXCEPT !.granted = TRUE]
    BY <1>4, <1>1
  <2> DEFINE c == call[u]
             d == call'[u]
  <2>5. d = [c EXCEPT !.granted = TRUE] /\ c \in Call
    BY <2>3, <2>4
  <2> HIDE DEF c, d
  <2>6. d = [key |-> c.key, mode |-> c.mode, granted |-> TRUE]
    BY <2>5 DEF Call
  <2> QED BY <2>1, <2>2, <2>3, <2>6 DEF c, d
<1>5. \A u \in Txn : ~woken(u) => call'[u] = call[u]
  BY <1>1
<1>6. /\ DOMAIN lock_table' = DOMAIN lock_table \ gone
      /\ \A k \in DOMAIN lock_table' :
           lock_table'[k] = IF k \in K THEN R(k) ELSE lock_table[k]
      /\ lock_table' = [k \in DOMAIN lock_table' |-> lock_table'[k]]
      /\ \A k \in K : k \notin DOMAIN lock_table' => R(k).holders = {} /\ R(k).queue = <<>>
  BY <1>1
<1>7. DOMAIN call' = Txn /\ call' = [u \in Txn |-> call'[u]]
  BY <1>1
<1> HIDE DEF gone, woken
<1>8. TypeOK'
  <2>1. \A u \in Txn : call'[u] \in Call \cup {Idle}
    <3> SUFFICES ASSUME NEW u \in Txn PROVE call'[u] \in Call \cup {Idle}
      OBVIOUS
    <3>1. CASE woken(u)
      <4>1. call[u] \in Call /\ call'[u] = [key |-> call[u].key, mode |-> call[u].mode, granted |-> TRUE]
        BY <3>1, <1>4
      <4> QED BY <4>1 DEF Call
    <3>2. CASE ~woken(u)
      BY <3>2, <1>5 DEF IInv, TypeOK
    <3> QED BY <3>1, <3>2
  <2>2. call' \in [Txn -> Call \cup {Idle}]
    BY <2>1, <1>7
  <2>3. \A k \in DOMAIN lock_table' : lock_table'[k] \in LockEntry
    BY <1>2, <1>6 DEF IInv, TypeOK
  <2>4. lock_table' \in [DOMAIN lock_table' -> LockEntry]
    BY <2>3, <1>6
  <2> QED BY <2>2, <2>4, <1>6 DEF IInv, TypeOK
<1>9. MutualExclusion'
  BY <1>2, <1>6 DEF IInv, MutualExclusion
<1>10. EntriesAreLocks'
  <2> SUFFICES ASSUME NEW k \in DOMAIN lock_table'
               PROVE  lock_table'[k].holders # {} /\ lock_table'[k].mode # "NONE"
    BY DEF EntriesAreLocks
  <2>1. CASE k \in K
    BY <2>1, <1>2, <1>6 DEF gone
  <2>2. CASE k \notin K
    BY <2>2, <1>6 DEF IInv, EntriesAreLocks
  <2> QED BY <2>1, <2>2
<1>11. GrantIsHeld'
  <2> SUFFICES ASSUME NEW u \in Txn, call'[u].granted
               PROVE  call'[u].key # NoKey /\ hasLock(u, call[u].key, call[u].mode)'
                      /\ call'[u].key = call[u].key /\ call'[u].mode = call[u].mode
    BY DEF GrantIsHeld, hasLock, entryOf
  <2> DEFINE k == call[u].key
  <2>1. CASE woken(u)
    <3>1. /\ call[u] \in Call /\ k \in K /\ u \in R(k).holders
          /\ call[u].mode = "EXCLUSIVE" => R(k).mode = "EXCLUSIVE"
          /\ call'[u] = [key |-> k, mode |-> call[u].mode, granted |-> TRUE]
      BY <2>1, <1>4
    <3> DEFINE m == call[u].mode
               d == call'[u]
    <3>2. d.key = k /\ d.mode = m
      <4> HIDE DEF k, m
      <4>1. d = [key |-> k, mode |-> m, granted |-> TRUE]
        BY <3>1 DEF k, m
      <4> HIDE DEF d
      <4> QED BY <4>1
    <3>3. k \in DOMAIN lock_table' /\ lock_table'[k] = R(k)
      BY <3>1, <1>6
    <3>4. k # NoKey
      BY <3>1, NoKeyAssumption DEF Call
    <3> QED BY <3>1, <3>2, <3>3, <3>4 DEF hasLock, entryOf
  <2>2. CASE ~woken(u)
    <3>1. call'[u] = call[u]
      BY <2>2, <1>5
    <3>2. k # NoKey /\ hasLock(u, k, call[u].mode)
      BY <3>1 DEF IInv, GrantIsHeld
    <3>3. u # t
      BY <3>1 DEF Idle
    <3>4. k \in DOMAIN lock_table /\ u \in lock_table[k].holders
      BY <3>2 DEF hasLock, entryOf, NewEntry
    <3>5. CASE k \in K
      <4>1. u \in R(k).holders /\ R(k).mode = lock_table[k].mode
        BY <3>3, <3>4, <3>5, <1>2
      <4>2. k \in DOMAIN lock_table' /\ lock_table'[k] = R(k)
        BY <4>1, <3>4, <3>5, <1>6 DEF gone
      <4> QED BY <4>1, <4>2, <3>1, <3>2, <3>4 DEF hasLock, entryOf
    <3>6. CASE k \notin K
      <4>1. k \in DOMAIN lock_table' /\ lock_table'[k] = lock_table[k]
        BY <3>4, <3>6, <1>6 DEF gone
      <4> QED BY <4>1, <3>1, <3>2, <3>4 DEF hasLock, entryOf
    <3> QED BY <3>5, <3>6
  <2> QED BY <2>1, <2>2
<1>12. WaitersMatchCalls'
  <2>1. ASSUME NEW u \in Txn, call'[u].key # NoKey, ~call'[u].granted
        PROVE  /\ call'[u].key \in DOMAIN lock_table'
               /\ \E i \in DOMAIN lock_table'[call'[u].key].queue :
                    lock_table'[call'[u].key].queue[i].txn = u
    <3>1. ~woken(u)
      <4> SUFFICES ASSUME woken(u) PROVE FALSE
        OBVIOUS
      <4> DEFINE k == call[u].key
                 m == call[u].mode
                 d == call'[u]
      <4>1. d = [key |-> k, mode |-> m, granted |-> TRUE]
        BY <1>4
      <4> HIDE DEF k, m, d
      <4>2. d.granted
        BY <4>1
      <4> QED BY <2>1, <4>2 DEF d
    <3>2. call'[u] = call[u]
      BY <3>1, <1>5
    <3> DEFINE k == call[u].key
    <3>3. k \in DOMAIN lock_table /\ \E i \in DOMAIN lock_table[k].queue : lock_table[k].queue[i].txn = u
      BY <2>1, <3>2 DEF IInv, WaitersMatchCalls
    <3>4. PICK i \in DOMAIN lock_table[k].queue : lock_table[k].queue[i].txn = u
      BY <3>3
    <3>5. CASE k \in K
      <4>1. u \notin W(k)
        BY <3>1, <3>5 DEF woken
      <4>2. PICK j \in DOMAIN R(k).queue : R(k).queue[j] = lock_table[k].queue[i]
        BY <4>1, <3>4, <3>5, <1>2
      <4>3. R(k).queue # <<>>
        BY <4>2, EmptySeq
      <4>4. k \in DOMAIN lock_table' /\ lock_table'[k] = R(k)
        BY <4>3, <3>3, <3>5, <1>6
      <4> QED BY <4>2, <4>4, <3>2, <3>4
    <3>6. CASE k \notin K
      <4>1. k \in DOMAIN lock_table' /\ lock_table'[k] = lock_table[k]
        BY <3>3, <3>6, <1>6 DEF gone
      <4> QED BY <4>1, <3>2, <3>4
    <3> QED BY <3>5, <3>6
  <2>2. ASSUME NEW k \in DOMAIN lock_table', NEW a \in DOMAIN lock_table'[k].queue,
               NEW b \in DOMAIN lock_table'[k].queue
        PROVE  /\ call'[lock_table'[k].queue[a].txn] =
                    [key |-> k, mode |-> lock_table'[k].queue[a].mode, granted |-> FALSE]
               /\ lock_table'[k].queue[b].txn = lock_table'[k].queue[a].txn => a = b
    <3>1. OneEach(lock_table'[k].queue)
      BY <1>2, <1>6, EntryFacts
    <3>2. PICK i \in DOMAIN lock_table[k].queue :
             /\ lock_table[k].queue[i] = lock_table'[k].queue[a]
             /\ k \in K => lock_table'[k].queue[a].txn \notin W(k)
      BY <1>2, <1>6
    <3> DEFINE u == lock_table[k].queue[i].txn
    <3>a. k \in DOMAIN lock_table
      BY <1>6
    <3>3. /\ u \in Txn /\ call[u].key = k
          /\ call[u] = [key |-> k, mode |-> lock_table[k].queue[i].mode, granted |-> FALSE]
      BY <1>3, <3>a, ZenonT(30)
    <3>4. ~woken(u)
      BY <3>2, <3>3, <1>4
    <3>5. call'[u] = call[u]
      BY <3>3, <3>4, <1>5
    <3> QED BY <3>1, <3>2, <3>3, <3>5 DEF OneEach
  <2> QED BY <2>1, <2>2 DEF WaitersMatchCalls
<1> QED BY <1>8, <1>9, <1>10, <1>11, <1>12 DEF IInv

-----------------------------------------------------------------------------
\* The invariant holds at the start and every operation preserves it.
THEOREM Invariance == Spec => []IInv
<1>1. Init => IInv
  <2> SUFFICES ASSUME Init PROVE IInv
    OBVIOUS
  <2>1. DOMAIN lock_table = {} /\ \A t \in Txn : call[t] = Idle
    BY DEF Init
  <2>2. TypeOK
    BY <2>1 DEF Init, TypeOK
  <2> QED BY <2>1, <2>2 DEF IInv, MutualExclusion, WaitersMatchCalls, GrantIsHeld,
                            EntriesAreLocks, Idle
<1>2. IInv /\ [Next]_lockVars => IInv'
  <2> SUFFICES ASSUME IInv, [Next]_lockVars PROVE IInv'
    OBVIOUS
  <2>1. CASE UNCHANGED lockVars
    BY <2>1 DEF lockVars, IInv, TypeOK, MutualExclusion, WaitersMatchCalls, GrantIsHeld,
                EntriesAreLocks, hasLock, entryOf
  <2>2. ASSUME NEW t \in Txn, NEW k \in Key, NEW m \in RequestMode, AcquireHeld(t, k, m)
        PROVE  IInv'
    BY <2>1, <2>2 DEF AcquireHeld
  <2>3. ASSUME NEW t \in Txn, NEW k \in Key, NEW m \in RequestMode, AcquireUpgrade(t, k, m)
        PROVE  IInv'
    BY <2>3, AcquireUpgradeInv
  <2>4. ASSUME NEW t \in Txn, NEW k \in Key, NEW m \in RequestMode, AcquireGrant(t, k, m)
        PROVE  IInv'
    BY <2>4, AcquireGrantInv
  <2>5. ASSUME NEW t \in Txn, NEW k \in Key, NEW m \in RequestMode, AcquireWait(t, k, m)
        PROVE  IInv'
    BY <2>5, AcquireWaitInv
  <2>6. ASSUME NEW t \in Txn, WakeGranted(t) PROVE IInv'
    BY <2>6, WakeGrantedInv
  <2>7. ASSUME NEW t \in Txn, Timeout(t) PROVE IInv'
    BY <2>7, TimeoutInv
  <2>8. ASSUME NEW t \in Txn, NEW k \in Key, ReleaseLock(t, k) PROVE IInv'
    <3>1. {k} \cap DOMAIN lock_table \subseteq DOMAIN lock_table
      OBVIOUS
    <3> QED BY <2>8, <3>1, ReleaseInv DEF ReleaseLock
  <2>9. ASSUME NEW t \in Txn, ReleaseAllLocks(t) PROVE IInv'
    <3>1. {k \in DOMAIN lock_table : t \in lock_table[k].holders} \subseteq DOMAIN lock_table
      OBVIOUS
    <3> QED BY <2>9, <3>1, ReleaseInv DEF ReleaseAllLocks
  <2> QED BY <2>1, <2>2, <2>3, <2>4, <2>5, <2>6, <2>7, <2>8, <2>9 DEF Next
<1> QED BY <1>1, <1>2, PTL DEF Spec

\* The variables keep their types.
THEOREM TypeCorrectness == Spec => []TypeOK
<1>1. IInv => TypeOK
  BY DEF IInv
<1> QED BY <1>1, Invariance, PTL

\* An EXCLUSIVE lock has one holder.
THEOREM ExclusiveExcludes == Spec => []MutualExclusion
<1>1. IInv => MutualExclusion
  BY DEF IInv
<1> QED BY <1>1, Invariance, PTL

\* A blocked acquireLock call always has its one waiter, in an entry that is
\* still in the table: its `entry' reference does not dangle.
THEOREM WaitersAccounted == Spec => []WaitersMatchCalls
<1>1. IInv => WaitersMatchCalls
  BY DEF IInv
<1> QED BY <1>1, Invariance, PTL

\* A set granted flag means the lock is held as requested.
THEOREM GrantsAreTrue == Spec => []GrantIsHeld
<1>1. IInv => GrantIsHeld
  BY DEF IInv
<1> QED BY <1>1, Invariance, PTL

\* Entries are exactly the locked keys.
THEOREM NoStaleEntries == Spec => []EntriesAreLocks
<1>1. IInv => EntriesAreLocks
  BY DEF IInv
<1> QED BY <1>1, Invariance, PTL

-----------------------------------------------------------------------------
(* Action properties                                                       *)

\* A release by x of the keys K leaves every other hold as it was.
LEMMA ReleaseKeepsOthers ==
  ASSUME IInv, NEW x \in Txn, NEW K, K \subseteq DOMAIN lock_table, release(x, K),
         NEW k \in DOMAIN lock_table, NEW u \in lock_table[k].holders, u # x \/ k \notin K
  PROVE  /\ k \in DOMAIN lock_table'
         /\ u \in lock_table'[k].holders
         /\ lock_table'[k].mode = lock_table[k].mode
<1> DEFINE e == lock_table[k]
           gone == {j \in K : LET r == released(lock_table[j], x)
                             IN  r.holders = {} /\ r.queue = <<>>}
<1>1. lock_table' = [j \in DOMAIN lock_table \ gone |->
                       IF j \in K THEN released(lock_table[j], x) ELSE lock_table[j]]
  BY DEF release
<1>2. CASE k \notin K
  BY <1>1, <1>2
<1>3. CASE k \in K
  <2>1. /\ e \in LockEntry /\ OneEach(e.queue) /\ e.mode # "NONE"
        /\ \A y, z \in e.holders : e.mode = "EXCLUSIVE" => y = z
        /\ u \in e.holders \ {x}
    BY <1>3, EntryFacts DEF RequestMode
  <2> HIDE DEF e
  <2>2. u \in released(e, x).holders /\ released(e, x).mode = e.mode
    BY <2>1, ReleasedSpec
  <2> QED BY <1>1, <1>3, <2>2 DEF e
<1> QED BY <1>2, <1>3

\* What a holder keeps, as hasLock sees it.
LEMMA HasLockKept ==
  ASSUME NEW t, NEW k, NEW m, hasLock(t, k, m), k \in DOMAIN lock_table',
         t \in lock_table'[k].holders,
         lock_table[k].mode = "EXCLUSIVE" => lock_table'[k].mode = "EXCLUSIVE"
  PROVE  hasLock(t, k, m)'
  BY DEF hasLock, entryOf, NewEntry

\* No acquireLock call takes a lock from its holder, whoever that is.
LEMMA AcquireKeeps ==
  ASSUME IInv, NEW u, NEW j, NEW n,
         \/ AcquireHeld(u, j, n) \/ AcquireUpgrade(u, j, n)
         \/ AcquireGrant(u, j, n) \/ AcquireWait(u, j, n),
         NEW t, NEW k, NEW m, hasLock(t, k, m)
  PROVE  hasLock(t, k, m)'
<1>1. k \in DOMAIN lock_table /\ t \in lock_table[k].holders
  BY DEF hasLock, entryOf, NewEntry
<1>2. SUFFICES k \in DOMAIN lock_table' /\ t \in lock_table'[k].holders
               /\ (lock_table[k].mode = "EXCLUSIVE" => lock_table'[k].mode = "EXCLUSIVE")
  BY HasLockKept
<1>3. CASE AcquireHeld(u, j, n)
  BY <1>1, <1>3 DEF AcquireHeld, lockVars
<1>4. CASE AcquireUpgrade(u, j, n)
  BY <1>1, <1>4 DEF AcquireUpgrade, setEntry, entryOf
<1>5. CASE AcquireGrant(u, j, n)
  BY <1>1, <1>5 DEF AcquireGrant, setEntry, entryOf, CanGrant, isCompatible
<1>6. CASE AcquireWait(u, j, n)
  <2> DEFINE e == entryOf(j)
             q == Append(e.queue, [txn |-> u, mode |-> n])
             f == [e EXCEPT !.queue = q]
  <2>1. lock_table' = setEntry(j, f)
    BY <1>6 DEF AcquireWait
  <2>2. j = k => e = lock_table[k] /\ e \in LockEntry
    BY <1>1, EntryFacts DEF entryOf
  <2> HIDE DEF e, q
  <2>3. j = k => f.mode = lock_table[k].mode /\ f.holders = lock_table[k].holders
    BY <2>2 DEF LockEntry
  <2> HIDE DEF f
  <2> QED BY <2>1, <2>3, <1>1 DEF setEntry
<1> QED BY <1>3, <1>4, <1>5, <1>6

\* Nor does a call that gives up.
LEMMA TimeoutKeeps ==
  ASSUME IInv, NEW u, Timeout(u), NEW t, NEW k, NEW m, hasLock(t, k, m)
  PROVE  hasLock(t, k, m)'
<1>1. k \in DOMAIN lock_table /\ t \in lock_table[k].holders
  BY DEF hasLock, entryOf, NewEntry
<1> DEFINE j == call[u].key
           e == lock_table[j]
           q == removeWaiter(e.queue, u)
           f == [e EXCEPT !.queue = q]
<1>2. lock_table' = [lock_table EXCEPT ![j] = f]
  BY DEF Timeout
<1>3. j = k => e = lock_table[k] /\ e \in LockEntry
  BY <1>1, EntryFacts
<1> HIDE DEF e, q
<1>4. j = k => f.mode = lock_table[k].mode /\ f.holders = lock_table[k].holders
  BY <1>3 DEF LockEntry
<1> HIDE DEF f, j
<1>5. k \in DOMAIN lock_table' /\ t \in lock_table'[k].holders /\ lock_table'[k].mode = lock_table[k].mode
  BY <1>1, <1>2, <1>4
<1> QED BY <1>5, HasLockKept

\* A release takes from x the keys it releases, and nothing from anybody else.
LEMMA ReleaseKeeps ==
  ASSUME IInv, NEW x \in Txn, NEW K, K \subseteq DOMAIN lock_table, release(x, K),
         NEW t, NEW k, NEW m, hasLock(t, k, m), t # x \/ k \notin K
  PROVE  hasLock(t, k, m)'
<1>1. k \in DOMAIN lock_table /\ t \in lock_table[k].holders
  BY DEF hasLock, entryOf, NewEntry
<1>2. k \in DOMAIN lock_table' /\ t \in lock_table'[k].holders /\ lock_table'[k].mode = lock_table[k].mode
  BY <1>1, ReleaseKeepsOthers
<1> QED BY <1>2, HasLockKept

\* acquireLock returns true: the caller has the lock.
LEMMA AcquireGives ==
  ASSUME IInv, NEW t, NEW k, NEW m \in RequestMode,
         \/ AcquireHeld(t, k, m) \/ AcquireUpgrade(t, k, m) \/ AcquireGrant(t, k, m)
  PROVE  hasLock(t, k, m)'
<1>1. CASE AcquireHeld(t, k, m)
  BY <1>1 DEF AcquireHeld, AlreadyHeld, hasLock, entryOf, lockVars, RequestMode
<1>2. CASE AcquireUpgrade(t, k, m)
  BY <1>2 DEF AcquireUpgrade, CanUpgrade, setEntry, hasLock, entryOf
<1>3. CASE AcquireGrant(t, k, m)
  BY <1>3 DEF AcquireGrant, setEntry, hasLock, entryOf
<1> QED BY <1>1, <1>2, <1>3

\* A release changes nothing of a blocked call but its granted flag.
LEMMA ReleaseKeepsCalls ==
  ASSUME TypeOK, NEW x, NEW K, release(x, K), NEW w \in Txn
  PROVE  call'[w].key = call[w].key /\ call'[w].mode = call[w].mode
<1>1. call[w] \in Call \cup {Idle}
  BY DEF TypeOK
<1> DEFINE c == call[w]
           d == [c EXCEPT !.granted = TRUE]
<1>2. call'[w] = d \/ call'[w] = c
  BY DEF release
<1> HIDE DEF c
<1>3. d.key = c.key /\ d.mode = c.mode
  BY <1>1 DEF c, Call, Idle
<1> HIDE DEF d
<1> QED BY <1>2, <1>3 DEF c

\* Nobody loses a lock but by its own release call.
THEOREM LocksAreKept == Spec => NoPreemption
<1> DEFINE A == \A t \in Txn, k \in Key, m \in RequestMode :
                  hasLock(t, k, m) /\ ~hasLock(t, k, m)' =>
                    ReleaseLock(t, k) \/ ReleaseAllLocks(t)
<1>1. IInv /\ [Next]_lockVars => [A]_lockVars
  <2> SUFFICES ASSUME IInv, Next,
                      NEW t \in Txn, NEW k \in Key, NEW m \in RequestMode,
                      hasLock(t, k, m), ~ReleaseLock(t, k), ~ReleaseAllLocks(t)
               PROVE  hasLock(t, k, m)'
    OBVIOUS
  <2>1. ASSUME NEW u \in Txn, WakeGranted(u)
        PROVE  hasLock(t, k, m)'
    BY <2>1 DEF WakeGranted, hasLock, entryOf
  <2>2. ASSUME NEW u \in Txn, NEW j \in Key, ReleaseLock(u, j)
        PROVE  hasLock(t, k, m)'
    <3>1. release(u, {j} \cap DOMAIN lock_table) /\ (u # t \/ j # k)
      BY <2>2 DEF ReleaseLock
    <3>2. {j} \cap DOMAIN lock_table \subseteq DOMAIN lock_table
          /\ (u # t \/ k \notin {j} \cap DOMAIN lock_table)
      BY <3>1
    <3> QED BY <3>1, <3>2, ReleaseKeeps
  <2>3. ASSUME NEW u \in Txn, ReleaseAllLocks(u)
        PROVE  hasLock(t, k, m)'
    <3> DEFINE K == {j \in DOMAIN lock_table : u \in lock_table[j].holders}
    <3>1. release(u, K) /\ u # t /\ K \subseteq DOMAIN lock_table
      BY <2>3 DEF ReleaseAllLocks
    <3> HIDE DEF K
    <3> QED BY <3>1, ReleaseKeeps
  <2> QED BY <2>1, <2>2, <2>3, AcquireKeeps, TimeoutKeeps DEF Next
<1> QED BY <1>1, Invariance, PTL DEF Spec, NoPreemption

\* The waiters that a release makes holders are a prefix of the queue.
LEMMA ReleasedInOrder ==
  ASSUME NEW e \in LockEntry, NEW t \in Txn,
         NEW x \in released(e, t).holders \ e.holders,
         NEW i \in DOMAIN e.queue, \A j \in 1 .. i : e.queue[j].txn # x
  PROVE  e.queue[i].txn \in released(e, t).holders
<1> DEFINE h == e.holders \ {t}
           d == withoutHolder(e, t)
           n == grantCount(d)
           q == e.queue
<1>1. CASE h # {}
  BY <1>1 DEF released, withoutHolder
<1>2. CASE h = {}
  <2>1. /\ d = [mode |-> "NONE", holders |-> {}, queue |-> q]
        /\ d \in LockEntry
    BY <1>2 DEF withoutHolder, LockEntry, LockMode
  <2>2. d.mode = "NONE" /\ d.holders = {} /\ d.queue = q
    BY <2>1
  <2>3. released(e, t) = processWaiters(d)
    BY <2>2 DEF released
  <2> HIDE DEF d, q
  <2>4. processWaiters(d).holders = grantees(d) /\ n \in 0 .. Len(q)
    BY <2>1, <2>2, ProcessWaitersSpec
  <2>5. grantees(d) = {q[j].txn : j \in 1 .. n}
    BY <2>2 DEF grantees
  <2>6. PICK p \in 1 .. n : q[p].txn = x
    BY <2>3, <2>4, <2>5
  <2>7. Len(q) \in Nat /\ i \in 1 .. Len(q)
    BY LenProperties DEF LockEntry, q
  <2>8. ~(p <= i)
    BY <2>4, <2>6, <2>7 DEF q
  <2>9. i \in 1 .. n
    BY <2>4, <2>7, <2>8
  <2> QED BY <2>3, <2>4, <2>5, <2>9 DEF q
<1> QED BY <1>1, <1>2

\* First come, first served.
THEOREM QueueIsFair == Spec => NoOvertaking
<1> DEFINE A == \A k \in Key : \A t \in entryOf(k)'.holders \ entryOf(k).holders :
                  \A i \in DOMAIN entryOf(k).queue :
                    (\A j \in 1 .. i : entryOf(k).queue[j].txn # t) =>
                       entryOf(k).queue[i].txn \in entryOf(k)'.holders
<1>1. IInv /\ [Next]_lockVars => [A]_lockVars
  <2> SUFFICES ASSUME IInv, Next,
                      NEW k \in Key, NEW t \in entryOf(k)'.holders \ entryOf(k).holders,
                      NEW i \in DOMAIN entryOf(k).queue,
                      \A j \in 1 .. i : entryOf(k).queue[j].txn # t
               PROVE  entryOf(k).queue[i].txn \in entryOf(k)'.holders
    OBVIOUS
  <2>1. k \in DOMAIN lock_table'
    BY DEF entryOf, NewEntry
  <2>2. k \in DOMAIN lock_table /\ entryOf(k) = lock_table[k] /\ entryOf(k)' = lock_table'[k]
    BY <2>1, EmptySeq DEF entryOf, NewEntry
  <2>3. lock_table[k] \in LockEntry
    BY <2>2, EntryFacts
  <2>4. ASSUME NEW u \in Txn, NEW j \in Key, NEW n \in RequestMode,
               \/ AcquireHeld(u, j, n) \/ AcquireUpgrade(u, j, n)
               \/ AcquireGrant(u, j, n) \/ AcquireWait(u, j, n)
        PROVE  FALSE
    <3>1. CASE AcquireHeld(u, j, n)
      BY <2>2, <3>1 DEF AcquireHeld, lockVars
    <3>2. CASE AcquireUpgrade(u, j, n)
      BY <2>2, <3>2 DEF AcquireUpgrade, setEntry, entryOf
    <3>3. CASE AcquireGrant(u, j, n)
      <4>1. j # k
        BY <2>2, <3>3, EmptySeq DEF AcquireGrant, CanGrant
      <4> QED BY <2>2, <3>3, <4>1 DEF AcquireGrant, setEntry
    <3>4. CASE AcquireWait(u, j, n)
      <4> DEFINE e == entryOf(j)
                 q == Append(e.queue, [txn |-> u, mode |-> n])
                 f == [e EXCEPT !.queue = q]
      <4>1. lock_table' = setEntry(j, f)
        BY <3>4 DEF AcquireWait
      <4>2. j = k => e = lock_table[k] /\ e \in LockEntry
        BY <2>2, <2>3
      <4> HIDE DEF e, q
      <4>3. j = k => f.holders = lock_table[k].holders
        BY <4>2 DEF LockEntry
      <4> HIDE DEF f
      <4> QED BY <4>1, <4>3, <2>2 DEF setEntry
    <3> QED BY <2>4, <3>1, <3>2, <3>3, <3>4
  <2>5. ASSUME NEW u \in Txn, WakeGranted(u)
        PROVE  FALSE
    BY <2>2, <2>5 DEF WakeGranted
  <2>6. ASSUME NEW u \in Txn, Timeout(u)
        PROVE  FALSE
    <3> DEFINE j == call[u].key
               e == lock_table[j]
               q == removeWaiter(e.queue, u)
               f == [e EXCEPT !.queue = q]
    <3>1. lock_table' = [lock_table EXCEPT ![j] = f]
      BY <2>6 DEF Timeout
    <3>2. j = k => e = lock_table[k] /\ e \in LockEntry
      BY <2>2, <2>3
    <3> HIDE DEF e, q
    <3>3. j = k => f.holders = lock_table[k].holders
      BY <3>2 DEF LockEntry
    <3> HIDE DEF f, j
    <3> QED BY <3>1, <3>3, <2>2
  <2>7. ASSUME NEW u \in Txn, NEW K, release(u, K)
        PROVE  lock_table[k].queue[i].txn \in lock_table'[k].holders
    <3> DEFINE e == lock_table[k]
    <3>1. lock_table'[k] = IF k \in K THEN released(e, u) ELSE e
      BY <2>1, <2>2, <2>7 DEF release
    <3>2. /\ lock_table'[k] = released(e, u)
          /\ t \in released(e, u).holders \ e.holders
          /\ i \in DOMAIN e.queue
          /\ \A j \in 1 .. i : e.queue[j].txn # t
      BY <3>1, <2>2
    <3> HIDE DEF e
    <3>3. e.queue[i].txn \in released(e, u).holders
      BY <3>2, <2>3, ReleasedInOrder DEF e
    <3> QED BY <3>2, <3>3 DEF e
  <2> QED BY <2>2, <2>4, <2>5, <2>6, <2>7 DEF Next, ReleaseLock, ReleaseAllLocks
<1> QED BY <1>1, Invariance, PTL DEF Spec, NoOvertaking

\* An upgrade that had to wait is never granted: its only way out is the
\* time-out, because processWaiters runs only on a key without holders.
THEOREM UpgradesStarve == Spec => QueuedUpgradeNeverGranted
<1> DEFINE A == \A t \in Txn :
                  (/\ call[t].key # NoKey
                   /\ t \in entryOf(call[t].key).holders
                   /\ ~call[t].granted) => ~call'[t].granted
<1>1. IInv /\ [Next]_lockVars => [A]_lockVars
  <2> SUFFICES ASSUME IInv, Next, NEW t \in Txn, call[t].key # NoKey,
                      t \in entryOf(call[t].key).holders, ~call[t].granted
               PROVE  ~call'[t].granted
    OBVIOUS
  <2> DEFINE k == call[t].key
  <2>1. k \in DOMAIN lock_table /\ t \in lock_table[k].holders /\ call \in [Txn -> Call \cup {Idle}]
    BY DEF entryOf, NewEntry, IInv, TypeOK
  <2>2. ASSUME NEW u \in Txn, NEW j \in Key, NEW n \in RequestMode,
               \/ AcquireHeld(u, j, n) \/ AcquireUpgrade(u, j, n)
               \/ AcquireGrant(u, j, n) \/ AcquireWait(u, j, n)
        PROVE  ~call'[t].granted
    <3> DEFINE c == [key |-> j, mode |-> n, granted |-> FALSE]
    <3>1. call' = call \/ call' = [call EXCEPT ![u] = c]
      BY <2>2 DEF AcquireHeld, AcquireUpgrade, AcquireGrant, AcquireWait, lockVars
    <3>2. ~c.granted
      OBVIOUS
    <3> HIDE DEF c
    <3> QED BY <2>1, <3>1, <3>2
  <2>3. ASSUME NEW u \in Txn, WakeGranted(u) \/ Timeout(u)
        PROVE  ~call'[t].granted
    BY <2>1, <2>3 DEF WakeGranted, Timeout, Idle
  <2>4. ASSUME NEW u \in Txn, call[u] = Idle, NEW K, K \subseteq DOMAIN lock_table, release(u, K)
        PROVE  ~call'[t].granted
    <3>1. u # t
      BY <2>4 DEF Idle
    <3>2. ASSUME NEW j \in K, t \in wokenBy(lock_table[j], u)
          PROVE  FALSE
      <4> DEFINE e == lock_table[j]
                 d == withoutHolder(e, u)
      <4>1. e \in LockEntry /\ e.queue \in Seq(LockWaiter)
            /\ \A i \in DOMAIN e.queue : call[e.queue[i].txn].key = j
        <5>1. e \in LockEntry /\ e.queue \in Seq(LockWaiter)
              /\ \A i \in DOMAIN e.queue :
                   call[e.queue[i].txn] = [key |-> j, mode |-> e.queue[i].mode, granted |-> FALSE]
          BY <2>4, EntryFacts
        <5>2. ASSUME NEW i \in DOMAIN e.queue
              PROVE  call[e.queue[i].txn].key = j
          <6> DEFINE c == call[e.queue[i].txn]
                     m == e.queue[i].mode
          <6>1. c = [key |-> j, mode |-> m, granted |-> FALSE]
            BY <5>1
          <6> HIDE DEF c, m
          <6>2. c.key = j
            BY <6>1
          <6> QED BY <6>2 DEF c
        <5> QED BY <5>1, <5>2
      <4>2. d.holders = {} /\ t \in grantees(d)
        BY <3>2 DEF wokenBy
      <4>3. d = [mode |-> IF e.holders \ {u} = {} THEN "NONE" ELSE e.mode,
                 holders |-> e.holders \ {u}, queue |-> e.queue]
        BY DEF withoutHolder
      <4>4. /\ d \in LockEntry /\ d.queue = e.queue /\ d.holders = e.holders \ {u}
        BY <4>1, <4>3 DEF LockEntry, LockMode
      <4> HIDE DEF d
      <4>5. PICK i \in 1 .. grantCount(d) : e.queue[i].txn = t
        BY <4>2, <4>4 DEF grantees
      <4>6. i \in DOMAIN e.queue
        BY <4>1, <4>4, <4>5, GrantCountSpec, LenProperties
      <4>7. k = j
        BY <4>1, <4>5, <4>6
      <4> QED BY <4>2, <4>4, <4>7, <3>1, <2>1
    <3> QED BY <3>2, <2>1, <2>4 DEF release
  <2>5. ASSUME NEW u \in Txn, NEW j \in Key, ReleaseLock(u, j)
        PROVE  ~call'[t].granted
    <3>1. {j} \cap DOMAIN lock_table \subseteq DOMAIN lock_table
      OBVIOUS
    <3> QED BY <2>4, <2>5, <3>1 DEF ReleaseLock
  <2>6. ASSUME NEW u \in Txn, ReleaseAllLocks(u)
        PROVE  ~call'[t].granted
    <3>1. {j \in DOMAIN lock_table : u \in lock_table[j].holders} \subseteq DOMAIN lock_table
      BY SMTT(30)
    <3> QED BY <2>4, <2>6, <3>1 DEF ReleaseAllLocks
  <2> QED BY <2>2, <2>3, <2>5, <2>6 DEF Next
<1> QED BY <1>1, Invariance, PTL DEF Spec, QueuedUpgradeNeverGranted

-----------------------------------------------------------------------------
(* What a step of one transaction leaves to the others, for the proofs     *)
(* about the sessions that drive the lock manager.                         *)

\* A step that t's thread takes in the lock manager.
StepOf(t) ==
  \/ \E k \in Key, m \in RequestMode :
       \/ AcquireHeld(t, k, m) \/ AcquireUpgrade(t, k, m)
       \/ AcquireGrant(t, k, m) \/ AcquireWait(t, k, m)
  \/ WakeGranted(t)
  \/ Timeout(t)
  \/ \E k \in Key : ReleaseLock(t, k)
  \/ ReleaseAllLocks(t)

\* The others keep their locks, and what they are blocked on.
LEMMA StepKeepsOthers ==
  ASSUME IInv, NEW t \in Txn, StepOf(t), NEW w \in Txn, w # t
  PROVE  /\ call'[w].key = call[w].key /\ call'[w].mode = call[w].mode
         /\ \A k, m : hasLock(w, k, m) => hasLock(w, k, m)'
<1>1. TypeOK /\ call \in [Txn -> Call \cup {Idle}]
  BY DEF IInv, TypeOK
<1>2. ASSUME NEW k \in Key, NEW m \in RequestMode,
             \/ AcquireHeld(t, k, m) \/ AcquireUpgrade(t, k, m)
             \/ AcquireGrant(t, k, m) \/ AcquireWait(t, k, m)
      PROVE  call'[w] = call[w] /\ \A j, n : hasLock(w, j, n) => hasLock(w, j, n)'
  <2>1. call'[w] = call[w]
    BY <1>1, <1>2 DEF AcquireHeld, AcquireUpgrade, AcquireGrant, AcquireWait, lockVars
  <2> QED BY <1>2, <2>1, AcquireKeeps
<1>3. CASE WakeGranted(t)
  BY <1>1, <1>3 DEF WakeGranted, hasLock, entryOf
<1>4. CASE Timeout(t)
  <2>1. call'[w] = call[w]
    BY <1>1, <1>4 DEF Timeout
  <2> QED BY <1>4, <2>1, TimeoutKeeps
<1>5. ASSUME NEW K, K \subseteq DOMAIN lock_table, release(t, K)
      PROVE  /\ call'[w].key = call[w].key /\ call'[w].mode = call[w].mode
             /\ \A j, n : hasLock(w, j, n) => hasLock(w, j, n)'
  BY <1>1, <1>5, ReleaseKeeps, ReleaseKeepsCalls
<1>6. ASSUME NEW k \in Key, ReleaseLock(t, k)
      PROVE  release(t, {k} \cap DOMAIN lock_table)
  BY <1>6 DEF ReleaseLock
<1>7. CASE ReleaseAllLocks(t)
  <2> DEFINE K == {k \in DOMAIN lock_table : t \in lock_table[k].holders}
  <2>1. K \subseteq DOMAIN lock_table /\ release(t, K)
    BY <1>7 DEF ReleaseAllLocks
  <2> HIDE DEF K
  <2> QED BY <2>1, <1>5
<1>8. ASSUME NEW k \in Key, ReleaseLock(t, k)
      PROVE  /\ call'[w].key = call[w].key /\ call'[w].mode = call[w].mode
             /\ \A j, n : hasLock(w, j, n) => hasLock(w, j, n)'
  <2> DEFINE K == {k} \cap DOMAIN lock_table
  <2>1. K \subseteq DOMAIN lock_table /\ release(t, K)
    BY <1>6, <1>8
  <2> HIDE DEF K
  <2> QED BY <2>1, <1>5
<1> QED BY <1>2, <1>3, <1>4, <1>7, <1>8 DEF StepOf

\* After a release, whoever holds a key held it before, and did not release
\* it, or has been granted it while waiting for it.
LEMMA HoldersAfterRelease ==
  ASSUME IInv, NEW x \in Txn, NEW K, K \subseteq DOMAIN lock_table, release(x, K),
         NEW k \in DOMAIN lock_table', NEW w \in lock_table'[k].holders
  PROVE  /\ k \in DOMAIN lock_table /\ w \in Txn
         /\ \/ w \in lock_table[k].holders /\ (w # x \/ k \notin K)
            \/ call[w].key = k /\ call'[w].granted
<1> DEFINE e == lock_table[k]
<1>1. /\ k \in DOMAIN lock_table
      /\ lock_table'[k] = IF k \in K THEN released(e, x) ELSE e
  BY DEF release
<1>2. e \in LockEntry /\ e.holders \subseteq Txn
  BY <1>1, EntryFacts
<1>3. CASE k \notin K
  BY <1>1, <1>2, <1>3
<1>4. CASE k \in K
  <2>1. w \in released(e, x).holders
    BY <1>1, <1>4
  <2>2. CASE w \in e.holders \ {x}
    BY <1>1, <1>2, <2>2
  <2>3. CASE w \notin e.holders \ {x}
    <3>1. w \in wokenBy(e, x)
      <4> DEFINE d == withoutHolder(e, x)
      <4>1. d.holders = e.holders \ {x}
        BY DEF withoutHolder
      <4> HIDE DEF d
      <4>2. released(e, x) = IF d.holders = {} THEN processWaiters(d) ELSE d
        BY DEF released, d
      <4>3. wokenBy(e, x) = IF d.holders = {} THEN grantees(d) ELSE {}
        BY DEF wokenBy, d
      <4>4. processWaiters(d).holders = d.holders \cup grantees(d)
        BY DEF processWaiters
      <4> HIDE DEF e
      <4> QED BY <2>1, <2>3, <4>1, <4>2, <4>3, <4>4
    <3>2. PICK i \in DOMAIN e.queue : e.queue[i].txn = w
      <4>1. OneEach(e.queue) /\ e.mode # "NONE" /\ \A y, z \in e.holders : e.mode = "EXCLUSIVE" => y = z
        BY <1>1, EntryFacts DEF RequestMode
      <4> HIDE DEF e
      <4> QED BY <1>2, <3>1, <4>1, ReleasedSpec
    <3>3. w \in Txn /\ call[w] = [key |-> k, mode |-> e.queue[i].mode, granted |-> FALSE]
      BY <1>1, <3>2, EntryFacts DEF LockWaiter
    <3>4. call'[w] = [call[w] EXCEPT !.granted = TRUE]
      BY <1>4, <3>1, <3>3 DEF release
    <3> DEFINE m == e.queue[i].mode
               c == call[w]
    <3>5. c = [key |-> k, mode |-> m, granted |-> FALSE] /\ call'[w] = [c EXCEPT !.granted = TRUE]
      BY <3>3, <3>4
    <3> HIDE DEF m, c
    <3>6. c.key = k /\ call'[w].granted
      BY <3>5
    <3> QED BY <1>1, <3>3, <3>6 DEF c
  <2> QED BY <2>2, <2>3
<1> QED BY <1>3, <1>4

\* acquireLock makes nobody a holder but its caller, of the key it asks for,
\* and only when it returns at once; giving up changes no holder.
LEMMA HoldersAfterAcquire ==
  ASSUME IInv, NEW t, NEW k, NEW m,
         \/ AcquireHeld(t, k, m) \/ AcquireUpgrade(t, k, m)
         \/ AcquireGrant(t, k, m) \/ AcquireWait(t, k, m),
         NEW j \in DOMAIN lock_table', NEW w \in lock_table'[j].holders
  PROVE  \/ j \in DOMAIN lock_table /\ w \in lock_table[j].holders
         \/ w = t /\ j = k /\ ~AcquireWait(t, k, m)
<1>1. CASE AcquireHeld(t, k, m)
  BY <1>1 DEF AcquireHeld, lockVars
<1>2. CASE AcquireUpgrade(t, k, m)
  <2>1. w \in (IF j = k THEN entryOf(k).holders ELSE lock_table[j].holders)
    BY <1>2 DEF AcquireUpgrade, setEntry
  <2> QED BY <1>2, <2>1 DEF AcquireUpgrade, setEntry, entryOf, NewEntry
<1>3. CASE AcquireGrant(t, k, m) /\ ~AcquireWait(t, k, m)
  <2>1. w \in (IF j = k THEN entryOf(k).holders \cup {t} ELSE lock_table[j].holders)
    BY <1>3 DEF AcquireGrant, setEntry
  <2> QED BY <1>3, <2>1 DEF AcquireGrant, setEntry, entryOf, NewEntry
<1>4. CASE AcquireWait(t, k, m)
  <2> DEFINE e == entryOf(k)
             q == Append(e.queue, [txn |-> t, mode |-> m])
             f == [e EXCEPT !.queue = q]
  <2>1. lock_table' = setEntry(k, f)
    BY <1>4, SMTT(30) DEF AcquireWait
  <2>2. e \in LockEntry /\ (k \notin DOMAIN lock_table => e.holders = {})
    BY EntryFacts, EmptySeq DEF entryOf, NewEntry, LockEntry, LockMode
  <2>3. k \in DOMAIN lock_table => e = lock_table[k]
    BY DEF entryOf
  <2> HIDE DEF e, q
  <2>4. f.holders = e.holders
    BY <2>2 DEF LockEntry
  <2> HIDE DEF f
  <2> QED BY <2>1, <2>2, <2>3, <2>4 DEF setEntry
<1> QED BY <1>1, <1>2, <1>3, <1>4

LEMMA HoldersAfterTimeout ==
  ASSUME IInv, NEW t, Timeout(t), NEW j \in DOMAIN lock_table', NEW w \in lock_table'[j].holders
  PROVE  j \in DOMAIN lock_table /\ w \in lock_table[j].holders
<1> DEFINE k == call[t].key
           e == lock_table[k]
           q == removeWaiter(e.queue, t)
           f == [e EXCEPT !.queue = q]
<1>1. lock_table' = [lock_table EXCEPT ![k] = f]
  BY DEF Timeout
<1>2. j \in DOMAIN lock_table /\ (j = k => e = lock_table[j] /\ e \in LockEntry)
  BY <1>1, EntryFacts
<1> HIDE DEF e, q
<1>3. j = k => f.holders = lock_table[j].holders
  BY <1>2, SMTT(30) DEF LockEntry
<1> HIDE DEF f, k
<1> QED BY <1>1, <1>2, <1>3

\* Another transaction becomes a holder only by being granted what it waits
\* for, and keeps its granted flag.
LEMMA OtherHolders ==
  ASSUME IInv, NEW t \in Txn, StepOf(t), NEW w, w # t
  PROVE  /\ w \in Txn /\ call[w].granted => call'[w].granted
         /\ \A k \in DOMAIN lock_table' : w \in lock_table'[k].holders =>
              /\ k \in DOMAIN lock_table
              /\ w \in lock_table[k].holders \/ (call[w].key = k /\ call'[w].granted)
<1>1. call \in [Txn -> Call \cup {Idle}]
  BY SMTT(30) DEF IInv, TypeOK
<1>2. ASSUME NEW k \in Key, NEW m \in RequestMode,
             \/ AcquireHeld(t, k, m) \/ AcquireUpgrade(t, k, m)
             \/ AcquireGrant(t, k, m) \/ AcquireWait(t, k, m)
      PROVE  /\ w \in Txn => call'[w] = call[w]
             /\ \A j \in DOMAIN lock_table' : w \in lock_table'[j].holders =>
                  j \in DOMAIN lock_table /\ w \in lock_table[j].holders
  <2>1. w \in Txn => call'[w] = call[w]
    BY <1>1, <1>2 DEF AcquireHeld, AcquireUpgrade, AcquireGrant, AcquireWait, lockVars
  <2> QED BY <1>2, <2>1, HoldersAfterAcquire
<1>3. CASE WakeGranted(t)
  BY <1>1, <1>3 DEF WakeGranted
<1>4. CASE Timeout(t)
  <2>1. w \in Txn => call'[w] = call[w]
    BY <1>1, <1>4 DEF Timeout
  <2> QED BY <1>4, <2>1, HoldersAfterTimeout
<1>5. ASSUME NEW K, K \subseteq DOMAIN lock_table, release(t, K)
      PROVE  /\ w \in Txn /\ call[w].granted => call'[w].granted
             /\ \A k \in DOMAIN lock_table' : w \in lock_table'[k].holders =>
                  /\ k \in DOMAIN lock_table
                  /\ w \in lock_table[k].holders \/ (call[w].key = k /\ call'[w].granted)
  <2>1. ASSUME w \in Txn, call[w].granted
        PROVE  call'[w].granted
    <3> DEFINE c == call[w]
               d == [c EXCEPT !.granted = TRUE]
    <3>1. call'[w] = d \/ call'[w] = c
      BY <1>5, <2>1 DEF release
    <3>2. c \in Call \cup {Idle}
      BY <1>1, <2>1
    <3> HIDE DEF c
    <3>3. d.granted
      BY <3>2 DEF Call, Idle
    <3> HIDE DEF d
    <3> QED BY <2>1, <3>1, <3>3 DEF c
  <2> QED BY <1>5, <2>1, HoldersAfterRelease
<1>6. ASSUME (\E k \in Key : ReleaseLock(t, k)) \/ ReleaseAllLocks(t)
      PROVE  \E K : K \subseteq DOMAIN lock_table /\ release(t, K)
  <2>1. ASSUME NEW k \in Key, ReleaseLock(t, k)
        PROVE  \E K : K \subseteq DOMAIN lock_table /\ release(t, K)
    <3>1. {k} \cap DOMAIN lock_table \subseteq DOMAIN lock_table /\ release(t, {k} \cap DOMAIN lock_table)
      BY <2>1 DEF ReleaseLock
    <3> QED BY <3>1
  <2>2. CASE ReleaseAllLocks(t)
    <3> DEFINE K == {k \in DOMAIN lock_table : t \in lock_table[k].holders}
    <3>1. K \subseteq DOMAIN lock_table /\ release(t, K)
      BY <2>2 DEF ReleaseAllLocks
    <3> HIDE DEF K
    <3> QED BY <3>1
  <2> QED BY <1>6, <2>1, <2>2
<1> QED BY <1>2, <1>3, <1>4, <1>5, <1>6 DEF StepOf

\* After releaseLock or releaseAllLocks the caller does not hold what it has
\* released.
LEMMA OwnAfterRelease ==
  ASSUME IInv, NEW t \in Txn, call[t] = Idle, NEW K, K \subseteq DOMAIN lock_table, release(t, K),
         NEW k \in DOMAIN lock_table', t \in lock_table'[k].holders
  PROVE  k \in DOMAIN lock_table /\ t \in lock_table[k].holders /\ k \notin K
<1>1. /\ k \in DOMAIN lock_table
      /\ \/ t \in lock_table[k].holders /\ (t # t \/ k \notin K)
         \/ call[t].key = k /\ call'[t].granted
  BY HoldersAfterRelease
<1>2. call[t].key = NoKey /\ k \in Key
  BY <1>1, EntryFacts DEF Idle
<1> QED BY <1>1, <1>2, NoKeyAssumption
=============================================================================
