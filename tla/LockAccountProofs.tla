--------------------------- MODULE LockAccountProofs --------------------------
(* Proofs about TransactionManager and its locks, continued: no lock is    *)
(* left behind.                                                            *)
EXTENDS TransactionManagerProofs

\* The session with transaction x in the call o has the lock on k in its
\* books: locks_held has it, or the call that waits for it has been granted.
accounted(x, o, c, k) ==
  \/ k \in DOMAIN x.held
  \/ o.kind \in {"put", "get"} /\ o.key = k /\ c[x.id].granted

current(s, t) == txn[s].state = "ACTIVE" /\ txn[s].id = t

JInv ==
  /\ \A k \in DOMAIN lock_table : \A t \in lock_table[k].holders :
       \E s \in Session : current(s, t) /\ accounted(txn[s], op[s], call, k)
  /\ \A t \in TxnId : call[t].key # NoKey =>
       \E s \in Session : current(s, t) /\ op[s].kind \in {"put", "get"}
  /\ \A s \in Session : op[s].kind = "read" => op[s].key \in DOMAIN txn[s].held

\* What the invariants say of one session that has a transaction.
LEMMA OwnAccounted ==
  ASSUME DInv, KInv, JInv, NEW s \in Session, txn[s].state = "ACTIVE"
  PROVE  /\ \A k \in DOMAIN lock_table : txn[s].id \in lock_table[k].holders =>
              accounted(txn[s], op[s], call, k)
         /\ call[txn[s].id].key # NoKey => op[s].kind \in {"put", "get"}
<1>1. txn[s].id \in TxnId
  BY InCall
<1>2. \A u \in Session : current(u, txn[s].id) => u = s
  BY DEF KInv, current
<1> QED BY <1>1, <1>2 DEF JInv

\* A step of one session: what is left to show of the session itself.
LEMMA JMoves ==
  ASSUME DInv, LM!IInv, LM!IInv', KInv, JInv, NEW s \in Session,
         \/ lock_table' = lock_table /\ call' = call
         \/ txn[s].state = "ACTIVE" /\ txn[s].id \in TxnId /\ LM!StepOf(txn[s].id),
         NEW x, NEW o, txn' = [txn EXCEPT ![s] = x], op' = [op EXCEPT ![s] = o],
         txn[s].state = "ACTIVE" =>
           /\ \A k \in DOMAIN lock_table' : txn[s].id \in lock_table'[k].holders =>
                x.state = "ACTIVE" /\ x.id = txn[s].id /\ accounted(x, o, call', k)
           /\ call'[txn[s].id].key # NoKey =>
                x.state = "ACTIVE" /\ x.id = txn[s].id /\ o.kind \in {"put", "get"},
         o.kind = "read" => o.key \in DOMAIN x.held
  PROVE  JInv'
<1>1. /\ txn'[s] = x /\ op'[s] = o
      /\ \A u \in Session \ {s} : txn'[u] = txn[u] /\ op'[u] = op[u]
  BY Facts
<1>2. ASSUME NEW w \in TxnId, ~current(s, w)
      PROVE  /\ call[w].granted => call'[w].granted
             /\ call'[w].key = call[w].key
             /\ \A k \in DOMAIN lock_table' : w \in lock_table'[k].holders =>
                  /\ k \in DOMAIN lock_table
                  /\ w \in lock_table[k].holders \/ (call[w].key = k /\ call'[w].granted)
  <2>1. CASE lock_table' = lock_table /\ call' = call
    BY <2>1
  <2>2. CASE txn[s].state = "ACTIVE" /\ txn[s].id \in TxnId /\ LM!StepOf(txn[s].id)
    <3> DEFINE t == txn[s].id
    <3>1. t \in TxnId /\ LM!StepOf(t) /\ w # t
      BY <1>2, <2>2 DEF current
    <3> HIDE DEF t
    <3>2. call'[w].key = call[w].key
      BY <3>1, OwnsKept
    <3>3. /\ w \in TxnId /\ call[w].granted => call'[w].granted
          /\ \A k \in DOMAIN lock_table' : w \in lock_table'[k].holders =>
               /\ k \in DOMAIN lock_table
               /\ w \in lock_table[k].holders \/ (call[w].key = k /\ call'[w].granted)
      BY <3>1, NoKeyOK, LM!OtherHolders
    <3> QED BY <3>2, <3>3
  <2> QED BY <2>1, <2>2
<1>3. ASSUME NEW k \in DOMAIN lock_table', NEW w \in lock_table'[k].holders
      PROVE  \E u \in Session : txn'[u].state = "ACTIVE" /\ txn'[u].id = w /\ accounted(txn'[u], op'[u], call', k)
  <2>1. CASE current(s, w)
    BY <1>1, <1>3, <2>1 DEF current
  <2>2. CASE ~current(s, w)
    <3>1. k \in Key /\ w \in TxnId
      BY <1>3 DEF LM!IInv, LM!TypeOK, LM!LockEntry
    <3>2. PICK u \in Session : current(u, w) /\ accounted(txn[u], op[u], call', k)
      <4>1. CASE k \in DOMAIN lock_table /\ w \in lock_table[k].holders
        <5>1. PICK u \in Session : current(u, w) /\ accounted(txn[u], op[u], call, k)
          BY <4>1 DEF JInv
        <5> QED BY <1>2, <2>2, <3>1, <5>1 DEF accounted, current
      <4>2. CASE call[w].key = k /\ call'[w].granted
        <5>1. PICK u \in Session : current(u, w) /\ op[u].kind \in {"put", "get"}
          BY <3>1, <4>2, NoKeyOK DEF JInv
        <5>2. call[w].key = op[u].key
          BY <5>1 DEF KInv, LockOK, current
        <5> QED BY <4>2, <5>1, <5>2 DEF accounted, current
      <4> QED BY <1>2, <1>3, <2>2, <3>1, <4>1, <4>2
    <3>3. u # s
      BY <2>2, <3>2
    <3> QED BY <1>1, <3>2, <3>3 DEF current
  <2> QED BY <2>1, <2>2
<1>4. ASSUME NEW w \in TxnId, call'[w].key # NoKey
      PROVE  \E u \in Session : txn'[u].state = "ACTIVE" /\ txn'[u].id = w /\ op'[u].kind \in {"put", "get"}
  <2>1. CASE current(s, w)
    BY <1>1, <1>4, <2>1 DEF current
  <2>2. CASE ~current(s, w)
    <3>1. PICK u \in Session : current(u, w) /\ op[u].kind \in {"put", "get"}
      BY <1>2, <1>4, <2>2 DEF JInv
    <3>2. u # s
      BY <2>2, <3>1
    <3> QED BY <1>1, <3>1, <3>2 DEF current
  <2> QED BY <2>1, <2>2
<1>5. ASSUME NEW u \in Session, op'[u].kind = "read"
      PROVE  op'[u].key \in DOMAIN txn'[u].held
  BY <1>1, <1>5 DEF JInv
<1> QED BY <1>3, <1>4, <1>5 DEF JInv, current

\* A change of locks_held alone.
LEMMA HeldIs ==
  ASSUME DInv, NEW s \in Session, txn[s].state = "ACTIVE", NEW h, txn' = [txn EXCEPT ![s].held = h]
  PROVE  \E x : txn' = [txn EXCEPT ![s] = x] /\ x.id = txn[s].id /\ x.state = "ACTIVE" /\ x.held = h
<1> DEFINE x == [id |-> txn[s].id, state |-> txn[s].state, iso |-> txn[s].iso,
                 pending |-> txn[s].pending, held |-> h]
<1>1. [txn[s] EXCEPT !.held = h] = x
  BY Facts DEF Txns
<1>2. x.id = txn[s].id /\ x.state = "ACTIVE" /\ x.held = h
  OBVIOUS
<1> HIDE DEF x
<1> QED BY <1>1, <1>2

\* No call is blocked while the session is not in put or get.
LEMMA NotBlocked ==
  ASSUME DInv, LM!IInv, KInv, JInv, NEW s \in Session, txn[s].state = "ACTIVE",
         op[s].kind \notin {"put", "get"}
  PROVE  /\ call[txn[s].id].key = NoKey
         /\ \A k \in DOMAIN lock_table : txn[s].id \in lock_table[k].holders => k \in DOMAIN txn[s].held
  BY OwnAccounted DEF accounted

\* The holders after acquireLock, for its caller.
LEMMA OwnAcquire ==
  ASSUME LM!IInv, NEW t \in TxnId, NEW k \in Key, NEW m,
         \/ Locks!AcquireHeld(t, k, m) \/ Locks!AcquireUpgrade(t, k, m)
         \/ Locks!AcquireGrant(t, k, m) \/ Locks!AcquireWait(t, k, m),
         NEW j \in DOMAIN lock_table', t \in lock_table'[j].holders
  PROVE  \/ j \in DOMAIN lock_table /\ t \in lock_table[j].holders
         \/ j = k /\ ~Locks!AcquireWait(t, k, m)
<1>1. \/ LM!AcquireHeld(t, k, m) \/ LM!AcquireUpgrade(t, k, m)
      \/ LM!AcquireGrant(t, k, m) \/ LM!AcquireWait(t, k, m)
  BY SameAcquire
<1>2. \/ j \in DOMAIN lock_table /\ t \in lock_table[j].holders
      \/ t = t /\ j = k /\ ~LM!AcquireWait(t, k, m)
  BY <1>1, NoKeyOK, LM!HoldersAfterAcquire
<1> QED BY <1>2, SameAcquire

LEMMA PutJ ==
  ASSUME DInv, LM!IInv, LM!IInv', KInv, JInv, NEW s \in Session, NEW k \in Key,
         NEW v \in {txn[s].id, Absent}, Put(s, k, v)
  PROVE  JInv'
<1>1. /\ txn[s].state = "ACTIVE" /\ txn[s].id \in TxnId /\ op[s] = NoOp /\ NoOp.kind = "none"
      /\ LM!StepOf(txn[s].id)
  <2>1. txn[s].state = "ACTIVE" /\ txn[s].id \in TxnId /\ op[s] = NoOp /\ NoOp.kind = "none"
    BY InCall DEF Put, ready, NoOp, within
  <2>2. LM!StepOf(txn[s].id)
    BY AcquireStep DEF Put, acquiredAtOnce
  <2> QED BY <2>1, <2>2
<1>2. /\ call[txn[s].id].key = NoKey
      /\ \A j \in DOMAIN lock_table : txn[s].id \in lock_table[j].holders => j \in DOMAIN txn[s].held
  BY <1>1, NotBlocked
<1>3. CASE acquiredAtOnce(s, k, "EXCLUSIVE") /\ bufferWrite(s, k, v) /\ UNCHANGED op
  <2>1. PICK x : /\ txn' = [txn EXCEPT ![s] = x]
                 /\ x.id = txn[s].id /\ x.state = "ACTIVE"
                 /\ x.held = put(txn[s].held, k, "EXCLUSIVE")
    BY <1>1, <1>3, BufferWriteOK
  <2>2. DOMAIN x.held = DOMAIN txn[s].held \cup {k}
    BY <2>1 DEF put
  <2>3. \A j \in DOMAIN lock_table' : txn[s].id \in lock_table'[j].holders => j \in DOMAIN x.held
    BY <1>1, <1>2, <1>3, <2>2, OwnAcquire DEF acquiredAtOnce
  <2>4. call' = call
    BY <1>3 DEF acquiredAtOnce, Locks!AcquireHeld, Locks!AcquireUpgrade, Locks!AcquireGrant, Locks!lockVars
  <2>5. op' = [op EXCEPT ![s] = NoOp]
    BY <1>1, <1>3, SameOp
  <2>6. \A j \in DOMAIN lock_table' : txn[s].id \in lock_table'[j].holders => accounted(x, NoOp, call', j)
    BY <2>3 DEF accounted
  <2> QED BY <1>1, <1>2, <2>1, <2>4, <2>5, <2>6, JMoves
<1>4. CASE /\ Locks!AcquireWait(txn[s].id, k, "EXCLUSIVE")
           /\ op' = [op EXCEPT ![s] = within("put", k, v)] /\ UNCHANGED txn
  <2> DEFINE o == within("put", k, v)
  <2>1. o.kind = "put"
    BY DEF within
  <2> HIDE DEF o
  <2>2. \A j \in DOMAIN lock_table' : txn[s].id \in lock_table'[j].holders => j \in DOMAIN txn[s].held
    BY <1>1, <1>2, <1>4, OwnAcquire
  <2>3. \A j \in DOMAIN lock_table' : txn[s].id \in lock_table'[j].holders => accounted(txn[s], o, call', j)
    BY <2>2 DEF accounted
  <2>4. op' = [op EXCEPT ![s] = o]
    BY <1>4 DEF o
  <2> QED BY <1>1, <1>4, <2>1, <2>3, <2>4, SameTxn, JMoves
<1> QED BY <1>3, <1>4 DEF Put

LEMMA GetJ ==
  ASSUME DInv, LM!IInv, LM!IInv', KInv, JInv, NEW s \in Session, NEW k \in Key, Get(s, k)
  PROVE  JInv'
<1>1. /\ txn[s].state = "ACTIVE" /\ txn[s].id \in TxnId /\ op[s] = NoOp /\ NoOp.kind = "none"
      /\ LM!StepOf(txn[s].id)
  <2>1. txn[s].state = "ACTIVE" /\ txn[s].id \in TxnId /\ op[s] = NoOp /\ NoOp.kind = "none"
    BY InCall DEF Get, ready, NoOp, within
  <2>2. LM!StepOf(txn[s].id)
    BY AcquireStep DEF Get, acquiredAtOnce
  <2> QED BY <2>1, <2>2
<1>2. /\ call[txn[s].id].key = NoKey
      /\ \A j \in DOMAIN lock_table : txn[s].id \in lock_table[j].holders => j \in DOMAIN txn[s].held
  BY <1>1, NotBlocked
<1>3. CASE /\ acquiredAtOnce(s, k, "SHARED")
           /\ op' = [op EXCEPT ![s] = within("read", k, Absent)]
           /\ txn' = [txn EXCEPT ![s].held = put(@, k, "SHARED")]
  <2> DEFINE o == within("read", k, Absent)
             h == put(txn[s].held, k, "SHARED")
  <2>1. o.kind = "read" /\ o.key = k
    BY DEF within
  <2>2. DOMAIN h = DOMAIN txn[s].held \cup {k}
    BY DEF put
  <2>3. txn' = [txn EXCEPT ![s].held = h] /\ op' = [op EXCEPT ![s] = o]
    BY <1>3
  <2> HIDE DEF o, h
  <2>4. PICK x : txn' = [txn EXCEPT ![s] = x] /\ x.id = txn[s].id /\ x.state = "ACTIVE" /\ x.held = h
    BY <1>1, <2>3, HeldIs
  <2>5. \A j \in DOMAIN lock_table' : txn[s].id \in lock_table'[j].holders => accounted(x, o, call', j)
    BY <1>1, <1>2, <1>3, <2>2, <2>4, OwnAcquire DEF acquiredAtOnce, accounted
  <2>6. call' = call
    BY <1>3 DEF acquiredAtOnce, Locks!AcquireHeld, Locks!AcquireUpgrade, Locks!AcquireGrant, Locks!lockVars
  <2> QED BY <1>1, <1>2, <2>1, <2>2, <2>3, <2>4, <2>5, <2>6, JMoves
<1>4. CASE /\ Locks!AcquireWait(txn[s].id, k, "SHARED")
           /\ op' = [op EXCEPT ![s] = within("get", k, Absent)] /\ UNCHANGED txn
  <2> DEFINE o == within("get", k, Absent)
  <2>1. o.kind = "get"
    BY DEF within
  <2> HIDE DEF o
  <2>2. \A j \in DOMAIN lock_table' : txn[s].id \in lock_table'[j].holders => accounted(txn[s], o, call', j)
    BY <1>1, <1>2, <1>4, OwnAcquire DEF accounted
  <2>3. op' = [op EXCEPT ![s] = o]
    BY <1>4 DEF o
  <2> QED BY <1>1, <1>4, <2>1, <2>2, <2>3, SameTxn, JMoves
<1> QED BY <1>3, <1>4 DEF Get

LEMMA ResumeJ ==
  ASSUME DInv, LM!IInv, LM!IInv', KInv, JInv, NEW s \in Session, Resume(s)
  PROVE  JInv'
<1>1. /\ txn[s].state = "ACTIVE" /\ txn[s].id \in TxnId /\ op[s].kind \in {"put", "get"}
      /\ LM!WakeGranted(txn[s].id) /\ lock_table' = lock_table /\ op[s].key \in Key
      /\ op[s].kind = "put" => op[s].value \in {txn[s].id, Absent}
  <2>1. op[s].kind \in {"put", "get"} /\ LM!WakeGranted(txn[s].id)
    BY SameReturn DEF Resume
  <2>2. txn[s].state = "ACTIVE" /\ txn[s].id \in TxnId
    BY <2>1, InCall
  <2>3. op[s].key \in Key /\ (op[s].kind = "put" => op[s].value \in {txn[s].id, Absent})
    BY <2>1, Facts DEF SessionOK
  <2> QED BY <2>1, <2>2, <2>3 DEF LM!WakeGranted
<1>2. LM!StepOf(txn[s].id)
  BY <1>1 DEF LM!StepOf
<1>3. call'[txn[s].id].key = NoKey
  BY <1>1 DEF LM!WakeGranted, LM!Idle, LM!IInv, LM!TypeOK
<1>4. \A j \in DOMAIN lock_table' : txn[s].id \in lock_table'[j].holders =>
        j \in DOMAIN txn[s].held \cup {op[s].key}
  BY <1>1, OwnAccounted DEF accounted
<1>5. CASE /\ op[s].kind = "put" /\ bufferWrite(s, op[s].key, op[s].value)
           /\ op' = [op EXCEPT ![s] = NoOp]
  <2>1. PICK x : /\ txn' = [txn EXCEPT ![s] = x]
                 /\ x.id = txn[s].id /\ x.state = "ACTIVE"
                 /\ x.held = put(txn[s].held, op[s].key, "EXCLUSIVE")
    BY <1>1, <1>5, BufferWriteOK
  <2>2. DOMAIN x.held = DOMAIN txn[s].held \cup {op[s].key} /\ NoOp.kind = "none"
    BY <2>1 DEF put, NoOp, within
  <2>3. \A j \in DOMAIN lock_table' : txn[s].id \in lock_table'[j].holders => accounted(x, NoOp, call', j)
    BY <1>4, <2>2 DEF accounted
  <2> QED BY <1>1, <1>2, <1>3, <1>5, <2>1, <2>2, <2>3, JMoves
<1>6. CASE /\ op[s].kind = "get" /\ txn' = [txn EXCEPT ![s].held = put(@, op[s].key, "SHARED")]
           /\ op' = [op EXCEPT ![s].kind = "read"]
  <2> DEFINE o == [op[s] EXCEPT !.kind = "read"]
             h == put(txn[s].held, op[s].key, "SHARED")
  <2>1. o.kind = "read" /\ o.key = op[s].key /\ op' = [op EXCEPT ![s] = o]
    BY <1>6, Facts DEF Ops
  <2>2. DOMAIN h = DOMAIN txn[s].held \cup {op[s].key} /\ txn' = [txn EXCEPT ![s].held = h]
    BY <1>6 DEF put
  <2> HIDE DEF o, h
  <2>3. PICK x : txn' = [txn EXCEPT ![s] = x] /\ x.id = txn[s].id /\ x.state = "ACTIVE" /\ x.held = h
    BY <1>1, <2>2, HeldIs
  <2>4. \A j \in DOMAIN lock_table' : txn[s].id \in lock_table'[j].holders => accounted(x, o, call', j)
    BY <1>4, <2>2, <2>3 DEF accounted
  <2> QED BY <1>1, <1>2, <1>3, <2>1, <2>2, <2>3, <2>4, JMoves
<1> QED BY <1>5, <1>6 DEF Resume

\* A time-out finds the flag unset: what the transaction holds of the key, if
\* its call is an upgrade, is in locks_held.
LEMMA GiveUpJ ==
  ASSUME DInv, LM!IInv, LM!IInv', KInv, JInv, NEW s \in Session, GiveUp(s)
  PROVE  JInv'
<1> DEFINE o == within("abort", NoKey, Absent)
<1>1. /\ op[s].kind \in {"put", "get"} /\ LM!Timeout(txn[s].id)
      /\ op' = [op EXCEPT ![s] = o] /\ UNCHANGED txn
  BY SameReturn DEF GiveUp
<1>2. txn[s].state = "ACTIVE" /\ txn[s].id \in TxnId
  BY <1>1, InCall
<1>3. LM!StepOf(txn[s].id)
  BY <1>1 DEF LM!StepOf
<1>4. call'[txn[s].id].key = NoKey
  BY <1>1, <1>2 DEF LM!Timeout, LM!Idle, LM!IInv, LM!TypeOK
<1>5. ~call[txn[s].id].granted
  BY <1>1 DEF LM!Timeout
<1>6. ASSUME NEW t \in TxnId, LM!Timeout(t), NEW j \in DOMAIN lock_table', t \in lock_table'[j].holders
      PROVE  j \in DOMAIN lock_table /\ t \in lock_table[j].holders
  BY <1>6, NoKeyOK, LM!HoldersAfterTimeout
<1>7. o.kind = "abort"
  BY DEF within
<1> HIDE DEF o
<1>8. \A j \in DOMAIN lock_table' : txn[s].id \in lock_table'[j].holders => j \in DOMAIN txn[s].held
  BY <1>1, <1>2, <1>5, <1>6, OwnAccounted DEF accounted
<1>9. \A j \in DOMAIN lock_table' : txn[s].id \in lock_table'[j].holders => accounted(txn[s], o, call', j)
  BY <1>8 DEF accounted
<1> QED BY <1>1, <1>2, <1>3, <1>4, <1>7, <1>9, SameTxn, JMoves

\* What the caller of a release holds afterwards.
LEMMA OwnRelease ==
  ASSUME LM!IInv, NEW t \in TxnId, NEW k
  PROVE  /\ Locks!ReleaseLock(t, k) =>
              /\ call'[t].key = NoKey
              /\ \A j \in DOMAIN lock_table' : t \in lock_table'[j].holders =>
                   j \in DOMAIN lock_table /\ t \in lock_table[j].holders /\ j # k
         /\ Locks!ReleaseAllLocks(t) =>
              /\ call'[t].key = NoKey
              /\ \A j \in DOMAIN lock_table' : t \notin lock_table'[j].holders
<1>1. ASSUME NEW K, K \subseteq DOMAIN lock_table, call[t] = LM!Idle, LM!release(t, K)
      PROVE  /\ call'[t].key = NoKey
             /\ \A j \in DOMAIN lock_table' : t \in lock_table'[j].holders =>
                  j \in DOMAIN lock_table /\ t \in lock_table[j].holders /\ j \notin K
  <2>1. call'[t].key = call[t].key
    BY <1>1, NoKeyOK, LM!ReleaseKeepsCalls DEF LM!IInv
  <2>2. call[t].key = NoKey
    BY <1>1 DEF LM!Idle
  <2> QED BY <1>1, <2>1, <2>2, NoKeyOK, LM!OwnAfterRelease
<1>2. ASSUME Locks!ReleaseLock(t, k)
      PROVE  /\ call'[t].key = NoKey
             /\ \A j \in DOMAIN lock_table' : t \in lock_table'[j].holders =>
                  j \in DOMAIN lock_table /\ t \in lock_table[j].holders /\ j # k
  <2> DEFINE K == {k} \cap DOMAIN lock_table
  <2>1. K \subseteq DOMAIN lock_table /\ call[t] = LM!Idle /\ LM!release(t, K)
    BY <1>2, SameRelease DEF LM!ReleaseLock
  <2>2. \A j \in DOMAIN lock_table : j \notin K => j # k
    OBVIOUS
  <2> HIDE DEF K
  <2> QED BY <1>1, <2>1, <2>2
<1>3. ASSUME Locks!ReleaseAllLocks(t)
      PROVE  /\ call'[t].key = NoKey
             /\ \A j \in DOMAIN lock_table' : t \notin lock_table'[j].holders
  <2> DEFINE K == {j \in DOMAIN lock_table : t \in lock_table[j].holders}
  <2>1. K \subseteq DOMAIN lock_table /\ call[t] = LM!Idle /\ LM!release(t, K)
    BY <1>3, SameRelease DEF LM!ReleaseAllLocks
  <2>2. \A j \in DOMAIN lock_table : t \in lock_table[j].holders => j \in K
    OBVIOUS
  <2> HIDE DEF K
  <2> QED BY <1>1, <2>1, <2>2
<1> QED BY <1>2, <1>3

LEMMA ReadJ ==
  ASSUME DInv, LM!IInv, LM!IInv', KInv, JInv, NEW s \in Session, Read(s)
  PROVE  JInv'
<1>1. op[s].kind = "read" /\ op' = [op EXCEPT ![s] = NoOp]
  BY DEF Read
<1>2. txn[s].state = "ACTIVE" /\ txn[s].id \in TxnId /\ NoOp.kind = "none"
  BY <1>1, InCall DEF NoOp, within
<1>3. /\ call[txn[s].id].key = NoKey
      /\ \A j \in DOMAIN lock_table : txn[s].id \in lock_table[j].holders => j \in DOMAIN txn[s].held
  BY <1>1, <1>2, NotBlocked
<1>4. CASE ~releasesAfterRead(s)
  <2>1. lock_table' = lock_table /\ call' = call /\ UNCHANGED txn
    BY <1>4 DEF Read, lockVars
  <2>2. \A j \in DOMAIN lock_table' : txn[s].id \in lock_table'[j].holders => accounted(txn[s], NoOp, call', j)
    BY <1>3, <2>1 DEF accounted
  <2> QED BY <1>1, <1>2, <1>3, <2>1, <2>2, SameTxn, JMoves
<1>5. CASE releasesAfterRead(s)
  <2> DEFINE k == op[s].key
             h == erase(txn[s].held, k)
  <2>1. Locks!ReleaseLock(txn[s].id, k) /\ txn' = [txn EXCEPT ![s].held = h] /\ k \in Key
    BY <1>1, <1>5, Facts DEF Read, SessionOK
  <2>2. LM!StepOf(txn[s].id)
    BY <2>1, SameRelease DEF LM!StepOf
  <2>3. DOMAIN h = DOMAIN txn[s].held \ {k}
    BY DEF erase
  <2> HIDE DEF k, h
  <2>4. PICK x : txn' = [txn EXCEPT ![s] = x] /\ x.id = txn[s].id /\ x.state = "ACTIVE" /\ x.held = h
    BY <1>2, <2>1, HeldIs
  <2>5. /\ call'[txn[s].id].key = NoKey
        /\ \A j \in DOMAIN lock_table' : txn[s].id \in lock_table'[j].holders => j \in DOMAIN h
    BY <1>2, <1>3, <2>1, <2>3, OwnRelease
  <2>6. \A j \in DOMAIN lock_table' : txn[s].id \in lock_table'[j].holders => accounted(x, NoOp, call', j)
    BY <2>4, <2>5 DEF accounted
  <2> QED BY <1>1, <1>2, <2>2, <2>4, <2>5, <2>6, JMoves
<1> QED BY <1>4, <1>5

LEMMA QuietJ ==
  ASSUME DInv, LM!IInv, LM!IInv', KInv, JInv, NEW s \in Session,
         Commit(s) \/ LogWrite(s) \/ LogCommit(s) \/ Synced(s) \/ Apply(s)
  PROVE  JInv'
<1>1. /\ lock_table' = lock_table /\ call' = call /\ UNCHANGED txn
      /\ op[s].kind \in {"none", "log", "sync", "apply"}
  BY DEF Commit, LogWrite, LogCommit, Synced, Apply, lockVars, ready, NoOp, within
<1>2. txn[s].state = "ACTIVE"
  BY <1>1, InCall DEF Commit, LogWrite, LogCommit, Synced, Apply, ready
<1>3. PICK o : op' = [op EXCEPT ![s] = o] /\ o.kind \in {"log", "sync", "apply"}
  BY QuietOp
<1>4. /\ call[txn[s].id].key = NoKey
      /\ \A j \in DOMAIN lock_table : txn[s].id \in lock_table[j].holders => j \in DOMAIN txn[s].held
  BY <1>1, <1>2, NotBlocked
<1>5. \A j \in DOMAIN lock_table' : txn[s].id \in lock_table'[j].holders => accounted(txn[s], o, call', j)
  BY <1>1, <1>4 DEF accounted
<1> QED BY <1>1, <1>2, <1>3, <1>4, <1>5, SameTxn, JMoves

\* commit and abort give up every lock.
LEMMA EdgeJ ==
  ASSUME DInv, LM!IInv, LM!IInv', KInv, JInv, NEW s \in Session,
         (\E iso \in Isolation : Begin(s, iso)) \/ Abort(s) \/ Finish(s)
  PROVE  JInv'
<1>1. NoOp.kind = "none"
  BY DEF NoOp, within
<1>2. CASE Abort(s) \/ Finish(s)
  <2>1. txn[s].state = "ACTIVE" /\ txn[s].id \in TxnId
    BY <1>2, InCall DEF Abort, Finish, ready
  <2>2. /\ txn' = [txn EXCEPT ![s] = IdleTxn] /\ op' = [op EXCEPT ![s] = NoOp]
        /\ Locks!ReleaseAllLocks(txn[s].id)
    BY <1>2 DEF Abort, Finish
  <2>3. LM!StepOf(txn[s].id)
    BY <2>2, SameRelease DEF LM!StepOf
  <2>4. /\ call'[txn[s].id].key = NoKey
        /\ \A j \in DOMAIN lock_table' : txn[s].id \notin lock_table'[j].holders
    BY <2>1, <2>2, OwnRelease
  <2> QED BY <1>1, <2>1, <2>2, <2>3, <2>4, JMoves
<1>3. ASSUME NEW iso \in Isolation, Begin(s, iso)
      PROVE  JInv'
  <2> DEFINE x == [id |-> next_txn_id, state |-> "ACTIVE", iso |-> iso, pending |-> NoMap, held |-> NoMap]
  <2>1. /\ txn' = [txn EXCEPT ![s] = x] /\ UNCHANGED op /\ op[s] = NoOp /\ txn[s].state # "ACTIVE"
        /\ lock_table' = lock_table /\ call' = call
    BY <1>3, Facts DEF Begin, SessionOK, lockVars
  <2> HIDE DEF x
  <2>2. op' = [op EXCEPT ![s] = NoOp]
    BY <2>1, SameOp
  <2> QED BY <1>1, <2>1, <2>2, JMoves
<1> QED BY <1>2, <1>3

LEMMA JInvNext ==
  ASSUME DInv, LM!IInv, LM!IInv', KInv, JInv, [Next]_vars
  PROVE  JInv'
<1>1. ASSUME NEW s \in Session, Command(s)
      PROVE  JInv'
  BY <1>1, EdgeJ, PutJ, GetJ, QuietJ DEF Command
<1>2. ASSUME NEW s \in Session, Abort(s) \/ Continue(s)
      PROVE  JInv'
  BY <1>2, EdgeJ, ResumeJ, GiveUpJ, ReadJ, QuietJ DEF Continue
<1>3. CASE Flush \/ UNCHANGED vars
  BY <1>3 DEF Flush, vars, tmVars, lockVars, JInv, current
<1> QED BY <1>1, <1>2, <1>3 DEF Next

\* commit, abort and time-outs leave no lock behind: a holder in the lock table
\* is the transaction of a session that knows of the lock.
THEOREM LocksAreAccounted == Spec => []NoLeakedLock
<1>1. Init => JInv
  <2> SUFFICES ASSUME Init PROVE JInv
    OBVIOUS
  <2>1. DOMAIN lock_table = {} /\ \A t \in TxnId : call[t].key = NoKey
    BY DEF Init, Locks!Init, Locks!Idle
  <2>2. \A s \in Session : op[s].kind = "none"
    BY DEF Init, NoOp, within
  <2> QED BY <2>1, <2>2 DEF JInv
<1>2. (DInv /\ LM!IInv /\ KInv) /\ LM!IInv' /\ JInv /\ [Next]_vars => JInv'
  BY JInvNext
<1>3. JInv => NoLeakedLock
  <2> SUFFICES ASSUME JInv, NEW k \in DOMAIN lock_table, NEW t \in lock_table[k].holders
               PROVE  \E s \in Session : txn[s].id = t /\ (k \in DOMAIN txn[s].held \/ op[s].key = k)
    BY DEF NoLeakedLock
  <2>1. PICK s \in Session : current(s, t) /\ accounted(txn[s], op[s], call, k)
    BY DEF JInv
  <2> QED BY <2>1 DEF current, accounted
<1> QED BY <1>1, <1>2, <1>3, SessionInvariant, PTL DEF Spec
=============================================================================
