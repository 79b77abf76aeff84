----------------------------- MODULE ReplayProofs -----------------------------
(* Proofs about TransactionManager, for any number of sessions, keys and   *)
(* transactions: what a replay of the log says, the store holds, as long   *)
(* as nobody reads or writes what another has buffered.  Nothing here is   *)
(* about locks.                                                            *)
EXTENDS TransactionLogProofs

\* The record at i is a WRITE of k by t; the one at i is the COMMIT of a
\* transaction that has written k.
writes(l, i, t, k) == l[i].entry.kind = "WRITE" /\ l[i].entry.txn = t /\ l[i].entry.key = k
commits(l, i, k)   == l[i].entry.kind = "COMMIT" /\ \E j \in 1 .. i : writes(l, j, l[i].entry.txn, k)

\* The log l says that k has the value v.
Latest(l, k, v) ==
  \/ v = Absent /\ \A i \in 1 .. Len(l) : ~commits(l, i, k)
  \/ \E i \in 1 .. Len(l) :
       /\ commits(l, i, k) /\ \A h \in 1 .. Len(l) : commits(l, h, k) => h <= i
       /\ \E j \in 1 .. Len(l) : writes(l, j, l[i].entry.txn, k) /\ l[j].entry.value = v

\* The keys that commit has logged so far.
logged(x, o) ==
  IF o.kind = "log" THEN DOMAIN x.pending \ o.todo
  ELSE IF o.kind \in {"sync", "apply"} THEN DOMAIN x.pending ELSE {}

\* A transaction's WRITEs in the log l are what it has buffered of those keys.
LoggedOK(x, o, l) ==
  /\ \A i \in 1 .. Len(l), k \in Key :
       writes(l, i, x.id, k) => k \in logged(x, o) /\ l[i].entry.value = x.pending[k]
  /\ \A k \in logged(x, o) : \E i \in 1 .. Len(l) : writes(l, i, x.id, k)

\* A transaction logs a key once; the next transaction is new to the log.
Once(l) ==
  \A i, j \in 1 .. Len(l), t \in TxnId, k \in Key :
    writes(l, i, t, k) /\ writes(l, j, t, k) => i = j

WInv ==
  /\ Once(log)
  /\ \A i \in 1 .. Len(log) : log[i].entry.txn < next_txn_id
  /\ \A s \in Session : txn[s].state = "ACTIVE" => LoggedOK(txn[s], op[s], log)

\* The call o of the transaction x has still to apply k.
applies(x, o, k) == (o.kind = "sync" /\ k \in DOMAIN x.pending) \/ (o.kind = "apply" /\ k \in o.todo)

\* The log says what the store holds, or will hold when a committing session
\* has applied its writes, and what the transactions have read.
VInv ==
  /\ reads \in [Session -> partial(Key, Value)]
  /\ \A k \in Key :
       /\ (\A s \in Session : ~applies(txn[s], op[s], k)) => Latest(log, k, store[k])
       /\ \A s \in Session : applies(txn[s], op[s], k) => Latest(log, k, txn[s].pending[k])
       /\ \A s \in Session : k \in DOMAIN reads[s] /\ op[s].kind \notin {"sync", "apply"} =>
            Latest(log, k, reads[s][k])

\* What the lock manager and the server's counter give: transactions have
\* their own ids, and nobody reads or writes what another has buffered.
Ids ==
  /\ \A s \in Session : txn[s].state = "ACTIVE" => txn[s].id < next_txn_id
  /\ \A s, u \in Session : s # u /\ txn[s].state = "ACTIVE" /\ txn[u].state = "ACTIVE" =>
       txn[s].id # txn[u].id

Separate ==
  \A s, u \in Session : s # u =>
    \A k \in DOMAIN txn[s].pending :
      /\ k \notin DOMAIN txn[u].pending /\ k \notin DOMAIN reads[u]
      /\ ~(op[u].kind = "read" /\ op[u].key = k)

-----------------------------------------------------------------------------
(* What the log says of a key.                                             *)

\* How a log m goes on from a log l.
extends(m, l) == Len(l) \in Nat /\ Len(m) = Len(l) + 1 /\ \A i \in 1 .. Len(l) : m[i] = l[i]

\* A record that is not the COMMIT of a write of k says nothing new of k.
LEMMA LatestKept ==
  ASSUME NEW l, NEW m, extends(m, l), NEW k, NEW v, Latest(l, k, v), ~commits(m, Len(l) + 1, k)
  PROVE  Latest(m, k, v)
<1>1. \A i \in 1 .. Len(l) : commits(m, i, k) <=> commits(l, i, k)
  BY DEF extends, commits, writes
<1>2. \A i \in 1 .. Len(m) : i \in 1 .. Len(l) \/ i = Len(l) + 1
  BY DEF extends
<1>3. CASE v = Absent /\ \A i \in 1 .. Len(l) : ~commits(l, i, k)
  BY <1>1, <1>2, <1>3 DEF Latest
<1>4. ASSUME NEW i \in 1 .. Len(l), commits(l, i, k), \A h \in 1 .. Len(l) : commits(l, h, k) => h <= i,
             NEW j \in 1 .. Len(l), writes(l, j, l[i].entry.txn, k), l[j].entry.value = v
      PROVE  Latest(m, k, v)
  <2>1. i \in 1 .. Len(m) /\ j \in 1 .. Len(m) /\ m[i] = l[i] /\ m[j] = l[j]
    BY DEF extends
  <2>2. commits(m, i, k) /\ writes(m, j, m[i].entry.txn, k) /\ m[j].entry.value = v
    BY <1>1, <1>4, <2>1 DEF writes
  <2>3. \A h \in 1 .. Len(m) : commits(m, h, k) => h <= i
    BY <1>1, <1>2, <1>4
  <2> QED BY <2>1, <2>2, <2>3 DEF Latest
<1> QED BY <1>3, <1>4 DEF Latest

\* The COMMIT of a write of k says that k has the value written.
LEMMA LatestNew ==
  ASSUME NEW l, NEW m, extends(m, l), NEW k, NEW j \in 1 .. Len(l),
         m[Len(l) + 1].entry.kind = "COMMIT", writes(m, j, m[Len(l) + 1].entry.txn, k)
  PROVE  Latest(m, k, m[j].entry.value)
<1> DEFINE i == Len(l) + 1
<1>1. i \in 1 .. Len(m) /\ j \in 1 .. i /\ j \in 1 .. Len(m) /\ \A h \in 1 .. Len(m) : h <= i
  BY DEF extends
<1>2. m[i].entry.kind = "COMMIT" /\ writes(m, j, m[i].entry.txn, k)
  OBVIOUS
<1> HIDE DEF i
<1>3. commits(m, i, k)
  BY <1>1, <1>2 DEF commits
<1> QED BY <1>1, <1>2, <1>3 DEF Latest

\* The greatest element of a set, when there is one.
LEMMA MaxIs ==
  ASSUME NEW C \in SUBSET Nat, NEW i \in C, \A h \in C : h <= i
  PROVE  Max(C) = i
<1>1. \E x \in C : \A y \in C : x >= y
  OBVIOUS
<1>2. Max(C) \in C /\ \A y \in C : Max(C) >= y
  BY <1>1, Zenon DEF Max
<1> DEFINE n == Max(C)
<1>3. n \in Nat /\ n <= i /\ n >= i /\ i \in Nat
  BY <1>2, Zenon
<1> HIDE DEF n
<1>4. n = i
  BY <1>3
<1> QED BY <1>4 DEF n

\* The records of the log are numbered from 1 and name a transaction.
LEMMA LogTypes ==
  ASSUME LogOK
  PROVE  /\ DOMAIN log = 1 .. Len(log) /\ Len(log) \in Nat
         /\ \A i \in 1 .. Len(log) : log[i].entry.txn \in TxnId /\ log[i].entry.txn \in Nat
<1>1. log \in Seq(Recs)
  BY DEF LogOK
<1>2. \A i \in 1 .. Len(log) : log[i] \in Recs
  BY <1>1, ElementOfSeq
<1>3. \A r \in Recs : r.entry.txn \in TxnId /\ r.entry.txn \in Nat
  BY DEF Recs, LogEntry, TxnId
<1> QED BY <1>1, <1>2, <1>3, LenProperties

\* What the log says is what the replay of RecoveryManager::recover computes.
LEMMA LatestIsReplay ==
  ASSUME LogOK, Once(log), NEW k \in Key, NEW v, Latest(log, k, v)
  PROVE  replay(k) = v
<1>1. DOMAIN log = 1 .. Len(log) /\ Len(log) \in Nat /\ \A i \in 1 .. Len(log) : log[i].entry.txn \in TxnId
  BY LogTypes
<1>2. \A i \in 1 .. Len(log) : i \in commitsOf(k) <=> commits(log, i, k)
  BY <1>1 DEF commitsOf, commits, writes
<1>3. commitsOf(k) \subseteq 1 .. Len(log)
  BY <1>1 DEF commitsOf
<1>4. CASE v = Absent /\ \A i \in 1 .. Len(log) : ~commits(log, i, k)
  <2>1. commitsOf(k) = {}
    BY <1>2, <1>3, <1>4
  <2> QED BY <1>4, <2>1 DEF replay
<1>5. ASSUME NEW i \in 1 .. Len(log), commits(log, i, k), \A h \in 1 .. Len(log) : commits(log, h, k) => h <= i,
             NEW j \in 1 .. Len(log), writes(log, j, log[i].entry.txn, k), log[j].entry.value = v
      PROVE  replay(k) = v
  <2>1. i \in commitsOf(k) /\ \A h \in commitsOf(k) : h <= i
    BY <1>2, <1>3, <1>5
  <2> DEFINE C == commitsOf(k)
  <2>2. i \in C /\ C \subseteq Nat /\ \A h \in C : h <= i
    BY <1>1, <1>3, <2>1
  <2> HIDE DEF C
  <2>3. Max(C) = i
    BY <2>2, MaxIs
  <2> DEFINE w == {a \in DOMAIN log : /\ log[a].entry.kind = "WRITE"
                                      /\ log[a].entry.txn = log[i].entry.txn
                                      /\ log[a].entry.key = k}
  <2>4. j \in w
    BY <1>1, <1>5 DEF writes
  <2>5. \A a \in w : a = j
    BY <1>1, <1>5 DEF Once, writes
  <2>6. w = {j}
    BY <2>4, <2>5
  <2>7. replay(k) = log[Max(w)].entry.value
    BY <2>2, <2>3 DEF replay, C
  <2> HIDE DEF w
  <2>8. Max({j}) = j
    BY <1>1, MaxIs
  <2> QED BY <1>5, <2>6, <2>7, <2>8
<1> QED BY <1>4, <1>5 DEF Latest

-----------------------------------------------------------------------------
(* What a transaction has logged.                                          *)

\* A record of another transaction, or one that is not a WRITE.
LEMMA LoggedKept ==
  ASSUME NEW l, NEW m, extends(m, l), NEW x, NEW o, LoggedOK(x, o, l),
         m[Len(l) + 1].entry.txn # x.id \/ m[Len(l) + 1].entry.kind # "WRITE"
  PROVE  LoggedOK(x, o, m)
<1>1. \A i \in 1 .. Len(m) : i \in 1 .. Len(l) \/ i = Len(l) + 1
  BY DEF extends
<1>2. \A k : ~writes(m, Len(l) + 1, x.id, k)
  BY DEF writes
<1>3. \A i \in 1 .. Len(l) : \A k : i \in 1 .. Len(m) /\ (writes(m, i, x.id, k) <=> writes(l, i, x.id, k)) /\ m[i] = l[i]
  BY DEF extends, writes
<1> QED BY <1>1, <1>2, <1>3 DEF LoggedOK

\* One logX call extends the log by one record.
LEMMA LogExtends ==
  ASSUME DInv, LogGrows, Len(log') = Len(log) + 1
  PROVE  extends(log', log)
  BY LenProperties DEF DInv, LogOK, LogGrows, extends

\* A step of s that logs nothing.
LEMMA WMoves ==
  ASSUME DInv, WInv, NEW s \in Session, NEW x, NEW o,
         txn' = [txn EXCEPT ![s] = x], op' = [op EXCEPT ![s] = o],
         log' = log, next_txn_id' = next_txn_id,
         x.state = "ACTIVE" => /\ txn[s].state = "ACTIVE" /\ x.id = txn[s].id
                               /\ logged(x, o) = logged(txn[s], op[s])
                               /\ logged(x, o) = {} \/ x.pending = txn[s].pending
  PROVE  WInv'
<1>1. /\ txn'[s] = x /\ op'[s] = o
      /\ \A u \in Session \ {s} : txn'[u] = txn[u] /\ op'[u] = op[u]
  BY Facts
<1>2. x.state = "ACTIVE" => LoggedOK(x, o, log)
  BY DEF WInv, LoggedOK
<1>3. \A u \in Session : txn'[u].state = "ACTIVE" => LoggedOK(txn'[u], op'[u], log')
  BY <1>1, <1>2 DEF WInv
<1> QED BY <1>3 DEF WInv

\* A step of s that logs the record e.
LEMMA WAppends ==
  ASSUME DInv, Ids, WInv, NEW s \in Session, NEW x, NEW o,
         txn' = [txn EXCEPT ![s] = x], op' = [op EXCEPT ![s] = o],
         NEW e, LogGrows, Len(log') = Len(log) + 1, log'[Len(log) + 1].entry = e,
         \/ next_txn_id' = next_txn_id /\ txn[s].state = "ACTIVE" /\ e.txn = txn[s].id
         \/ next_txn_id' = next_txn_id + 1 /\ e.txn = next_txn_id,
         e.kind = "WRITE" => \A i \in 1 .. Len(log) : ~writes(log, i, e.txn, e.key),
         x.state = "ACTIVE" => LoggedOK(x, o, log')
  PROVE  WInv'
<1>1. /\ txn'[s] = x /\ op'[s] = o
      /\ \A u \in Session \ {s} : txn'[u] = txn[u] /\ op'[u] = op[u]
  BY Facts
<1>2. extends(log', log) /\ next_txn_id \in Nat
  BY LogExtends, MaxAssumption DEF DInv
<1>3. \A i \in 1 .. Len(log') : i \in 1 .. Len(log) \/ i = Len(log) + 1
  BY <1>2 DEF extends
<1>4. \A i \in 1 .. Len(log) : log'[i] = log[i] /\ log[i].entry.txn \in Nat
  BY LogTypes DEF LogGrows, DInv
<1>5. e.txn \in Nat /\ e.txn < next_txn_id'
  BY <1>2, InCall DEF Ids, TxnId
<1>6. \A i \in 1 .. Len(log') : log'[i].entry.txn < next_txn_id'
  BY <1>2, <1>3, <1>4, <1>5 DEF WInv
<1>7. ASSUME NEW u \in Session, txn'[u].state = "ACTIVE"
      PROVE  LoggedOK(txn'[u], op'[u], log')
  <2>1. CASE u = s
    BY <1>1, <1>7, <2>1
  <2>2. CASE u # s
    <3>1. txn'[u] = txn[u] /\ op'[u] = op[u] /\ LoggedOK(txn[u], op[u], log)
      BY <1>1, <1>7, <2>2 DEF WInv
    <3>2. txn[u].id # next_txn_id /\ (txn[s].state = "ACTIVE" => txn[u].id # txn[s].id)
      BY <1>2, <1>7, <2>2, <3>1, InCall DEF Ids, TxnId
    <3> QED BY <1>2, <3>1, <3>2, LoggedKept
  <2> QED BY <2>1, <2>2
<1>8. ASSUME NEW i \in 1 .. Len(log'), NEW j \in 1 .. Len(log'), NEW t \in TxnId, NEW k \in Key,
             writes(log', i, t, k), writes(log', j, t, k)
      PROVE  i = j
  <2>1. \A a \in 1 .. Len(log) : writes(log', a, t, k) => writes(log, a, t, k)
    BY <1>4 DEF writes
  <2>2. writes(log', Len(log) + 1, t, k) => \A a \in 1 .. Len(log) : ~writes(log, a, t, k)
    BY DEF writes
  <2> QED BY <1>3, <1>8, <2>1, <2>2 DEF WInv, Once
<1>9. Once(log)'
  BY <1>8 DEF Once, writes
<1> QED BY <1>6, <1>7, <1>9 DEF WInv

-----------------------------------------------------------------------------
(* The steps before commit().                                              *)

\* put, delete_key and get change the transaction and the call of s, and log
\* nothing.
LEMMA EarlyStep ==
  ASSUME DInv, NEW s \in Session,
         \/ \E k \in Key, v \in {txn[s].id, Absent} : Put(s, k, v)
         \/ \E k \in Key : Get(s, k)
         \/ Resume(s) \/ GiveUp(s) \/ Read(s)
  PROVE  /\ op[s].kind \in {"none", "put", "get", "read"} /\ txn[s].state = "ACTIVE"
         /\ log' = log /\ store' = store /\ next_txn_id' = next_txn_id
         /\ \E x, o : /\ txn' = [txn EXCEPT ![s] = x] /\ op' = [op EXCEPT ![s] = o]
                      /\ x.id = txn[s].id /\ x.state = "ACTIVE"
                      /\ o.kind \in {"none", "put", "get", "read", "abort"}
<1>1. /\ op[s].kind \in {"none", "put", "get", "read"}
      /\ log' = log /\ store' = store /\ next_txn_id' = next_txn_id
  BY DEF Put, Get, Resume, GiveUp, Read, ready, NoOp, within, logVars
<1>2. txn[s].state = "ACTIVE" /\ txn[s].id \in TxnId
  BY InCall DEF Put, Get, Resume, GiveUp, Read, ready
<1>3. /\ NoOp.kind = "none"
      /\ \A kind, k, v : within(kind, k, v).kind = kind
      /\ [op[s] EXCEPT !.kind = "read"].kind = "read"
  BY Facts DEF NoOp, within, Ops
<1>4. \E o : op' = [op EXCEPT ![s] = o] /\ o.kind \in {"none", "put", "get", "read", "abort"}
  <2>1. ASSUME UNCHANGED op, op[s] = NoOp
        PROVE  op' = [op EXCEPT ![s] = NoOp]
    BY <2>1, SameOp
  <2>2. \/ op' = [op EXCEPT ![s] = NoOp]
        \/ \E kind \in {"put", "get", "read", "abort"} : \E k, v : op' = [op EXCEPT ![s] = within(kind, k, v)]
        \/ op' = [op EXCEPT ![s] = [op[s] EXCEPT !.kind = "read"]]
    BY <2>1 DEF Put, Get, Resume, GiveUp, Read, ready
  <2>3. CASE op' = [op EXCEPT ![s] = NoOp]
    BY <1>3, <2>3, Zenon
  <2>4. ASSUME NEW kind \in {"put", "get", "read", "abort"}, NEW k, NEW v,
               op' = [op EXCEPT ![s] = within(kind, k, v)]
        PROVE  \E o : op' = [op EXCEPT ![s] = o] /\ o.kind \in {"none", "put", "get", "read", "abort"}
    <3>1. within(kind, k, v).kind \in {"none", "put", "get", "read", "abort"}
      BY <1>3
    <3> QED BY <2>4, <3>1, Zenon
  <2>5. CASE op' = [op EXCEPT ![s] = [op[s] EXCEPT !.kind = "read"]]
    BY <1>3, <2>5, Zenon
  <2> QED BY <2>2, <2>3, <2>4, <2>5
<1>5. \E x : txn' = [txn EXCEPT ![s] = x] /\ x.id = txn[s].id /\ x.state = "ACTIVE"
  <2>1. ASSUME NEW k \in Key, NEW v \in {txn[s].id, Absent}, bufferWrite(s, k, v)
        PROVE  \E x : txn' = [txn EXCEPT ![s] = x] /\ x.id = txn[s].id /\ x.state = "ACTIVE"
    BY <1>2, <2>1, BufferWriteOK
  <2>2. ASSUME NEW h, txn' = [txn EXCEPT ![s].held = h]
        PROVE  \E x : txn' = [txn EXCEPT ![s] = x] /\ x.id = txn[s].id /\ x.state = "ACTIVE"
    <3> DEFINE x == [txn[s] EXCEPT !.held = h]
    <3>1. txn' = [txn EXCEPT ![s] = x] /\ x.id = txn[s].id /\ x.state = "ACTIVE"
      BY <1>2, <2>2, Facts DEF Txns
    <3> QED BY <3>1, Zenon
  <2>3. CASE UNCHANGED txn
    BY <1>2, <2>3, SameTxn
  <2>4. CASE Resume(s)
    <3>1. op[s].key \in Key /\ (op[s].kind = "put" => op[s].value \in {txn[s].id, Absent})
      BY <2>4, Facts DEF Resume, SessionOK
    <3> QED BY <2>1, <2>2, <2>4, <3>1 DEF Resume
  <2> QED BY <2>1, <2>2, <2>3, <2>4 DEF Put, Get, GiveUp, Read
<1> QED BY <1>1, <1>2, <1>4, <1>5, Zenon

\* What put, delete_key and get do leaves what is logged as it was.
LEMMA EarlyW ==
  ASSUME DInv, WInv, NEW s \in Session,
         \/ \E k \in Key, v \in {txn[s].id, Absent} : Put(s, k, v)
         \/ \E k \in Key : Get(s, k)
         \/ Resume(s) \/ GiveUp(s) \/ Read(s)
  PROVE  WInv'
<1>1. /\ op[s].kind \in {"none", "put", "get", "read"} /\ txn[s].state = "ACTIVE"
      /\ log' = log /\ next_txn_id' = next_txn_id
  BY EarlyStep
<1>2. PICK x, o : /\ txn' = [txn EXCEPT ![s] = x] /\ op' = [op EXCEPT ![s] = o]
                  /\ x.id = txn[s].id /\ o.kind \in {"none", "put", "get", "read", "abort"}
  BY EarlyStep
<1>3. logged(x, o) = {} /\ logged(txn[s], op[s]) = {}
  BY <1>1, <1>2 DEF logged
<1> QED BY <1>1, <1>2, <1>3, WMoves, Zenon

\* The steps of commit() that log nothing, and the end of a transaction that
\* is committed.
LEMMA QuietW ==
  ASSUME DInv, WInv, NEW s \in Session, Commit(s) \/ Synced(s) \/ Apply(s) \/ Finish(s)
  PROVE  WInv'
<1>1. log' = log /\ next_txn_id' = next_txn_id
  BY DEF Commit, Synced, Apply, Finish, logVars
<1>2. CASE Finish(s)
  <2>1. txn' = [txn EXCEPT ![s] = IdleTxn] /\ op' = [op EXCEPT ![s] = NoOp] /\ IdleTxn.state # "ACTIVE"
    BY <1>2 DEF Finish, IdleTxn
  <2> QED BY <1>1, <2>1, WMoves, Zenon
<1>3. CASE Commit(s)
  <2> DEFINE o == committing("log", DOMAIN txn[s].pending, 0)
  <2>1. op' = [op EXCEPT ![s] = o] /\ UNCHANGED txn /\ op[s].kind = "none"
    BY <1>3 DEF Commit, ready, NoOp, within
  <2>2. logged(txn[s], o) = {} /\ logged(txn[s], op[s]) = {}
    BY <2>1 DEF logged, committing
  <2> HIDE DEF o
  <2> QED BY <1>1, <2>1, <2>2, SameTxn, WMoves, Zenon
<1>4. CASE Synced(s)
  <2> DEFINE o == committing("apply", DOMAIN txn[s].pending, 0)
  <2>1. op' = [op EXCEPT ![s] = o] /\ UNCHANGED txn /\ op[s].kind = "sync"
    BY <1>4 DEF Synced
  <2>2. logged(txn[s], o) = logged(txn[s], op[s])
    BY <2>1 DEF logged, committing
  <2> HIDE DEF o
  <2> QED BY <1>1, <2>1, <2>2, SameTxn, WMoves, Zenon
<1>5. CASE Apply(s)
  <2> DEFINE o == [op[s] EXCEPT !.todo = @ \ {Min(op[s].todo)}]
  <2>1. op' = [op EXCEPT ![s] = o] /\ UNCHANGED txn /\ op[s].kind = "apply"
    BY <1>5 DEF Apply
  <2>2. o.kind = op[s].kind
    BY Facts DEF Ops
  <2> HIDE DEF o
  <2>3. logged(txn[s], o) = logged(txn[s], op[s])
    BY <2>1, <2>2 DEF logged
  <2> QED BY <1>1, <2>1, <2>3, SameTxn, WMoves, Zenon
<1> QED BY <1>2, <1>3, <1>4, <1>5

-----------------------------------------------------------------------------
(* The steps that log a record.                                            *)

\* A record of the transaction of s, with all its fields.
LEMMA RecordE ==
  ASSUME DInv, NEW s \in Session, op[s].kind # "none" \/ txn[s].state = "ACTIVE",
         NEW kind \in {"WRITE", "COMMIT", "ABORT"}, NEW k \in Key \cup {NoKey}, NEW v \in Value,
         record(s, kind, k, v)
  PROVE  /\ LogGrows /\ extends(log', log) /\ Len(log') = Len(log) + 1
         /\ log'[Len(log) + 1].entry = [txn |-> txn[s].id, kind |-> kind, key |-> k, value |-> v]
<1> DEFINE e == [txn |-> txn[s].id, kind |-> kind, key |-> k, value |-> v]
<1>1. e \in LogEntry
  BY InCall DEF LogEntry
<1>2. Log!LogRecord(e)
  BY DEF record
<1> HIDE DEF e
<1>3. LogGrows /\ Len(log') = Len(log) + 1 /\ log'[Len(log) + 1].entry = e
  BY <1>1, <1>2, LogAppends, Facts
<1> QED BY <1>3, LogExtends DEF e

\* BEGIN: the transaction is new to the log.
LEMMA BeginW ==
  ASSUME DInv, Ids, WInv, NEW s \in Session, NEW iso \in Isolation, Begin(s, iso)
  PROVE  WInv' /\ extends(log', log) /\ log'[Len(log) + 1].entry.kind = "BEGIN"
<1> DEFINE e == [txn |-> next_txn_id, kind |-> "BEGIN", key |-> NoKey, value |-> Absent]
           x == [id |-> next_txn_id, state |-> "ACTIVE", iso |-> iso, pending |-> NoMap, held |-> NoMap]
<1>1. /\ next_txn_id \in TxnId /\ next_txn_id' = next_txn_id + 1
      /\ txn' = [txn EXCEPT ![s] = x] /\ Log!LogRecord(e)
      /\ op' = [op EXCEPT ![s] = NoOp]
  BY SameOp, MaxAssumption DEF Begin, DInv, SessionOK, TxnId
<1>2. e \in LogEntry /\ e.txn = next_txn_id /\ e.kind = "BEGIN"
  BY <1>1 DEF LogEntry, Value
<1>3. x.id = next_txn_id /\ x.pending = NoMap /\ logged(x, NoOp) = {}
  BY DEF logged, NoOp, within
<1> HIDE DEF e, x
<1>4. LogGrows /\ Len(log') = Len(log) + 1 /\ log'[Len(log) + 1].entry = e
  BY <1>1, <1>2, LogAppends, Facts
<1>5. extends(log', log)
  BY <1>4, LogExtends
<1>6. \A i \in 1 .. Len(log) : \A k : ~writes(log, i, x.id, k)
  BY <1>1, <1>3, LogTypes DEF DInv, WInv, writes, TxnId
<1>7. LoggedOK(x, NoOp, log)
  BY <1>3, <1>6 DEF LoggedOK
<1>8. LoggedOK(x, NoOp, log')
  BY <1>2, <1>4, <1>5, <1>7, LoggedKept
<1>9. WInv'
  BY <1>1, <1>2, <1>4, <1>8, WAppends, Zenon
<1> QED BY <1>2, <1>4, <1>5, <1>9

\* ABORT.
LEMMA AbortW ==
  ASSUME DInv, Ids, WInv, NEW s \in Session, Abort(s)
  PROVE  WInv' /\ extends(log', log) /\ log'[Len(log) + 1].entry.kind = "ABORT"
<1> DEFINE e == [txn |-> txn[s].id, kind |-> "ABORT", key |-> NoKey, value |-> Absent]
<1>1. /\ op[s].kind # "none" \/ txn[s].state = "ACTIVE"
      /\ record(s, "ABORT", NoKey, Absent) /\ next_txn_id' = next_txn_id
      /\ txn' = [txn EXCEPT ![s] = IdleTxn] /\ op' = [op EXCEPT ![s] = NoOp]
      /\ IdleTxn.state # "ACTIVE" /\ Absent \in Value
  BY DEF Abort, ready, IdleTxn, Value
<1>2. LogGrows /\ extends(log', log) /\ Len(log') = Len(log) + 1 /\ log'[Len(log) + 1].entry = e
  BY <1>1, RecordE, Zenon
<1>3. txn[s].state = "ACTIVE" /\ e.txn = txn[s].id /\ e.kind = "ABORT"
  BY <1>1, InCall
<1> HIDE DEF e
<1>4. WInv'
  BY <1>1, <1>2, <1>3, WAppends, Zenon
<1> QED BY <1>2, <1>3, <1>4

\* WRITE: of a key not logged before.
LEMMA LogWriteW ==
  ASSUME DInv, Ids, WInv, NEW s \in Session, LogWrite(s)
  PROVE  WInv' /\ extends(log', log) /\ log'[Len(log) + 1].entry.kind = "WRITE"
<1> DEFINE k == Min(op[s].todo)
           v == txn[s].pending[k]
           o == [op[s] EXCEPT !.todo = @ \ {k}]
           e == [txn |-> txn[s].id, kind |-> "WRITE", key |-> k, value |-> v]
<1>1. op[s] \in Ops /\ op[s].kind = "log" /\ op[s].todo # {} /\ op[s].todo \subseteq DOMAIN txn[s].pending
  BY Facts DEF LogWrite, SessionOK
<1>2. k \in op[s].todo /\ k \in Key /\ k \in DOMAIN txn[s].pending
  BY <1>1, LeastKey DEF Ops
<1> HIDE DEF k
<1>3. /\ record(s, "WRITE", k, v) /\ op' = [op EXCEPT ![s] = o]
      /\ next_txn_id' = next_txn_id /\ txn' = [txn EXCEPT ![s] = txn[s]]
  BY SameTxn DEF LogWrite, k
<1>4. v \in Value
  BY <1>1, <1>2, Facts, DomainPartial DEF Txns
<1> HIDE DEF v
<1>5. LogGrows /\ extends(log', log) /\ Len(log') = Len(log) + 1 /\ log'[Len(log) + 1].entry = e
  BY <1>1, <1>2, <1>3, <1>4, RecordE
<1>6. txn[s].state = "ACTIVE" /\ LoggedOK(txn[s], op[s], log)
  BY <1>1, InCall DEF WInv
<1>7. e.txn = txn[s].id /\ e.kind = "WRITE" /\ e.key = k /\ e.value = v
  OBVIOUS
<1> HIDE DEF e
<1>8. o.kind = "log" /\ o.todo = op[s].todo \ {k}
  BY <1>1 DEF Ops
<1> HIDE DEF o
<1>9. logged(txn[s], o) = logged(txn[s], op[s]) \cup {k} /\ k \notin logged(txn[s], op[s])
  BY <1>1, <1>2, <1>8 DEF logged
<1>10. \A i \in 1 .. Len(log) : ~writes(log, i, txn[s].id, k)
  BY <1>2, <1>6, <1>9 DEF LoggedOK
<1>11. LoggedOK(txn[s], o, log')
  <2>1. \A i \in 1 .. Len(log') : i \in 1 .. Len(log) \/ i = Len(log) + 1
    BY <1>5 DEF extends
  <2>2. \A i \in 1 .. Len(log) : i \in 1 .. Len(log') /\ log'[i] = log[i]
    BY <1>5 DEF extends
  <2>3. Len(log) + 1 \in 1 .. Len(log')
    BY <1>5 DEF extends
  <2>4. ASSUME NEW i \in 1 .. Len(log'), NEW j \in Key, writes(log', i, txn[s].id, j)
        PROVE  j \in logged(txn[s], o) /\ log'[i].entry.value = txn[s].pending[j]
    <3>1. CASE i \in 1 .. Len(log)
      <4>1. writes(log, i, txn[s].id, j) /\ log'[i] = log[i]
        BY <2>2, <2>4, <3>1 DEF writes
      <4> QED BY <1>6, <1>9, <3>1, <4>1 DEF LoggedOK
    <3>2. CASE i = Len(log) + 1
      BY <1>5, <1>7, <1>9, <2>4, <3>2 DEF writes, v
    <3> QED BY <2>1, <3>1, <3>2
  <2>5. ASSUME NEW j \in logged(txn[s], o)
        PROVE  \E i \in 1 .. Len(log') : writes(log', i, txn[s].id, j)
    <3>1. CASE j = k
      BY <1>5, <1>7, <2>3, <3>1 DEF writes
    <3>2. CASE j \in logged(txn[s], op[s])
      <4>1. PICK i \in 1 .. Len(log) : writes(log, i, txn[s].id, j)
        BY <1>6, <3>2 DEF LoggedOK
      <4>2. i \in 1 .. Len(log') /\ writes(log', i, txn[s].id, j)
        BY <2>2, <4>1 DEF writes
      <4> QED BY <4>2
    <3> QED BY <1>9, <3>1, <3>2
  <2> QED BY <2>4, <2>5 DEF LoggedOK
<1>12. WInv'
  BY <1>3, <1>5, <1>6, <1>7, <1>10, <1>11, WAppends, Zenon
<1> QED BY <1>5, <1>7, <1>12

\* COMMIT: everything buffered is logged by then.
LEMMA LogCommitW ==
  ASSUME DInv, Ids, WInv, NEW s \in Session, LogCommit(s)
  PROVE  /\ WInv' /\ extends(log', log)
         /\ log'[Len(log) + 1].entry.kind = "COMMIT" /\ log'[Len(log) + 1].entry.txn = txn[s].id
         /\ txn[s].state = "ACTIVE" /\ logged(txn[s], op[s]) = DOMAIN txn[s].pending
<1> DEFINE e == [txn |-> txn[s].id, kind |-> "COMMIT", key |-> NoKey, value |-> Absent]
           o == committing("sync", {}, Log!nextLSN)
<1>1. /\ op[s].kind = "log" /\ op[s].todo = {}
      /\ record(s, "COMMIT", NoKey, Absent) /\ next_txn_id' = next_txn_id
      /\ op' = [op EXCEPT ![s] = o] /\ txn' = [txn EXCEPT ![s] = txn[s]] /\ Absent \in Value
  BY SameTxn DEF LogCommit, Value
<1>2. LogGrows /\ extends(log', log) /\ Len(log') = Len(log) + 1 /\ log'[Len(log) + 1].entry = e
  BY <1>1, RecordE, SMTT(30)
<1>3. txn[s].state = "ACTIVE" /\ e.txn = txn[s].id /\ e.kind = "COMMIT"
  BY <1>1, InCall
<1>4. logged(txn[s], op[s]) = DOMAIN txn[s].pending /\ logged(txn[s], o) = DOMAIN txn[s].pending
  BY <1>1 DEF logged, committing
<1> HIDE DEF e, o
<1>5. LoggedOK(txn[s], o, log)
  BY <1>3, <1>4, Zenon DEF WInv, LoggedOK
<1>6. LoggedOK(txn[s], o, log')
  BY <1>2, <1>3, <1>5, LoggedKept
<1>7. WInv'
  BY <1>1, <1>2, <1>3, <1>6, WAppends, Zenon
<1> QED BY <1>2, <1>3, <1>4, <1>7

-----------------------------------------------------------------------------
(* The store and the log.                                                  *)

\* A step of s, which has no COMMIT in the log before or after it, and reads
\* nothing but what the log says.
LEMMA VMoves ==
  ASSUME VInv, NEW s \in Session,
         \A u \in Session \ {s} : txn'[u] = txn[u] /\ op'[u] = op[u] /\ reads'[u] = reads[u],
         op[s].kind \notin {"sync", "apply"}, op'[s].kind \notin {"sync", "apply"},
         store' = store, reads' \in [Session -> partial(Key, Value)],
         \A k \in Key : \A v : Latest(log, k, v) => Latest(log', k, v),
         \A k \in Key : k \in DOMAIN reads'[s] =>
           \/ k \in DOMAIN reads[s] /\ reads'[s][k] = reads[s][k]
           \/ Latest(log, k, reads'[s][k])
  PROVE  VInv'
<1> SUFFICES ASSUME NEW k \in Key
             PROVE  /\ (\A u \in Session : ~applies(txn'[u], op'[u], k)) => Latest(log', k, store'[k])
                    /\ \A u \in Session : applies(txn'[u], op'[u], k) => Latest(log', k, txn'[u].pending[k])
                    /\ \A u \in Session : k \in DOMAIN reads'[u] /\ op'[u].kind \notin {"sync", "apply"} =>
                         Latest(log', k, reads'[u][k])
  BY DEF VInv
<1>1. ~applies(txn[s], op[s], k) /\ ~applies(txn'[s], op'[s], k)
  BY DEF applies
<1>2. \A u \in Session : applies(txn'[u], op'[u], k) <=> applies(txn[u], op[u], k)
  BY <1>1
<1>3. (\A u \in Session : ~applies(txn'[u], op'[u], k)) => Latest(log', k, store'[k])
  BY <1>2 DEF VInv
<1>4. ASSUME NEW u \in Session, applies(txn'[u], op'[u], k)
      PROVE  Latest(log', k, txn'[u].pending[k])
  <2>1. u # s
    BY <1>1, <1>4
  <2> QED BY <1>2, <1>4, <2>1 DEF VInv
<1>5. ASSUME NEW u \in Session, k \in DOMAIN reads'[u], op'[u].kind \notin {"sync", "apply"}
      PROVE  Latest(log', k, reads'[u][k])
  <2>1. CASE u = s
    BY <1>5, <2>1 DEF VInv
  <2>2. CASE u # s
    BY <1>5, <2>2 DEF VInv
  <2> QED BY <2>1, <2>2
<1> QED BY <1>3, <1>4, <1>5

\* A record other than a COMMIT says nothing new.
LEMMA OtherRecord ==
  ASSUME extends(log', log), log'[Len(log) + 1].entry.kind # "COMMIT"
  PROVE  \A k \in Key : \A v : Latest(log, k, v) => Latest(log', k, v)
<1>1. \A k : ~commits(log', Len(log) + 1, k)
  BY DEF commits
<1> QED BY <1>1, LatestKept

\* begin() and abort() leave the committed values as they were.
LEMMA EdgeV ==
  ASSUME DInv, Ids, WInv, VInv, NEW s \in Session, (\E iso \in Isolation : Begin(s, iso)) \/ Abort(s)
  PROVE  VInv'
<1>1. \A k \in Key : \A v : Latest(log, k, v) => Latest(log', k, v)
  BY BeginW, AbortW, OtherRecord
<1>2. /\ \E x : txn' = [txn EXCEPT ![s] = x]
      /\ op' = [op EXCEPT ![s] = NoOp] \/ (UNCHANGED op /\ op[s] = NoOp)
      /\ op[s].kind \in {"none", "abort"} /\ store' = store
      /\ reads' = [reads EXCEPT ![s] = NoMap] /\ NoOp.kind = "none"
  <2>1. NoOp.kind = "none"
    BY DEF NoOp, within
  <2>2. CASE Abort(s)
    BY <2>1, <2>2, Zenon DEF Abort, ready
  <2>3. ASSUME NEW iso \in Isolation, Begin(s, iso)
        PROVE  /\ \E x : txn' = [txn EXCEPT ![s] = x]
               /\ UNCHANGED op /\ op[s] = NoOp /\ store' = store /\ reads' = [reads EXCEPT ![s] = NoMap]
    BY <2>3, Facts, Zenon DEF Begin, SessionOK
  <2> QED BY <2>1, <2>2, <2>3
<1>3. reads \in [Session -> partial(Key, Value)] /\ NoMap \in partial(Key, Value) /\ DOMAIN NoMap = {}
  BY EmptyPartial DEF VInv
<1>4. /\ \A u \in Session \ {s} : txn'[u] = txn[u] /\ op'[u] = op[u] /\ reads'[u] = reads[u]
      /\ op'[s].kind = "none" /\ DOMAIN reads'[s] = {} /\ reads' \in [Session -> partial(Key, Value)]
  BY <1>2, <1>3, Facts
<1> QED BY <1>1, <1>2, <1>4, VMoves

\* What get reads from the store is what the log says: nobody is about to
\* apply a write of that key.
LEMMA ReadV ==
  ASSUME DInv, WInv, VInv, Separate, NEW s \in Session, Read(s)
  PROVE  VInv'
<1> DEFINE k == op[s].key
           r == IF k \in DOMAIN reads[s] \cup DOMAIN txn[s].pending THEN reads[s]
                ELSE put(reads[s], k, store[k])
<1>1. /\ op[s].kind = "read" /\ log' = log /\ store' = store /\ k \in Key
      /\ store \in [Key -> Value] /\ reads \in [Session -> partial(Key, Value)]
  BY EarlyStep, Facts, Zenon DEF Read, SessionOK, DInv, VInv
<1>2. reads' = [reads EXCEPT ![s] = r]
  BY Zenon DEF Read, visible
<1>3. reads[s] \in partial(Key, Value) /\ store[k] \in Value
  BY <1>1
<1> HIDE DEF k
<1>4. /\ r \in partial(Key, Value)
      /\ \A j \in DOMAIN r : \/ j \in DOMAIN reads[s] /\ r[j] = reads[s][j]
                             \/ j = k /\ k \notin DOMAIN txn[s].pending /\ r[j] = store[k]
  <2>1. CASE r = reads[s]
    BY <1>3, <2>1
  <2>2. CASE r = put(reads[s], k, store[k]) /\ k \notin DOMAIN txn[s].pending
    <3>1. put(reads[s], k, store[k]) \in partial(Key, Value)
      BY <1>1, <1>3, PutPartial, Zenon
    <3>2. \A j \in DOMAIN put(reads[s], k, store[k]) :
            \/ j \in DOMAIN reads[s] /\ put(reads[s], k, store[k])[j] = reads[s][j]
            \/ j = k /\ put(reads[s], k, store[k])[j] = store[k]
      BY DEF put
    <3> QED BY <2>2, <3>1, <3>2
  <2> QED BY <2>1, <2>2
<1> HIDE DEF r
<1>5. PICK x, o : /\ txn' = [txn EXCEPT ![s] = x] /\ op' = [op EXCEPT ![s] = o]
                  /\ o.kind \in {"none", "put", "get", "read", "abort"}
  BY EarlyStep
<1>6. Latest(log, k, store[k])
  <2>1. ASSUME NEW u \in Session
        PROVE  ~applies(txn[u], op[u], k)
    <3>1. CASE u = s
      BY <1>1, <3>1 DEF applies
    <3>2. CASE u # s
      <4>1. k \notin DOMAIN txn[u].pending
        BY <1>1, <3>2 DEF Separate, k
      <4>2. op[u].kind = "apply" => op[u].todo \subseteq DOMAIN txn[u].pending
        BY Facts DEF SessionOK
      <4> QED BY <4>1, <4>2 DEF applies
    <3> QED BY <3>1, <3>2
  <2> QED BY <1>1, <2>1 DEF VInv
<1>7. /\ \A u \in Session \ {s} : txn'[u] = txn[u] /\ op'[u] = op[u] /\ reads'[u] = reads[u]
      /\ op'[s] = o /\ reads'[s] = r /\ reads' \in [Session -> partial(Key, Value)]
  BY <1>1, <1>2, <1>4, <1>5, Facts
<1>8. \A j \in Key : j \in DOMAIN reads'[s] =>
        (j \in DOMAIN reads[s] /\ reads'[s][j] = reads[s][j]) \/ Latest(log, j, reads'[s][j])
  BY <1>4, <1>6, <1>7
<1>9. \A j \in Key : \A v : Latest(log, j, v) => Latest(log', j, v)
  BY <1>1
<1> QED BY <1>1, <1>5, <1>7, <1>8, <1>9, VMoves

\* The other steps before the COMMIT record.
LEMMA EarlyV ==
  ASSUME DInv, Ids, WInv, VInv, NEW s \in Session,
         \/ \E k \in Key, v \in {txn[s].id, Absent} : Put(s, k, v)
         \/ \E k \in Key : Get(s, k)
         \/ Resume(s) \/ GiveUp(s) \/ Commit(s) \/ LogWrite(s)
  PROVE  VInv'
<1>1. reads' = reads /\ store' = store /\ reads' \in [Session -> partial(Key, Value)]
  BY DEF Put, Get, Resume, GiveUp, Commit, LogWrite, VInv
<1>2. CASE \/ \E k \in Key, v \in {txn[s].id, Absent} : Put(s, k, v)
           \/ \E k \in Key : Get(s, k)
           \/ Resume(s) \/ GiveUp(s)
  <2>1. op[s].kind \in {"none", "put", "get", "read"} /\ log' = log
    BY <1>2, EarlyStep
  <2>2. PICK x, o : /\ txn' = [txn EXCEPT ![s] = x] /\ op' = [op EXCEPT ![s] = o]
                    /\ o.kind \in {"none", "put", "get", "read", "abort"}
    BY <1>2, EarlyStep
  <2>3. /\ \A u \in Session \ {s} : txn'[u] = txn[u] /\ op'[u] = op[u]
        /\ op'[s] = o
    BY <2>2, Facts
  <2>4. \A k \in Key : \A v : Latest(log, k, v) => Latest(log', k, v)
    BY <2>1
  <2> QED BY <1>1, <2>1, <2>2, <2>3, <2>4, VMoves
<1>3. CASE Commit(s) \/ LogWrite(s)
  <2>1. op[s].kind \in {"none", "log"} /\ txn' = txn
    BY <1>3 DEF Commit, LogWrite, ready, NoOp, within
  <2>2. /\ \A u \in Session \ {s} : op'[u] = op[u]
        /\ op'[s].kind = "log"
    <3>1. CASE Commit(s)
      BY <3>1, Facts DEF Commit, committing
    <3>2. CASE LogWrite(s)
      BY <3>2, Facts DEF LogWrite, Ops
    <3> QED BY <1>3, <3>1, <3>2
  <2>3. \A k \in Key : \A v : Latest(log, k, v) => Latest(log', k, v)
    <3>1. CASE Commit(s)
      BY <3>1 DEF Commit, logVars
    <3>2. CASE LogWrite(s)
      BY <3>2, LogWriteW, OtherRecord
    <3> QED BY <1>3, <3>1, <3>2
  <2> QED BY <1>1, <2>1, <2>2, <2>3, VMoves
<1> QED BY <1>2, <1>3

\* The COMMIT record: from now on the log says what s has buffered, and nobody
\* has read it or is about to apply it.
LEMMA LogCommitV ==
  ASSUME DInv, Ids, WInv, VInv, Separate, NEW s \in Session, LogCommit(s)
  PROVE  VInv'
<1> DEFINE p == txn[s].pending
           n == Len(log) + 1
<1>1. /\ extends(log', log) /\ log'[n].entry.kind = "COMMIT" /\ log'[n].entry.txn = txn[s].id
      /\ LoggedOK(txn[s], op[s], log) /\ logged(txn[s], op[s]) = DOMAIN p
  BY LogCommitW DEF WInv
<1>2. DOMAIN p \subseteq Key
  BY Facts, DomainPartial DEF Txns
<1>3. /\ txn' = txn /\ store' = store /\ reads' = reads /\ op[s].kind = "log"
      /\ op'[s].kind = "sync" /\ \A u \in Session \ {s} : op'[u] = op[u]
      /\ reads \in [Session -> partial(Key, Value)]
  BY Facts DEF LogCommit, committing, VInv
<1>4. ASSUME NEW k \in DOMAIN p
      PROVE  Latest(log', k, p[k])
  <2>1. PICK j \in 1 .. Len(log) : writes(log, j, txn[s].id, k)
    BY <1>1 DEF LoggedOK
  <2>2. log[j].entry.value = p[k]
    BY <1>1, <1>2, <2>1 DEF LoggedOK
  <2>3. log'[j] = log[j] /\ writes(log', j, log'[n].entry.txn, k)
    BY <1>1, <2>1 DEF extends, writes
  <2> QED BY <1>1, <2>2, <2>3, LatestNew, Zenon
<1>5. ASSUME NEW k \in Key, k \notin DOMAIN p, NEW v, Latest(log, k, v)
      PROVE  Latest(log', k, v)
  <2>1. \A j \in 1 .. Len(log) : ~writes(log, j, txn[s].id, k)
    BY <1>1, <1>5 DEF LoggedOK
  <2>2. ~commits(log', n, k)
    <3>1. ASSUME NEW j \in 1 .. n, writes(log', j, txn[s].id, k) PROVE FALSE
      <4>1. j \in 1 .. Len(log) \/ j = n
        BY <1>1 DEF extends
      <4> QED BY <1>1, <2>1, <3>1, <4>1 DEF extends, writes
    <3> QED BY <1>1, <3>1 DEF commits
  <2> QED BY <1>1, <1>5, <2>2, LatestKept
<1>6. \A k : applies(txn'[s], op'[s], k) <=> k \in DOMAIN p
  BY <1>3 DEF applies
<1>7. \A k : ~applies(txn[s], op[s], k)
  BY <1>3 DEF applies
<1>8. \A u \in Session \ {s}, k \in DOMAIN p : ~applies(txn[u], op[u], k) /\ k \notin DOMAIN reads[u]
  <2>1. \A u \in Session \ {s}, k \in DOMAIN p : k \notin DOMAIN txn[u].pending /\ k \notin DOMAIN reads[u]
    BY DEF Separate
  <2>2. \A u \in Session : op[u].kind = "apply" => op[u].todo \subseteq DOMAIN txn[u].pending
    BY Facts DEF SessionOK
  <2> QED BY <2>1, <2>2 DEF applies
<1> HIDE DEF p, n
<1>9. ASSUME NEW k \in Key
      PROVE  /\ (\A u \in Session : ~applies(txn'[u], op'[u], k)) => Latest(log', k, store'[k])
             /\ \A u \in Session : applies(txn'[u], op'[u], k) => Latest(log', k, txn'[u].pending[k])
             /\ \A u \in Session : k \in DOMAIN reads'[u] /\ op'[u].kind \notin {"sync", "apply"} =>
                  Latest(log', k, reads'[u][k])
  <2>1. CASE k \in DOMAIN p
    <3>1. applies(txn'[s], op'[s], k) /\ Latest(log', k, txn'[s].pending[k])
      BY <1>3, <1>4, <1>6, <2>1 DEF p
    <3>2. \A u \in Session \ {s} : ~applies(txn'[u], op'[u], k) /\ k \notin DOMAIN reads'[u]
      BY <1>3, <1>8, <2>1
    <3> QED BY <1>3, <3>1, <3>2
  <2>2. CASE k \notin DOMAIN p
    <3>1. \A u \in Session : applies(txn'[u], op'[u], k) <=> applies(txn[u], op[u], k)
      BY <1>3, <1>6, <1>7, <2>2
    <3>2. \A v : Latest(log, k, v) => Latest(log', k, v)
      BY <1>5, <2>2
    <3>3. (\A u \in Session : ~applies(txn'[u], op'[u], k)) => Latest(log', k, store'[k])
      BY <1>3, <3>1, <3>2 DEF VInv
    <3>4. \A u \in Session : applies(txn'[u], op'[u], k) => Latest(log', k, txn'[u].pending[k])
      BY <1>3, <3>1, <3>2 DEF VInv
    <3>5. \A u \in Session : k \in DOMAIN reads'[u] /\ op'[u].kind \notin {"sync", "apply"} =>
            Latest(log', k, reads'[u][k])
      BY <1>3, <3>2 DEF VInv
    <3> QED BY <3>3, <3>4, <3>5
  <2> QED BY <2>1, <2>2
<1> QED BY <1>3, <1>9, SMTT(30) DEF VInv

\* waitForCommit returns: what s has still to apply is what it has buffered.
LEMMA SyncedV ==
  ASSUME DInv, VInv, NEW s \in Session, Synced(s)
  PROVE  VInv'
<1>1. /\ txn' = txn /\ store' = store /\ reads' = reads /\ log' = log /\ op[s].kind = "sync"
      /\ op'[s].kind = "apply" /\ op'[s].todo = DOMAIN txn[s].pending
      /\ \A u \in Session \ {s} : op'[u] = op[u]
  BY Facts DEF Synced, committing, logVars
<1>2. \A u \in Session, k \in Key : applies(txn'[u], op'[u], k) <=> applies(txn[u], op[u], k)
  BY <1>1 DEF applies
<1>3. \A u \in Session : op'[u].kind \in {"sync", "apply"} <=> op[u].kind \in {"sync", "apply"}
  BY <1>1
<1> QED BY <1>1, <1>2, <1>3 DEF VInv

\* A Store call, when none can be disturbed: the store gets what the log says.
LEMMA ApplyV ==
  ASSUME DInv, VInv, ~StoreRaces, NEW s \in Session, Apply(s)
  PROVE  VInv'
<1> DEFINE k == Min(op[s].todo)
<1>1. /\ op[s] \in Ops /\ op[s].kind = "apply" /\ op[s].todo # {} /\ store \in [Key -> Value]
  BY Facts DEF Apply, DInv
<1>2. k \in op[s].todo /\ k \in Key
  BY <1>1, LeastKey DEF Ops
<1>3. /\ store' = [store EXCEPT ![k] = txn[s].pending[k]] /\ op' = [op EXCEPT ![s].todo = @ \ {k}]
      /\ txn' = txn /\ reads' = reads /\ log' = log
  BY DEF Apply, disturbed, logVars
<1> HIDE DEF k
<1>4. /\ op'[s].kind = "apply" /\ op'[s].todo = op[s].todo \ {k}
      /\ \A u \in Session \ {s} : op'[u] = op[u]
      /\ store'[k] = txn[s].pending[k] /\ \A j \in Key \ {k} : store'[j] = store[j]
  BY <1>1, <1>2, <1>3, Facts DEF Ops
<1>5. \A u \in Session, j \in Key : j # k => (applies(txn'[u], op'[u], j) <=> applies(txn[u], op[u], j))
  BY <1>1, <1>3, <1>4 DEF applies
<1>6. \A u \in Session : applies(txn'[u], op'[u], k) => applies(txn[u], op[u], k)
  BY <1>1, <1>3, <1>4 DEF applies
<1>7. applies(txn[s], op[s], k)
  BY <1>1, <1>2 DEF applies
<1>8. Latest(log, k, txn[s].pending[k])
  BY <1>2, <1>7 DEF VInv
<1>9. ASSUME NEW j \in Key, \A u \in Session : ~applies(txn'[u], op'[u], j)
      PROVE  Latest(log', j, store'[j])
  <2>1. CASE j = k
    BY <1>3, <1>4, <1>8, <2>1
  <2>2. CASE j # k
    BY <1>3, <1>4, <1>5, <1>9, <2>2, Zenon DEF VInv
  <2> QED BY <2>1, <2>2
<1>10. ASSUME NEW j \in Key, NEW u \in Session, applies(txn'[u], op'[u], j)
       PROVE  Latest(log', j, txn'[u].pending[j])
  BY <1>3, <1>5, <1>6, <1>10, ZenonT(30) DEF VInv
<1>11. \A u \in Session : op'[u].kind = op[u].kind
  BY <1>1, <1>4
<1> QED BY <1>3, <1>9, <1>10, <1>11, Zenon DEF VInv

\* releaseAllLocks comes after the last Store call: nothing is left to apply.
LEMMA FinishV ==
  ASSUME DInv, VInv, NEW s \in Session, Finish(s)
  PROVE  VInv'
<1>1. /\ op[s].kind = "apply" /\ op[s].todo = {} /\ store' = store /\ log' = log
      /\ txn' = [txn EXCEPT ![s] = IdleTxn] /\ op' = [op EXCEPT ![s] = NoOp]
      /\ reads' = [reads EXCEPT ![s] = NoMap] /\ NoOp.kind = "none"
  BY DEF Finish, logVars, NoOp, within
<1>2. reads \in [Session -> partial(Key, Value)] /\ NoMap \in partial(Key, Value) /\ DOMAIN NoMap = {}
  BY EmptyPartial DEF VInv
<1>3. /\ \A u \in Session \ {s} : txn'[u] = txn[u] /\ op'[u] = op[u] /\ reads'[u] = reads[u]
      /\ op'[s].kind = "none" /\ DOMAIN reads'[s] = {} /\ reads' \in [Session -> partial(Key, Value)]
  BY <1>1, <1>2, Facts
<1>4. \A k : ~applies(txn'[s], op'[s], k) /\ ~applies(txn[s], op[s], k)
  BY <1>1, <1>3 DEF applies
<1>5. \A u \in Session, k \in Key : applies(txn'[u], op'[u], k) <=> applies(txn[u], op[u], k)
  BY <1>3, <1>4
<1>6. \A k \in Key : (\A u \in Session : ~applies(txn'[u], op'[u], k)) => Latest(log', k, store'[k])
  BY <1>1, <1>5 DEF VInv
<1>7. ASSUME NEW k \in Key, NEW u \in Session, applies(txn'[u], op'[u], k)
      PROVE  Latest(log', k, txn'[u].pending[k])
  <2>1. u # s
    BY <1>4, <1>7
  <2> QED BY <1>1, <1>3, <1>5, <1>7, <2>1 DEF VInv
<1>8. ASSUME NEW k \in Key, NEW u \in Session, k \in DOMAIN reads'[u], op'[u].kind \notin {"sync", "apply"}
      PROVE  Latest(log', k, reads'[u][k])
  <2>1. u # s
    BY <1>3, <1>8
  <2> QED BY <1>1, <1>3, <1>8, <2>1 DEF VInv
<1> QED BY <1>3, <1>6, <1>7, <1>8, SMTT(30) DEF VInv

-----------------------------------------------------------------------------
\* The server starts with an empty log and an empty store.
LEMMA ReplayInit ==
  ASSUME Init
  PROVE  WInv /\ VInv
<1>1. /\ log = <<>> /\ Len(log) = 0 /\ store = [k \in Key |-> Absent]
      /\ txn = [s \in Session |-> IdleTxn] /\ op = [s \in Session |-> NoOp]
      /\ reads = [s \in Session |-> NoMap]
  BY EmptySeq DEF Init, Log!LogInit
<1>2. IdleTxn.state # "ACTIVE" /\ NoOp.kind = "none" /\ NoMap \in partial(Key, Value) /\ DOMAIN NoMap = {}
  BY EmptyPartial DEF IdleTxn, NoOp, within
<1>3. WInv
  BY <1>1, <1>2 DEF WInv, Once
<1>4. \A k \in Key : Latest(log, k, Absent)
  BY <1>1 DEF Latest
<1>5. VInv
  BY <1>1, <1>2, <1>4 DEF VInv, applies
<1> QED BY <1>3, <1>5

\* Every step keeps the store and the log in agreement.
LEMMA ReplayNext ==
  ASSUME DInv, Ids, Separate, WInv, VInv, ~StoreRaces, [Next]_vars
  PROVE  WInv' /\ VInv'
<1>1. ASSUME NEW s \in Session, Command(s)
      PROVE  WInv' /\ VInv'
  <2>1. CASE \E iso \in Isolation : Begin(s, iso)
    BY <2>1, BeginW, EdgeV
  <2>2. CASE \E k \in Key : Put(s, k, txn[s].id) \/ Put(s, k, Absent) \/ Get(s, k)
    <3>1. \/ \E k \in Key, v \in {txn[s].id, Absent} : Put(s, k, v)
          \/ \E k \in Key : Get(s, k)
      BY <2>2
    <3> QED BY <3>1, EarlyW, EarlyV
  <2>3. CASE Commit(s)
    BY <2>3, QuietW, EarlyV
  <2> QED BY <1>1, <2>1, <2>2, <2>3 DEF Command
<1>2. ASSUME NEW s \in Session, Abort(s)
      PROVE  WInv' /\ VInv'
  BY <1>2, AbortW, EdgeV, SMTT(30)
<1>3. ASSUME NEW s \in Session, Continue(s)
      PROVE  WInv'
  BY <1>3, EarlyW, LogWriteW, LogCommitW, QuietW DEF Continue
<1>4. ASSUME NEW s \in Session, Continue(s)
      PROVE  VInv'
  BY <1>4, EarlyV, ReadV, LogCommitV, SyncedV, ApplyV, FinishV, SMTT(30) DEF Continue
<1>5. CASE Flush \/ UNCHANGED vars
  <2>1. UNCHANGED <<log, store, next_txn_id, txn, op, reads>>
    BY <1>5 DEF Flush, Log!Advance, vars, tmVars, logVars
  <2> QED BY <2>1, Zenon DEF WInv, VInv
<1> QED BY <1>1, <1>2, <1>3, <1>4, <1>5 DEF Next

\* So the replay of the log gives the store, and what was read.
LEMMA ReplayHolds ==
  ASSUME DInv, WInv, VInv
  PROVE  StoreIsReplay /\ ReadsAreCurrent
<1>1. LogOK /\ Once(log)
  BY DEF DInv, WInv
<1>2. ASSUME NEW k \in Key, \A s \in Session : ~applying(s, k)
      PROVE  store[k] = replay(k)
  <2>1. \A s \in Session : ~applies(txn[s], op[s], k)
    BY <1>2 DEF applying, applies
  <2>2. Latest(log, k, store[k])
    BY <2>1 DEF VInv
  <2> QED BY <1>1, <2>2, LatestIsReplay
<1>3. ASSUME NEW s \in Session, NEW k \in DOMAIN reads[s], op[s].kind \notin {"sync", "apply"}
      PROVE  reads[s][k] = replay(k)
  <2>1. k \in Key
    BY DomainPartial DEF VInv
  <2>2. Latest(log, k, reads[s][k])
    BY <1>3, <2>1 DEF VInv
  <2> QED BY <1>1, <2>1, <2>2, LatestIsReplay
<1> QED BY <1>2, <1>3, SMTT(30) DEF StoreIsReplay, ReadsAreCurrent
=============================================================================
