----------------------- MODULE TransactionLogProofs --------------------------
(* Proofs about TransactionManager, for any number of sessions, keys and   *)
(* transactions: the log comes before the store.  Nothing here is about    *)
(* locks.                                                                  *)
EXTENDS TransactionManager, SequenceFacts, WellFoundedInduction, TLAPS

Txns == [id : TxnId \cup {0}, state : {"IDLE", "ACTIVE"},
         iso : {"REPEATABLE_READ", "READ_COMMITTED"},
         pending : partial(Key, Value), held : partial(Key, {"SHARED", "EXCLUSIVE"})]
Ops  == [kind : OpKind, key : Key \cup {NoKey}, value : Value, todo : SUBSET Key, lsn : Nat]
Recs == [lsn : Nat, entry : LogEntry]

\* A COMMIT of t is among the first n records of l.
committedBy(t, n, l) ==
  \E i \in 1 .. n : l[i].entry.kind = "COMMIT" /\ l[i].entry.txn = t

\* What a session with transaction x, in the call o, knows of the log l of
\* which n records are flushed.
SessionOK(x, o, l, n) ==
  /\ x \in Txns /\ o \in Ops /\ o.lsn <= Len(l)
  /\ x.state = "ACTIVE" => x.id \in TxnId
  /\ x.state # "ACTIVE" => x = IdleTxn /\ o = NoOp
  /\ \A k \in DOMAIN x.pending : x.pending[k] \in {x.id, Absent}
  /\ o.kind \in {"put", "get", "read"} => o.key \in Key
  /\ o.kind = "put" => o.value \in {x.id, Absent}
  /\ o.kind \in {"log", "apply"} => o.todo \subseteq DOMAIN x.pending
  /\ o.kind = "sync" => committedBy(x.id, o.lsn, l)
  /\ o.kind = "apply" => committedBy(x.id, n, l)

LogOK ==
  /\ log \in Seq(Recs) /\ flushed \in 0 .. Len(log)
  /\ \A i \in 1 .. Len(log) : log[i].lsn = i

DInv ==
  /\ LogOK
  /\ next_txn_id \in 1 .. MaxTxn + 1
  /\ txn \in [Session -> Txns] /\ op \in [Session -> Ops]
  /\ \A s \in Session : SessionOK(txn[s], op[s], log, flushed)
  /\ store \in [Key -> Value]
  /\ \A k \in Key : store[k] # Absent => committedBy(store[k], flushed, log)

-----------------------------------------------------------------------------
\* The maps that pending and held are.
LEMMA PutPartial ==
  ASSUME NEW D, NEW R, NEW f \in partial(D, R), NEW k \in D, NEW v \in R
  PROVE  /\ put(f, k, v) \in partial(D, R)
         /\ DOMAIN put(f, k, v) = DOMAIN f \cup {k}
         /\ put(f, k, v)[k] = v
         /\ \A j \in DOMAIN f \ {k} : put(f, k, v)[j] = f[j]
<1>1. PICK K \in SUBSET D : f \in [K -> R]
  BY DEF partial
<1>2. K \cup {k} \in SUBSET D /\ put(f, k, v) \in [K \cup {k} -> R]
  BY <1>1 DEF put
<1>3. put(f, k, v) \in partial(D, R)
  BY <1>2 DEF partial
<1> QED BY <1>3 DEF put

LEMMA ErasePartial ==
  ASSUME NEW D, NEW R, NEW f \in partial(D, R), NEW k
  PROVE  /\ erase(f, k) \in partial(D, R)
         /\ DOMAIN erase(f, k) = DOMAIN f \ {k}
         /\ \A j \in DOMAIN f \ {k} : erase(f, k)[j] = f[j]
<1>1. PICK K \in SUBSET D : f \in [K -> R]
  BY DEF partial
<1>2. K \ {k} \in SUBSET D /\ erase(f, k) \in [K \ {k} -> R]
  BY <1>1 DEF erase
<1>3. erase(f, k) \in partial(D, R)
  BY <1>2 DEF partial
<1> QED BY <1>3 DEF erase

LEMMA EmptyPartial ==
  ASSUME NEW D, NEW R
  PROVE  NoMap \in partial(D, R) /\ DOMAIN NoMap = {}
<1>1. {} \in SUBSET D /\ NoMap \in [{} -> R]
  BY DEF NoMap
<1>2. NoMap \in partial(D, R)
  BY <1>1 DEF partial
<1> QED BY <1>2 DEF NoMap

LEMMA DomainPartial ==
  ASSUME NEW D, NEW R, NEW f \in partial(D, R)
  PROVE  DOMAIN f \subseteq D /\ \A k \in DOMAIN f : f[k] \in R
  BY DEF partial

\* A session without a transaction.
LEMMA IdleOK ==
  ASSUME NEW l, NEW n, Len(l) \in Nat
  PROVE  SessionOK(IdleTxn, NoOp, l, n) /\ IdleTxn \in Txns /\ NoOp \in Ops
<1>1. IdleTxn \in Txns
  BY EmptyPartial DEF IdleTxn, Txns
<1>2. NoOp \in Ops
  BY DEF NoOp, within, Ops, OpKind, Value
<1> QED BY <1>1, <1>2, EmptyPartial DEF SessionOK, IdleTxn, NoOp, within

\* What is known of the log stays true while it grows.
LEMMA Grows ==
  ASSUME NEW l \in Seq(Recs), NEW r \in Recs
  PROVE  /\ Append(l, r) \in Seq(Recs) /\ Len(Append(l, r)) = Len(l) + 1 /\ Len(l) \in Nat
         /\ \A i \in 1 .. Len(l) : Append(l, r)[i] = l[i]
         /\ Append(l, r)[Len(l) + 1] = r
  BY AppendProperties, LenProperties

LEMMA CommittedGrows ==
  ASSUME NEW l, NEW m, NEW a \in Nat, NEW b \in Nat, a <= b, Len(l) \in Nat, a <= Len(l),
         \A i \in 1 .. Len(l) : m[i] = l[i], NEW t, committedBy(t, a, l)
  PROVE  committedBy(t, b, m)
  BY DEF committedBy

LEMMA SessionGrows ==
  ASSUME NEW x, NEW o, NEW l, NEW n \in Nat, SessionOK(x, o, l, n), Len(l) \in Nat, n <= Len(l),
         NEW m, NEW p \in Nat, n <= p, Len(m) \in Nat, Len(l) <= Len(m),
         \A i \in 1 .. Len(l) : m[i] = l[i]
  PROVE  SessionOK(x, o, m, p)
<1>1. o.lsn \in Nat /\ o.lsn <= Len(l)
  BY DEF SessionOK, Ops
<1>2. o.kind = "sync" => committedBy(x.id, o.lsn, m)
  <2>1. committedBy(x.id, o.lsn, l) => committedBy(x.id, o.lsn, m)
    BY <1>1 DEF committedBy
  <2> QED BY <2>1 DEF SessionOK
<1>3. o.kind = "apply" => committedBy(x.id, p, m)
  BY CommittedGrows DEF SessionOK
<1>4. o.lsn <= Len(m)
  BY <1>1
<1> QED BY <1>2, <1>3, <1>4 DEF SessionOK

-----------------------------------------------------------------------------
\* How an action changes the log.
LogGrows ==
  /\ LogOK'
  /\ Len(log) <= Len(log') /\ flushed <= flushed'
  /\ \A i \in 1 .. Len(log) : log'[i] = log[i]

LEMMA LogStays ==
  ASSUME LogOK, UNCHANGED logVars
  PROVE  LogGrows
<1>1. Len(log) \in Nat /\ flushed \in Nat
  BY LenProperties DEF LogOK
<1> QED BY <1>1 DEF LogOK, LogGrows, logVars

LEMMA LogAppends ==
  ASSUME LogOK, NEW e \in LogEntry, Log!LogRecord(e)
  PROVE  /\ LogGrows /\ flushed' = flushed
         /\ Len(log') = Len(log) + 1 /\ log'[Len(log) + 1].entry = e
<1> DEFINE r == [lsn |-> Len(log) + 1, entry |-> e]
<1>1. Len(log) \in Nat /\ log \in Seq(Recs) /\ flushed \in 0 .. Len(log)
  BY LenProperties DEF LogOK
<1>2. r \in Recs /\ r.lsn = Len(log) + 1 /\ r.entry = e
  BY <1>1 DEF Recs
<1>3. log' = Append(log, r) /\ flushed' = flushed
  BY DEF Log!LogRecord, Log!nextLSN
<1> HIDE DEF r
<1>4. /\ log' \in Seq(Recs) /\ Len(log') = Len(log) + 1
      /\ \A i \in 1 .. Len(log) : log'[i] = log[i]
      /\ log'[Len(log) + 1] = r
  BY <1>1, <1>2, <1>3, Grows
<1>5. \A i \in 1 .. Len(log') : log'[i].lsn = i
  BY <1>1, <1>2, <1>4 DEF LogOK
<1>6. flushed' \in 0 .. Len(log') /\ Len(log) <= Len(log') /\ flushed <= flushed'
  BY <1>1, <1>3, <1>4
<1> QED BY <1>2, <1>3, <1>4, <1>5, <1>6 DEF LogOK, LogGrows

\* A step of session s alone.
LEMMA OneSession ==
  ASSUME DInv, LogGrows, NEW s \in Session,
         next_txn_id' \in 1 .. MaxTxn + 1,
         txn' \in [Session -> Txns], op' \in [Session -> Ops],
         \A u \in Session \ {s} : txn'[u] = txn[u] /\ op'[u] = op[u],
         SessionOK(txn'[s], op'[s], log', flushed'),
         store' \in [Key -> Value],
         \A k \in Key : \/ store'[k] = store[k]
                        \/ store'[k] # Absent => committedBy(store'[k], flushed', log')
  PROVE  DInv'
<1>1. /\ Len(log) \in Nat /\ Len(log') \in Nat /\ flushed \in Nat /\ flushed' \in Nat
      /\ flushed <= Len(log) /\ Len(log) <= Len(log') /\ flushed <= flushed'
      /\ \A i \in 1 .. Len(log) : log'[i] = log[i]
  BY LenProperties DEF DInv, LogGrows, LogOK
<1>2. ASSUME NEW u \in Session
      PROVE  SessionOK(txn'[u], op'[u], log', flushed')
  <2>1. SessionOK(txn[u], op[u], log, flushed)
    BY DEF DInv
  <2>2. SessionOK(txn[u], op[u], log', flushed')
    BY <1>1, <2>1, SessionGrows
  <2> QED BY <2>2
<1>3. ASSUME NEW k \in Key, store'[k] # Absent
      PROVE  committedBy(store'[k], flushed', log')
  <2>1. CASE store'[k] = store[k]
    <3>1. committedBy(store[k], flushed, log)
      BY <1>3, <2>1 DEF DInv
    <3>2. committedBy(store[k], flushed', log')
      BY <1>1, <3>1 DEF committedBy
    <3> QED BY <2>1, <3>2
  <2> QED BY <1>3, <2>1
<1> QED BY <1>2, <1>3 DEF DInv, LogGrows

\* The action changes the transaction of s to x and its call to o.
LEMMA SessionMoves ==
  ASSUME DInv, LogGrows, NEW s \in Session, NEW x, NEW o,
         txn' = [txn EXCEPT ![s] = x], op' = [op EXCEPT ![s] = o],
         SessionOK(x, o, log', flushed'),
         next_txn_id' \in 1 .. MaxTxn + 1, UNCHANGED store
  PROVE  DInv'
<1>1. x \in Txns /\ o \in Ops /\ txn \in [Session -> Txns] /\ op \in [Session -> Ops] /\ store \in [Key -> Value]
  BY DEF SessionOK, DInv
<1>2. /\ txn' \in [Session -> Txns] /\ op' \in [Session -> Ops]
      /\ \A u \in Session \ {s} : txn'[u] = txn[u] /\ op'[u] = op[u]
      /\ txn'[s] = x /\ op'[s] = o
  BY <1>1
<1>3. SessionOK(txn'[s], op'[s], log', flushed')
  BY <1>2
<1> QED BY <1>1, <1>2, <1>3, OneSession

LEMMA DInvInit == Init => DInv
<1> SUFFICES ASSUME Init PROVE DInv
  OBVIOUS
<1>1. <<>> \in Seq(Recs) /\ Len(<<>>) = 0
  BY EmptySeq
<1>2. LogOK
  BY <1>1 DEF Init, Log!LogInit, LogOK
<1>3. next_txn_id \in 1 .. MaxTxn + 1 /\ store \in [Key -> Value] /\ \A k \in Key : store[k] = Absent
  BY MaxAssumption DEF Init, Value
<1>4. log = <<>> /\ txn = [s \in Session |-> IdleTxn] /\ op = [s \in Session |-> NoOp]
  BY DEF Init, Log!LogInit
<1>5. SessionOK(IdleTxn, NoOp, log, flushed) /\ IdleTxn \in Txns /\ NoOp \in Ops
  BY <1>1, <1>4, IdleOK
<1>6. txn \in [Session -> Txns] /\ op \in [Session -> Ops] /\ \A s \in Session : txn[s] = IdleTxn /\ op[s] = NoOp
  BY <1>4, <1>5
<1> QED BY <1>2, <1>3, <1>5, <1>6 DEF DInv

-----------------------------------------------------------------------------
\* Each action preserves the invariant.
LEMMA Facts ==
  ASSUME DInv, NEW s \in Session
  PROVE  /\ txn[s] \in Txns /\ op[s] \in Ops /\ LogOK /\ Len(log) \in Nat
         /\ SessionOK(txn[s], op[s], log, flushed)
         /\ txn \in [Session -> Txns] /\ op \in [Session -> Ops]
  BY LenProperties DEF DInv, LogOK

\* put and delete_key, once they have the lock, with v of the transaction's own.
LEMMA BufferWriteOK ==
  ASSUME DInv, NEW s \in Session, NEW k \in Key, NEW v \in {txn[s].id, Absent},
         txn[s].state = "ACTIVE", bufferWrite(s, k, v)
  PROVE  \E x : /\ txn' = [txn EXCEPT ![s] = x]
                /\ SessionOK(x, NoOp, log, flushed)
                /\ x.id = txn[s].id /\ x.iso = txn[s].iso /\ x.state = "ACTIVE"
                /\ x.held = put(txn[s].held, k, "EXCLUSIVE") /\ x.pending = put(txn[s].pending, k, v)
<1> DEFINE h == put(txn[s].held, k, "EXCLUSIVE")
           p == put(txn[s].pending, k, v)
           x == [id |-> txn[s].id, state |-> txn[s].state, iso |-> txn[s].iso, pending |-> p, held |-> h]
<1>1. txn[s] \in Txns /\ txn \in [Session -> Txns] /\ SessionOK(txn[s], op[s], log, flushed) /\ Len(log) \in Nat
  BY Facts
<1>2. txn[s].id \in TxnId /\ v \in Value
  BY <1>1 DEF SessionOK, Value, Absent
<1>3. /\ h \in partial(Key, {"SHARED", "EXCLUSIVE"})
      /\ p \in partial(Key, Value)
      /\ DOMAIN p = DOMAIN txn[s].pending \cup {k}
      /\ p[k] = v /\ \A j \in DOMAIN txn[s].pending \ {k} : p[j] = txn[s].pending[j]
  <2>1. /\ txn[s].held \in partial(Key, {"SHARED", "EXCLUSIVE"}) /\ "EXCLUSIVE" \in {"SHARED", "EXCLUSIVE"}
        /\ txn[s].pending \in partial(Key, Value)
    BY <1>1 DEF Txns
  <2>2. h \in partial(Key, {"SHARED", "EXCLUSIVE"})
    BY <2>1, PutPartial
  <2> DEFINE f == txn[s].pending
  <2>3. f \in partial(Key, Value) /\ v \in Value
    BY <1>2, <2>1
  <2> HIDE DEF f
  <2>4. /\ put(f, k, v) \in partial(Key, Value) /\ DOMAIN put(f, k, v) = DOMAIN f \cup {k}
        /\ put(f, k, v)[k] = v /\ \A j \in DOMAIN f \ {k} : put(f, k, v)[j] = f[j]
    <3>1. put(f, k, v) \in partial(Key, Value)
      BY <2>3, PutPartial
    <3> QED BY <3>1 DEF put
  <2> QED BY <2>2, <2>4 DEF f
<1>4. txn' = [txn EXCEPT ![s] = x]
  <2>1. txn' = [txn EXCEPT ![s].held = h, ![s].pending = p]
    BY DEF bufferWrite
  <2> HIDE DEF h, p
  <2> DEFINE y == [id |-> txn[s].id, state |-> txn[s].state, iso |-> txn[s].iso,
                   pending |-> txn[s].pending, held |-> h]
  <2>2. [txn[s] EXCEPT !.held = h] = y
    BY <1>1 DEF Txns
  <2>3. [txn EXCEPT ![s].held = h] = [txn EXCEPT ![s] = y]
    BY <2>2
  <2>4. txn' = [[txn EXCEPT ![s] = y] EXCEPT ![s].pending = p]
    BY <2>1, <2>3
  <2>5. [y EXCEPT !.pending = p] = x
    OBVIOUS
  <2>6. [txn EXCEPT ![s] = y][s] = y
    BY <1>1
  <2> HIDE DEF y, x
  <2>7. txn' = [[txn EXCEPT ![s] = y] EXCEPT ![s] = x]
    BY <2>4, <2>5, <2>6
  <2> QED BY <1>1, <2>7
<1> HIDE DEF h, p
<1>5. x \in Txns
  BY <1>1, <1>3 DEF Txns
<1>6. \A j \in DOMAIN p : p[j] \in {txn[s].id, Absent}
  BY <1>1, <1>3 DEF SessionOK
<1>7. NoOp \in Ops /\ NoOp.kind = "none" /\ NoOp.lsn = 0
  BY IdleOK, <1>1 DEF NoOp, within
<1>8. SessionOK(x, NoOp, log, flushed)
  BY <1>1, <1>2, <1>5, <1>6, <1>7 DEF SessionOK
<1>9. /\ x.id = txn[s].id /\ x.iso = txn[s].iso /\ x.state = "ACTIVE"
      /\ x.held = put(txn[s].held, k, "EXCLUSIVE") /\ x.pending = put(txn[s].pending, k, v)
  BY DEF h, p
<1> HIDE DEF x
<1> QED BY <1>4, <1>8, <1>9

\* A change of what is held.
LEMMA HeldOK ==
  ASSUME DInv, NEW s \in Session, NEW h \in partial(Key, {"SHARED", "EXCLUSIVE"}),
         txn' = [txn EXCEPT ![s].held = h], txn[s].state = "ACTIVE",
         NEW o \in Ops, o.kind \in {"none", "read"}, o.lsn <= Len(log), o.kind = "read" => o.key \in Key
  PROVE  \E x : /\ txn' = [txn EXCEPT ![s] = x]
                /\ SessionOK(x, o, log, flushed)
                /\ x.id = txn[s].id /\ x.iso = txn[s].iso /\ x.state = "ACTIVE"
                /\ x.held = h /\ x.pending = txn[s].pending
<1> DEFINE x == [id |-> txn[s].id, state |-> txn[s].state, iso |-> txn[s].iso,
                 pending |-> txn[s].pending, held |-> h]
<1>1. txn[s] \in Txns /\ txn \in [Session -> Txns] /\ SessionOK(txn[s], op[s], log, flushed) /\ Len(log) \in Nat
  BY Facts
<1>2. txn' = [txn EXCEPT ![s] = x]
  <2>1. [txn[s] EXCEPT !.held = h] = x
    BY <1>1 DEF Txns
  <2> QED BY <2>1
<1>3. x \in Txns
  BY <1>1 DEF Txns
<1>4. SessionOK(x, o, log, flushed)
  BY <1>1, <1>3 DEF SessionOK
<1>5. /\ x.id = txn[s].id /\ x.iso = txn[s].iso /\ x.state = "ACTIVE"
      /\ x.held = h /\ x.pending = txn[s].pending
  OBVIOUS
<1> HIDE DEF x
<1> QED BY <1>2, <1>4, <1>5

LEMMA SameTxn ==
  ASSUME DInv, NEW s \in Session, UNCHANGED txn
  PROVE  txn' = [txn EXCEPT ![s] = txn[s]]
  BY Facts

LEMMA SameOp ==
  ASSUME DInv, NEW s \in Session, UNCHANGED op
  PROVE  op' = [op EXCEPT ![s] = op[s]]
  BY Facts

LEMMA BeginD ==
  ASSUME DInv, NEW s \in Session, NEW iso \in Isolation, Begin(s, iso)
  PROVE  DInv'
<1> DEFINE e == [txn |-> next_txn_id, kind |-> "BEGIN", key |-> NoKey, value |-> Absent]
           x == [id |-> next_txn_id, state |-> "ACTIVE", iso |-> iso, pending |-> NoMap, held |-> NoMap]
<1>1. /\ next_txn_id \in TxnId /\ next_txn_id' = next_txn_id + 1
      /\ txn' = [txn EXCEPT ![s] = x] /\ Log!LogRecord(e) /\ UNCHANGED <<store, op>>
      /\ op[s] = NoOp /\ op' = [op EXCEPT ![s] = NoOp]
  BY SameOp, MaxAssumption DEF Begin, DInv, SessionOK, TxnId
<1>2. e \in LogEntry
  BY <1>1 DEF LogEntry, Value
<1>3. LogGrows
  BY <1>1, <1>2, LogAppends, Facts
<1>4. next_txn_id' \in 1 .. MaxTxn + 1
  BY <1>1, MaxAssumption DEF TxnId
<1>5. x \in Txns
  BY <1>1, EmptyPartial, IsolationAssumption DEF Txns
<1>6. Len(log') \in Nat
  BY <1>3, LenProperties DEF LogGrows, LogOK
<1>7. SessionOK(x, NoOp, log', flushed')
  BY <1>1, <1>5, <1>6, IdleOK, EmptyPartial DEF SessionOK, NoOp, within
<1> HIDE DEF x
<1> QED BY <1>1, <1>3, <1>4, <1>7, SessionMoves

LEMMA PutD ==
  ASSUME DInv, NEW s \in Session, NEW k \in Key, NEW v \in {txn[s].id, Absent}, Put(s, k, v)
  PROVE  DInv'
<1>1. /\ LogGrows /\ UNCHANGED store /\ next_txn_id' \in 1 .. MaxTxn + 1
      /\ log' = log /\ flushed' = flushed
      /\ txn[s].state = "ACTIVE" /\ op[s] = NoOp
  BY LogStays DEF Put, DInv, logVars, ready
<1>2. CASE bufferWrite(s, k, v) /\ UNCHANGED op
  <2>1. PICK x : txn' = [txn EXCEPT ![s] = x] /\ SessionOK(x, NoOp, log, flushed)
    BY <1>1, <1>2, BufferWriteOK
  <2>2. op' = [op EXCEPT ![s] = NoOp]
    BY <1>1, <1>2, SameOp
  <2>3. SessionOK(x, NoOp, log', flushed')
    BY <1>1, <2>1
  <2> QED BY <1>1, <2>1, <2>2, <2>3, SessionMoves
<1>3. CASE op' = [op EXCEPT ![s] = within("put", k, v)] /\ UNCHANGED txn
  <2>1. SessionOK(txn[s], within("put", k, v), log, flushed)
    <3>1. within("put", k, v) \in Ops
      BY <1>1, Facts DEF within, Ops, OpKind, SessionOK, Value, Absent
    <3> QED BY <1>1, <3>1, Facts DEF SessionOK, within
  <2>2. SessionOK(txn[s], within("put", k, v), log', flushed')
    BY <1>1, <2>1
  <2> QED BY <1>1, <1>3, <2>2, SameTxn, SessionMoves
<1> QED BY <1>2, <1>3 DEF Put

LEMMA GetD ==
  ASSUME DInv, NEW s \in Session, NEW k \in Key, Get(s, k)
  PROVE  DInv'
<1>1. /\ LogGrows /\ UNCHANGED store /\ next_txn_id' \in 1 .. MaxTxn + 1
      /\ log' = log /\ flushed' = flushed
      /\ txn[s].state = "ACTIVE" /\ op[s] = NoOp
  BY LogStays DEF Get, DInv, logVars, ready
<1>2. within("read", k, Absent) \in Ops /\ within("get", k, Absent) \in Ops
  BY DEF within, Ops, OpKind, Value
<1>3. CASE op' = [op EXCEPT ![s] = within("read", k, Absent)] /\ txn' = [txn EXCEPT ![s].held = put(@, k, "SHARED")]
  <2> DEFINE h == put(txn[s].held, k, "SHARED")
  <2>1. h \in partial(Key, {"SHARED", "EXCLUSIVE"}) /\ txn' = [txn EXCEPT ![s].held = h]
    BY <1>3, Facts, PutPartial DEF Txns
  <2> DEFINE o == within("read", k, Absent)
  <2>2. o \in Ops /\ o.kind = "read" /\ o.lsn = 0 /\ o.key = k
    BY <1>2 DEF within
  <2>3. op' = [op EXCEPT ![s] = o]
    BY <1>3
  <2> HIDE DEF h, o
  <2>6. o.lsn <= Len(log)
    BY <2>2, Facts
  <2>4. PICK x : txn' = [txn EXCEPT ![s] = x] /\ SessionOK(x, o, log, flushed)
    BY <1>1, <2>1, <2>2, <2>6, HeldOK
  <2>5. SessionOK(x, o, log', flushed')
    BY <1>1, <2>4
  <2> QED BY <1>1, <2>3, <2>4, <2>5, SessionMoves
<1>4. CASE op' = [op EXCEPT ![s] = within("get", k, Absent)] /\ UNCHANGED txn
  <2>1. SessionOK(txn[s], within("get", k, Absent), log, flushed)
    BY <1>1, <1>2, Facts DEF SessionOK, within
  <2>2. SessionOK(txn[s], within("get", k, Absent), log', flushed')
    BY <1>1, <2>1
  <2> QED BY <1>1, <1>4, <2>2, SameTxn, SessionMoves
<1> QED BY <1>3, <1>4 DEF Get

LEMMA ResumeD ==
  ASSUME DInv, NEW s \in Session, Resume(s)
  PROVE  DInv'
<1>1. /\ LogGrows /\ UNCHANGED store /\ next_txn_id' \in 1 .. MaxTxn + 1
      /\ log' = log /\ flushed' = flushed
      /\ op[s].kind \in {"put", "get"}
  BY LogStays DEF Resume, DInv, logVars
<1>2. /\ txn[s].state = "ACTIVE" /\ op[s].key \in Key
      /\ op[s].kind = "put" => op[s].value \in {txn[s].id, Absent}
  BY <1>1, Facts DEF SessionOK, NoOp, within
<1>3. CASE /\ op[s].kind = "put" /\ bufferWrite(s, op[s].key, op[s].value)
           /\ op' = [op EXCEPT ![s] = NoOp]
  <2>1. PICK x : txn' = [txn EXCEPT ![s] = x] /\ SessionOK(x, NoOp, log, flushed)
    BY <1>2, <1>3, BufferWriteOK
  <2>2. SessionOK(x, NoOp, log', flushed')
    BY <1>1, <2>1
  <2> QED BY <1>1, <1>3, <2>1, <2>2, SessionMoves
<1>4. CASE /\ op[s].kind = "get" /\ txn' = [txn EXCEPT ![s].held = put(@, op[s].key, "SHARED")]
           /\ op' = [op EXCEPT ![s].kind = "read"]
  <2> DEFINE h == put(txn[s].held, op[s].key, "SHARED")
             o == [op[s] EXCEPT !.kind = "read"]
  <2>1. h \in partial(Key, {"SHARED", "EXCLUSIVE"}) /\ txn' = [txn EXCEPT ![s].held = h]
    BY <1>2, <1>4, Facts, PutPartial DEF Txns
  <2>2. o \in Ops /\ o.kind = "read" /\ o.lsn = op[s].lsn /\ o.key \in Key
    BY <1>2, Facts DEF Ops, OpKind
  <2>3. op' = [op EXCEPT ![s] = o]
    BY <1>4
  <2> HIDE DEF h, o
  <2>6. o.lsn <= Len(log)
    BY <2>2, Facts DEF SessionOK
  <2>4. PICK x : txn' = [txn EXCEPT ![s] = x] /\ SessionOK(x, o, log, flushed)
    BY <1>2, <2>1, <2>2, <2>6, HeldOK
  <2>5. SessionOK(x, o, log', flushed')
    BY <1>1, <2>4
  <2> QED BY <1>1, <2>3, <2>4, <2>5, SessionMoves
<1> QED BY <1>3, <1>4 DEF Resume

LEMMA GiveUpD ==
  ASSUME DInv, NEW s \in Session, GiveUp(s)
  PROVE  DInv'
<1> DEFINE o == within("abort", NoKey, Absent)
<1>1. /\ LogGrows /\ UNCHANGED <<store, txn>> /\ next_txn_id' \in 1 .. MaxTxn + 1
      /\ log' = log /\ flushed' = flushed
      /\ op[s].kind \in {"put", "get"} /\ op' = [op EXCEPT ![s] = o]
  BY LogStays DEF GiveUp, DInv, logVars
<1>2. o \in Ops /\ o.kind = "abort" /\ o.lsn = 0
  BY DEF within, Ops, OpKind, Value
<1>3. SessionOK(txn[s], o, log, flushed)
  BY <1>1, <1>2, Facts DEF SessionOK, NoOp, within
<1>4. SessionOK(txn[s], o, log', flushed')
  BY <1>1, <1>3
<1> HIDE DEF o
<1> QED BY <1>1, <1>4, SameTxn, SessionMoves

LEMMA ReadD ==
  ASSUME DInv, NEW s \in Session, Read(s)
  PROVE  DInv'
<1>1. /\ LogGrows /\ UNCHANGED store /\ next_txn_id' \in 1 .. MaxTxn + 1
      /\ log' = log /\ flushed' = flushed
      /\ op[s].kind = "read" /\ op' = [op EXCEPT ![s] = NoOp]
  BY LogStays DEF Read, DInv, logVars
<1>2. txn[s].state = "ACTIVE" /\ NoOp \in Ops /\ NoOp.kind = "none" /\ NoOp.lsn <= Len(log)
  <2>1. txn[s].state = "ACTIVE"
    BY <1>1, Facts DEF SessionOK, NoOp, within
  <2>2. Len(log) \in Nat
    BY Facts
  <2>3. NoOp \in Ops
    BY <2>2, IdleOK
  <2>4. NoOp.kind = "none" /\ NoOp.lsn <= Len(log)
    BY <2>2 DEF NoOp, within
  <2> QED BY <2>1, <2>3, <2>4
<1>3. CASE txn' = [txn EXCEPT ![s].held = erase(@, op[s].key)]
  <2> DEFINE h == erase(txn[s].held, op[s].key)
  <2>1. h \in partial(Key, {"SHARED", "EXCLUSIVE"}) /\ txn' = [txn EXCEPT ![s].held = h]
    BY <1>3, Facts, ErasePartial DEF Txns
  <2> HIDE DEF h
  <2>2. PICK x : txn' = [txn EXCEPT ![s] = x] /\ SessionOK(x, NoOp, log, flushed)
    BY <1>2, <2>1, HeldOK
  <2>3. SessionOK(x, NoOp, log', flushed')
    BY <1>1, <2>2
  <2> QED BY <1>1, <2>2, <2>3, SessionMoves
<1>4. CASE UNCHANGED txn
  <2>1. SessionOK(txn[s], NoOp, log, flushed)
    BY <1>2, Facts DEF SessionOK
  <2>2. SessionOK(txn[s], NoOp, log', flushed')
    BY <1>1, <2>1
  <2> QED BY <1>1, <1>4, <2>2, SameTxn, SessionMoves
<1> QED BY <1>3, <1>4 DEF Read

\* The end of a transaction, by abort or after the last Store call.
LEMMA EndD ==
  ASSUME DInv, NEW s \in Session, LogGrows,
         txn' = [txn EXCEPT ![s] = IdleTxn], op' = [op EXCEPT ![s] = NoOp],
         UNCHANGED <<store, next_txn_id>>
  PROVE  DInv'
<1>1. Len(log') \in Nat /\ next_txn_id' \in 1 .. MaxTxn + 1 /\ UNCHANGED store
  BY LenProperties DEF LogGrows, LogOK, DInv
<1>2. SessionOK(IdleTxn, NoOp, log', flushed')
  BY <1>1, IdleOK
<1> QED BY <1>1, <1>2, SessionMoves

\* A session in a call has a transaction.
LEMMA InCall ==
  ASSUME DInv, NEW s \in Session, op[s].kind # "none" \/ txn[s].state = "ACTIVE"
  PROVE  txn[s].state = "ACTIVE" /\ txn[s].id \in TxnId
  BY Facts DEF SessionOK, NoOp, within

LEMMA RecordD ==
  ASSUME DInv, NEW s \in Session, op[s].kind # "none" \/ txn[s].state = "ACTIVE",
         NEW kind \in {"WRITE", "COMMIT", "ABORT"}, NEW k \in Key \cup {NoKey}, NEW v \in Value,
         record(s, kind, k, v)
  PROVE  /\ LogGrows /\ flushed' = flushed /\ Len(log') = Len(log) + 1
         /\ log'[Len(log) + 1].entry.kind = kind /\ log'[Len(log) + 1].entry.txn = txn[s].id
<1> DEFINE e == [txn |-> txn[s].id, kind |-> kind, key |-> k, value |-> v]
<1>1. e \in LogEntry /\ e.kind = kind /\ e.txn = txn[s].id
  BY InCall DEF LogEntry
<1>2. Log!LogRecord(e)
  BY DEF record
<1> HIDE DEF e
<1> QED BY <1>1, <1>2, LogAppends, Facts

\* The first key that commit has still to see to.
LEMMA LeastKey ==
  ASSUME NEW K \in SUBSET Key, K # {}
  PROVE  Min(K) \in K
<1>1. K \subseteq Nat
  BY DEF Key
<1>2. \E m \in K : \A y \in K : m <= y
  <2> DEFINE R == {ss \in Nat \X Nat : ss[1] < ss[2]}
  <2>1. IsWellFoundedOn(R, Nat)
    BY NatLessThanWellFounded DEF OpToRel
  <2>2. \A y, m \in Nat : y < m => <<y, m>> \in R
    OBVIOUS
  <2> HIDE DEF R
  <2>3. PICK m \in K : \A y \in K : ~(<<y, m>> \in R)
    BY <1>1, <2>1, WFMin
  <2>4. ASSUME NEW y \in K
        PROVE  m <= y
    <3>1. m \in Nat /\ y \in Nat
      BY <1>1
    <3>2. ~(y < m)
      BY <2>2, <2>3, <3>1
    <3> QED BY <3>1, <3>2
  <2> QED BY <2>4
<1> QED BY <1>2 DEF Min

LEMMA CommitD ==
  ASSUME DInv, NEW s \in Session, Commit(s)
  PROVE  DInv'
<1> DEFINE o == committing("log", DOMAIN txn[s].pending, 0)
<1>1. /\ LogGrows /\ UNCHANGED <<store, txn>> /\ next_txn_id' \in 1 .. MaxTxn + 1
      /\ log' = log /\ flushed' = flushed
      /\ txn[s].state = "ACTIVE" /\ op' = [op EXCEPT ![s] = o]
  BY LogStays DEF Commit, DInv, logVars, ready
<1>2. DOMAIN txn[s].pending \subseteq Key
  BY Facts, DomainPartial DEF Txns
<1>3. o \in Ops /\ o.kind = "log" /\ o.lsn = 0 /\ o.todo = DOMAIN txn[s].pending
  BY <1>2 DEF committing, Ops, OpKind, Value
<1> HIDE DEF o
<1>4. SessionOK(txn[s], o, log, flushed)
  BY <1>1, <1>3, Facts DEF SessionOK
<1>5. SessionOK(txn[s], o, log', flushed')
  BY <1>1, <1>4
<1> QED BY <1>1, <1>5, SameTxn, SessionMoves

LEMMA LogWriteD ==
  ASSUME DInv, NEW s \in Session, LogWrite(s)
  PROVE  DInv'
<1> DEFINE k == Min(op[s].todo)
           o == [op[s] EXCEPT !.todo = @ \ {k}]
<1>1. op[s] \in Ops /\ op[s].kind = "log" /\ op[s].todo # {} /\ op[s].todo \subseteq DOMAIN txn[s].pending
  BY Facts DEF LogWrite, SessionOK
<1>2. k \in op[s].todo /\ k \in Key
  BY <1>1, LeastKey DEF Ops
<1> HIDE DEF k
<1>3. /\ record(s, "WRITE", k, txn[s].pending[k]) /\ op' = [op EXCEPT ![s] = o]
      /\ UNCHANGED <<store, next_txn_id, txn>>
  BY DEF LogWrite, k
<1>4. txn[s].pending[k] \in Value
  BY <1>1, <1>2, Facts, DomainPartial DEF Txns
<1>5. LogGrows
  BY <1>1, <1>2, <1>3, <1>4, RecordD
<1>6. o \in Ops /\ o.kind = "log" /\ o.lsn = op[s].lsn /\ o.todo \subseteq DOMAIN txn[s].pending
  BY <1>1 DEF Ops
<1> HIDE DEF o
<1>7. SessionOK(txn[s], o, log, flushed)
  BY <1>1, <1>6, InCall, Facts DEF SessionOK
<1>8. SessionOK(txn[s], o, log', flushed')
  <2>1. /\ Len(log) \in Nat /\ Len(log') \in Nat /\ flushed \in Nat /\ flushed' \in Nat
        /\ flushed <= Len(log) /\ Len(log) <= Len(log') /\ flushed <= flushed'
        /\ \A i \in 1 .. Len(log) : log'[i] = log[i]
    BY <1>5, LenProperties DEF DInv, LogGrows, LogOK
  <2> QED BY <1>7, <2>1, SessionGrows
<1>9. next_txn_id' \in 1 .. MaxTxn + 1 /\ UNCHANGED <<store, txn>>
  BY <1>3 DEF DInv
<1> QED BY <1>3, <1>5, <1>8, <1>9, SameTxn, SessionMoves

LEMMA LogCommitD ==
  ASSUME DInv, NEW s \in Session, LogCommit(s)
  PROVE  DInv'
<1> DEFINE o == committing("sync", {}, Len(log) + 1)
<1>1. /\ op[s].kind = "log" /\ record(s, "COMMIT", NoKey, Absent) /\ op' = [op EXCEPT ![s] = o]
      /\ UNCHANGED <<store, txn>> /\ next_txn_id' \in 1 .. MaxTxn + 1
  BY DEF LogCommit, DInv, Log!nextLSN
<1>2. /\ LogGrows /\ Len(log') = Len(log) + 1
      /\ log'[Len(log) + 1].entry.kind = "COMMIT" /\ log'[Len(log) + 1].entry.txn = txn[s].id
  <2>1. NoKey \in Key \cup {NoKey} /\ Absent \in Value
    BY DEF Value
  <2> QED BY <1>1, <2>1, RecordD
<1>3. Len(log) \in Nat
  BY Facts
<1>4. committedBy(txn[s].id, Len(log) + 1, log')
  BY <1>2, <1>3 DEF committedBy
<1>5. o \in Ops /\ o.kind = "sync" /\ o.lsn = Len(log) + 1
  BY <1>3 DEF committing, Ops, OpKind, Value
<1> HIDE DEF o
<1>6. SessionOK(txn[s], o, log', flushed')
  BY <1>1, <1>2, <1>3, <1>4, <1>5, InCall, Facts DEF SessionOK
<1> QED BY <1>1, <1>2, <1>6, SameTxn, SessionMoves

LEMMA SyncedD ==
  ASSUME DInv, NEW s \in Session, Synced(s)
  PROVE  DInv'
<1> DEFINE o == committing("apply", DOMAIN txn[s].pending, 0)
<1>1. /\ op[s].kind = "sync" /\ flushed >= op[s].lsn /\ op' = [op EXCEPT ![s] = o]
      /\ LogGrows /\ UNCHANGED <<store, txn>> /\ next_txn_id' \in 1 .. MaxTxn + 1
      /\ log' = log /\ flushed' = flushed
  BY LogStays DEF Synced, DInv, logVars
<1>2. DOMAIN txn[s].pending \subseteq Key
  BY Facts, DomainPartial DEF Txns
<1>3. o \in Ops /\ o.kind = "apply" /\ o.lsn = 0 /\ o.todo = DOMAIN txn[s].pending
  BY <1>2 DEF committing, Ops, OpKind, Value
<1> HIDE DEF o
<1>4. op[s].lsn \in Nat /\ flushed \in Nat /\ committedBy(txn[s].id, op[s].lsn, log)
  BY <1>1, Facts DEF SessionOK, Ops, LogOK
<1>5. committedBy(txn[s].id, flushed, log)
  BY <1>1, <1>4 DEF committedBy
<1>6. SessionOK(txn[s], o, log, flushed)
  BY <1>1, <1>3, <1>5, InCall, Facts DEF SessionOK
<1>7. SessionOK(txn[s], o, log', flushed')
  BY <1>1, <1>6
<1> QED BY <1>1, <1>7, SameTxn, SessionMoves

\* A write reaches the store only behind its flushed COMMIT; a call disturbed
\* by another one leaves the store as it was.
LEMMA ApplyD ==
  ASSUME DInv, NEW s \in Session, Apply(s)
  PROVE  DInv'
<1> DEFINE k == Min(op[s].todo)
           o == [op[s] EXCEPT !.todo = @ \ {k}]
<1>1. /\ op[s] \in Ops /\ op[s].kind = "apply" /\ op[s].todo # {} /\ op[s].todo \subseteq DOMAIN txn[s].pending
      /\ committedBy(txn[s].id, flushed, log)
  BY Facts DEF Apply, SessionOK
<1>2. k \in op[s].todo /\ k \in Key
  BY <1>1, LeastKey DEF Ops
<1> HIDE DEF k
<1>3. /\ store' = [store EXCEPT ![k] = txn[s].pending[k]] \/ store' = store
      /\ op' = [op EXCEPT ![s] = o] /\ UNCHANGED <<logVars, next_txn_id, txn>>
  BY DEF Apply, k
<1>4. txn[s].pending[k] \in Value /\ txn[s].pending[k] \in {txn[s].id, Absent}
  BY <1>1, <1>2, Facts, DomainPartial DEF Txns, SessionOK
<1>5. LogGrows /\ log' = log /\ flushed' = flushed /\ next_txn_id' \in 1 .. MaxTxn + 1
  BY <1>3, LogStays DEF DInv, logVars
<1>6. o \in Ops /\ o.kind = "apply" /\ o.lsn = op[s].lsn /\ o.todo \subseteq DOMAIN txn[s].pending
  BY <1>1 DEF Ops
<1> HIDE DEF o
<1>7. SessionOK(txn[s], o, log, flushed)
  BY <1>1, <1>6, InCall, Facts DEF SessionOK
<1>8. /\ store' \in [Key -> Value]
      /\ \A j \in Key : store'[j] = store[j] \/ (store'[j] # Absent => committedBy(store'[j], flushed, log))
  BY <1>1, <1>2, <1>3, <1>4 DEF DInv
<1>9. /\ txn' \in [Session -> Txns] /\ op' \in [Session -> Ops] /\ txn'[s] = txn[s] /\ op'[s] = o
      /\ \A u \in Session \ {s} : txn'[u] = txn[u] /\ op'[u] = op[u]
  BY <1>3, <1>6, Facts
<1>10. SessionOK(txn'[s], op'[s], log', flushed')
  BY <1>5, <1>7, <1>9
<1>11. \A j \in Key : store'[j] = store[j] \/ (store'[j] # Absent => committedBy(store'[j], flushed', log'))
  BY <1>5, <1>8
<1> QED BY <1>5, <1>8, <1>9, <1>10, <1>11, OneSession

LEMMA FlushD ==
  ASSUME DInv, Flush
  PROVE  DInv'
<1>1. /\ flushed' \in flushed + 1 .. Len(log) /\ log' = log /\ UNCHANGED <<store, next_txn_id, txn, op>>
      /\ LogOK /\ Len(log) \in Nat /\ flushed \in Nat /\ flushed <= Len(log)
  BY LenProperties DEF Flush, Log!Advance, tmVars, DInv, LogOK
<1>2. LogOK' /\ flushed <= flushed' /\ flushed' \in Nat
  BY <1>1 DEF LogOK
<1>3. ASSUME NEW s \in Session
      PROVE  SessionOK(txn[s], op[s], log', flushed')
  <2>1. SessionOK(txn[s], op[s], log, flushed)
    BY DEF DInv
  <2> QED BY <1>1, <1>2, <2>1, SessionGrows
<1>4. ASSUME NEW k \in Key, store[k] # Absent
      PROVE  committedBy(store[k], flushed', log')
  <2>1. committedBy(store[k], flushed, log)
    BY <1>4 DEF DInv
  <2> QED BY <1>1, <1>2, <2>1 DEF committedBy
<1> QED BY <1>1, <1>2, <1>3, <1>4 DEF DInv

LEMMA DInvStutter ==
  ASSUME DInv, UNCHANGED <<logVars, store, next_txn_id, txn, op>>
  PROVE  DInv'
  BY DEF DInv, LogOK, logVars

LEMMA DInvNext ==
  ASSUME DInv, [Next]_vars
  PROVE  DInv'
<1>1. ASSUME NEW s \in Session, Command(s)
      PROVE  DInv'
  BY <1>1, BeginD, PutD, GetD, CommitD DEF Command
<1>2. ASSUME NEW s \in Session, Abort(s)
      PROVE  DInv'
  <2>1. LogGrows
    <3>1. /\ record(s, "ABORT", NoKey, Absent) /\ (op[s].kind # "none" \/ txn[s].state = "ACTIVE")
          /\ NoKey \in Key \cup {NoKey} /\ Absent \in Value
      BY <1>2 DEF Abort, ready, Value
    <3> QED BY <3>1, RecordD
  <2> QED BY <1>2, <2>1, EndD DEF Abort
<1>3. ASSUME NEW s \in Session, Finish(s)
      PROVE  DInv'
  <2>1. LogGrows
    BY <1>3, LogStays DEF Finish, DInv
  <2> QED BY <1>3, <2>1, EndD DEF Finish
<1>4. ASSUME NEW s \in Session, Continue(s)
      PROVE  DInv'
  BY <1>3, <1>4, ResumeD, GiveUpD, ReadD, LogWriteD, LogCommitD, SyncedD, ApplyD DEF Continue
<1>5. CASE UNCHANGED vars
  BY <1>5, DInvStutter DEF vars, tmVars
<1> QED BY <1>1, <1>2, <1>4, <1>5, FlushD DEF Next

\* What commit has logged, what it has still to log and what the store holds
\* agree in every reachable state, at either isolation level.
THEOREM LogInvariant == Spec => []DInv
  BY DInvInit, DInvNext, PTL DEF Spec

\* Nobody sees a write whose COMMIT record is not flushed, at either isolation
\* level and even if Store calls disturb each other: log before apply.
THEOREM NoDirtyReads == Spec => []FlushedBeforeVisible
<1>1. DInv => FlushedBeforeVisible
  BY DEF DInv, FlushedBeforeVisible, committedBy
<1> QED BY <1>1, LogInvariant, PTL
=============================================================================
