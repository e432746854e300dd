-------------------------- MODULE AuditStoreProofs --------------------------
(***************************************************************************)
(* Proofs about AuditStore, for any number of processes, threads, events,  *)
(* verifications, crashes and edits of the table.                          *)
(***************************************************************************)
EXTENDS AuditStore, SequenceLemmas, NaturalsInduction, TLAPS

InCall == {"lock", "begin", "read", "insert", "update", "commit", "stored", "failed"}
InTxn  == {"read", "insert", "update", "commit"}

\* Whoever is between BEGIN IMMEDIATE and COMMIT, and only he, is the writer.
OneWriter == \A t \in Thread : pc[t] \in InTxn <=> writer = t

\* A thread inside a call has an event in hand.
HasEvent == \A t \in Thread : pc[t] \in InCall => event[t] \in Event

\* How far the writer's view of the database is ahead of the committed one.
NewRow(t, r) == /\ r.event = event[t]
                /\ r.prev = db.last
                /\ r.hash = Hash(db.last, event[t])

Progress(t) ==
  /\ pc[t] \in {"read", "insert"} => txn = db
  /\ pc[t] \in {"insert", "update", "commit"} => prev[t] = db.last
  /\ pc[t] \in {"update", "commit"} =>
       \E r \in Row : NewRow(t, r) /\ txn.rows = Append(db.rows, r)
  /\ pc[t] = "update" => txn.last = db.last /\ txn.count = db.count
  /\ pc[t] = "commit" => /\ txn.last = Hash(db.last, event[t])
                         /\ txn.count = db.count + 1

IInv == /\ TypeOK
        /\ OneWriter
        /\ HasEvent
        /\ \A t \in Thread : Progress(t)
        /\ ChainIntact

-----------------------------------------------------------------------------
(* Digests and chains                                                      *)

\* Equal digests have equal predecessors and equal events: sha256 over the
\* previous digest and the fields, taken as its preimage, is one to one.
LEMMA HashInjective ==
  ASSUME NEW p \in Digest, NEW q \in Digest, NEW d \in Event, NEW e \in Event,
         Hash(p, d) = Hash(q, e)
  PROVE  p = q /\ d = e
<1>1. Len(p) = Len(q)
  BY DEF Hash, Digest
<1>2. d = e
  BY <1>1 DEF Hash, Digest
<1>3. \A i \in 1..Len(p) : p[i] = q[i]
  BY <1>1 DEF Hash, Digest
<1>4. QED
  BY <1>1, <1>2, <1>3 DEF Digest

\* A chain that ends where meta says stays one when a row that follows its last
\* digest is added.
LEMMA ChainExtends ==
  ASSUME NEW rs \in Seq(Row), NEW r \in Row, BadRows(rs) = {},
         r.prev = LastHash(rs), r.hash = Hash(r.prev, r.event)
  PROVE  BadRows(Append(rs, r)) = {} /\ LastHash(Append(rs, r)) = r.hash
<1> DEFINE ss == Append(rs, r)
<1>1. /\ ss \in Seq(Row) /\ Len(ss) = Len(rs) + 1 /\ ss[Len(rs) + 1] = r
      /\ \A i \in 1..Len(rs) : ss[i] = rs[i]
      /\ DOMAIN ss = 1..Len(ss) /\ DOMAIN rs = 1..Len(rs)
  OBVIOUS
<1> HIDE DEF ss
<1>2. ASSUME NEW i \in 1..Len(rs)
      PROVE  PrevHash(ss, i) = PrevHash(rs, i)
  BY <1>1 DEF PrevHash
<1>3. PrevHash(ss, Len(rs) + 1) = LastHash(rs)
  <2>1. CASE rs = <<>>
    BY <1>1, <2>1 DEF PrevHash, LastHash
  <2>2. CASE rs # <<>>
    <3>1. Len(rs) \in Nat /\ Len(rs) # 0
      BY <2>2
    <3>2. PrevHash(ss, Len(rs) + 1) = ss[Len(rs)].hash
      BY <3>1 DEF PrevHash
    <3>3. Len(rs) \in 1..Len(rs)
      BY <3>1
    <3> QED
      BY <1>1, <2>2, <3>2, <3>3 DEF LastHash
  <2>3. QED
    BY <2>1, <2>2
<1>4. ASSUME NEW i \in DOMAIN ss
      PROVE  i \notin BadRows(ss)
  <2>1. CASE i \in 1..Len(rs)
    BY <1>1, <1>2, <2>1 DEF BadRows
  <2>2. CASE i = Len(rs) + 1
    BY <1>1, <1>3, <2>2 DEF BadRows
  <2>3. QED
    BY <1>1, <2>1, <2>2
<1>5. BadRows(ss) = {}
  BY <1>4 DEF BadRows
<1>6. ss # <<>>
  BY <1>1
<1>7. LastHash(ss) = r.hash
  BY <1>1, <1>6 DEF LastHash
<1>8. QED
  BY <1>5, <1>7 DEF ss

\* What a row of a chain stores.
LEMMA ChainRow ==
  ASSUME NEW rs \in Seq(Row), BadRows(rs) = {}, NEW i \in 1..Len(rs)
  PROVE  /\ rs[i] \in Row
         /\ PrevHash(rs, i) \in Digest
         /\ rs[i].hash = Hash(PrevHash(rs, i), rs[i].event)
<1>1. rs[i] \in Row /\ i \in DOMAIN rs
  OBVIOUS
<1>2. i \notin BadRows(rs)
  OBVIOUS
<1>3. rs[i].prev = PrevHash(rs, i) /\ rs[i].hash = Hash(PrevHash(rs, i), rs[i].event)
  BY <1>1, <1>2 DEF BadRows
<1>4. rs[i].prev \in Digest
  BY <1>1 DEF Row
<1>5. QED
  BY <1>1, <1>3, <1>4

\* verify_chain as a function of what it reads (store.py:155-173): two tables
\* that both verify against the same audit_meta record hold the same events.
\* No edit of audit_events alone gets past it, whatever its kind.
THEOREM TamperEvidence ==
  ASSUME NEW rs \in Seq(Row), NEW ss \in Seq(Row),
         BadRows(rs) = {}, BadRows(ss) = {},
         Len(rs) = Len(ss), LastHash(rs) = LastHash(ss)
  PROVE  Events(rs) = Events(ss)
<1> DEFINE n == Len(rs)
           D == {k \in 0..(n - 1) : rs[n - k].hash # ss[n - k].hash}
<1>0. n \in Nat
  OBVIOUS
<1> HIDE DEF n
<1>1. D = {}
  <2>1. SUFFICES ASSUME D # {} PROVE FALSE
    OBVIOUS
  <2>2. PICK k \in D : \A j \in D : k <= j
    <3>1. D \subseteq Nat
      BY <1>0
    <3>2. QED
      BY <2>1, <3>1, LeastNatural
  <2>3. k \in 0..(n - 1) /\ rs[n - k].hash # ss[n - k].hash
    BY <2>2
  <2>4. k # 0
    <3>1. SUFFICES ASSUME k = 0 PROVE FALSE
      OBVIOUS
    <3>2. n # 0 /\ n - k = n
      BY <1>0, <2>3, <3>1
    <3>3. rs # <<>> /\ ss # <<>>
      BY <3>2 DEF n
    <3>4. rs[n].hash = ss[n].hash
      BY <3>3 DEF LastHash, n
    <3>5. QED
      BY <2>3, <3>2, <3>4
  <2> DEFINE i == n - k + 1
  <2>5. i \in 2..n /\ i - 1 = n - k
    BY <1>0, <2>3, <2>4
  <2>6. rs[i].hash = ss[i].hash
    <3>1. k - 1 \in 0..(n - 1) /\ n - (k - 1) = i /\ ~ (k <= k - 1)
      BY <1>0, <2>3, <2>4
    <3>2. k - 1 \notin D
      BY <2>2, <3>1
    <3>3. QED
      BY <3>1, <3>2
  <2> HIDE DEF i
  <2>7. i \in 1..Len(rs) /\ i \in 1..Len(ss) /\ i # 1
    BY <1>0, <2>5 DEF n
  <2>8. PrevHash(rs, i) = rs[n - k].hash /\ PrevHash(ss, i) = ss[n - k].hash
    BY <2>5, <2>7 DEF PrevHash
  <2>9. PrevHash(rs, i) = PrevHash(ss, i)
    <3>1. /\ PrevHash(rs, i) \in Digest /\ rs[i].event \in Event
          /\ rs[i].hash = Hash(PrevHash(rs, i), rs[i].event)
      BY <2>7, ChainRow DEF Row
    <3>2. /\ PrevHash(ss, i) \in Digest /\ ss[i].event \in Event
          /\ ss[i].hash = Hash(PrevHash(ss, i), ss[i].event)
      BY <2>7, ChainRow DEF Row
    <3>3. Hash(PrevHash(rs, i), rs[i].event) = Hash(PrevHash(ss, i), ss[i].event)
      BY <2>6, <3>1, <3>2
    <3>4. QED
      BY ONLY <3>1, <3>2, <3>3, HashInjective
  <2>10. QED
    BY <2>3, <2>8, <2>9
<1>2. ASSUME NEW i \in 1..n
      PROVE  rs[i].hash = ss[i].hash
  <2>1. n - i \in 0..(n - 1) /\ n - (n - i) = i
    BY <1>0
  <2>2. n - i \notin D
    BY <1>1
  <2>3. QED
    BY <2>1, <2>2
<1>3. ASSUME NEW i \in 1..n
      PROVE  rs[i].event = ss[i].event
  <2>1. i \in 1..Len(rs) /\ i \in 1..Len(ss)
    BY DEF n
  <2>2. /\ PrevHash(rs, i) \in Digest /\ rs[i].event \in Event
        /\ rs[i].hash = Hash(PrevHash(rs, i), rs[i].event)
    BY <2>1, ChainRow DEF Row
  <2>3. /\ PrevHash(ss, i) \in Digest /\ ss[i].event \in Event
        /\ ss[i].hash = Hash(PrevHash(ss, i), ss[i].event)
    BY <2>1, ChainRow DEF Row
  <2>4. QED
    BY <1>2, <2>2, <2>3, HashInjective
<1>4. DOMAIN rs = 1..n /\ DOMAIN ss = 1..n
  BY DEF n
<1>5. QED
  BY <1>3, <1>4 DEF Events
-----------------------------------------------------------------------------
(* The inductive invariant                                                 *)

LEMMA EmptyType == Empty \in Db
<1>1. <<>> \in Seq(Row) /\ <<>> \in Seq(Event)
  OBVIOUS
<1>2. QED
  BY <1>1 DEF Empty, Db, Digest, Genesis

LEMMA HashType == ASSUME NEW p \in Digest, NEW e \in Event PROVE Hash(p, e) \in Digest
BY DEF Hash, Digest

\* An edit of the table leaves rows behind, whatever else it does.
LEMMA TamperedType ==
  ASSUME NEW rs \in Seq(Row), NEW i \in DOMAIN rs, NEW ts \in TamperedAt(rs, i)
  PROVE  ts \in Seq(Row)
<1>0. i \in 1..Len(rs) /\ rs[i] \in Row
  OBVIOUS
<1>1. CASE ts = Without(rs, i)
  <2>1. SubSeq(rs, 1, i - 1) \in Seq(Row) /\ SubSeq(rs, i + 1, Len(rs)) \in Seq(Row)
    BY <1>0
  <2>2. QED
    BY <1>1, <2>1 DEF Without
<1>2. ASSUME NEW e \in Forged, ts = Edited(rs, i, e) \/ ts = Rehashed(rs, i, e)
      PROVE  ts \in Seq(Row)
  <2>1. e \in Event
    BY MaxEventsAssumption DEF Event, Forged
  <2>2. Hash(rs[i].prev, e) \in Digest
    BY <1>0, <2>1, HashType DEF Row
  <2>3. [rs[i] EXCEPT !.event = e] \in Row
    BY <1>0, <2>1 DEF Row
  <2>4. [rs[i] EXCEPT !.event = e, !.hash = Hash(rs[i].prev, e)] \in Row
    BY <1>0, <2>1, <2>2 DEF Row
  <2>5. CASE ts = Edited(rs, i, e)
    BY <2>3, <2>5 DEF Edited
  <2>6. CASE ts = Rehashed(rs, i, e)
    BY <2>4, <2>6 DEF Rehashed
  <2>7. QED
    BY <1>2, <2>5, <2>6
<1>3. QED
  BY <1>1, <1>2 DEF TamperedAt

LEMMA VerdictType ==
  ASSUME NEW rs \in Seq(Row), NEW d \in Digest, NEW n \in Nat
  PROVE  Verdict(rs, d, n) \in [ok : BOOLEAN, broken : Nat, count : Nat, tail : BOOLEAN]
<1> DEFINE bad == BadRows(rs)
           i == CHOOSE j \in bad : \A k \in bad : j <= k
<1>1. bad # {} => i \in bad
  <2>1. bad \subseteq Nat
    BY DEF BadRows
  <2>2. bad # {} => \E j \in bad : \A k \in bad : j <= k
    BY <2>1, LeastNatural
  <2>3. QED
    BY <2>2
<1>2. bad # {} => rs[i].id \in Nat
  <2>1. bad # {} => rs[i] \in Row
    BY <1>1 DEF BadRows
  <2>2. QED
    BY <2>1 DEF Row
<1>3. Len(rs) \in Nat
  OBVIOUS
<1>4. QED
  BY <1>2, <1>3 DEF Verdict

LEMMA VerdictOk ==
  ASSUME NEW rs, NEW d, NEW n
  PROVE  Verdict(rs, d, n).ok <=> BadRows(rs) = {} /\ TailOk(rs, d, n)
BY DEF Verdict

LEMMA InitIInv == Init => IInv
<1> SUFFICES ASSUME Init PROVE IInv
  OBVIOUS
<1> USE DEF Init
<1>1. TypeOK
  <2>1. <<>> \in Seq(Row) /\ Genesis \in Digest
    BY DEF Genesis, Digest
  <2>2. NoVerdict \in [ok : BOOLEAN, broken : Nat, count : Nat, tail : BOOLEAN]
    BY DEF NoVerdict
  <2>3. QED
    BY <2>1, <2>2, EmptyType, MaxEventsAssumption DEF TypeOK, Label
<1>2. OneWriter /\ HasEvent /\ \A t \in Thread : Progress(t)
  BY NoThreadAssumption DEF OneWriter, HasEvent, Progress, InTxn, InCall
<1>3. ChainIntact
  BY DEF ChainIntact, BadRows, TailOk, LastHash, Empty
<1>4. QED
  BY <1>1, <1>2, <1>3 DEF IInv

LEMMA TypeStep == IInv /\ [Next]_vars => TypeOK'
<1> SUFFICES ASSUME IInv, [Next]_vars PROVE TypeOK'
  OBVIOUS
<1> USE HomeAssumption DEF IInv, TypeOK, caller, reader, env, Label
<1>1. ASSUME NEW t \in Thread, Submit(t) PROVE TypeOK'
  BY <1>1, MaxEventsAssumption DEF Submit, Goto, Event
<1>2. ASSUME NEW t \in Thread, Acquire(t) PROVE TypeOK'
  BY <1>2 DEF Acquire, Goto
<1>3. ASSUME NEW t \in Thread, Begin(t) PROVE TypeOK'
  BY <1>3 DEF Begin, Goto
<1>4. ASSUME NEW t \in Thread, Busy(t) PROVE TypeOK'
  BY <1>4 DEF Busy, Goto, Release
<1>5. ASSUME NEW t \in Thread, ReadLast(t) PROVE TypeOK'
  BY <1>5 DEF ReadLast, Goto, Db
<1>6. ASSUME NEW t \in Thread, Insert(t) PROVE TypeOK'
  <2>1. event[t] \in Event
    BY <1>6 DEF Insert, HasEvent, InCall
  <2>2. Hash(prev[t], event[t]) \in Digest
    BY <2>1, HashType
  <2> DEFINE r == [id |-> txn.seq + 1, event |-> event[t],
                   prev |-> prev[t], hash |-> Hash(prev[t], event[t])]
  <2>3. r \in Row
    BY <2>1, <2>2 DEF Row, Db
  <2>4. txn' = [txn EXCEPT !.rows = Append(txn.rows, r), !.seq = txn.seq + 1]
    BY <1>6 DEF Insert
  <2> HIDE DEF r
  <2>5. txn' \in Db
    <3>1. txn \in Db
      OBVIOUS
    <3>2. Append(txn.rows, r) \in Seq(Row) /\ txn.seq + 1 \in Nat
      BY ONLY <2>3, <3>1 DEF Db
    <3>3. QED
      BY ONLY <2>4, <3>1, <3>2 DEF Db
  <2>6. QED
    BY <1>6, <2>5 DEF Insert, Goto
<1>7. ASSUME NEW t \in Thread, UpdateMeta(t) PROVE TypeOK'
  <2>1. event[t] \in Event
    BY <1>7 DEF UpdateMeta, HasEvent, InCall
  <2>2. Hash(prev[t], event[t]) \in Digest
    BY <2>1, HashType
  <2>3. txn' \in Db
    <3>1. txn \in Db
      OBVIOUS
    <3>2. txn' = [txn EXCEPT !.last = Hash(prev[t], event[t]), !.count = txn.count + 1]
      BY <1>7 DEF UpdateMeta
    <3>3. ASSUME NEW h \in Digest, NEW n \in Nat
          PROVE  [txn EXCEPT !.last = h, !.count = n] \in Db
      BY ONLY <3>1, <3>3 DEF Db
    <3>4. txn.count + 1 \in Nat
      BY ONLY <3>1 DEF Db
    <3>5. QED
      BY ONLY <2>2, <3>2, <3>3, <3>4
  <2>4. QED
    BY <1>7, <2>3 DEF UpdateMeta, Goto
<1>8. ASSUME NEW t \in Thread, Commit(t) PROVE TypeOK'
  <2>1. PICK r \in Row : txn.rows = Append(db.rows, r)
    BY <1>8 DEF Commit, Progress
  <2>2. db.rows \in Seq(Row)
    BY DEF Db
  <2>3. txn.rows[Len(txn.rows)] \in Row
    BY <2>1, <2>2
  <2>4. log' \in Seq(Row)
    BY <1>8, <2>3 DEF Commit
  <2>5. Genesis \in Digest
    BY DEF Genesis, Digest
  <2>6. QED
    BY <1>8, <2>4, <2>5, EmptyType DEF Commit, Goto, Release
<1>9. ASSUME NEW t \in Thread, Rollback(t) PROVE TypeOK'
  <2>1. Genesis \in Digest
    BY DEF Genesis, Digest
  <2>2. QED
    BY <1>9, <2>1, EmptyType DEF Rollback, Goto, Release
<1>10. ASSUME NEW t \in Thread, Persist(t) PROVE TypeOK'
  BY <1>10 DEF Persist, Goto
<1>11. ASSUME NEW t \in Thread, StartVerify(t) PROVE TypeOK'
  BY <1>11 DEF StartVerify, Goto
<1>12. ASSUME NEW t \in Thread, VerifyRows(t) PROVE TypeOK'
  BY <1>12 DEF VerifyRows, Goto, Db
<1>13. ASSUME NEW t \in Thread, VerifyMeta(t) PROVE TypeOK'
  <2>1. Verdict(rowsRead[t], db.last, db.count)
          \in [ok : BOOLEAN, broken : Nat, count : Nat, tail : BOOLEAN]
    BY VerdictType DEF Db
  <2>2. QED
    BY <1>13, <2>1 DEF VerifyMeta, Goto, Release
<1>14. ASSUME NEW p \in Process, Crash(p) PROVE TypeOK'
  <2>1. Genesis \in Digest /\ <<>> \in Seq(Row)
    BY DEF Genesis, Digest
  <2>2. QED
    BY <1>14, <2>1, EmptyType DEF Crash
<1>15. CASE Tamper
  <2>0. PICK i \in DOMAIN db.rows : \E rs \in TamperedAt(db.rows, i) :
          db' = [db EXCEPT !.rows = rs]
    BY <1>15 DEF Tamper
  <2>1. PICK rs \in TamperedAt(db.rows, i) : db' = [db EXCEPT !.rows = rs]
    BY <2>0
  <2>2. rs \in Seq(Row)
    BY <2>1, TamperedType DEF Db
  <2>3. db' \in Db
    BY <2>1, <2>2 DEF Db
  <2>4. QED
    BY <1>15, <2>3 DEF Tamper
<1>16. CASE UNCHANGED vars
  BY <1>16 DEF vars
<1>17. QED
  BY <1>1, <1>2, <1>3, <1>4, <1>5, <1>6, <1>7, <1>8, <1>9, <1>10, <1>11, <1>12,
     <1>13, <1>14, <1>15, <1>16 DEF Next, Step

\* Actions that leave the database, the transaction and its owner alone.
Quiet == UNCHANGED <<db, txn, writer, prev, log, tampers>>

LEMMA TxnStep == IInv /\ [Next]_vars =>
                   OneWriter' /\ HasEvent' /\ (\A t \in Thread : Progress(t)')
<1> SUFFICES ASSUME IInv, [Next]_vars
    PROVE  OneWriter' /\ HasEvent' /\ (\A t \in Thread : Progress(t)')
  OBVIOUS
<1> USE NoThreadAssumption DEF caller, reader, env
<1>0. /\ TypeOK /\ OneWriter /\ HasEvent /\ \A t \in Thread : Progress(t)
      /\ pc \in [Thread -> Label] /\ event \in [Thread -> Event \cup {NoEvent}]
      /\ prev \in [Thread -> Digest]
  BY DEF IInv, TypeOK
<1>1. ASSUME Quiet,
             \A u \in Thread : pc'[u] = pc[u] \/ (pc[u] \notin InTxn /\ pc'[u] \notin InTxn),
             \A u \in Thread : pc'[u] \in InCall =>
                event'[u] \in Event /\ (pc[u] \in InTxn => event'[u] = event[u])
      PROVE  OneWriter' /\ HasEvent' /\ (\A t \in Thread : Progress(t)')
  <2>1. OneWriter'
    BY <1>0, <1>1 DEF OneWriter, Quiet
  <2>2. HasEvent'
    BY <1>1 DEF HasEvent
  <2>3. ASSUME NEW u \in Thread PROVE Progress(u)'
    <3>1. CASE pc'[u] \in InTxn
      <4>1. pc'[u] = pc[u] /\ event'[u] = event[u]
        BY <1>1, <3>1 DEF InTxn, InCall
      <4>2. Progress(u)
        BY <1>0
      <4>3. QED
        BY <1>1, <4>1, <4>2 DEF Progress, NewRow, Quiet
    <3>2. CASE pc'[u] \notin InTxn
      BY <3>2 DEF Progress, InTxn
    <3>3. QED
      BY <3>1, <3>2
  <2>4. QED
    BY <2>1, <2>2, <2>3
<1>2. ASSUME NEW t \in Thread, Submit(t) \/ Acquire(t) \/ Busy(t) \/ Persist(t)
                               \/ StartVerify(t) \/ VerifyRows(t) \/ VerifyMeta(t)
      PROVE  OneWriter' /\ HasEvent' /\ (\A u \in Thread : Progress(u)')
  <2>1. Quiet
    BY <1>2 DEF Quiet, Submit, Acquire, Busy, Persist, StartVerify, VerifyRows, VerifyMeta
  <2>2. \A u \in Thread : pc'[u] = pc[u] \/ (pc[u] \notin InTxn /\ pc'[u] \notin InTxn)
    BY <1>0, <1>2 DEF InTxn, Goto, Submit, Acquire, Busy, Persist, StartVerify,
                      VerifyRows, VerifyMeta
  <2>3. CASE Submit(t)
    <3>1. event'[t] \in Event /\ \A u \in Thread \ {t} : event'[u] = event[u]
      BY <1>0, <2>3, TypeStep DEF Submit, IInv, TypeOK, Event
    <3>2. pc[t] = "idle" /\ \A u \in Thread \ {t} : pc'[u] = pc[u]
      BY <1>0, <2>3 DEF Submit, Goto
    <3>3. QED
      BY <1>0, <1>1, <2>1, <2>2, <3>1, <3>2 DEF InTxn, HasEvent
  <2>4. CASE ~Submit(t)
    <3>1. event' = event
      BY <1>2, <2>4 DEF Acquire, Busy, Persist, StartVerify, VerifyRows, VerifyMeta
    <3>2. \A u \in Thread : pc'[u] \in InCall => pc[u] \in InCall
      BY <1>0, <1>2, <2>4 DEF InCall, Goto, Acquire, Busy, Persist, StartVerify,
                              VerifyRows, VerifyMeta
    <3>3. QED
      BY <1>0, <1>1, <2>1, <2>2, <3>1, <3>2 DEF HasEvent
  <2>5. QED
    BY <2>3, <2>4
<1>3. ASSUME NEW t \in Thread, Begin(t) \/ ReadLast(t) \/ Insert(t) \/ UpdateMeta(t)
      PROVE  OneWriter' /\ HasEvent' /\ (\A u \in Thread : Progress(u)')
  <2>1. db' = db /\ event' = event /\ \A u \in Thread \ {t} : pc'[u] = pc[u]
    BY <1>0, <1>3 DEF Begin, ReadLast, Insert, UpdateMeta, Goto
  <2>2. pc[t] \in InCall /\ pc'[t] \in InTxn /\ event[t] \in Event
    BY <1>0, <1>3 DEF Begin, ReadLast, Insert, UpdateMeta, Goto, InCall, InTxn, HasEvent
  <2>3. writer' = t /\ writer \in {t, NoThread}
    BY <1>0, <1>3 DEF Begin, ReadLast, Insert, UpdateMeta, OneWriter, InTxn
  <2>4. OneWriter'
    BY <1>0, <2>1, <2>2, <2>3 DEF OneWriter
  <2>5. HasEvent'
    BY <1>0, <2>1, <2>2 DEF HasEvent
  <2>6. ASSUME NEW u \in Thread \ {t} PROVE Progress(u)'
    BY <2>3, <2>4, <2>6 DEF OneWriter, Progress, InTxn
  <2>7. Progress(t)'
    <3>1. CASE Begin(t)
      BY <1>0, <3>1 DEF Begin, Goto, Progress
    <3>2. CASE ReadLast(t)
      BY <1>0, <3>2 DEF ReadLast, Goto, Progress
    <3>3. CASE Insert(t)
      <4>1. pc[t] = "insert" /\ txn = db /\ prev[t] = db.last /\ db \in Db /\ prev[t] \in Digest
        BY <1>0, <3>3 DEF Insert, Progress, TypeOK
      <4>2. Hash(prev[t], event[t]) \in Digest
        BY <2>2, <4>1, HashType
      <4>3. PICK r \in Row : r = [id |-> txn.seq + 1, event |-> event[t],
                                prev |-> prev[t], hash |-> Hash(prev[t], event[t])]
        <5>1. [id |-> txn.seq + 1, event |-> event[t],
               prev |-> prev[t], hash |-> Hash(prev[t], event[t])] \in Row
          BY <2>2, <4>1, <4>2 DEF Row, Db
        <5>2. QED
          BY <5>1
      <4>4. NewRow(t, r)
        BY <4>1, <4>3 DEF NewRow
      <4>5. txn' = [txn EXCEPT !.rows = Append(txn.rows, r), !.seq = txn.seq + 1]
        BY <3>3, <4>3 DEF Insert
      <4>6. pc'[t] = "update" /\ prev' = prev
        BY <1>0, <3>3 DEF Insert, Goto
      <4>7. NewRow(t, r)'
        BY <2>1, <4>4 DEF NewRow
      <4>8. txn'.rows = Append(db.rows, r) /\ txn'.last = db.last /\ txn'.count = db.count
        BY ONLY <4>1, <4>5 DEF Db
      <4>9. QED
        BY <2>1, <4>1, <4>3, <4>6, <4>7, <4>8 DEF Progress
    <3>4. CASE UpdateMeta(t)
      <4>1. PICK r \in Row : NewRow(t, r) /\ txn.rows = Append(db.rows, r)
        BY <1>0, <3>4 DEF UpdateMeta, Progress
      <4>2. prev[t] = db.last /\ txn.last = db.last /\ txn.count = db.count /\ txn \in Db
        BY <1>0, <3>4 DEF UpdateMeta, Progress, TypeOK
      <4>3. txn' = [txn EXCEPT !.last = Hash(prev[t], event[t]), !.count = txn.count + 1]
        BY <3>4 DEF UpdateMeta
      <4>4. pc'[t] = "commit" /\ prev' = prev
        BY <1>0, <3>4 DEF UpdateMeta, Goto
      <4>5. /\ txn'.rows = txn.rows /\ txn'.last = Hash(prev[t], event[t])
            /\ txn'.count = txn.count + 1
        BY ONLY <4>2, <4>3 DEF Db
      <4>6. NewRow(t, r)'
        BY <2>1, <4>1 DEF NewRow
      <4>7. QED
        BY <2>1, <4>1, <4>2, <4>4, <4>5, <4>6 DEF Progress
    <3>5. QED
      BY <1>3, <3>1, <3>2, <3>3, <3>4
  <2>8. QED
    BY <2>4, <2>5, <2>6, <2>7
<1>4. ASSUME NEW t \in Thread, Commit(t) \/ Rollback(t)
      PROVE  OneWriter' /\ HasEvent' /\ (\A u \in Thread : Progress(u)')
  <2>1. /\ writer = t /\ writer' = NoThread /\ pc'[t] \in {"stored", "failed"}
        /\ event' = event /\ pc[t] \in InCall
        /\ \A u \in Thread \ {t} : pc'[u] = pc[u]
    BY <1>0, <1>4 DEF Commit, Rollback, Goto, OneWriter, InTxn, InCall
  <2>2. \A u \in Thread : pc'[u] \notin InTxn
    BY <1>0, <2>1 DEF OneWriter, InTxn
  <2>3. OneWriter' /\ \A u \in Thread : Progress(u)'
    BY <2>1, <2>2 DEF OneWriter, Progress, InTxn
  <2>4. HasEvent'
    BY <1>0, <2>1 DEF HasEvent
  <2>5. QED
    BY <2>3, <2>4
<1>5. ASSUME NEW p \in Process, Crash(p)
      PROVE  OneWriter' /\ HasEvent' /\ (\A u \in Thread : Progress(u)')
  <2>1. \A u \in Thread : pc'[u] = IF Home[u] = p THEN "idle" ELSE pc[u]
    BY <1>5 DEF Crash
  <2>2. event' = event /\ db' = db
    BY <1>5 DEF Crash
  <2>3. HasEvent'
    BY <1>0, <2>1, <2>2 DEF HasEvent, InCall
  <2>4. OneWriter'
    BY <1>0, <1>5, <2>1 DEF Crash, OneWriter, InTxn, ThreadsOf
  <2>5. ASSUME NEW u \in Thread PROVE Progress(u)'
    <3>1. CASE pc'[u] \notin InTxn
      BY <3>1 DEF Progress, InTxn
    <3>2. CASE pc'[u] \in InTxn
      <4>1. Home[u] # p /\ pc'[u] = pc[u]
        BY <2>1, <3>2 DEF InTxn
      <4>2. writer = u /\ txn' = txn
        BY <1>0, <1>5, <3>2, <4>1 DEF OneWriter, Crash, ThreadsOf
      <4>3. prev'[u] = prev[u]
        BY <1>5, <4>1 DEF Crash
      <4>4. Progress(u)
        BY <1>0
      <4>5. QED
        BY <2>2, <4>1, <4>2, <4>3, <4>4 DEF Progress, NewRow
    <3>3. QED
      BY <3>1, <3>2
  <2>6. QED
    BY <2>3, <2>4, <2>5
<1>6. CASE Tamper
  <2>1. pc' = pc /\ event' = event /\ writer' = writer /\ writer = NoThread
    BY <1>6 DEF Tamper
  <2>2. \A u \in Thread : pc'[u] \notin InTxn
    BY <1>0, <2>1 DEF OneWriter
  <2>3. QED
    BY <1>0, <2>1, <2>2 DEF OneWriter, HasEvent, Progress, InTxn
<1>7. CASE UNCHANGED vars
  BY <1>0, <1>7 DEF vars, OneWriter, HasEvent, Progress, NewRow
<1>8. QED
  BY <1>2, <1>3, <1>4, <1>5, <1>6, <1>7 DEF Next, Step

LEMMA ChainStep == IInv /\ [Next]_vars => ChainIntact'
<1> SUFFICES ASSUME IInv, [Next]_vars PROVE ChainIntact'
  OBVIOUS
<1> USE DEF reader, env, caller
<1>1. CASE UNCHANGED <<db, log, tampers>>
  BY <1>1 DEF IInv, ChainIntact
<1>2. ASSUME NEW t \in Thread, Commit(t) PROVE ChainIntact'
  <2>1. /\ db' = txn /\ log' = Append(log, txn.rows[Len(txn.rows)])
        /\ pc[t] = "commit" /\ tampers' = tampers
    BY <1>2 DEF Commit
  <2>2. PICK r \in Row : NewRow(t, r) /\ txn.rows = Append(db.rows, r)
    BY <2>1 DEF IInv, Progress
  <2>3. txn.last = Hash(db.last, event[t]) /\ txn.count = db.count + 1
    BY <2>1 DEF IInv, Progress
  <2>4. db.rows \in Seq(Row) /\ log \in Seq(Row)
    BY DEF IInv, TypeOK, Db
  <2>5. txn.rows[Len(txn.rows)] = r
    BY <2>2, <2>4
  <2>6. BadRows(log) = {} /\ Len(log) = db.count /\ LastHash(log) = db.last
    BY DEF IInv, ChainIntact, TailOk
  <2>7. BadRows(Append(log, r)) = {} /\ LastHash(Append(log, r)) = r.hash
    BY <2>2, <2>4, <2>6, ChainExtends DEF NewRow
  <2>8. TailOk(Append(log, r), txn.last, txn.count)
    <3>1. Len(Append(log, r)) = Len(log) + 1
      BY ONLY <2>2, <2>4
    <3>2. Len(Append(log, r)) = txn.count
      BY ONLY <2>3, <2>6, <3>1
    <3>3. r.hash = txn.last
      BY ONLY <2>2, <2>3 DEF NewRow
    <3>4. QED
      BY ONLY <2>7, <3>2, <3>3 DEF TailOk
  <2>9. tampers = 0 => txn.rows = Append(log, r)
    BY <2>2 DEF IInv, ChainIntact
  <2>10. QED
    BY <2>1, <2>5, <2>7, <2>8, <2>9 DEF ChainIntact
<1>3. CASE Tamper
  <2>1. PICK rs : db' = [db EXCEPT !.rows = rs]
    BY <1>3 DEF Tamper
  <2>2. db'.last = db.last /\ db'.count = db.count
    BY <2>1 DEF IInv, TypeOK, Db
  <2>3. log' = log /\ tampers' # 0
    BY <1>3 DEF Tamper, IInv, TypeOK
  <2>4. QED
    BY <2>2, <2>3 DEF IInv, ChainIntact
<1>4. QED
  BY <1>1, <1>2, <1>3 DEF Next, Step, Submit, StartVerify, Acquire, Begin, ReadLast,
     Insert, UpdateMeta, Persist, VerifyRows, VerifyMeta, Busy, Rollback, Crash, vars

THEOREM IInvStep == IInv /\ [Next]_vars => IInv'
BY TypeStep, TxnStep, ChainStep DEF IInv

\* Every reachable state satisfies the inductive invariant.
THEOREM Invariance == Spec => []IInv
<1>1. QED
  BY InitIInv, IInvStep, PTL DEF Spec

\* Every variable keeps its type.
THEOREM TypeCorrect == Spec => []TypeOK
<1>1. IInv => TypeOK
  BY DEF IInv
<1>2. QED
  BY <1>1, Invariance, PTL

\* The committed rows form one chain that ends where audit_meta says: appends
\* of threads and processes, failures and crashes never fork it.
THEOREM ChainCorrect == Spec => []ChainIntact
<1>1. IInv => ChainIntact
  BY DEF IInv
<1>2. QED
  BY <1>1, Invariance, PTL

\* A table that somebody edited is never confirmed: when verify_chain answers ok
\* the rows it read carry exactly the events committed.
THEOREM VerdictCorrect == Spec => VerdictSound
<1>1. ASSUME IInv, NEW t \in Thread, VerifyMeta(t), verdict'[t].ok
      PROVE  Events(rowsRead[t]) = Events(log)
  <2>1. verdict'[t] = Verdict(rowsRead[t], db.last, db.count)
    BY <1>1 DEF VerifyMeta, IInv, TypeOK
  <2>2. BadRows(rowsRead[t]) = {} /\ TailOk(rowsRead[t], db.last, db.count)
    BY <1>1, <2>1, VerdictOk
  <2>3. BadRows(log) = {} /\ TailOk(log, db.last, db.count)
    BY <1>1 DEF IInv, ChainIntact
  <2>4. rowsRead[t] \in Seq(Row) /\ log \in Seq(Row)
    BY <1>1 DEF IInv, TypeOK
  <2>5. QED
    BY <2>2, <2>3, <2>4, TamperEvidence DEF TailOk
<1>2. IInv => [\A t \in Thread : VerifyMeta(t) /\ verdict'[t].ok
                                  => Events(rowsRead[t]) = Events(log)]_vars
  BY <1>1
<1>3. QED
  BY <1>2, Invariance, PTL DEF VerdictSound
-----------------------------------------------------------------------------
(* The store implements the abstract log                                   *)

\* The thread that reports the end of its call has stored what it says it has.
Told == /\ \A t \in Thread : pc[t] = "stored" =>
             \E i \in DOMAIN log : log[i].event = event[t]
        /\ \A t \in Thread : pc[t] \in InCall => outcome[t] = "none"
        /\ ReturnedIsStored

LEMMA ToldStep == IInv /\ Told /\ [Next]_vars => Told'
<1> SUFFICES ASSUME IInv, Told, [Next]_vars PROVE Told'
  OBVIOUS
<1> USE DEF caller, reader, env
<1>0. /\ pc \in [Thread -> Label] /\ log \in Seq(Row)
      /\ event \in [Thread -> Event \cup {NoEvent}]
      /\ outcome \in [Thread -> {"none", "returned", "raised"}]
  BY DEF IInv, TypeOK
<1>1. ASSUME NEW t \in Thread, Commit(t) PROVE Told'
  <2>1. PICK r \in Row : NewRow(t, r) /\ txn.rows = Append(db.rows, r)
    BY <1>1 DEF IInv, Progress, Commit
  <2>2. db.rows \in Seq(Row) /\ log' = Append(log, txn.rows[Len(txn.rows)])
    BY <1>1 DEF IInv, TypeOK, Db, Commit
  <2>3. log' = Append(log, r)
    BY <2>1, <2>2
  <2>4. /\ \A i \in DOMAIN log : i \in DOMAIN log' /\ log'[i] = log[i]
        /\ Len(log) + 1 \in DOMAIN log' /\ log'[Len(log) + 1] = r
    BY <1>0, <2>3
  <2>5. /\ event' = event /\ outcome' = outcome
        /\ \A u \in Thread \ {t} : pc'[u] = pc[u]
        /\ pc[t] = "commit"
    BY <1>0, <1>1 DEF Commit, Goto
  <2>6. \E i \in DOMAIN log' : log'[i].event = event[t]
    BY <2>1, <2>4 DEF NewRow
  <2>7. \A u \in Thread : pc'[u] = "stored" => \E i \in DOMAIN log' : log'[i].event = event[u]
    BY <2>4, <2>5, <2>6 DEF Told
  <2>8. ReturnedIsStored'
    BY <2>4, <2>5 DEF Told, ReturnedIsStored
  <2>9. \A u \in Thread : pc'[u] \in InCall => outcome[u] = "none"
    BY <2>5 DEF Told, InCall
  <2>10. QED
    BY <2>5, <2>7, <2>8, <2>9 DEF Told
<1>2. ASSUME NEW t \in Thread, Submit(t) PROVE Told'
  <2>1. /\ log' = log /\ pc'[t] = "lock" /\ outcome'[t] = "none"
        /\ \A u \in Thread \ {t} : pc'[u] = pc[u] /\ event'[u] = event[u]
                                   /\ outcome'[u] = outcome[u]
    BY <1>0, <1>2 DEF Submit, Goto
  <2>2. QED
    BY <2>1 DEF Told, ReturnedIsStored
<1>3. ASSUME NEW t \in Thread, Persist(t) PROVE Told'
  <2>1. /\ log' = log /\ pc'[t] = "idle" /\ event' = event
        /\ \A u \in Thread \ {t} : pc'[u] = pc[u] /\ outcome'[u] = outcome[u]
    BY <1>0, <1>3 DEF Persist, Goto
  <2>2. FailClosed /\ outcome'[t] = "returned" => pc[t] = "stored"
    BY <1>0, <1>3 DEF Persist
  <2>3. QED
    BY <2>1, <2>2 DEF Told, ReturnedIsStored, InCall
<1>4. CASE /\ log' = log /\ event' = event /\ outcome' = outcome
           /\ \A u \in Thread : /\ pc'[u] = "stored" => pc[u] = "stored"
                                /\ pc'[u] \in InCall => pc[u] \in InCall
  BY <1>4 DEF Told, ReturnedIsStored
<1>5. ASSUME NEW t \in Thread, Acquire(t) \/ Begin(t) \/ ReadLast(t) \/ Insert(t)
               \/ UpdateMeta(t) \/ StartVerify(t) \/ VerifyRows(t) \/ VerifyMeta(t)
               \/ Busy(t) \/ Rollback(t)
      PROVE  Told'
  <2>1. log' = log /\ event' = event /\ outcome' = outcome
    BY <1>5 DEF Acquire, Begin, ReadLast, Insert, UpdateMeta, StartVerify, VerifyRows,
                VerifyMeta, Busy, Rollback
  <2>2. \A u \in Thread : /\ pc'[u] = "stored" => pc[u] = "stored"
                          /\ pc'[u] \in InCall => pc[u] \in InCall
    BY <1>0, <1>5 DEF Goto, InCall, Acquire, Begin, ReadLast, Insert, UpdateMeta,
                      StartVerify, VerifyRows, VerifyMeta, Busy, Rollback
  <2>3. QED
    BY <1>4, <2>1, <2>2
<1>6. ASSUME NEW p \in Process, Crash(p) PROVE Told'
  BY <1>4, <1>6 DEF Crash, InCall
<1>7. CASE Tamper
  BY <1>4, <1>7 DEF Tamper
<1>8. CASE UNCHANGED vars
  BY <1>4, <1>8 DEF vars
<1>9. QED
  BY <1>1, <1>2, <1>3, <1>5, <1>6, <1>7, <1>8 DEF Next, Step

\* In fail-closed mode no event is lost without the caller learning of it.
THEOREM FailClosedCorrect == Spec => []ReturnedIsStored
<1>1. Init => Told
  BY DEF Init, Told, ReturnedIsStored, InCall
<1>2. Told => ReturnedIsStored
  BY DEF Told
<1>3. QED
  BY <1>1, <1>2, ToldStep, Invariance, PTL DEF Spec

\* The abstract call state of a thread (the refinement mapping of AuditStore).
Call == [t \in Thread |->
           IF pc[t] = "stored" THEN "applied"
           ELSE IF pc[t] \in {"idle", "vlock", "vrows", "vmeta"} THEN "idle"
           ELSE "pending"]

LEMMA EventsAppend ==
  ASSUME NEW rs \in Seq(Row), NEW r \in Row
  PROVE  Events(Append(rs, r)) = Append(Events(rs), r.event)
<1>1. /\ Events(rs) \in Seq(Event) /\ Len(Events(rs)) = Len(rs)
      /\ \A i \in 1..Len(rs) : Events(rs)[i] = rs[i].event
  <2>1. ASSUME NEW i \in DOMAIN rs PROVE rs[i].event \in Event
    <3>1. rs[i] \in Row
      OBVIOUS
    <3>2. QED
      BY <3>1 DEF Row
  <2>2. DOMAIN rs = 1..Len(rs) /\ Len(rs) \in Nat
    OBVIOUS
  <2>3. QED
    BY <2>1, <2>2 DEF Events
<1>2. /\ DOMAIN Append(rs, r) = 1..(Len(rs) + 1)
      /\ \A i \in 1..Len(rs) : Append(rs, r)[i] = rs[i]
      /\ Append(rs, r)[Len(rs) + 1] = r
  OBVIOUS
<1>3. Events(Append(rs, r)) = [i \in 1..(Len(rs) + 1) |-> Append(rs, r)[i].event]
  BY <1>2 DEF Events
<1>4. Append(Events(rs), r.event)
        = [i \in 1..(Len(rs) + 1) |-> IF i = Len(rs) + 1 THEN r.event ELSE Events(rs)[i]]
  BY <1>1
<1>5. ASSUME NEW i \in 1..(Len(rs) + 1)
      PROVE  Append(rs, r)[i].event = IF i = Len(rs) + 1 THEN r.event ELSE Events(rs)[i]
  <2>1. CASE i = Len(rs) + 1
    BY <1>2, <2>1
  <2>2. CASE i # Len(rs) + 1
    <3>1. i \in 1..Len(rs)
      BY <2>2
    <3>2. QED
      BY <1>1, <1>2, <2>2, <3>1
  <2>3. QED
    BY <2>1, <2>2
<1>6. QED
  BY <1>3, <1>4, <1>5

LEMMA RefineInit == Init => Abstract!Init
BY DEF Init, Abstract!Init, Events

LEMMA RefineNext == IInv /\ [Next]_vars => [Abstract!Next]_(Abstract!vars)
<1> SUFFICES ASSUME IInv, [Next]_vars
    PROVE  Abstract!Next \/ UNCHANGED <<Events(log), Call, event, outcome>>
  BY DEF Abstract!vars, Call
<1> USE DEF caller, reader, env
<1>0. /\ pc \in [Thread -> Label] /\ log \in Seq(Row)
      /\ event \in [Thread -> Event \cup {NoEvent}]
      /\ outcome \in [Thread -> {"none", "returned", "raised"}]
  BY DEF IInv, TypeOK
<1>1. ASSUME NEW t \in Thread, Submit(t) PROVE Abstract!Next
  <2>1. pc[t] = "idle" /\ pc' = [pc EXCEPT ![t] = "lock"]
    BY <1>1 DEF Submit, Goto
  <2>2. Call[t] = "idle" /\ Call' = [Call EXCEPT ![t] = "pending"]
    BY <1>0, <2>1 DEF Call
  <2>3. PICK x \in Trace : event' = [event EXCEPT ![t] = [at |-> clock', trace |-> x]]
    BY <1>1 DEF Submit
  <2>4. [at |-> clock', trace |-> x] \in Event
    BY <1>1, <2>3, MaxEventsAssumption DEF Submit, IInv, TypeOK, Event
  <2>5. Abstract!Invoke(t)
    BY <1>1, <2>2, <2>3, <2>4 DEF Submit, Abstract!Invoke, Call
  <2>6. QED
    BY <2>5 DEF Abstract!Next
<1>2. ASSUME NEW t \in Thread, Commit(t) PROVE Abstract!Next
  <2>1. pc[t] = "commit" /\ pc' = [pc EXCEPT ![t] = "stored"]
    BY <1>2 DEF Commit, Goto
  <2>2. Call[t] = "pending" /\ Call' = [Call EXCEPT ![t] = "applied"]
    BY <1>0, <2>1 DEF Call
  <2>3. PICK r \in Row : NewRow(t, r) /\ txn.rows = Append(db.rows, r)
    BY <2>1 DEF IInv, Progress
  <2>4. db.rows \in Seq(Row) /\ log' = Append(log, txn.rows[Len(txn.rows)])
    BY <1>2 DEF IInv, TypeOK, Db, Commit
  <2>5. log' = Append(log, r)
    BY <2>3, <2>4
  <2>6. Events(log)' = Append(Events(log), event[t])
    BY <1>0, <2>3, <2>5, EventsAppend DEF NewRow, Events
  <2>7. Abstract!Apply(t)
    BY <1>2, <2>2, <2>6 DEF Commit, Abstract!Apply, Call
  <2>8. QED
    BY <2>7 DEF Abstract!Next
<1>3. ASSUME NEW t \in Thread, Persist(t) PROVE Abstract!Next
  <2>1. pc[t] \in {"stored", "failed"} /\ pc' = [pc EXCEPT ![t] = "idle"]
    BY <1>3 DEF Persist, Goto
  <2>2. /\ Call[t] = IF pc[t] = "stored" THEN "applied" ELSE "pending"
        /\ Call' = [Call EXCEPT ![t] = "idle"]
    BY <1>0, <2>1 DEF Call
  <2>3. UNCHANGED <<Events(log), event>>
    BY <1>3 DEF Persist, Events
  <2>4. CASE pc[t] = "failed" /\ FailClosed
    <3>1. Abstract!Raise(t)
      BY <1>3, <2>2, <2>3, <2>4 DEF Persist, Abstract!Raise, Call
    <3>2. QED
      BY <3>1 DEF Abstract!Next
  <2>5. CASE ~(pc[t] = "failed" /\ FailClosed)
    <3>1. Abstract!Return(t)
      BY <1>3, <2>1, <2>2, <2>3, <2>5 DEF Persist, Abstract!Return, Call
    <3>2. QED
      BY <3>1 DEF Abstract!Next
  <2>6. QED
    BY <2>4, <2>5
<1>4. ASSUME NEW t \in Thread, Acquire(t) \/ Begin(t) \/ ReadLast(t) \/ Insert(t)
               \/ UpdateMeta(t) \/ StartVerify(t) \/ VerifyRows(t) \/ VerifyMeta(t)
               \/ Busy(t) \/ Rollback(t)
      PROVE  UNCHANGED <<Events(log), Call, event, outcome>>
  <2>1. log' = log /\ event' = event /\ outcome' = outcome
    BY <1>4 DEF Acquire, Begin, ReadLast, Insert, UpdateMeta, StartVerify, VerifyRows,
                VerifyMeta, Busy, Rollback
  <2>2. ASSUME NEW u \in Thread
        PROVE  /\ pc'[u] = "stored" <=> pc[u] = "stored"
               /\ pc'[u] \in {"idle", "vlock", "vrows", "vmeta"}
                    <=> pc[u] \in {"idle", "vlock", "vrows", "vmeta"}
    BY <1>0, <1>4 DEF Goto, Acquire, Begin, ReadLast, Insert, UpdateMeta,
                      StartVerify, VerifyRows, VerifyMeta, Busy, Rollback
  <2>3. Call' = Call
    BY <2>2 DEF Call
  <2>4. QED
    BY <2>1, <2>3 DEF Events
<1>5. ASSUME NEW p \in Process, Crash(p) PROVE Abstract!Next
  <2>1. Call' = [t \in Thread |-> IF t \in ThreadsOf(p) THEN "idle" ELSE Call[t]]
    BY <1>5 DEF Crash, Call, ThreadsOf
  <2>2. UNCHANGED <<Events(log), event, outcome>>
    BY <1>5 DEF Crash, Events
  <2>3. Abstract!Crash(ThreadsOf(p))
    BY <2>1, <2>2 DEF Abstract!Crash, Call
  <2>4. ThreadsOf(p) \in SUBSET Thread
    BY DEF ThreadsOf
  <2>5. QED
    BY <2>3, <2>4 DEF Abstract!Next
<1>6. CASE Tamper
  BY <1>6 DEF Tamper, Events, Call
<1>7. CASE UNCHANGED vars
  BY <1>7 DEF vars, Events, Call
<1>8. QED
  BY <1>1, <1>2, <1>3, <1>4, <1>5, <1>6, <1>7 DEF Next, Step

\* AuditStore implements AuditLog: seen through the refinement mapping, its
\* transactions, failures, crashes and edits are single steps of one log that
\* only grows.
THEOREM Refinement == Spec => Refines
<1>1. QED
  BY RefineInit, RefineNext, Invariance, PTL DEF Spec, Refines, Abstract!Spec
-----------------------------------------------------------------------------
(* What a false alarm can be                                               *)

\* The rows a verification holds while others append are the start of the log.
Fetched == tampers = 0 => \A t \in Thread : pc[t] = "vmeta" =>
             /\ Len(rowsRead[t]) <= Len(log)
             /\ \A i \in 1..Len(rowsRead[t]) : rowsRead[t][i] = log[i]

LEMMA FetchedStep == IInv /\ Fetched /\ [Next]_vars => Fetched'
<1> SUFFICES ASSUME IInv, Fetched, [Next]_vars PROVE Fetched'
  OBVIOUS
<1> USE DEF caller, reader, env
<1>0. /\ pc \in [Thread -> Label] /\ log \in Seq(Row) /\ Len(log) \in Nat
      /\ rowsRead \in [Thread -> Seq(Row)] /\ tampers \in Nat
  BY DEF IInv, TypeOK
<1>1. ASSUME NEW t \in Thread, Commit(t) PROVE Fetched'
  <2>1. log' = Append(log, txn.rows[Len(txn.rows)]) /\ IsSeq(log)
    BY <1>0, <1>1, SeqIsSeq DEF Commit
  <2>2. Len(log') = Len(log) + 1 /\ \A i \in 1..Len(log) : log'[i] = log[i]
    BY <2>1, AppendSeq
  <2>3. /\ rowsRead' = rowsRead /\ tampers' = tampers
        /\ \A u \in Thread : pc'[u] = "vmeta" => pc[u] = "vmeta"
    BY <1>0, <1>1 DEF Commit, Goto
  <2> SUFFICES ASSUME tampers = 0, NEW u \in Thread, pc[u] = "vmeta"
               PROVE  /\ Len(rowsRead[u]) <= Len(log')
                      /\ \A i \in 1..Len(rowsRead[u]) : rowsRead[u][i] = log'[i]
    BY <2>3 DEF Fetched
  <2>4. /\ Len(rowsRead[u]) <= Len(log) /\ Len(rowsRead[u]) \in Nat
        /\ \A i \in 1..Len(rowsRead[u]) : rowsRead[u][i] = log[i]
    BY <1>0 DEF Fetched
  <2>5. QED
    BY <1>0, <2>2, <2>4
<1>2. ASSUME NEW t \in Thread, VerifyRows(t) PROVE Fetched'
  <2>1. /\ log' = log /\ tampers' = tampers
        /\ \A u \in Thread : IF u = t THEN rowsRead'[u] = db.rows
                             ELSE rowsRead'[u] = rowsRead[u] /\ pc'[u] = pc[u]
    BY <1>0, <1>2 DEF VerifyRows, Goto
  <2>2. tampers = 0 => db.rows = log
    BY DEF IInv, ChainIntact
  <2>3. ASSUME tampers = 0, NEW u \in Thread, pc'[u] = "vmeta"
        PROVE  /\ Len(rowsRead'[u]) <= Len(log)
               /\ \A i \in 1..Len(rowsRead'[u]) : rowsRead'[u][i] = log[i]
    <3>1. CASE u = t
      BY <1>0, <2>1, <2>2, <2>3, <3>1
    <3>2. CASE u # t
      BY <2>1, <2>3, <3>2 DEF Fetched
    <3>3. QED
      BY <3>1, <3>2
  <2>4. QED
    BY <2>1, <2>3 DEF Fetched
<1>3. ASSUME NEW t \in Thread, VerifyMeta(t) PROVE Fetched'
  <2>1. /\ log' = log /\ tampers' = tampers /\ pc'[t] = "idle"
        /\ \A u \in Thread : u # t => rowsRead'[u] = rowsRead[u] /\ pc'[u] = pc[u]
    BY <1>0, <1>3 DEF VerifyMeta, Goto
  <2>2. QED
    BY <2>1 DEF Fetched
<1>4. ASSUME NEW t \in Thread, Submit(t) \/ StartVerify(t) \/ Acquire(t) \/ Begin(t)
               \/ ReadLast(t) \/ Insert(t) \/ UpdateMeta(t) \/ Persist(t) \/ Busy(t) \/ Rollback(t)
      PROVE  Fetched'
  <2>1. log' = log /\ tampers' = tampers /\ rowsRead' = rowsRead
    BY <1>4 DEF Submit, StartVerify, Acquire, Begin, ReadLast, Insert, UpdateMeta, Persist,
                Busy, Rollback
  <2>2. \A u \in Thread : pc'[u] = "vmeta" => pc[u] = "vmeta"
    BY <1>0, <1>4 DEF Goto, Submit, StartVerify, Acquire, Begin, ReadLast, Insert, UpdateMeta,
                      Persist, Busy, Rollback
  <2>3. QED
    BY <2>1, <2>2 DEF Fetched
<1>5. ASSUME NEW p \in Process, Crash(p) PROVE Fetched'
  <2>1. /\ log' = log /\ tampers' = tampers
        /\ \A u \in Thread : pc'[u] = "vmeta" => pc[u] = "vmeta" /\ rowsRead'[u] = rowsRead[u]
    BY <1>0, <1>5 DEF Crash
  <2>2. QED
    BY <2>1 DEF Fetched
<1>6. CASE Tamper
  BY <1>0, <1>6 DEF Tamper, Fetched
<1>7. CASE UNCHANGED vars
  BY <1>7 DEF vars, Fetched
<1>8. QED
  BY <1>1, <1>2, <1>3, <1>4, <1>5, <1>6, <1>7 DEF Next, Step

\* The start of a chain is a chain.
LEMMA StartOfChain ==
  ASSUME NEW rs \in Seq(Row), NEW ss \in Seq(Row), BadRows(ss) = {}, Len(rs) <= Len(ss),
         \A i \in 1..Len(rs) : rs[i] = ss[i]
  PROVE  BadRows(rs) = {}
<1>1. Len(rs) \in Nat /\ Len(ss) \in Nat /\ DOMAIN rs = 1..Len(rs) /\ DOMAIN ss = 1..Len(ss)
  OBVIOUS
<1>2. ASSUME NEW i \in 1..Len(rs) PROVE i \notin BadRows(rs)
  <2>1. i \in DOMAIN ss /\ i \notin BadRows(ss) /\ rs[i] = ss[i]
    BY <1>1
  <2>2. PrevHash(rs, i) = PrevHash(ss, i)
    <3>1. CASE i = 1
      BY <3>1 DEF PrevHash
    <3>2. CASE i # 1
      <4>1. i - 1 \in 1..Len(rs)
        BY <1>1, <3>2
      <4>2. QED
        BY <3>2, <4>1 DEF PrevHash
    <3>3. QED
      BY <3>1, <3>2
  <2>3. QED
    BY <2>1, <2>2 DEF BadRows
<1>3. QED
  BY <1>1, <1>2 DEF BadRows

(* While nobody edits the table, a verification never names a broken row,  *)
(* and it denies the end of the chain exactly when somebody appended       *)
(* between its two SELECTs (store.py 148-172), for any number of threads   *)
(* and processes.                                                          *)
THEOREM AlarmCorrect == Spec => AlarmExplained
<1>1. ASSUME IInv, Fetched, NEW t \in Thread, VerifyMeta(t), tampers = 0
      PROVE  /\ verdict'[t].broken = 0
             /\ verdict'[t].ok <=> rowsRead[t] = db.rows
  <2> DEFINE rs == rowsRead[t]
  <2>1. verdict'[t] = Verdict(rs, db.last, db.count)
    BY <1>1 DEF VerifyMeta, IInv, TypeOK
  <2>2. /\ Len(rs) <= Len(log) /\ \A i \in 1..Len(rs) : rs[i] = log[i]
        /\ rs \in Seq(Row) /\ log \in Seq(Row)
    BY <1>1 DEF Fetched, VerifyMeta, IInv, TypeOK
  <2>3. BadRows(log) = {} /\ TailOk(log, db.last, db.count) /\ db.rows = log
    BY <1>1 DEF IInv, ChainIntact
  <2> HIDE DEF rs
  <2>4. BadRows(rs) = {}
    BY <2>2, <2>3, StartOfChain
  <2>5. verdict'[t].broken = 0
    BY <2>1, <2>4 DEF Verdict
  <2>6. verdict'[t].ok <=> TailOk(rs, db.last, db.count)
    BY <2>1, <2>4, VerdictOk
  <2>7. TailOk(rs, db.last, db.count) => rs = log
    <3>1. SUFFICES ASSUME Len(rs) = Len(log) PROVE rs = log
      BY <2>3 DEF TailOk
    <3>2. QED
      BY <2>2, <3>1
  <2>8. QED
    BY <2>3, <2>5, <2>6, <2>7 DEF rs
<1>2. IInv /\ Fetched => [\A t \in Thread : VerifyMeta(t) /\ tampers = 0 =>
                            /\ verdict'[t].broken = 0
                            /\ verdict'[t].ok <=> rowsRead[t] = db.rows]_vars
  BY <1>1
<1>3. Init => Fetched
  BY DEF Init, Fetched
<1>4. QED
  BY <1>2, <1>3, FetchedStep, Invariance, PTL DEF Spec, AlarmExplained
=============================================================================
