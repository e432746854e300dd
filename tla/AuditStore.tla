----------------------------- MODULE AuditStore -----------------------------
(***************************************************************************)
(* The SQLite audit store (backend/audit/store.py) behind AuditLogger      *)
(* (backend/audit/logger.py): threads of several processes append to and   *)
(* verify one hash-chained table.  Every process has one AuditStore per    *)
(* path (get_audit_store), hence one threading.Lock; the processes share   *)
(* the database file, whose single writer SQLite enforces.                 *)
(*                                                                         *)
(* A digest is its own preimage: sha256 of prev_hash and the fields is     *)
(* the sequence of events hashed so far, so equal digests mean equal       *)
(* histories (sha256 is taken to be collision free).                       *)
(***************************************************************************)
EXTENDS Integers, Sequences

CONSTANTS Process,     \* processes that open the database (workers, scripts)
          Thread,      \* their threads
          Home,        \* Home[t]: the process of thread t
          Trace,       \* trace ids
          NoThread,    \* nobody holds the lock
          NoEvent,     \* a thread that has appended nothing
          FailClosed,  \* AGENT_AUDIT_FAIL_CLOSED
          MaxEvents,   \* bound: calls of AuditLogger.event/write
          MaxVerify,   \* bound: calls of verify_chain
          MaxCrashes,  \* bound: process crashes
          MaxTampers   \* bound: direct edits of audit_events

ASSUME HomeAssumption == Home \in [Thread -> Process]
ASSUME NoThreadAssumption == NoThread \notin Thread
ASSUME FailClosedAssumption == FailClosed \in BOOLEAN
ASSUME MaxEventsAssumption == MaxEvents \in Nat

VARIABLES db,        \* the committed database: rows, meta (last, count), seq
          txn,       \* the database as the open write transaction sees it
          writer,    \* the thread whose BEGIN IMMEDIATE holds SQLite's write lock
          mutex,     \* mutex[p]: the thread that holds p's AuditStore._lock
          pc,        \* pc[t]: where thread t stands
          event,     \* event[t]: the event t appends
          prev,      \* prev[t]: the last_hash t read (local variable of append)
          outcome,   \* outcome[t]: how t's latest AuditLogger call ended
          rowsRead,  \* rowsRead[t]: the rows verify_chain fetched
          verdict,   \* verdict[t]: what verify_chain returned
          log,       \* history: the rows ever committed, out of an editor's reach
          clock,     \* calls so far; the timestamp of the next event
          verifies, crashes, tampers   \* counters for the bounds

vars == <<db, txn, writer, mutex, pc, event, prev, outcome, rowsRead, verdict,
          log, clock, verifies, crashes, tampers>>

caller == <<event, outcome, clock>>
reader == <<rowsRead, verdict, verifies>>
env    == <<crashes, tampers>>
-----------------------------------------------------------------------------
Event   == [at : 0..MaxEvents, trace : Trace]
Digest  == Seq(Event)
Genesis == <<>>
Row     == [id : Nat, event : Event, prev : Digest, hash : Digest]
Db      == [rows : Seq(Row), last : Digest, count : Nat, seq : Nat]

\* _compute_hash
Hash(p, e) == Append(p, e)

\* The digest a row is expected to follow.
PrevHash(rs, i) == IF i = 1 THEN Genesis ELSE rs[i - 1].hash

\* Rows at which the walk of verify_chain would stop.
BadRows(rs) == {i \in DOMAIN rs : \/ rs[i].prev # PrevHash(rs, i)
                                  \/ rs[i].hash # Hash(PrevHash(rs, i), rs[i].event)}

LastHash(rs) == IF rs = <<>> THEN Genesis ELSE rs[Len(rs)].hash

TailOkCountOnly(rs, last, count) == Len(rs) = count   \* mutant: end hash not compared

TailOk(rs, last, count) == Len(rs) = count /\ LastHash(rs) = last

NoVerdict == [ok |-> FALSE, broken |-> 0, count |-> 0, tail |-> FALSE]

\* The answer of verify_chain for the rows and the meta record it read; broken
\* is the id of the first bad row (0: None).
Verdict(rs, last, count) ==
  LET bad == BadRows(rs)
      ok  == bad = {} /\ TailOk(rs, last, count)
  IN  [ok     |-> ok,
       broken |-> IF bad = {} THEN 0
                  ELSE rs[CHOOSE i \in bad : \A j \in bad : i <= j].id,
       count  |-> Len(rs),
       tail   |-> ok]
-----------------------------------------------------------------------------
Empty == [rows |-> <<>>, last |-> Genesis, count |-> 0, seq |-> 0]

Init == /\ db = Empty
        /\ txn = Empty
        /\ writer = NoThread
        /\ mutex = [p \in Process |-> NoThread]
        /\ pc = [t \in Thread |-> "idle"]
        /\ event = [t \in Thread |-> NoEvent]
        /\ prev = [t \in Thread |-> Genesis]
        /\ outcome = [t \in Thread |-> "none"]
        /\ rowsRead = [t \in Thread |-> <<>>]
        /\ verdict = [t \in Thread |-> NoVerdict]
        /\ log = <<>>
        /\ clock = 0
        /\ verifies = 0 /\ crashes = 0 /\ tampers = 0

Goto(t, label) == pc' = [pc EXCEPT ![t] = label]

\* AuditLogger.event / write: the record gets its timestamp before it queues
\* for the store.
Submit(t) ==
  /\ pc[t] = "idle" /\ clock < MaxEvents
  /\ clock' = clock + 1
  /\ \E x \in Trace : event' = [event EXCEPT ![t] = [at |-> clock', trace |-> x]]
  /\ outcome' = [outcome EXCEPT ![t] = "none"]
  /\ Goto(t, "lock")
  /\ UNCHANGED <<db, txn, writer, mutex, prev, reader, log, env>>

\* with self._lock, in append ("lock") and in verify_chain ("vlock")
Acquire(t) ==
  /\ pc[t] \in {"lock", "vlock"}
  /\ mutex[Home[t]] = NoThread
  /\ mutex' = [mutex EXCEPT ![Home[t]] = t]
  /\ Goto(t, IF pc[t] = "lock" THEN "begin" ELSE "vrows")
  /\ UNCHANGED <<db, txn, writer, caller, prev, reader, log, env>>

\* BEGIN IMMEDIATE obtains the write lock: one transaction at a time.
Begin(t) ==
  /\ pc[t] = "begin" /\ writer = NoThread
  /\ writer' = t
  /\ txn' = db
  /\ Goto(t, "read")
  /\ UNCHANGED <<db, mutex, caller, prev, reader, log, env>>

Release(t) == mutex' = [mutex EXCEPT ![Home[t]] = NoThread]

\* mutant: the lock is not released when BEGIN raises
BusyKeepsLock(t) ==
  /\ pc[t] = "begin" /\ writer # NoThread
  /\ Goto(t, "failed")
  /\ UNCHANGED <<db, txn, writer, mutex, caller, prev, reader, log, env>>

\* BEGIN IMMEDIATE gives up after busy_timeout; the statement stands before
\* the try, so there is nothing to roll back.
Busy(t) ==
  /\ pc[t] = "begin" /\ writer # NoThread
  /\ Release(t)
  /\ Goto(t, "failed")
  /\ UNCHANGED <<db, txn, writer, caller, prev, reader, log, env>>

\* SELECT last_hash
ReadLast(t) ==
  /\ pc[t] = "read"
  /\ prev' = [prev EXCEPT ![t] = txn.last]
  /\ Goto(t, "insert")
  /\ UNCHANGED <<db, txn, writer, mutex, caller, reader, log, env>>

\* mutant: no transaction, every statement commits by itself
InsertCommits(t) ==
  /\ pc[t] = "insert" /\ Goto(t, "update")
  /\ LET r == [id   |-> txn.seq + 1, event |-> event[t],
               prev |-> prev[t],     hash  |-> Hash(prev[t], event[t])]
     IN  /\ txn' = [txn EXCEPT !.rows = Append(@, r), !.seq = @ + 1]
         /\ db' = txn' /\ log' = Append(log, r)
  /\ UNCHANGED <<writer, mutex, caller, prev, reader, env>>

\* INSERT INTO audit_events; the id is the next of the AUTOINCREMENT sequence.
Insert(t) ==
  /\ pc[t] = "insert"
  /\ txn' = [txn EXCEPT
       !.rows = Append(@, [id    |-> txn.seq + 1, event |-> event[t],
                           prev  |-> prev[t], hash |-> Hash(prev[t], event[t])]),
       !.seq = @ + 1]
  /\ Goto(t, "update")
  /\ UNCHANGED <<db, writer, mutex, caller, prev, reader, log, env>>

\* mutant: the count stays
UpdateMetaHashOnly(t) ==
  /\ pc[t] = "update" /\ Goto(t, "commit")
  /\ txn' = [txn EXCEPT !.last = Hash(prev[t], event[t])]
  /\ UNCHANGED <<db, writer, mutex, caller, prev, reader, log, env>>

\* UPDATE audit_meta SET last_hash = digest, event_count = event_count + 1
UpdateMeta(t) ==
  /\ pc[t] = "update"
  /\ txn' = [txn EXCEPT !.last = Hash(prev[t], event[t]), !.count = @ + 1]
  /\ Goto(t, "commit")
  /\ UNCHANGED <<db, writer, mutex, caller, prev, reader, log, env>>

\* COMMIT; append is about to return.
Commit(t) ==
  /\ pc[t] = "commit"
  /\ db' = txn
  /\ txn' = Empty
  /\ log' = Append(log, txn.rows[Len(txn.rows)])
  /\ writer' = NoThread
  /\ prev' = [prev EXCEPT ![t] = Genesis]
  /\ Release(t)
  /\ Goto(t, "stored")
  /\ UNCHANGED <<caller, reader, env>>

\* A statement of the transaction, COMMIT included, raises: ROLLBACK and raise.
Rollback(t) ==
  /\ pc[t] \in {"read", "insert", "update", "commit"}
  /\ txn' = Empty
  /\ writer' = NoThread
  /\ prev' = [prev EXCEPT ![t] = Genesis]
  /\ Release(t)
  /\ Goto(t, "failed")
  /\ UNCHANGED <<db, caller, reader, log, env>>

\* mutant: the exception is swallowed in either mode
PersistSwallows(t) ==
  /\ pc[t] \in {"stored", "failed"}
  /\ outcome' = [outcome EXCEPT ![t] = "returned"]
  /\ Goto(t, "idle")
  /\ UNCHANGED <<db, txn, writer, mutex, event, clock, prev, reader, log, env>>

\* AuditLogger._persist: append returned, or raised and the exception passes
\* on (fail closed) or is swallowed (best effort).
Persist(t) ==
  /\ pc[t] \in {"stored", "failed"}
  /\ outcome' = [outcome EXCEPT ![t] =
                   IF pc[t] = "failed" /\ FailClosed THEN "raised" ELSE "returned"]
  /\ Goto(t, "idle")
  /\ UNCHANGED <<db, txn, writer, mutex, event, clock, prev, reader, log, env>>

\* verify_chain is called.
StartVerify(t) ==
  /\ pc[t] = "idle" /\ verifies < MaxVerify
  /\ verifies' = verifies + 1
  /\ Goto(t, "vlock")
  /\ UNCHANGED <<db, txn, writer, mutex, caller, prev, rowsRead, verdict, log, env>>

\* Its first SELECT: the rows.  No transaction is open, so the statement has a
\* snapshot of its own.
VerifyRows(t) ==
  /\ pc[t] = "vrows"
  /\ rowsRead' = [rowsRead EXCEPT ![t] = db.rows]
  /\ Goto(t, "vmeta")
  /\ UNCHANGED <<db, txn, writer, mutex, caller, prev, verdict, verifies, log, env>>

\* Its second SELECT, of audit_meta, in a later snapshot, and the walk.
VerifyMeta(t) ==
  /\ pc[t] = "vmeta"
  /\ verdict' = [verdict EXCEPT ![t] = Verdict(rowsRead[t], db.last, db.count)]
  /\ rowsRead' = [rowsRead EXCEPT ![t] = <<>>]
  /\ Release(t)
  /\ Goto(t, "idle")
  /\ UNCHANGED <<db, txn, writer, caller, prev, verifies, log, env>>

ThreadsOf(p) == {t \in Thread : Home[t] = p}

\* A process dies with its threads, its lock and its open transaction; the
\* committed database stays.
Crash(p) ==
  /\ crashes < MaxCrashes
  /\ crashes' = crashes + 1
  /\ pc' = [t \in Thread |-> IF Home[t] = p THEN "idle" ELSE pc[t]]
  /\ prev' = [t \in Thread |-> IF Home[t] = p THEN Genesis ELSE prev[t]]
  /\ rowsRead' = [t \in Thread |-> IF Home[t] = p THEN <<>> ELSE rowsRead[t]]
  /\ mutex' = [mutex EXCEPT ![p] = NoThread]
  /\ IF writer \in ThreadsOf(p)
       THEN writer' = NoThread /\ txn' = Empty
       ELSE UNCHANGED <<writer, txn>>
  /\ UNCHANGED <<db, caller, verdict, verifies, log, tampers>>

\* The threat model of docs/audit-tracing.md: somebody edits or deletes rows of
\* audit_events and leaves audit_meta alone.  An edited row may get the digest
\* that fits its new content.
Without(rs, i) == SubSeq(rs, 1, i - 1) \o SubSeq(rs, i + 1, Len(rs))
Edited(rs, i, e) == [rs EXCEPT ![i].event = e]
Rehashed(rs, i, e) == [rs EXCEPT ![i].event = e, ![i].hash = Hash(rs[i].prev, e)]
Forged == [at : {0}, trace : Trace]
TamperedAt(rs, i) == {Without(rs, i)}
                     \cup {Edited(rs, i, e) : e \in Forged}
                     \cup {Rehashed(rs, i, e) : e \in Forged}

Tamper ==
  /\ tampers < MaxTampers /\ writer = NoThread
  /\ tampers' = tampers + 1
  /\ \E i \in DOMAIN db.rows : \E rs \in TamperedAt(db.rows, i) :
       db' = [db EXCEPT !.rows = rs]
  /\ UNCHANGED <<txn, writer, mutex, pc, caller, prev, reader, log, crashes>>

Step(t) == \/ Acquire(t) \/ Begin(t) \/ ReadLast(t) \/ Insert(t)
           \/ UpdateMeta(t) \/ Commit(t) \/ Persist(t)
           \/ VerifyRows(t) \/ VerifyMeta(t)

Next == \/ \E t \in Thread : Submit(t) \/ StartVerify(t) \/ Step(t)
                             \/ Busy(t) \/ Rollback(t)
        \/ \E p \in Process : Crash(p)
        \/ Tamper

Spec == Init /\ [][Next]_vars

\* The operating system runs every thread, and a threading.Lock that is freed
\* again and again is eventually granted to each thread that waits for it.
Fairness == \A t \in Thread : WF_vars(Step(t)) /\ SF_vars(Acquire(t))

FairSpec == Spec /\ Fairness
-----------------------------------------------------------------------------
Label == {"idle", "lock", "begin", "read", "insert", "update", "commit",
          "stored", "failed", "vlock", "vrows", "vmeta"}

TypeOK ==
  /\ db \in Db /\ txn \in Db
  /\ writer \in Thread \cup {NoThread}
  /\ mutex \in [Process -> Thread \cup {NoThread}]
  /\ pc \in [Thread -> Label]
  /\ event \in [Thread -> Event \cup {NoEvent}]
  /\ prev \in [Thread -> Digest]
  /\ outcome \in [Thread -> {"none", "returned", "raised"}]
  /\ rowsRead \in [Thread -> Seq(Row)]
  /\ verdict \in [Thread -> [ok : BOOLEAN, broken : Nat, count : Nat, tail : BOOLEAN]]
  /\ log \in Seq(Row)
  /\ clock \in 0..MaxEvents
  /\ verifies \in Nat /\ crashes \in Nat /\ tampers \in Nat

\* What was committed is one unbroken chain that ends where audit_meta says:
\* no interleaving of processes and threads, failed statement or crash forks
\* it, skips a row or leaves rows and meta apart (store.py:75-94); and as long
\* as nobody edits the table, it holds exactly those rows.
ChainIntact ==
  /\ BadRows(log) = {}
  /\ TailOk(log, db.last, db.count)
  /\ tampers = 0 => db.rows = log

\* A call of AuditLogger that came back without an exception in fail-closed
\* mode has its event in the log, whatever failed or crashed since
\* (logger.py:18-24).
ReturnedIsStored ==
  FailClosed => \A t \in Thread :
    outcome[t] = "returned" => \E i \in DOMAIN log : log[i].event = event[t]

Events(rs) == [i \in DOMAIN rs |-> rs[i].event]

\* verify_chain never vouches for a table somebody has edited: when it answers
\* ok, the rows it read carry exactly the events committed so far, even with
\* appends of other processes between its two SELECTs.
VerdictSound ==
  [][\A t \in Thread : VerifyMeta(t) /\ verdict'[t].ok
                         => Events(rowsRead[t]) = Events(log)]_vars

\* verify_chain never reports a clean table as broken (audit-tracing.md:13-15:
\* it detects tampering and truncation; the design's test list, 128: clean data
\* verifies).
NoFalseAlarm ==
  [][\A t \in Thread : VerifyMeta(t) /\ tampers = 0 => verdict'[t].ok]_vars

\* What a false alarm can be: as long as nobody edits the table, verify_chain
\* never names a broken row, and it says the end does not fit only when another
\* process committed a row between its two SELECTs (store.py:148-172).
AlarmExplained ==
  [][\A t \in Thread : VerifyMeta(t) /\ tampers = 0 =>
       /\ verdict'[t].broken = 0
       /\ verdict'[t].ok <=> rowsRead[t] = db.rows]_vars

\* No deadlock between the process locks and SQLite's write lock, also when a
\* process dies with either: every call comes to an end.
CallsEnd == \A t \in Thread : pc[t] # "idle" ~> pc[t] = "idle"

\* The audit component implements its abstract specification.
Abstract == INSTANCE AuditLog WITH
  log  <- Events(log),
  call <- [t \in Thread |->
             IF pc[t] = "stored" THEN "applied"
             ELSE IF pc[t] \in {"idle", "vlock", "vrows", "vmeta"} THEN "idle"
             ELSE "pending"]

Refines == Abstract!Spec
=============================================================================
