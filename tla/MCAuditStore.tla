---------------------------- MODULE MCAuditStore ----------------------------
(* Two worker processes on one database, the first with two threads.        *)
EXTENDS AuditStore

CONSTANTS w1, w2, t1, t2, t3

TwoProcesses == {w1, w2}
ThreeThreads == {t1, t2, t3}
TwoThreads   == {t1, t3}
HomeOfThree  == [t \in ThreeThreads |-> IF t = t3 THEN w2 ELSE w1]
HomeOfTwo    == [t \in TwoThreads |-> IF t = t3 THEN w2 ELSE w1]
=============================================================================
