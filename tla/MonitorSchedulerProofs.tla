----------------------- MODULE MonitorSchedulerProofs -----------------------
(***************************************************************************)
(* Proofs about MonitorScheduler, for any number of loops, starts and      *)
(* stops, and any capacity of the alert store.                             *)
(***************************************************************************)
EXTENDS MonitorScheduler, SequenceLemmas, TLAPS

(* The thread a scheduler refers to is the only one that may be alive: a   *)
(* stop whose join times out must not forget it.                           *)
OnlyKnown == /\ DOMAIN pc = Thread
             /\ \A t \in Thread : Alive(t) => t = thread

LEMMA InitOnlyKnown == Init => OnlyKnown
BY DEF Init, OnlyKnown, Alive

\* Steps of the callers of start and stop
LEMMA LifecycleStep ==
  ASSUME OnlyKnown, Start \/ Stop \/ Joined
  PROVE  OnlyKnown'
<1>1. CASE Start
  <2>1. CASE Alive(thread)
    BY <1>1, <2>1 DEF Start, OnlyKnown, Alive
  <2>2. CASE ~Alive(thread)
    <3>1. PICK t \in Thread : Goto(t, "test") /\ thread' = t
      BY <1>1, <2>2 DEF Start
    <3>2. \A s \in Thread : ~Alive(s)
      BY <2>2 DEF OnlyKnown
    <3>3. QED
      BY <3>1, <3>2 DEF OnlyKnown, Alive, Goto
  <2>3. QED
    BY <2>1, <2>2
<1>2. CASE Stop
  BY <1>2 DEF Stop, OnlyKnown, Alive
<1>3. CASE Joined
  BY <1>3 DEF Joined, OnlyKnown, Alive
<1>4. QED
  BY <1>1, <1>2, <1>3

\* A loop's step wakes no other, and none that has ended.
LEMMA LoopStep ==
  ASSUME OnlyKnown, NEW t \in Thread, Loop(t)
  PROVE  OnlyKnown'
<1>1. /\ thread' = thread /\ pc[t] \notin {"none", "ended"}
      /\ pc' = pc \/ \E where : pc' = [pc EXCEPT ![t] = where]
  BY DEF Loop, Test, CheckTool, AddAlert, LogAlert, EndRound, Wake, LeaveRound, Goto
<1>2. t = thread
  BY <1>1, NoThreadAssumption DEF OnlyKnown, Alive
<1>3. \A s \in Thread : s # t => pc'[s] = pc[s]
  BY <1>1 DEF OnlyKnown
<1>4. DOMAIN pc' = Thread
  BY <1>1 DEF OnlyKnown
<1>5. QED
  BY <1>1, <1>2, <1>3, <1>4 DEF OnlyKnown, Alive

LEMMA OnlyKnownStep == OnlyKnown /\ [Next]_vars => OnlyKnown'
<1> SUFFICES ASSUME OnlyKnown, [Next]_vars PROVE OnlyKnown'
  OBVIOUS
<1>1. CASE Recent \/ UNCHANGED vars
  BY <1>1 DEF Recent, vars, OnlyKnown, Alive
<1>2. QED
  BY <1>1, LifecycleStep, LoopStep DEF Next

(* However often the monitor is started and stopped, and whichever joins   *)
(* time out, two loops never run at the same time (scheduler.py 76-98).    *)
THEOREM OneLoopCorrect == Spec => []OneLoop
<1>1. Init => OnlyKnown
  BY InitOnlyKnown
<1>2. OnlyKnown /\ [Next]_vars => OnlyKnown'
  BY OnlyKnownStep
<1>3. OnlyKnown => OneLoop
  BY DEF OnlyKnown, OneLoop
<1>4. QED
  BY <1>1, <1>2, <1>3, PTL DEF Spec
-----------------------------------------------------------------------------
(* What the rounds leave in the store.                                     *)

\* Where a loop is in its round, and what the round has found by then
Rounds == \A t \in Thread :
  /\ pc[t] \notin {"tools", "alerts", "logging"} => tool[t] = 1 /\ alerts[t] = <<>>
  /\ pc[t] \notin {"alerts", "logging"} => logged[t] = 0
  /\ Len(alerts[t]) <= 3
  /\ pc[t] = "tools" => Len(alerts[t]) < tool[t]
  /\ pc[t] = "logging" => logged[t] < Len(alerts[t])

(* The newest alerts of the store are those a round in progress has added. *)
(* Only one round is in progress: with two they would be mixed.            *)
Kept == \A t \in Thread : OfRound(t) <= MaxAlerts =>
          /\ OfRound(t) <= Len(store)
          /\ \A i \in 1..OfRound(t) : store[Len(store) - OfRound(t) + i] = alerts[t][i]

IInv == OnlyKnown /\ TypeOK /\ Rounds /\ Kept

\* What the types say of one loop
LEMMA Types ==
  ASSUME TypeOK, NEW t \in Thread
  PROVE  /\ tool[t] \in 1..3 /\ logged[t] \in 0..3 /\ errors[t] \in SUBSET Tool
         /\ alerts[t] \in Seq(Tool) /\ Len(alerts[t]) \in Nat /\ logged[t] <= Len(alerts[t])
         /\ OfRound(t) \in Nat
<1>1. tool[t] \in 1..3 /\ logged[t] \in 0..3 /\ errors[t] \in SUBSET Tool
  BY DEF TypeOK
<1>2. alerts[t] \in Seq(Tool) /\ logged[t] <= Len(alerts[t])
  BY DEF TypeOK
<1>3. OfRound(t) \in Nat
  BY <1>1 DEF OfRound
<1>4. QED
  BY <1>1, <1>2, <1>3

LEMMA InitIInv == Init => IInv
<1> SUFFICES ASSUME Init PROVE IInv
  OBVIOUS
<1>1. OnlyKnown
  BY InitOnlyKnown
<1>2. TypeOK
  <2>1. <<>> \in Seq(Tool) /\ Len(<<>>) = 0 /\ 0 <= MaxAlerts
    BY MaxAlertsAssumption
  <2>2. DOMAIN alerts = Thread /\ \A t \in Thread : alerts[t] = <<>> /\ logged[t] = 0
    BY <2>1 DEF Init
  <2>3. status \in [count : 0..3, errors : SUBSET Tool] /\ errors \in [Thread -> SUBSET Tool]
    BY DEF Init
  <2>4. /\ tool \in [Thread -> 1..3] /\ logged \in [Thread -> 0..3]
        /\ pc \in [Thread -> {"none", "test", "tools", "alerts", "logging", "waiting", "ended"}]
    BY DEF Init
  <2>5. store \in Seq(Tool) /\ Len(store) <= MaxAlerts
    BY <2>1 DEF Init
  <2>6. flag \in BOOLEAN /\ thread \in Thread \cup {NoThread} /\ lifecycle \in {"idle", "joining"}
    BY DEF Init
  <2>7. \A t \in Thread : alerts[t] \in Seq(Tool) /\ logged[t] <= Len(alerts[t])
    <3> TAKE t \in Thread
    <3>1. alerts[t] = <<>> /\ logged[t] = 0
      BY <2>2
    <3>2. QED
      BY <2>1, <3>1
  <2>8. QED
    BY <2>2, <2>3, <2>4, <2>5, <2>6, <2>7 DEF TypeOK
<1>3. Rounds /\ Kept
  BY DEF Init, Rounds, Kept, OfRound
<1>4. QED
  BY <1>1, <1>2, <1>3 DEF IInv

\* The steps that touch neither a round nor the store
LEMMA OutsideStep ==
  ASSUME IInv, Start \/ Stop \/ Joined \/ \E t \in Thread : Test(t) \/ Wake(t)
  PROVE  IInv'
<1>1. OnlyKnown'
  BY LifecycleStep, LoopStep DEF IInv, Loop
<1>2. /\ UNCHANGED <<round, store, status>> /\ flag' \in BOOLEAN
      /\ thread' \in Thread \cup {NoThread} /\ lifecycle' \in {"idle", "joining"}
  BY DEF Start, Stop, Joined, Test, Wake, IInv, TypeOK
<1>3. \/ pc' = pc
      \/ \E t \in Thread : \/ pc[t] \in {"none", "ended"} /\ pc' = [pc EXCEPT ![t] = "test"]
                           \/ pc[t] = "test" /\ pc' = [pc EXCEPT ![t] = "ended"]
                           \/ pc[t] = "test" /\ pc' = [pc EXCEPT ![t] = "tools"]
                           \/ pc[t] = "waiting" /\ pc' = [pc EXCEPT ![t] = "test"]
  BY DEF Start, Stop, Joined, Test, Wake, Goto
<1>4. TypeOK'
  BY <1>2, <1>3 DEF IInv, TypeOK, round
<1>5. ASSUME NEW t \in Thread
      PROVE  OfRound(t)' = OfRound(t)
  BY <1>2, <1>3 DEF IInv, TypeOK, OfRound, round
<1>6. Rounds'
  BY <1>2, <1>3 DEF IInv, TypeOK, Rounds, round
<1>7. Kept'
  BY <1>2, <1>5 DEF IInv, Kept, round
<1>8. QED
  BY <1>1, <1>4, <1>6, <1>7 DEF IInv

LEMMA CheckToolStep ==
  ASSUME IInv, NEW t \in Thread, CheckTool(t)
  PROVE  IInv'
<1>1. OnlyKnown'
  BY LoopStep DEF IInv, Loop
<1>2. /\ UNCHANGED <<flag, thread, lifecycle, logged, store, status>> /\ pc[t] = "tools"
      /\ \/ tool[t] = 3 /\ pc' = [pc EXCEPT ![t] = "alerts"] /\ tool' = tool
         \/ tool[t] # 3 /\ tool' = [tool EXCEPT ![t] = @ + 1] /\ pc' = pc
      /\ tool[t] \in 1..3 /\ logged[t] = 0 /\ Len(alerts[t]) < tool[t] /\ Len(alerts[t]) \in Nat
  BY DEF CheckTool, Goto, CheckTools, IInv, TypeOK, Rounds
<1>3. CheckTools[tool[t]] \in Tool
  BY <1>2 DEF CheckTools, Tool
<1>4. /\ \A s \in Thread : alerts'[s] \in Seq(Tool)
      /\ \A s \in Thread : s # t => alerts'[s] = alerts[s]
      /\ Len(alerts'[t]) <= Len(alerts[t]) + 1 /\ Len(alerts'[t]) \in Nat
      /\ errors' \in [Thread -> SUBSET Tool]
  <2>1. PICK source \in Tool : Checked(t, source)
    BY <1>3 DEF CheckTool
  <2>2. CASE UNCHANGED <<alerts, errors>>
    BY <1>2, <2>2 DEF IInv, TypeOK
  <2>3. CASE alerts' = [alerts EXCEPT ![t] = Append(@, source)] /\ UNCHANGED errors
    <3>1. alerts[t] \in Seq(Tool)
      BY DEF IInv, TypeOK
    <3>2. Append(alerts[t], source) \in Seq(Tool)
          /\ Len(Append(alerts[t], source)) = Len(alerts[t]) + 1
      BY <3>1
    <3>3. \A s \in Thread : alerts'[s] = IF s = t THEN Append(alerts[t], source) ELSE alerts[s]
      BY <2>3 DEF IInv, TypeOK
    <3>4. QED
      BY <1>2, <2>3, <3>2, <3>3 DEF IInv, TypeOK
  <2>4. CASE errors' = [errors EXCEPT ![t] = @ \cup {source}] /\ UNCHANGED alerts
    BY <1>2, <2>4 DEF IInv, TypeOK
  <2>5. QED
    BY <2>1, <2>2, <2>3, <2>4 DEF Checked
<1>5. TypeOK'
  <2>1. pc' \in [Thread -> {"none", "test", "tools", "alerts", "logging", "waiting", "ended"}]
    <3>1. pc \in [Thread -> {"none", "test", "tools", "alerts", "logging", "waiting", "ended"}]
      BY DEF IInv, TypeOK
    <3>2. QED
      BY <1>2, <3>1
  <2>2. tool' \in [Thread -> 1..3]
    <3>1. tool \in [Thread -> 1..3]
      BY DEF IInv, TypeOK
    <3>2. CASE tool[t] = 3
      BY <1>2, <3>1, <3>2
    <3>3. CASE tool[t] # 3
      <4>1. tool[t] + 1 \in 1..3 /\ tool' = [tool EXCEPT ![t] = tool[t] + 1]
        BY <1>2, <3>3
      <4>2. QED
        BY <3>1, <4>1
    <3>4. QED
      BY <3>2, <3>3
  <2>3. \A s \in Thread : logged[s] <= Len(alerts'[s])
    <3>1. ASSUME NEW s \in Thread, s # t PROVE logged[s] <= Len(alerts'[s])
      BY <1>4, <3>1, Types DEF IInv
    <3>2. logged[t] <= Len(alerts'[t])
      BY <1>2, <1>4
    <3>3. QED
      BY <3>1, <3>2
  <2>4. QED
    <3>1. DOMAIN alerts' = Thread
      BY DEF CheckTool, Checked, IInv, TypeOK
    <3>2. QED
      BY <1>2, <1>4, <2>1, <2>2, <2>3, <3>1 DEF IInv, TypeOK
<1>6. Rounds'
  <2> SUFFICES ASSUME NEW s \in Thread
      PROVE /\ pc'[s] \notin {"tools", "alerts", "logging"} => tool'[s] = 1 /\ alerts'[s] = <<>>
            /\ pc'[s] \notin {"alerts", "logging"} => logged'[s] = 0
            /\ Len(alerts'[s]) <= 3
            /\ pc'[s] = "tools" => Len(alerts'[s]) < tool'[s]
            /\ pc'[s] = "logging" => logged'[s] < Len(alerts'[s])
    BY DEF Rounds
  <2>1. CASE s # t
    BY <1>2, <1>4, <2>1 DEF IInv, TypeOK, Rounds
  <2>2. CASE s = t
    BY <1>2, <1>4, <2>2 DEF IInv, TypeOK
  <2>3. QED
    BY <2>1, <2>2
<1>7. Kept'
  <2> SUFFICES ASSUME NEW s \in Thread, OfRound(s)' <= MaxAlerts
      PROVE /\ OfRound(s)' <= Len(store)
            /\ \A i \in 1..OfRound(s)' : store[Len(store) - OfRound(s)' + i] = alerts'[s][i]
    BY <1>2 DEF Kept
  <2>1. CASE s # t
    <3>1. OfRound(s)' = OfRound(s) /\ alerts'[s] = alerts[s]
      BY <1>2, <1>4, <2>1 DEF OfRound, IInv, TypeOK
    <3>2. QED
      BY <3>1 DEF IInv, Kept
  <2>2. CASE s = t
    <3>1. OfRound(s)' = 0
      BY <1>2, <2>2 DEF OfRound, IInv, TypeOK
    <3>2. QED
      BY <3>1 DEF IInv, TypeOK
  <2>3. QED
    BY <2>1, <2>2
<1>8. QED
  BY <1>1, <1>5, <1>6, <1>7 DEF IInv

\* Nothing of a round in progress expires: the newest alerts are the same.
LEMMA NewestKept ==
  ASSUME IInv, NEW kept \in Unexpired, NEW t \in Thread, OfRound(t) <= MaxAlerts
  PROVE  /\ kept \in Seq(Tool) /\ Len(kept) <= MaxAlerts /\ OfRound(t) <= Len(kept)
         /\ \A i \in 1..OfRound(t) : kept[Len(kept) - OfRound(t) + i] = alerts[t][i]
<1> DEFINE n == OfRound(t)
<1>1. n \in Nat
  BY Types DEF IInv
<1>2. /\ n <= Len(store) /\ Len(store) \in Nat /\ Len(store) <= MaxAlerts /\ store \in Seq(Tool)
      /\ \A i \in 1..n : store[Len(store) - n + i] = alerts[t][i]
  BY DEF IInv, Kept, TypeOK
<1> HIDE DEF n
<1>3. CASE kept = store
  BY <1>2, <1>3 DEF n
<1>4. CASE \E m \in DOMAIN store : /\ kept = SubSeq(store, m + 1, Len(store))
                                   /\ m + n <= Len(store)
  <2>1. PICK m \in DOMAIN store : /\ kept = SubSeq(store, m + 1, Len(store))
                                  /\ m + n <= Len(store)
    BY <1>4
  <2>2. m \in 0..Len(store) /\ m \in 1..Len(store)
    BY <1>2
  <2>3. /\ kept \in Seq(Tool) /\ Len(kept) = Len(store) - m
        /\ \A i \in 1..(Len(store) - m) : kept[i] = store[i + m]
    BY <1>2, <2>1, <2>2, DropFirst
  <2>4. ASSUME NEW i \in 1..n PROVE kept[Len(kept) - n + i] = alerts[t][i]
    <3>1. Len(kept) - n + i \in 1..(Len(store) - m) /\ (Len(kept) - n + i) + m = Len(store) - n + i
      BY <1>1, <1>2, <2>1, <2>3
    <3>2. QED
      BY <1>2, <2>3, <3>1
  <2>5. Len(kept) <= MaxAlerts /\ n <= Len(kept)
    BY <1>1, <1>2, <2>1, <2>2, <2>3, MaxAlertsAssumption
  <2>6. QED
    BY <2>3, <2>4, <2>5 DEF n
<1>5. QED
  BY <1>3, <1>4 DEF Unexpired, n

\* add: the new alert is the newest, and what the cap drops are the oldest.
LEMMA CappedAppend ==
  ASSUME NEW s \in Seq(Tool), Len(s) <= MaxAlerts, NEW a \in Tool
  PROVE  /\ Capped(Append(s, a)) \in Seq(Tool) /\ Len(Capped(Append(s, a))) <= MaxAlerts
         /\ \A n \in Nat : n < MaxAlerts /\ n <= Len(s) =>
              /\ n + 1 <= Len(Capped(Append(s, a)))
              /\ \A i \in 1..n : Capped(Append(s, a))[Len(Capped(Append(s, a))) - (n + 1) + i]
                                   = s[Len(s) - n + i]
              /\ Capped(Append(s, a))[Len(Capped(Append(s, a)))] = a
<1> DEFINE u == Append(s, a)
           m == IF Len(u) > MaxAlerts THEN Len(u) - MaxAlerts ELSE 0
           c == Capped(u)
<1>1. /\ Len(s) \in Nat /\ u \in Seq(Tool) /\ Len(u) = Len(s) + 1
      /\ \A i \in 1..Len(s) : u[i] = s[i]
      /\ u[Len(s) + 1] = a
  OBVIOUS
<1> HIDE DEF u
<1>2. m \in {0, 1} /\ m \in 0..Len(u) /\ Len(u) - m <= MaxAlerts
      /\ (m = 1 => Len(s) = MaxAlerts)
  BY <1>1, MaxAlertsAssumption
<1>3. c = SubSeq(u, m + 1, Len(u))
  BY <1>1, MaxAlertsAssumption DEF Capped
<1> HIDE DEF m, c
<1>4. /\ c \in Seq(Tool) /\ Len(c) = Len(u) - m
      /\ \A i \in 1..(Len(u) - m) : c[i] = u[i + m]
  BY <1>1, <1>2, <1>3, DropFirst
<1>5. ASSUME NEW n \in Nat, n < MaxAlerts, n <= Len(s)
      PROVE  /\ n + 1 <= Len(c) /\ c[Len(c)] = a
             /\ \A i \in 1..n : c[Len(c) - (n + 1) + i] = s[Len(s) - n + i]
  <2>1. n + 1 <= Len(c)
    BY <1>1, <1>2, <1>4, <1>5, MaxAlertsAssumption
  <2>2. c[Len(c)] = a
    <3>1. Len(c) \in 1..(Len(u) - m) /\ Len(c) + m = Len(s) + 1
      BY <1>1, <1>2, <1>4, <2>1
    <3>2. QED
      BY <1>1, <1>4, <3>1
  <2>3. ASSUME NEW i \in 1..n PROVE c[Len(c) - (n + 1) + i] = s[Len(s) - n + i]
    <3>1. /\ Len(c) - (n + 1) + i \in 1..(Len(u) - m)
          /\ (Len(c) - (n + 1) + i) + m = Len(s) - n + i
          /\ Len(s) - n + i \in 1..Len(s)
      BY <1>1, <1>2, <1>4, <1>5, <2>1
    <3>2. QED
      BY <1>1, <1>4, <3>1
  <2>4. QED
    BY <2>1, <2>2, <2>3
<1>6. QED
  BY <1>1, <1>2, <1>4, <1>5, MaxAlertsAssumption DEF u, c

\* A loop in its round is alone.
LEMMA OthersOutside ==
  ASSUME IInv, NEW t \in Thread, pc[t] \notin {"none", "ended"}, NEW s \in Thread, s # t
  PROVE  pc[s] \in {"none", "ended"} /\ OfRound(s) = 0
BY NoThreadAssumption DEF IInv, OnlyKnown, Alive, OfRound

LEMMA AddAlertStep ==
  ASSUME IInv, NEW t \in Thread, AddAlert(t)
  PROVE  IInv'
<1>1. OnlyKnown'
  BY LoopStep DEF IInv, Loop
<1> DEFINE n == logged[t]
           a == alerts[t][n + 1]
<1>2. /\ UNCHANGED <<flag, thread, lifecycle, round, status>>
      /\ pc[t] = "alerts" /\ pc' = [pc EXCEPT ![t] = "logging"]
      /\ n < Len(alerts[t]) /\ n \in Nat /\ OfRound(t) = n /\ alerts[t] \in Seq(Tool)
  BY Types DEF AddAlert, Goto, IInv, OfRound
<1>3. a \in Tool
  BY <1>2
<1>4. PICK kept \in Unexpired : store' = Capped(Append(kept, a))
  BY DEF AddAlert
<1> HIDE DEF a
<1>5. /\ kept \in Seq(Tool) /\ Len(kept) <= MaxAlerts
      /\ n <= MaxAlerts => /\ n <= Len(kept)
                           /\ \A i \in 1..n : kept[Len(kept) - n + i] = alerts[t][i]
  <2>1. CASE n <= MaxAlerts
    BY <1>2, <2>1, NewestKept
  <2>2. CASE ~(n <= MaxAlerts)
    <3>1. \A m \in DOMAIN store : SubSeq(store, m + 1, Len(store)) \in Seq(Tool)
                                  /\ Len(SubSeq(store, m + 1, Len(store))) <= MaxAlerts
      <4> TAKE m \in DOMAIN store
      <4>1. m \in 0..Len(store) /\ Len(store) \in Nat /\ store \in Seq(Tool) /\ Len(store) <= MaxAlerts
        BY DEF IInv, TypeOK
      <4>2. SubSeq(store, m + 1, Len(store)) \in Seq(Tool)
            /\ Len(SubSeq(store, m + 1, Len(store))) = Len(store) - m
        BY <4>1, DropFirst
      <4>3. QED
        BY <4>1, <4>2, MaxAlertsAssumption
    <3>2. store \in Seq(Tool) /\ Len(store) <= MaxAlerts
      BY DEF IInv, TypeOK
    <3>3. QED
      BY <2>2, <3>1, <3>2 DEF Unexpired
  <2>3. QED
    BY <2>1, <2>2
<1>6. /\ store' \in Seq(Tool) /\ Len(store') <= MaxAlerts
      /\ n < MaxAlerts => /\ n + 1 <= Len(store') /\ store'[Len(store')] = a
                          /\ \A i \in 1..n : store'[Len(store') - (n + 1) + i] = alerts[t][i]
  <2>1. store' \in Seq(Tool) /\ Len(store') <= MaxAlerts
    BY <1>3, <1>4, <1>5, CappedAppend
  <2>2. ASSUME n < MaxAlerts
        PROVE /\ n + 1 <= Len(store') /\ store'[Len(store')] = a
              /\ \A i \in 1..n : store'[Len(store') - (n + 1) + i] = alerts[t][i]
    <3>1. n <= MaxAlerts /\ n \in Nat
      BY <1>2, <2>2, MaxAlertsAssumption
    <3>2. n <= Len(kept) /\ \A i \in 1..n : kept[Len(kept) - n + i] = alerts[t][i]
      BY <1>5, <3>1
    <3>3. /\ n + 1 <= Len(store') /\ store'[Len(store')] = a
          /\ \A i \in 1..n : store'[Len(store') - (n + 1) + i] = kept[Len(kept) - n + i]
      <4> HIDE DEF n
      <4>1. QED
        BY <1>3, <1>4, <1>5, <2>2, <3>1, <3>2, CappedAppend
    <3>4. QED
      BY <3>2, <3>3
  <2>3. QED
    BY <2>1, <2>2
<1>7. TypeOK'
  BY <1>2, <1>6 DEF IInv, TypeOK, round
<1>8. Rounds'
  BY <1>2 DEF IInv, TypeOK, Rounds, round
<1>9. Kept'
  <2> SUFFICES ASSUME NEW s \in Thread, OfRound(s)' <= MaxAlerts
      PROVE /\ OfRound(s)' <= Len(store')
            /\ \A i \in 1..OfRound(s)' : store'[Len(store') - OfRound(s)' + i] = alerts'[s][i]
    BY DEF Kept
  <2>1. CASE s # t
    <3>1. OfRound(s)' = 0
      BY <1>2, <2>1, OthersOutside DEF OfRound, IInv, TypeOK
    <3>2. QED
      BY <1>6, <3>1
  <2>2. CASE s = t
    <3>1. OfRound(s)' = n + 1 /\ alerts'[s] = alerts[t]
      BY <1>2, <2>2 DEF OfRound, IInv, TypeOK, round
    <3>2. n + 1 <= MaxAlerts /\ n < MaxAlerts
      BY <1>2, <3>1, MaxAlertsAssumption
    <3>3. ASSUME NEW i \in 1..(n + 1) PROVE store'[Len(store') - (n + 1) + i] = alerts[t][i]
      <4>1. CASE i \in 1..n
        BY <1>6, <3>2, <4>1
      <4>2. CASE i = n + 1
        <5>1. Len(store') - (n + 1) + i = Len(store')
          BY <1>2, <1>6, <4>2
        <5>2. QED
          BY <1>6, <3>2, <4>2, <5>1 DEF a
      <4>3. QED
        BY <1>2, <4>1, <4>2
    <3>4. QED
      BY <1>6, <3>1, <3>2, <3>3
  <2>3. QED
    BY <2>1, <2>2
<1>10. QED
  BY <1>1, <1>7, <1>8, <1>9 DEF IInv

LEMMA LeaveStep ==
  ASSUME IInv, NEW t \in Thread, LogAlert(t) \/ EndRound(t)
  PROVE  IInv'
<1>1. OnlyKnown'
  BY LoopStep DEF IInv, Loop
<1>2. /\ UNCHANGED <<flag, thread, lifecycle, store>>
      /\ status' = status \/ status' = [count |-> Len(alerts[t]), errors |-> errors[t]]
  BY DEF LogAlert, EndRound
<1>3. \/ LeaveRound(t)
      \/ /\ pc[t] = "logging" /\ pc' = [pc EXCEPT ![t] = "alerts"]
         /\ logged' = [logged EXCEPT ![t] = @ + 1] /\ UNCHANGED <<tool, alerts, errors>>
  BY DEF LogAlert, EndRound, Goto
<1>4. status' \in [count : 0..3, errors : SUBSET Tool]
  <2>1. Len(alerts[t]) \in 0..3 /\ errors[t] \in SUBSET Tool
    <3>1. Len(alerts[t]) <= 3
      BY DEF IInv, Rounds
    <3>2. Len(alerts[t]) \in Nat
      BY Types DEF IInv
    <3>3. Len(alerts[t]) \in 0..3
      <4>1. \A n \in Nat : n <= 3 => n \in 0..3
        OBVIOUS
      <4>2. QED
        BY <3>1, <3>2, <4>1, Zenon
    <3>4. errors[t] \in SUBSET Tool
      BY Types DEF IInv
    <3>5. QED
      BY <3>3, <3>4
  <2>2. status \in [count : 0..3, errors : SUBSET Tool]
    BY DEF IInv, TypeOK
  <2>3. [count |-> Len(alerts[t]), errors |-> errors[t]] \in [count : 0..3, errors : SUBSET Tool]
    BY <2>1
  <2>4. QED
    BY <1>2, <2>2, <2>3
<1>5. CASE LeaveRound(t)
  <2>1. /\ pc' = [pc EXCEPT ![t] = "waiting"]
        /\ tool' = [tool EXCEPT ![t] = 1] /\ alerts' = [alerts EXCEPT ![t] = <<>>]
        /\ errors' = [errors EXCEPT ![t] = {}] /\ logged' = [logged EXCEPT ![t] = 0]
    BY <1>5 DEF LeaveRound, Goto
  <2>2. \A s \in Thread : alerts'[s] = IF s = t THEN <<>> ELSE alerts[s]
    BY <2>1 DEF IInv, TypeOK
  <2>3. TypeOK'
    <3>1. /\ pc' \in [Thread -> {"none", "test", "tools", "alerts", "logging", "waiting", "ended"}]
          /\ tool' \in [Thread -> 1..3] /\ logged' \in [Thread -> 0..3]
          /\ errors' \in [Thread -> SUBSET Tool]
      BY <2>1 DEF IInv, TypeOK
    <3>2. ASSUME NEW s \in Thread PROVE alerts'[s] \in Seq(Tool) /\ logged'[s] <= Len(alerts'[s])
      <4>1. CASE s # t
        BY <2>1, <2>2, <4>1 DEF IInv, TypeOK
      <4>2. CASE s = t
        <5>1. alerts'[s] = <<>> /\ logged'[s] = 0
          BY <2>1, <2>2, <4>2 DEF IInv, TypeOK
        <5>2. QED
          BY <5>1
      <4>3. QED
        BY <4>1, <4>2
    <3>3. DOMAIN alerts' = Thread
      BY <2>1 DEF IInv, TypeOK
    <3>4. flag' \in BOOLEAN /\ thread' \in Thread \cup {NoThread} /\ lifecycle' \in {"idle", "joining"}
          /\ store' \in Seq(Tool) /\ Len(store') <= MaxAlerts
      BY <1>2 DEF IInv, TypeOK
    <3>5. QED
      BY <1>4, <3>1, <3>2, <3>3, <3>4 DEF TypeOK
  <2>4. Rounds'
    BY <2>1, <2>2 DEF IInv, TypeOK, Rounds
  <2>5. ASSUME NEW s \in Thread
        PROVE  OfRound(s)' = 0 \/ (OfRound(s)' = OfRound(s) /\ alerts'[s] = alerts[s])
    BY <2>1 DEF OfRound, IInv, TypeOK
  <2>6. Kept'
    BY <1>2, <2>5 DEF IInv, TypeOK, Kept
  <2>7. QED
    BY <1>1, <2>3, <2>4, <2>6 DEF IInv
<1>6. CASE /\ pc[t] = "logging" /\ pc' = [pc EXCEPT ![t] = "alerts"]
           /\ logged' = [logged EXCEPT ![t] = @ + 1] /\ UNCHANGED <<tool, alerts, errors>>
  <2>1. \A s \in Thread : OfRound(s)' = OfRound(s)
    BY <1>6 DEF OfRound, IInv, TypeOK
  <2>2. Kept'
    BY <1>2, <1>6, <2>1 DEF IInv, Kept
  <2>3. logged[t] < Len(alerts[t]) /\ Len(alerts[t]) <= 3 /\ Len(alerts[t]) \in Nat
    BY <1>6 DEF IInv, TypeOK, Rounds
  <2>4. TypeOK'
    <3>1. logged' \in [Thread -> 0..3] /\ \A s \in Thread : logged'[s] <= Len(alerts[s])
      <4>1. logged[t] + 1 \in 0..3 /\ logged[t] + 1 <= Len(alerts[t])
        BY <2>3, Types DEF IInv
      <4>2. logged \in [Thread -> 0..3] /\ logged' = [logged EXCEPT ![t] = logged[t] + 1]
        BY <1>6 DEF IInv, TypeOK
      <4>3. \A s \in Thread : logged[s] <= Len(alerts[s])
        BY Types DEF IInv
      <4>4. QED
        BY <4>1, <4>2, <4>3
    <3>2. pc' \in [Thread -> {"none", "test", "tools", "alerts", "logging", "waiting", "ended"}]
      BY <1>6 DEF IInv, TypeOK
    <3>3. QED
      BY <1>2, <1>4, <1>6, <3>1, <3>2 DEF IInv, TypeOK
  <2>5. Rounds'
    BY <1>6 DEF IInv, TypeOK, Rounds
  <2>6. QED
    BY <1>1, <2>2, <2>4, <2>5 DEF IInv
<1>7. QED
  BY <1>3, <1>5, <1>6

LEMMA RecentStep ==
  ASSUME IInv, Recent
  PROVE  IInv'
<1>1. store' \in Unexpired /\ UNCHANGED <<flag, thread, lifecycle, pc, round, status>>
  BY DEF Recent
<1>2. store' \in Seq(Tool) /\ Len(store') <= MaxAlerts
  <2>1. store \in Seq(Tool) /\ Len(store) \in Nat /\ Len(store) <= MaxAlerts
    BY DEF IInv, TypeOK
  <2>2. CASE store' = store
    BY <2>1, <2>2
  <2>3. CASE store' # store
    <3>1. PICK m \in DOMAIN store : store' = SubSeq(store, m + 1, Len(store))
      BY <1>1, <2>3 DEF Unexpired
    <3>2. m \in 0..Len(store)
      BY <2>1
    <3>3. store' \in Seq(Tool) /\ Len(store') = Len(store) - m
      BY <2>1, <3>1, <3>2, DropFirst
    <3>4. QED
      BY <2>1, <3>2, <3>3, MaxAlertsAssumption
  <2>4. QED
    BY <2>2, <2>3
<1>3. OnlyKnown' /\ TypeOK' /\ Rounds'
  BY <1>1, <1>2 DEF IInv, OnlyKnown, Alive, TypeOK, Rounds, round
<1>4. Kept'
  <2> SUFFICES ASSUME NEW s \in Thread, OfRound(s) <= MaxAlerts
      PROVE /\ OfRound(s) <= Len(store')
            /\ \A i \in 1..OfRound(s) : store'[Len(store') - OfRound(s) + i] = alerts[s][i]
    BY <1>1 DEF Kept, OfRound, round
  <2>1. QED
    BY <1>1, NewestKept
<1>5. QED
  BY <1>3, <1>4 DEF IInv

LEMMA IInvStep == IInv /\ [Next]_vars => IInv'
<1> SUFFICES ASSUME IInv, [Next]_vars PROVE IInv'
  OBVIOUS
<1>1. CASE UNCHANGED vars
  BY <1>1 DEF vars, round, IInv, OnlyKnown, Alive, TypeOK, Rounds, Kept, OfRound
<1>2. CASE Next
  BY <1>2, OutsideStep, CheckToolStep, AddAlertStep, LeaveStep, RecentStep DEF Next, Loop
<1>3. QED
  BY <1>1, <1>2

THEOREM Invariance == Spec => []IInv
<1>1. QED
  BY InitIInv, IInvStep, PTL DEF Spec

(* The types of the scheduler's state, of which the bounds on a round and  *)
(* on the store are the point: a round finds at most one alert per check.  *)
THEOREM TypeCorrect == Spec => []TypeOK
<1>1. IInv => TypeOK
  BY DEF IInv
<1>2. QED
  BY <1>1, Invariance, PTL

(* A round leaves all it found, the newest last, whatever is pruned while  *)
(* it runs, and its count and errors (scheduler.py 53-75, alerts.py 34-55). *)
THEOREM AlertsKeptCorrect == Spec => AlertsKept
<1>1. IInv /\ [Next]_vars =>
        [\A t \in Thread :
           pc[t] # "waiting" /\ pc'[t] = "waiting" =>
             LET cut == pc[t] = "logging"
                 n == IF cut THEN logged[t] + 1 ELSE Len(alerts[t])
             IN  /\ cut => FailClosed /\ status' = status
                 /\ ~cut => status' = [count |-> n, errors |-> errors[t]]
                 /\ n <= MaxAlerts => /\ n <= Len(store')
                                      /\ Newest(store', n) = SubSeq(alerts[t], 1, n)]_vars
  <2> SUFFICES ASSUME IInv, Next, NEW t \in Thread, pc[t] # "waiting", pc'[t] = "waiting"
      PROVE  LET cut == pc[t] = "logging"
                 n == IF cut THEN logged[t] + 1 ELSE Len(alerts[t])
             IN  /\ cut => FailClosed /\ status' = status
                 /\ ~cut => status' = [count |-> n, errors |-> errors[t]]
                 /\ n <= MaxAlerts => /\ n <= Len(store')
                                      /\ Newest(store', n) = SubSeq(alerts[t], 1, n)
    OBVIOUS
  <2>1. (LogAlert(t) /\ LeaveRound(t) /\ FailClosed) \/ EndRound(t)
    <3>1. ASSUME NEW s \in Thread, Loop(s) PROVE (LogAlert(t) /\ LeaveRound(t) /\ FailClosed) \/ EndRound(t)
      <4>1. CASE Test(s) \/ CheckTool(s) \/ AddAlert(s) \/ Wake(s)
        BY <4>1 DEF Test, CheckTool, AddAlert, Wake, Goto, IInv, TypeOK
      <4>2. CASE LogAlert(s)
        BY <4>2 DEF LogAlert, LeaveRound, Goto, IInv, TypeOK
      <4>3. CASE EndRound(s)
        BY <4>3 DEF EndRound, LeaveRound, Goto, IInv, TypeOK
      <4>4. QED
        BY <3>1, <4>1, <4>2, <4>3 DEF Loop
    <3>2. CASE Start \/ Stop \/ Joined \/ Recent
      BY <3>2 DEF Start, Stop, Joined, Recent, Goto, IInv, TypeOK
    <3>3. QED
      BY <3>1, <3>2 DEF Next
  <2> DEFINE n == IF pc[t] = "logging" THEN logged[t] + 1 ELSE Len(alerts[t])
  <2>2. store' = store /\ n = OfRound(t) /\ n \in 0..Len(alerts[t]) /\ n \in Nat
    BY <2>1, Types DEF LogAlert, EndRound, OfRound, IInv, Rounds
  <2>3. CASE n <= MaxAlerts
    <3> HIDE DEF n
    <3>1. /\ n <= Len(store) /\ Len(store) \in Nat /\ store \in Seq(Tool)
          /\ \A i \in 1..n : store[Len(store) - n + i] = alerts[t][i]
      BY <2>2, <2>3 DEF IInv, Kept, TypeOK
    <3> DEFINE m == Len(store) - n
    <3>2. m \in 0..Len(store) /\ Len(store) - m = n
      BY <2>2, <3>1
    <3> HIDE DEF m
    <3>3. SubSeq(store, m + 1, Len(store)) = [i \in 1..n |-> store[i + m]]
      BY <3>1, <3>2, DropFirst
    <3>4. SubSeq(alerts[t], 1, n) = [i \in 1..n |-> alerts[t][i]]
      BY <2>2, TakeFirst DEF IInv, TypeOK
    <3>5. \A i \in 1..n : store[i + m] = alerts[t][i]
      <4> TAKE i \in 1..n
      <4>1. i + m = Len(store) - n + i
        BY <2>2, <3>1 DEF m
      <4>2. QED
        BY <3>1, <4>1
    <3>6. [i \in 1..n |-> store[i + m]] = [i \in 1..n |-> alerts[t][i]]
      BY <3>5
    <3>7. Newest(store, n) = SubSeq(alerts[t], 1, n)
      BY <3>3, <3>4, <3>6 DEF Newest, m
    <3>8. QED
      BY <2>1, <2>2, <3>1, <3>7 DEF n, LogAlert, EndRound
  <2>4. CASE ~(n <= MaxAlerts)
    BY <2>1, <2>4 DEF LogAlert, EndRound
  <2>5. QED
    BY <2>3, <2>4
<1>2. QED
  BY <1>1, InitIInv, IInvStep, PTL DEF Spec, AlertsKept
=============================================================================
