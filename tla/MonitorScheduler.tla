-------------------------- MODULE MonitorScheduler --------------------------
(***************************************************************************)
(* MonitorScheduler and AlertStore (backend/monitor/scheduler.py,          *)
(* alerts.py): a daemon thread that runs a round of read-only checks every *)
(* interval, and the start and stop the application's lifespan calls.  A   *)
(* stop waits for the thread, five seconds at most.  What a check's tool   *)
(* reports, and how an append to the audit log ends, is the environment's. *)
(***************************************************************************)
EXTENDS Integers, Sequences, FiniteSets

CONSTANTS Thread, NoThread,   \* the loops that may be started
          MaxAlerts,          \* capacity of the alert store
          FailClosed          \* AGENT_AUDIT_FAIL_CLOSED

ASSUME NoThreadAssumption == NoThread \notin Thread
ASSUME MaxAlertsAssumption == MaxAlerts \in Nat \ {0}
ASSUME FailClosedAssumption == FailClosed \in BOOLEAN

CheckTools == <<"disk", "service", "auth">>
Tool == {"disk", "service", "auth"}

VARIABLES flag,      \* the event _stop
          thread,    \* _thread: the loop the scheduler refers to
          lifecycle, \* the caller of start and stop: "idle", or in join
          pc,        \* of each loop
          tool,      \* the check it is at
          alerts,    \* the alerts of its round, by source
          errors,    \* the tools that raised in its round
          logged,    \* how many of the alerts its round is done with
          store,     \* the AlertStore
          status     \* last_alert_count and last_errors

vars == <<flag, thread, lifecycle, pc, tool, alerts, errors, logged, store, status>>
round == <<tool, alerts, errors, logged>>

Init == /\ flag = FALSE /\ thread = NoThread
        /\ lifecycle = "idle"
        /\ pc = [t \in Thread |-> "none"]
        /\ tool = [t \in Thread |-> 1] /\ alerts = [t \in Thread |-> <<>>]
        /\ errors = [t \in Thread |-> {}] /\ logged = [t \in Thread |-> 0]
        /\ store = <<>> /\ status = [count |-> 0, errors |-> {}]

Alive(t) == t # NoThread /\ pc[t] \notin {"none", "ended"}
Goto(t, where) == pc' = [pc EXCEPT ![t] = where]

-----------------------------------------------------------------------------
\* mutant: the event is cleared first
StartClears ==
  /\ lifecycle = "idle" /\ flag' = FALSE
  /\ IF Alive(thread) THEN UNCHANGED <<thread, pc>>
     ELSE \E t \in Thread : /\ pc[t] \in {"none", "ended"} /\ Goto(t, "test")
                            /\ thread' = t
  /\ UNCHANGED <<lifecycle, round, store, status>>

\* start: nothing to do while a loop is alive
Start ==
  /\ lifecycle = "idle"
  /\ IF Alive(thread) THEN UNCHANGED <<flag, thread, pc>>
     ELSE \E t \in Thread :
            /\ pc[t] \in {"none", "ended"} /\ Goto(t, "test")
            /\ flag' = FALSE /\ thread' = t
  /\ UNCHANGED <<lifecycle, round, store, status>>

\* stop sets the event, then joins the thread it knows
Stop ==
  /\ lifecycle = "idle" /\ flag' = TRUE
  /\ lifecycle' = IF thread = NoThread THEN "idle" ELSE "joining"
  /\ UNCHANGED <<thread, pc, round, store, status>>

\* mutant: the thread is forgotten, ended or not
JoinedForgets ==
  /\ lifecycle = "joining" /\ lifecycle' = "idle" /\ thread' = NoThread
  /\ UNCHANGED <<flag, pc, round, store, status>>

\* join returns when the thread has ended or after its timeout
Joined ==
  /\ lifecycle = "joining" /\ lifecycle' = "idle"
  /\ thread' = IF Alive(thread) THEN thread ELSE NoThread
  /\ UNCHANGED <<flag, pc, round, store, status>>

-----------------------------------------------------------------------------
\* The test of the while in _loop
Test(t) ==
  /\ pc[t] = "test" /\ Goto(t, IF flag THEN "ended" ELSE "tools")
  /\ UNCHANGED <<flag, thread, lifecycle, round, store, status>>

(* run_all_checks looks at what the tool reports, one value against one    *)
(* threshold, or at the error of a tool that raised, which is no alert.    *)
Checked(t, source) ==
  \/ UNCHANGED <<alerts, errors>>
  \/ alerts' = [alerts EXCEPT ![t] = Append(@, source)] /\ UNCHANGED errors
  \/ errors' = [errors EXCEPT ![t] = @ \cup {source}] /\ UNCHANGED alerts

\* One tool of the round, through the executor
CheckTool(t) ==
  /\ pc[t] = "tools" /\ Checked(t, CheckTools[tool[t]])
  /\ IF tool[t] = Len(CheckTools)
     THEN Goto(t, "alerts") /\ UNCHANGED tool
     ELSE tool' = [tool EXCEPT ![t] = @ + 1] /\ UNCHANGED pc
  /\ UNCHANGED <<flag, thread, lifecycle, logged, store, status>>

\* mutant: the oldest are kept
CappedOldest(s) == SubSeq(s, 1, IF Len(s) > MaxAlerts THEN MaxAlerts ELSE Len(s))

\* AlertStore.add with its prune
Capped(s) == SubSeq(s, IF Len(s) > MaxAlerts THEN Len(s) - MaxAlerts + 1 ELSE 1, Len(s))

(* _prune by age: alerts expire oldest first, and no round is longer than  *)
(* their time to live, so those of a round in progress stay.               *)
OfRound(t) == IF pc[t] = "alerts" THEN logged[t] ELSE IF pc[t] = "logging" THEN logged[t] + 1 ELSE 0
Unexpired == {store} \cup {SubSeq(store, n + 1, Len(store)) :
                             n \in {n \in DOMAIN store : \A t \in Thread : n + OfRound(t) <= Len(store)}}

AddAlert(t) ==
  /\ pc[t] = "alerts" /\ logged[t] < Len(alerts[t])
  /\ \E kept \in Unexpired : store' = Capped(Append(kept, alerts[t][logged[t] + 1]))
  /\ Goto(t, "logging")
  /\ UNCHANGED <<flag, thread, lifecycle, round, status>>

\* run_once is left, and its variables with it
LeaveRound(t) ==
  /\ Goto(t, "waiting")
  /\ tool' = [tool EXCEPT ![t] = 1] /\ alerts' = [alerts EXCEPT ![t] = <<>>]
  /\ errors' = [errors EXCEPT ![t] = {}] /\ logged' = [logged EXCEPT ![t] = 0]

\* mutant: the exception ends the thread
LogAlertFatal(t) ==
  /\ pc[t] = "logging"
  /\ \/ logged' = [logged EXCEPT ![t] = @ + 1] /\ Goto(t, "alerts")
     \/ FailClosed /\ UNCHANGED logged /\ Goto(t, "ended")
  /\ UNCHANGED <<flag, thread, lifecycle, tool, alerts, errors, store, status>>

\* audit.event of the alert; fail-closed it may raise, out of the round
LogAlert(t) ==
  /\ pc[t] = "logging"
  /\ \/ /\ logged' = [logged EXCEPT ![t] = @ + 1] /\ Goto(t, "alerts")
        /\ UNCHANGED <<tool, alerts, errors>>
     \/ FailClosed /\ LeaveRound(t)
  /\ UNCHANGED <<flag, thread, lifecycle, store, status>>

EndRound(t) ==
  /\ pc[t] = "alerts" /\ logged[t] = Len(alerts[t])
  /\ status' = [count |-> Len(alerts[t]), errors |-> errors[t]]
  /\ LeaveRound(t)
  /\ UNCHANGED <<flag, thread, lifecycle, store>>

\* _stop.wait: the interval, or less if stop is called
Wake(t) ==
  /\ pc[t] = "waiting" /\ Goto(t, "test")
  /\ UNCHANGED <<flag, thread, lifecycle, round, store, status>>

\* AlertStore.recent, which GET /api/alerts calls, prunes too
Recent == /\ store' \in Unexpired
          /\ UNCHANGED <<flag, thread, lifecycle, pc, round, status>>

Loop(t) == Test(t) \/ CheckTool(t) \/ AddAlert(t) \/ LogAlert(t) \/ EndRound(t) \/ Wake(t)

Next == Start \/ Stop \/ Joined \/ Recent \/ \E t \in Thread : Loop(t)

Spec == Init /\ [][Next]_vars
FairSpec == Spec /\ \A t \in Thread : WF_vars(Loop(t))
-----------------------------------------------------------------------------
TypeOK ==
  /\ flag \in BOOLEAN /\ thread \in Thread \cup {NoThread}
  /\ lifecycle \in {"idle", "joining"}
  /\ pc \in [Thread -> {"none", "test", "tools", "alerts", "logging", "waiting", "ended"}]
  /\ tool \in [Thread -> 1..3] /\ logged \in [Thread -> 0..3]
  /\ DOMAIN alerts = Thread
  /\ \A t \in Thread : alerts[t] \in Seq(Tool) /\ logged[t] <= Len(alerts[t])
  /\ errors \in [Thread -> SUBSET Tool]
  /\ store \in Seq(Tool) /\ Len(store) <= MaxAlerts
  /\ status \in [count : 0..3, errors : SUBSET Tool]

(* However start and stop are called, and whatever joins time out, two     *)
(* loops never run the checks at the same time (scheduler.py 78, 95-97).   *)
OneLoop == \A s, t \in Thread : Alive(s) /\ Alive(t) => s = t

(* A round that ends, however it ends, leaves the alerts it went through   *)
(* in the store, the newest last; only one that the audit log cuts short   *)
(* leaves some of what it found out.  Where it ends, its count and its     *)
(* errors are the status: a tool that raises takes no other with it        *)
(* (scheduler.py 53-75).                                                   *)
Newest(s, n) == SubSeq(s, Len(s) - n + 1, Len(s))
AlertsKept ==
  [][\A t \in Thread :
       pc[t] # "waiting" /\ pc'[t] = "waiting" =>
         LET cut == pc[t] = "logging"
             n == IF cut THEN logged[t] + 1 ELSE Len(alerts[t])
         IN  /\ cut => FailClosed /\ status' = status
             /\ ~cut => status' = [count |-> n, errors |-> errors[t]]
             /\ n <= MaxAlerts => /\ n <= Len(store')
                                  /\ Newest(store', n) = SubSeq(alerts[t], 1, n)]_vars

\* A stop ends the loop, even one that outlives the join
StopEnds == \A t \in Thread : flag /\ Alive(t) ~> ~Alive(t)

\* No round kills the loop: until a stop, another round follows
LoopLives == \A t \in Thread : Alive(t) ~> (flag \/ pc[t] = "test")
=============================================================================
