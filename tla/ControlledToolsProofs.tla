----------------------- MODULE ControlledToolsProofs ------------------------
(***************************************************************************)
(* Proofs about ControlledTools, for any number of calls, processes, pids, *)
(* services and users, and for every host the assumptions allow; and, from *)
(* CleanWhere on, about TempClean, for any number of calls, items, limits  *)
(* and changes by the users of the directory.                              *)
(***************************************************************************)
EXTENDS ControlledTools, TempClean, FiniteSetTheorems, TLAPS

USE DEF Goto, Signal, Unit

\* The pid of the agent is never anyone else's, nor reused.
Placed == /\ \A q \in Pid : table[q] = Self => q \in ReservedPid
          /\ Self \notin unborn
          /\ \A q \in Pid : table[q] \notin unborn

\* Which tool a call is in.
Tools(c) ==
  /\ pc[c] \in {"inspect", "kill", "look"} => arg[c].tool = "kill" /\ arg[c].pid \in Pid
  /\ pc[c] \in {"restart", "status"} => arg[c].tool = "restart" /\ arg[c].service \in Service

\* What a call that is about to signal knows of the process at its pid.
Looked(c) ==
  /\ seen[c] \cap unborn = {}
  /\ pc[c] = "kill" => /\ Allowed(c, before[c]) /\ ~arg[c].dry
                       /\ table[arg[c].pid] \notin seen[c] \ {before[c]}

\* No signal went to the agent.
SelfSafe == \A s \in signals : s.process # Self

\* What a call that has not returned has done so far.
Told(c) ==
  /\ pc[c] # "returned" => report[c].kind = "none"
  /\ pc[c] \in {"asked", "inspect", "kill"} => ~Signalled(c)
  /\ pc[c] \in {"asked", "inspect", "kill", "look", "restart"} => ~Begun(c)
  /\ pc[c] = "look" => (exit[c] = "ok" <=> Signalled(c))
  /\ pc[c] = "status" /\ exit[c] = "ok" => Restarted(c)

IInv == /\ TypeOK /\ Placed /\ \A c \in Call : Tools(c) /\ Looked(c) /\ Told(c)
        /\ SelfSafe /\ ProtectedSafe /\ ReportTrue /\ AgentSurvives

-----------------------------------------------------------------------------
(* Types and places                                                        *)

\* A command that is not refused runs as a user.
LEMMA RunsAsUser == TypeOK /\ RunsAs # "refused" => RunsAs \in User
BY UserAssumption, HostAssumption DEF TypeOK, RunsAs

\* Of a request, what is not a pid or a service is the value for none.
LEMMA RequestType ==
  ASSUME NEW r \in Request
  PROVE  /\ r.tool \in {"kill", "restart"} /\ r.pid \in Pid \cup {NoPid}
         /\ r.service \in Service \cup {NoService} /\ r.dry \in BOOLEAN
BY RequestAssumption

\* A process that takes a signal has an owner who may be told apart from none.
LEMMA SignalType ==
  ASSUME TypeOK, NEW c \in Call, arg[c].pid \in Pid, table[arg[c].pid] # NoProcess,
         RunsAs # "refused"
  PROVE  [call |-> c, process |-> table[arg[c].pid], as |-> RunsAs]
           \in [call : Call, process : Process, as : User]
<1>1. table[arg[c].pid] \in Process
  BY DEF TypeOK
<1>2. QED
  BY <1>1, RunsAsUser

Where == {"asked", "inspect", "kill", "look", "restart", "status", "returned", "lost"}
Report == [kind : {"none", "error", "refused", "preview", "done"}, ok : BOOLEAN, running : BOOLEAN]

LEMMA ReturnType ==
  ASSUME TypeOK, NEW c \in Call, NEW ok \in BOOLEAN, NEW running \in BOOLEAN,
         NEW kind \in {"error", "refused", "preview", "done"}, Return(c, kind, ok, running)
  PROVE  pc' \in [Call -> Where] /\ report' \in [Call -> Report]
<1>1. [kind |-> kind, ok |-> ok, running |-> running] \in Report
  BY DEF Report
<1>2. pc \in [Call -> Where] /\ report \in [Call -> Report]
  BY DEF TypeOK, Where, Report
<1>3. QED
  BY <1>1, <1>2 DEF Return, Where

LEMMA TypeStep ==
  ASSUME TypeOK, \A c \in Call : Tools(c), [Next]_vars
  PROVE  TypeOK'
<1> USE DEF TypeOK
<1>1. ASSUME NEW c \in Call, Parse(c) PROVE TypeOK'
  <2>1. pc' \in [Call -> Where] /\ report' \in [Call -> Report]
    BY <1>1, ReturnType DEF Parse, Where, Report
  <2>2. QED
    BY <1>1, <2>1 DEF Parse, system, Where, Report
<1>2. ASSUME NEW c \in Call, Inspect(c) PROVE TypeOK'
  <2>1. arg[c].pid \in Pid
    BY <1>2 DEF Inspect, Tools
  <2>2. PICK p \in Found(c) : Inspect(c)!2!(p)
    BY <1>2 DEF Inspect
  <2>3. p \in Process \cup {NoProcess}
    BY <2>1 DEF Found
  <2>4. Running \in SUBSET Process
    BY DEF Running
  <2>5. before' \in [Call -> Process \cup {NoProcess}]
    BY <2>2, <2>3
  <2>6. seen' \in [Call -> SUBSET Process]
    BY <1>2, <2>4 DEF Inspect
  <2>7. pc' \in [Call -> Where] /\ report' \in [Call -> Report]
    BY <2>2, ReturnType DEF Where, Report
  <2>8. QED
    BY <1>2, <2>5, <2>6, <2>7 DEF Inspect, system, Where, Report
<1>3. ASSUME NEW c \in Call, Kill(c) PROVE TypeOK'
  <2>1. arg[c].pid \in Pid
    BY <1>3 DEF Kill, Tools
  <2>2. signals' \subseteq [call : Call, process : Process, as : User]
    BY <1>3, <2>1, SignalType DEF Kill
  <2>3. QED
    BY <1>3, <2>2 DEF Kill, system
<1>4. ASSUME NEW c \in Call, KillRaises(c) PROVE TypeOK'
  <2>1. arg[c].pid \in Pid
    BY <1>4 DEF KillRaises, Tools
  <2>2. signals' \subseteq [call : Call, process : Process, as : User]
    BY <1>4, <2>1, SignalType DEF KillRaises, MaySignal
  <2>3. QED
    BY <1>4, <2>2, ReturnType DEF KillRaises, system, Where, Report
<1>5. ASSUME NEW c \in Call, Look(c) PROVE TypeOK'
  <2>1. PICK p \in Found(c) : Return(c, "done", exit[c] = "ok", p # NoProcess)
    BY <1>5 DEF Look
  <2>2. (exit[c] = "ok") \in BOOLEAN /\ (p # NoProcess) \in BOOLEAN
    OBVIOUS
  <2>3. pc' \in [Call -> Where] /\ report' \in [Call -> Report]
    BY <2>1, <2>2, ReturnType
  <2>4. QED
    BY <1>5, <2>3 DEF Look, system, Where, Report
<1>6. ASSUME NEW c \in Call, CheckService(c) PROVE TypeOK'
  <2>1. pc' \in [Call -> Where] /\ report' \in [Call -> Report]
    BY <1>6, ReturnType DEF CheckService, Where, Report
  <2>2. QED
    BY <1>6, <2>1 DEF CheckService, system, Where, Report
<1>7. ASSUME NEW c \in Call, Restart(c) \/ RestartRaises(c) PROVE TypeOK'
  <2>1. [call |-> c, service |-> arg[c].service] \in [call : Call, service : Service]
    BY <1>7 DEF Restart, RestartRaises, Tools
  <2>2. CASE Restart(c)
    BY <2>1, <2>2 DEF Restart, system
  <2>3. CASE RestartRaises(c)
    BY <2>1, <2>3, ReturnType DEF RestartRaises, system, Where, Report
  <2>4. QED
    BY <1>7, <2>2, <2>3
<1>8. ASSUME NEW c \in Call, Status(c) PROVE TypeOK'
  <2>1. (exit[c] = "ok") \in BOOLEAN
    OBVIOUS
  <2>2. pc' \in [Call -> Where] /\ report' \in [Call -> Report]
    BY <1>8, <2>1, ReturnType DEF Status
  <2>3. QED
    BY <1>8, <2>2 DEF Status, system, Where, Report
<1>9. CASE JobEnds
  BY <1>9 DEF JobEnds, system
<1>10. CASE AgentEnds
  BY <1>10 DEF AgentEnds, system
<1>11. CASE Exits \/ Starts \/ AccountChanges
  BY <1>11 DEF Exits, Starts, AccountChanges
<1>12. CASE UNCHANGED vars
  BY <1>12 DEF vars
<1>13. QED
  BY <1>1, <1>2, <1>3, <1>4, <1>5, <1>6, <1>7, <1>8, <1>9, <1>10, <1>11, <1>12 DEF Next, Step

\* Only the environment moves processes, and never over the agent.
LEMMA PlacedStep ==
  ASSUME TypeOK, Placed, [Next]_vars
  PROVE  Placed'
<1>1. CASE UNCHANGED <<table, unborn>>
  BY <1>1 DEF Placed
<1>2. CASE Exits
  BY <1>2, ProcessAssumption DEF Exits, Placed, TypeOK
<1>3. CASE Starts
  <2>1. PICK q \in Pid, p \in unborn : /\ table[q] = NoProcess /\ q \notin ReservedPid
                                      /\ table' = [table EXCEPT ![q] = p] /\ unborn' = unborn \ {p}
    BY <1>3 DEF Starts
  <2>2. QED
    BY <2>1 DEF Placed, TypeOK
<1>4. QED
  BY <1>1, <1>2, <1>3 DEF Next, Step, vars, system, Parse, Inspect, Kill, KillRaises, Look,
     CheckService, Restart, RestartRaises, Status, JobEnds, AgentEnds, AccountChanges

\* A call stays with its tool.
LEMMA ToolsStep ==
  ASSUME TypeOK, \A c \in Call : Tools(c), [Next]_vars
  PROVE  \A c \in Call : Tools(c)'
<1> USE DEF Tools
<1>1. arg' = arg
  BY DEF Next, Step, vars, Parse, Inspect, Kill, KillRaises, Look, CheckService, Restart,
         RestartRaises, Status, JobEnds, AgentEnds, Exits, Starts, AccountChanges
<1>2. CASE UNCHANGED pc
  BY <1>1, <1>2
<1>3. ASSUME NEW c \in Call, Parse(c) PROVE \A d \in Call : Tools(d)'
  BY <1>1, <1>3, RequestType DEF Parse, Return, TypeOK
<1>4. ASSUME NEW c \in Call, CheckService(c) PROVE \A d \in Call : Tools(d)'
  BY <1>1, <1>4, ServiceAssumption DEF CheckService, Return, TypeOK
<1>5. ASSUME NEW c \in Call, Inspect(c) PROVE \A d \in Call : Tools(d)'
  BY <1>1, <1>5 DEF Inspect, Return, TypeOK
<1>6. ASSUME NEW c \in Call, Kill(c) \/ KillRaises(c) \/ Look(c) PROVE \A d \in Call : Tools(d)'
  BY <1>1, <1>6 DEF Kill, KillRaises, Look, Return, TypeOK
<1>7. ASSUME NEW c \in Call, Restart(c) \/ RestartRaises(c) \/ Status(c)
      PROVE  \A d \in Call : Tools(d)'
  BY <1>1, <1>7 DEF Restart, RestartRaises, Status, Return, TypeOK
<1>8. CASE AgentEnds
  BY <1>1, <1>8 DEF AgentEnds, TypeOK
<1>9. QED
  BY <1>2, <1>3, <1>4, <1>5, <1>6, <1>7, <1>8
     DEF Next, Step, vars, JobEnds, Exits, Starts, AccountChanges

-----------------------------------------------------------------------------
(* Inspection and signal                                                   *)

\* What a call saw keeps its meaning: a process that has the pid later and is
\* not the inspected one had not started then.
LEMMA LookedStep ==
  ASSUME TypeOK, Placed, \A c \in Call : Tools(c) /\ Looked(c), [Next]_vars
  PROVE  \A c \in Call : Looked(c)'
<1> USE DEF Looked
<1>1. arg' = arg /\ host' = host
  BY DEF Next, Step, vars, system, Parse, Inspect, Kill, KillRaises, Look, CheckService, Restart,
         RestartRaises, Status, JobEnds, AgentEnds, Exits, Starts, AccountChanges
<1>2. \A d \in Call : \A p : Allowed(d, p)' <=> Allowed(d, p)
  BY <1>1 DEF Allowed, OwnerOf
<1>3. ASSUME UNCHANGED <<table, unborn, before, seen>>,
             \A d \in Call : pc'[d] = "kill" => pc[d] = "kill"
      PROVE  \A d \in Call : Looked(d)'
  BY <1>1, <1>2, <1>3 DEF Allowed, OwnerOf
<1>4. ASSUME NEW c \in Call, Inspect(c) PROVE \A d \in Call : Looked(d)'
  <2>1. PICK p \in Found(c) : Inspect(c)!2!(p)
    BY <1>4 DEF Inspect
  <2>2. arg[c].pid \in Pid
    BY <1>4 DEF Inspect, Tools
  <2>3. Running \cap unborn = {}
    BY DEF Running, Placed
  <2>4. UNCHANGED <<table, unborn>> /\ seen' = [seen EXCEPT ![c] = Running]
    BY <1>4 DEF Inspect, system
  <2>5. ASSUME NEW d \in Call, d # c PROVE Looked(d)'
    <3>1. pc'[d] = pc[d] /\ seen'[d] = seen[d] /\ before'[d] = before[d]
      BY <2>1, <2>4, <2>5 DEF Return, TypeOK
    <3>2. QED
      BY <1>1, <1>2, <2>4, <3>1 DEF Allowed, OwnerOf
  <2>6. Looked(c)'
    <3>1. seen'[c] = Running /\ before'[c] = p
      BY <2>1, <2>4 DEF TypeOK
    <3>2. pc'[c] = "kill" => Allowed(c, p) /\ ~arg[c].dry
      BY <2>1 DEF Return, TypeOK
    <3>3. Allowed(c, p) => p = table[arg[c].pid]
      BY DEF Found, Allowed
    <3>4. QED
      BY <1>1, <1>2, <2>3, <2>4, <3>1, <3>2, <3>3 DEF Allowed, OwnerOf
  <2>7. QED
    BY <2>5, <2>6
<1>5. CASE Exits
  <2>1. PICK q \in Pid : table' = [table EXCEPT ![q] = NoProcess]
    BY <1>5 DEF Exits
  <2>2. UNCHANGED <<unborn, before, seen, pc>>
    BY <1>5 DEF Exits
  <2>3. ASSUME NEW d \in Call, pc[d] = "kill"
        PROVE  table'[arg[d].pid] \notin seen[d] \ {before[d]}
    <3>1. arg[d].pid \in Pid /\ table[arg[d].pid] \notin seen[d] \ {before[d]}
      BY <2>3 DEF Tools
    <3>2. NoProcess \notin seen[d]
      BY ProcessAssumption DEF TypeOK
    <3>3. QED
      BY <2>1, <3>1, <3>2 DEF TypeOK
  <2>4. QED
    BY <1>1, <1>2, <2>2, <2>3 DEF Allowed, OwnerOf
<1>6. CASE Starts
  <2>1. PICK q \in Pid, p \in unborn : table' = [table EXCEPT ![q] = p] /\ unborn' = unborn \ {p}
    BY <1>6 DEF Starts
  <2>2. UNCHANGED <<before, seen, pc>>
    BY <1>6 DEF Starts
  <2>3. ASSUME NEW d \in Call, pc[d] = "kill"
        PROVE  table'[arg[d].pid] \notin seen[d] \ {before[d]}
    <3>1. arg[d].pid \in Pid /\ table[arg[d].pid] \notin seen[d] \ {before[d]}
      BY <2>3 DEF Tools
    <3>2. p \notin seen[d]
      OBVIOUS
    <3>3. QED
      BY <2>1, <3>1, <3>2 DEF TypeOK
  <2>4. QED
    BY <1>1, <1>2, <2>1, <2>2, <2>3 DEF Allowed, OwnerOf
<1>7. ASSUME NEW c \in Call, Parse(c) \/ CheckService(c) PROVE \A d \in Call : Looked(d)'
  BY <1>3, <1>7 DEF Parse, CheckService, Return, system, TypeOK
<1>8. ASSUME NEW c \in Call, Kill(c) \/ KillRaises(c) \/ Look(c) PROVE \A d \in Call : Looked(d)'
  BY <1>3, <1>8 DEF Kill, KillRaises, Look, Return, system, TypeOK
<1>9. ASSUME NEW c \in Call, Restart(c) \/ RestartRaises(c) \/ Status(c)
      PROVE  \A d \in Call : Looked(d)'
  BY <1>3, <1>9 DEF Restart, RestartRaises, Status, Return, system, TypeOK
<1>10. CASE JobEnds \/ AgentEnds \/ AccountChanges \/ UNCHANGED vars
  BY <1>3, <1>10 DEF JobEnds, AgentEnds, AccountChanges, system, vars, TypeOK
<1>11. QED
  BY <1>4, <1>5, <1>6, <1>7, <1>8, <1>9, <1>10 DEF Next, Step

\* Whoever signals: the identity of the command and the process at the pid.
LEMMA NewSignal ==
  ASSUME TypeOK, \A c \in Call : Tools(c), [Next]_vars, NEW s \in signals' \ signals
  PROVE  /\ s.call \in Call /\ pc[s.call] = "kill" /\ arg[s.call].pid \in Pid
         /\ s.process = table[arg[s.call].pid] /\ s.process # NoProcess
         /\ s.as = RunsAs /\ MaySignal(RunsAs, s.process)
<1>1. PICK c \in Call : Kill(c) \/ KillRaises(c)
  BY DEF Next, Step, vars, Parse, Inspect, Look, CheckService, Restart, RestartRaises, Status,
         JobEnds, AgentEnds, Exits, Starts, AccountChanges
<1>2. s = [call |-> c, process |-> table[arg[c].pid], as |-> RunsAs]
  BY <1>1 DEF Kill, KillRaises
<1>3. pc[c] = "kill" /\ table[arg[c].pid] # NoProcess /\ MaySignal(RunsAs, table[arg[c].pid])
  BY <1>1 DEF Kill, KillRaises
<1>4. QED
  BY <1>2, <1>3 DEF Tools

\* The environment and the rules keep the agent out of reach, and the identity
\* keeps protected users out of it.
LEMMA SignalsStep ==
  ASSUME TypeOK, Placed, \A c \in Call : Tools(c) /\ Looked(c), SelfSafe, ProtectedSafe,
         [Next]_vars
  PROVE  SelfSafe' /\ ProtectedSafe'
<1>1. host' = host
  BY DEF Next, Step, vars, system, Parse, Inspect, Kill, KillRaises, Look, CheckService, Restart,
         RestartRaises, Status, JobEnds, AgentEnds, Exits, Starts, AccountChanges
<1>2. ASSUME NEW s \in signals' \ signals
      PROVE  s.process # Self
  BY <1>2, NewSignal DEF Looked, Allowed, Placed
<1>3. ASSUME NEW s \in signals' \ signals,
             s.as = "root" \/ OwnerOf(s.process) \in ProtectedUser
      PROVE  host.user = "root" /\ ~host.strict
  <2>1. s.as = RunsAs /\ MaySignal(RunsAs, s.process)
    BY <1>3, NewSignal
  <2>2. RunsAs = "root" => host.user = "root" /\ ~host.strict
    BY UserAssumption DEF RunsAs
  <2>3. RunsAs \in ProtectedUser => RunsAs = "root"
    BY UserAssumption, HostAssumption DEF RunsAs, TypeOK
  <2>4. QED
    BY <1>3, <2>1, <2>2, <2>3 DEF MaySignal
<1>4. SelfSafe'
  BY <1>2 DEF SelfSafe
<1>5. \A p : OwnerOf(p)' = OwnerOf(p)
  BY <1>1 DEF OwnerOf
<1>6. ProtectedSafe'
  BY <1>1, <1>3, <1>5 DEF ProtectedSafe
<1>7. QED
  BY <1>4, <1>6

\* A step whose signal goes wrong would contradict the inspection.
LEMMA TargetStep ==
  ASSUME TypeOK, \A c \in Call : Tools(c) /\ Looked(c), [Next]_vars
  PROVE  \A s \in signals' \ signals :
           /\ arg[s.call].pid \notin ReservedPid /\ ~arg[s.call].dry
           /\ Allowed(s.call, before[s.call])
           /\ s.process = before[s.call] \/ s.process \notin seen[s.call]
<1>1. TAKE s \in signals' \ signals
<1>2. s.call \in Call /\ pc[s.call] = "kill" /\ s.process = table[arg[s.call].pid]
  BY NewSignal
<1>3. QED
  BY <1>2 DEF Looked, Allowed

-----------------------------------------------------------------------------
(* Reports                                                                 *)

\* What calls other than the one that steps have done, and the report of those
\* that have returned, stays as it is.
LEMMA OthersKeep ==
  ASSUME TypeOK, NEW c \in Call, Step(c), NEW d \in Call, d # c
  PROVE  /\ pc'[d] = pc[d] /\ exit'[d] = exit[d] /\ report'[d] = report[d] /\ arg'[d] = arg[d]
         /\ Signalled(d)' <=> Signalled(d)
         /\ Begun(d)' <=> Begun(d)
         /\ Restarted(d)' <=> Restarted(d)
<1> USE DEF TypeOK, Signalled, Begun, Restarted
<1>1. CASE Parse(c) \/ CheckService(c) \/ Inspect(c) \/ Look(c) \/ Status(c)
  BY <1>1 DEF Parse, CheckService, Inspect, Look, Status, Return
<1>2. CASE Kill(c)
  BY <1>2 DEF Kill
<1>3. CASE KillRaises(c)
  BY <1>3 DEF KillRaises, Return
<1>4. CASE Restart(c)
  BY <1>4 DEF Restart
<1>5. CASE RestartRaises(c)
  BY <1>5 DEF RestartRaises, Return
<1>6. QED
  BY <1>1, <1>2, <1>3, <1>4, <1>5 DEF Step

Reported(c) ==
  LET r == report[c]
  IN  /\ r.kind \in {"refused", "preview"} => ~Signalled(c) /\ ~Begun(c)
      /\ r.kind = "done" /\ arg[c].tool = "kill" => (r.ok <=> Signalled(c))
      /\ r.kind = "done" /\ arg[c].tool = "restart" /\ r.ok => Restarted(c)

\* The step of a call: what it does, and what it says of that.
LEMMA OwnReport ==
  ASSUME TypeOK, NEW c \in Call, Step(c), Tools(c), Told(c), Reported(c)
  PROVE  Told(c)' /\ Reported(c)'
<1> USE DEF TypeOK, Told, Tools, Reported
<1>1. ASSUME UNCHANGED <<signals, jobs, restarted>>
      PROVE  /\ Signalled(c)' <=> Signalled(c)
             /\ Begun(c)' <=> Begun(c)
             /\ Restarted(c)' <=> Restarted(c)
  BY <1>1 DEF Signalled, Begun, Restarted
<1>2. CASE Parse(c)
  BY <1>1, <1>2 DEF Parse, Return
<1>3. CASE CheckService(c)
  <2>1. ~Signalled(c) /\ ~Begun(c) /\ arg' = arg
    BY <1>3 DEF CheckService
  <2>2. \/ pc'[c] = "restart" /\ report' = report
        \/ pc'[c] = "returned" /\ report'[c].kind = "refused"
    BY <1>3 DEF CheckService, Return
  <2>3. UNCHANGED <<signals, jobs, restarted>>
    BY <1>3 DEF CheckService
  <2>4. QED
    BY <1>1, <1>3, <2>1, <2>2, <2>3 DEF CheckService
<1>4. CASE Inspect(c)
  <2>1. UNCHANGED <<signals, jobs, restarted, arg, exit>> /\ ~Signalled(c) /\ ~Begun(c)
    BY <1>4 DEF Inspect
  <2>2. \/ pc'[c] = "kill" /\ report' = report
        \/ pc'[c] = "returned" /\ report'[c].kind \in {"refused", "preview"}
    BY <1>4 DEF Inspect, Return
  <2>3. QED
    BY <1>1, <1>4, <2>1, <2>2 DEF Inspect
<1>5. CASE Kill(c)
  <2>1. pc'[c] = "look" /\ report' = report /\ UNCHANGED <<jobs, restarted>>
    BY <1>5 DEF Kill
  <2>2. (exit'[c] = "ok") <=> Signalled(c)'
    <3>1. CASE /\ table[arg[c].pid] # NoProcess /\ MaySignal(RunsAs, table[arg[c].pid])
               /\ exit' = [exit EXCEPT ![c] = "ok"]
               /\ signals' = signals \cup {[call |-> c, process |-> table[arg[c].pid], as |-> RunsAs]}
      <4> DEFINE s == [call |-> c, process |-> table[arg[c].pid], as |-> RunsAs]
      <4>1. s \in signals' /\ s.call = c
        BY <3>1
      <4> HIDE DEF s
      <4>2. Signalled(c)' /\ exit'[c] = "ok"
        BY <3>1, <4>1 DEF Signalled
      <4>3. QED
        BY <4>2
    <3>2. CASE exit' = [exit EXCEPT ![c] = "failed"] /\ UNCHANGED signals
      BY <1>5, <3>2 DEF Signalled, Kill
    <3>3. QED
      BY <1>5, <3>1, <3>2 DEF Kill
  <2>3. ~Begun(c)'
    BY <1>5, <2>1 DEF Kill, Begun
  <2>4. QED
    BY <1>5, <2>1, <2>2, <2>3 DEF Kill
<1>6. CASE KillRaises(c)
  BY <1>6 DEF KillRaises, Return
<1>7. CASE Look(c)
  <2>1. UNCHANGED <<signals, jobs, restarted, arg>> /\ arg[c].tool = "kill"
    BY <1>7 DEF Look
  <2>2. pc'[c] = "returned" /\ report'[c].kind = "done" /\ (report'[c].ok <=> (exit[c] = "ok"))
    <3>1. PICK p \in Found(c) : Return(c, "done", exit[c] = "ok", p # NoProcess)
      BY <1>7 DEF Look
    <3>2. report'[c] = [kind |-> "done", ok |-> exit[c] = "ok", running |-> p # NoProcess]
      BY <3>1 DEF Return
    <3>3. QED
      BY <3>1, <3>2 DEF Return
  <2>3. QED
    BY <1>1, <1>7, <2>1, <2>2 DEF Look
<1>8. CASE Restart(c)
  <2>1. pc'[c] = "status" /\ report' = report
    BY <1>8 DEF Restart
  <2>2. exit'[c] = "ok" => Restarted(c)'
    <3>1. CASE exit' = [exit EXCEPT ![c] = "failed"]
      BY <3>1
    <3>2. CASE restarted' = restarted \cup {[call |-> c, service |-> arg[c].service]}
      <4> DEFINE r == [call |-> c, service |-> arg[c].service]
      <4>1. r \in restarted' /\ r.call = c
        BY <3>2
      <4> HIDE DEF r
      <4>2. QED
        BY <4>1 DEF Restarted
    <3>3. QED
      BY <1>8, <3>1, <3>2 DEF Restart
  <2>3. QED
    BY <1>8, <2>1, <2>2 DEF Restart
<1>9. CASE RestartRaises(c)
  BY <1>9 DEF RestartRaises, Return
<1>10. CASE Status(c)
  <2>1. UNCHANGED <<signals, jobs, restarted, arg>> /\ arg[c].tool = "restart"
    BY <1>10 DEF Status
  <2>2. pc'[c] = "returned"
        /\ (report'[c].kind = "done" => (report'[c].ok <=> (exit[c] = "ok")))
        /\ report'[c].kind \in {"error", "done"}
    <3>1. CASE Return(c, "done", exit[c] = "ok", TRUE)
      <4>1. report'[c] = [kind |-> "done", ok |-> exit[c] = "ok", running |-> TRUE]
        BY <3>1 DEF Return
      <4>2. QED
        BY <3>1, <4>1 DEF Return
    <3>2. CASE Return(c, "error", FALSE, FALSE)
      BY <3>2 DEF Return
    <3>3. QED
      BY <1>10, <3>1, <3>2 DEF Status
  <2>3. QED
    BY <1>1, <1>10, <2>1, <2>2 DEF Status
<1>11. QED
  BY <1>2, <1>3, <1>4, <1>5, <1>6, <1>7, <1>8, <1>9, <1>10 DEF Step

LEMMA ReportsStep ==
  ASSUME TypeOK, \A c \in Call : Tools(c) /\ Told(c) /\ Reported(c), [Next]_vars
  PROVE  \A c \in Call : Told(c)' /\ Reported(c)'
<1>1. ASSUME NEW c \in Call, Step(c), NEW d \in Call
      PROVE  Told(d)' /\ Reported(d)'
  <2>1. CASE d = c
    BY <1>1, <2>1, OwnReport
  <2>2. CASE d # c
    BY <1>1, <2>2, OthersKeep DEF Told, Reported
  <2>3. QED
    BY <2>1, <2>2
<1>2. CASE JobEnds
  BY <1>2 DEF JobEnds, system, Told, Reported, Signalled, Begun, Restarted
<1>3. CASE AgentEnds
  BY <1>3 DEF AgentEnds, system, TypeOK, Told, Reported, Signalled, Begun, Restarted
<1>4. CASE Exits \/ Starts \/ AccountChanges \/ UNCHANGED vars
  BY <1>4 DEF Exits, Starts, AccountChanges, vars, Told, Reported, Signalled, Begun, Restarted
<1>5. QED
  BY <1>1, <1>2, <1>3, <1>4 DEF Next

\* A lost call has the job of the agent's own unit behind it.
LEMMA SurvivesStep ==
  ASSUME TypeOK, SelfSafe, AgentSurvives, [Next]_vars
  PROVE  AgentSurvives'
<1> USE DEF AgentSurvives
<1>1. ASSUME NEW c \in Call, Step(c) PROVE AgentSurvives'
  <2>1. \A d \in Call : pc'[d] = "lost" => pc[d] = "lost"
    BY <1>1 DEF Step, Parse, Inspect, Kill, KillRaises, Look, CheckService, Restart, RestartRaises,
       Status, Return, TypeOK
  <2>2. jobs \subseteq jobs'
    BY <1>1 DEF Step, Parse, Inspect, Kill, KillRaises, Look, CheckService, Restart, RestartRaises,
       Status, Return
  <2>3. QED
    BY <2>1, <2>2
<1>2. CASE AgentEnds
  BY <1>2 DEF AgentEnds, SelfSafe
<1>3. CASE JobEnds
  BY <1>3 DEF JobEnds
<1>4. CASE Exits \/ Starts \/ AccountChanges \/ UNCHANGED vars
  BY <1>4 DEF Exits, Starts, AccountChanges, vars
<1>5. QED
  BY <1>1, <1>2, <1>3, <1>4 DEF Next

-----------------------------------------------------------------------------
(* Theorems                                                                *)

LEMMA IInvInit == Init => IInv
<1>1. SUFFICES ASSUME Init PROVE IInv
  OBVIOUS
<1>2. TypeOK
  BY <1>1 DEF Init, TypeOK, NoReport
<1>3. Placed
  BY <1>1, ProcessAssumption, PidAssumption DEF Init, Placed
<1>4. \A c \in Call : Tools(c) /\ Looked(c) /\ Told(c) /\ Reported(c)
  BY <1>1 DEF Init, Tools, Looked, Told, Reported, Signalled, Begun, Restarted, NoReport
<1>5. SelfSafe /\ ProtectedSafe /\ AgentSurvives
  BY <1>1 DEF Init, SelfSafe, ProtectedSafe, AgentSurvives
<1>6. QED
  BY <1>2, <1>3, <1>4, <1>5 DEF IInv, ReportTrue, Reported

LEMMA IInvStep == IInv /\ [Next]_vars => IInv'
<1>1. SUFFICES ASSUME IInv, [Next]_vars PROVE IInv'
  OBVIOUS
<1>2. \A c \in Call : Reported(c)
  BY <1>1 DEF IInv, ReportTrue, Reported
<1>3. TypeOK' /\ Placed' /\ (\A c \in Call : Tools(c)') /\ (\A c \in Call : Looked(c)')
  BY <1>1, TypeStep, PlacedStep, ToolsStep, LookedStep DEF IInv
<1>4. SelfSafe' /\ ProtectedSafe' /\ AgentSurvives'
  BY <1>1, SignalsStep, SurvivesStep DEF IInv
<1>5. \A c \in Call : Told(c)' /\ Reported(c)'
  BY <1>1, <1>2, ReportsStep DEF IInv
<1>6. ReportTrue'
  BY <1>5 DEF ReportTrue, Reported
<1>7. QED
  BY <1>3, <1>4, <1>5, <1>6 DEF IInv

LEMMA ToolsInvariance == Spec => []IInv
BY IInvInit, IInvStep, PTL DEF Spec

\* For any interleaving of calls, processes that exit and start, and an account
\* that comes and goes: a signal reaches the inspected process or one that took
\* its pid later.
THEOREM TargetCorrect == Spec => RightTarget
<1>1. IInv /\ [Next]_vars =>
        [\A s \in signals' \ signals :
           /\ arg[s.call].pid \notin ReservedPid /\ ~arg[s.call].dry
           /\ Allowed(s.call, before[s.call])
           /\ s.process = before[s.call] \/ s.process \notin seen[s.call]]_vars
  BY TargetStep DEF IInv
<1>2. QED
  BY <1>1, ToolsInvariance, PTL DEF Spec, RightTarget

\* Strict, no process of a protected user is ever signalled, pid reuse or not.
THEOREM ProtectedCorrect == Spec => []ProtectedSafe
<1>1. IInv => ProtectedSafe
  BY DEF IInv
<1>2. QED
  BY <1>1, ToolsInvariance, PTL

\* A report other than "error" agrees with what the call did to the system.
THEOREM ReportCorrect == Spec => []ReportTrue
<1>1. IInv => ReportTrue
  BY DEF IInv
<1>2. QED
  BY <1>1, ToolsInvariance, PTL

\* Calls are lost to a restart of the agent's own unit, never to a signal.
THEOREM SurvivalCorrect == Spec => []AgentSurvives
<1>1. IInv => AgentSurvives
  BY DEF IInv
<1>2. QED
  BY <1>1, ToolsInvariance, PTL

-----------------------------------------------------------------------------
(* temp.clean *)

HIDE DEF Goto, Signal, Unit

(* The types.  Before its first item a call is at whatever CHOOSE gives of *)
(* the items, of which there may be none.                                  *)
Names == Item \cup {CHOOSE n \in Item : TRUE}
CleanWhere == {"open", "refused", "list", "scan", "link", "age", "delete", "returned"}
CleanTyped ==
  /\ items \in [Item -> Content] /\ at \in [Cleaner -> CleanWhere]
  /\ dry \in [Cleaner -> BOOLEAN] /\ limit \in [Cleaner -> Nat]
  /\ todo \in [Cleaner -> SUBSET Item] /\ item \in [Cleaner -> Names]
  /\ scanned \in [Cleaner -> Nat]
  /\ deleted \in [Cleaner -> SUBSET Names] /\ removed \in [Cleaner -> SUBSET Names]
  /\ DOMAIN skipped = Cleaner /\ checked \in [Cleaner -> [dir : BOOLEAN, item : BOOLEAN]]

(* What a call did was within its limit, with one to spare while it is at  *)
(* an item, and is reported.                                               *)
Done(c) == removed[c] \cup deleted[c]
AtItem == {"link", "age", "delete"}
Counted(c) ==
  /\ IsFiniteSet(Done(c))
  /\ Cardinality(Done(c)) + (IF at[c] \in AtItem THEN 1 ELSE 0) <= scanned[c]
  /\ scanned[c] <= limit[c]
Listed(c) ==
  /\ at[c] \in {"open", "refused", "list"} => Done(c) = {} /\ scanned[c] = 0
  /\ dry[c] => removed[c] = {} /\ at[c] # "delete"
  /\ ~dry[c] => deleted[c] \subseteq removed[c]
  /\ \A n \in removed[c] \ deleted[c] : <<n, "error">> \in skipped[c]

\* What a call looked at, and nobody changed since, is as it saw it.
Seen(c) ==
  /\ checked[c].dir => leads = "inside"
  /\ at[c] \in AtItem => item[c] \in Item
  /\ checked[c].item /\ at[c] \in {"age", "delete"} => Here(c).kind # "link"
  /\ checked[c].item /\ at[c] = "delete" => Here(c).old /\ Here(c) # None

\* The inductive invariant
CleanInv == CleanTyped /\ \A c \in Cleaner : Counted(c) /\ Listed(c) /\ Seen(c)

LEMMA CleanInitInv == CleanInit => CleanInv
<1> SUFFICES ASSUME CleanInit PROVE CleanInv
  OBVIOUS
<1>1. CleanTyped
  BY LimitAssumption DEF CleanInit, CleanTyped, Names, CleanWhere
<1>2. ASSUME NEW c \in Cleaner PROVE Counted(c) /\ Listed(c) /\ Seen(c)
  <2>1. Done(c) = {} /\ scanned[c] = 0 /\ at[c] = "open" /\ limit[c] \in Nat
    BY <1>1 DEF CleanInit, Done, CleanTyped
  <2>2. Counted(c)
    BY <2>1, FS_EmptySet DEF Counted, AtItem
  <2>3. QED
    BY <2>1, <2>2 DEF CleanInit, Listed, Seen, AtItem, Done
<1>3. QED
  BY <1>1, <1>2 DEF CleanInv

\* Steps of a call that remove and list nothing
LEMMA QuietStep ==
  ASSUME CleanInv, NEW c \in Cleaner,
         Open(c) \/ List(c) \/ Scan(c) \/ EndScan(c) \/ CheckLink(c)
  PROVE  CleanInv'
<1>1. UNCHANGED <<files, asked, deleted, removed>> /\ at' = [at EXCEPT ![c] = at'[c]]
      /\ \A d \in Cleaner : d # c => /\ at'[d] = at[d] /\ item'[d] = item[d]
                                     /\ scanned'[d] = scanned[d] /\ skipped'[d] = skipped[d]
                                     /\ checked'[d] = checked[d]
  BY DEF Open, List, Scan, EndScan, CheckLink, Skip, At, CleanInv, CleanTyped
<1>2. CleanTyped'
  <2>10. at'[c] \in CleanWhere
    BY DEF Open, List, Scan, EndScan, CheckLink, Skip, At, CleanInv, CleanTyped, CleanWhere
  <2>11. at' \in [Cleaner -> CleanWhere]
    BY <1>1, <2>10 DEF CleanInv, CleanTyped
  <2>12. checked'[c] \in [dir : BOOLEAN, item : BOOLEAN]
    <3>1. checked[c] \in [dir : BOOLEAN, item : BOOLEAN]
      BY DEF CleanInv, CleanTyped
    <3>2. \/ checked'[c] = checked[c] \/ checked'[c] = [checked[c] EXCEPT !.item = TRUE]
          \/ checked'[c] = [checked[c] EXCEPT !.dir = (leads = "inside")]
      BY DEF Open, List, Scan, EndScan, CheckLink, CleanInv, CleanTyped
    <3>3. QED
      BY <3>1, <3>2
  <2>13. checked' = checked \/ checked' = [checked EXCEPT ![c] = checked'[c]]
    BY DEF Open, List, Scan, EndScan, CheckLink, CleanInv, CleanTyped
  <2>14. checked' \in [Cleaner -> [dir : BOOLEAN, item : BOOLEAN]]
    BY <2>12, <2>13 DEF CleanInv, CleanTyped
  <2> USE <2>11, <2>14 DEF CleanInv, CleanTyped, files, asked
  <2>1. CASE Open(c)
    BY <2>1 DEF Open
  <2>2. CASE List(c)
    BY <2>2 DEF List, Present
  <2>3. CASE Scan(c)
    <3>1. PICK n \in Item : item' = [item EXCEPT ![c] = n]
      BY <2>3 DEF Scan
    <3>2. item' \in [Cleaner -> Names]
      BY <3>1 DEF Names
    <3>3. todo' \in [Cleaner -> SUBSET Item]
      BY <2>3 DEF Scan
    <3>4. scanned' \in [Cleaner -> Nat]
      BY <2>3 DEF Scan
    <3>5. DOMAIN skipped' = Cleaner
      BY <2>3 DEF Scan
    <3>6. QED
      BY <2>3, <3>2, <3>3, <3>4, <3>5 DEF Scan
  <2>4. CASE EndScan(c)
    BY <2>4 DEF EndScan
  <2>5. CASE CheckLink(c)
    <3>1. DOMAIN skipped' = Cleaner
      BY <2>5 DEF CheckLink, Skip
    <3>2. QED
      BY <2>5, <3>1 DEF CheckLink
  <2>6. QED
    BY <2>1, <2>2, <2>3, <2>4, <2>5
<1>3. \A d \in Cleaner : d # c => Counted(d)' /\ Listed(d)' /\ Seen(d)'
  BY <1>1 DEF CleanInv, Counted, Listed, Seen, Done, Here, files, asked
<1>4. Done(c)' = Done(c) /\ skipped[c] \subseteq skipped'[c]
  BY DEF Open, List, Scan, EndScan, CheckLink, Skip, At, CleanInv, CleanTyped, Done
<1>5. Counted(c)'
  <2>1. Cardinality(Done(c)) \in Nat /\ scanned[c] \in Nat /\ limit[c] \in Nat /\ limit'[c] = limit[c]
    BY <1>1, FS_CardinalityType DEF CleanInv, CleanTyped, Counted, asked
  <2>2. \/ at'[c] \notin AtItem /\ scanned'[c] = scanned[c]
        \/ at'[c] \in AtItem /\ at[c] \in AtItem /\ scanned'[c] = scanned[c]
        \/ at[c] = "scan" /\ scanned[c] < limit[c] /\ scanned'[c] = scanned[c] + 1
    BY <2>1 DEF Open, List, Scan, EndScan, CheckLink, Skip, At, CleanInv, CleanTyped, AtItem
  <2>3. QED
    BY <1>4, <2>1, <2>2 DEF CleanInv, Counted, AtItem
<1>6. Listed(c)'
  BY <1>4 DEF Open, List, Scan, EndScan, CheckLink, Skip, At, CleanInv, CleanTyped, Listed, asked
<1>7. Seen(c)'
  BY <1>1 DEF Open, List, Scan, EndScan, CheckLink, Skip, At, CleanInv, CleanTyped, Seen, AtItem, Here, files
<1>8. QED
  BY <1>2, <1>3, <1>5, <1>6, <1>7 DEF CleanInv

LEMMA CheckAgeStep ==
  ASSUME CleanInv, NEW c \in Cleaner, CheckAge(c)
  PROVE  CleanInv'
<1>1. /\ UNCHANGED <<files, asked, todo, item, scanned, removed, checked>> /\ at[c] = "age"
      /\ \A d \in Cleaner : d # c => /\ at'[d] = at[d] /\ skipped'[d] = skipped[d]
                                     /\ deleted'[d] = deleted[d]
  BY DEF CheckAge, Skip, At, CleanInv, CleanTyped
<1>2. item[c] \in Item
  BY <1>1 DEF CleanInv, Seen, AtItem
<1>3. \/ /\ at' = [at EXCEPT ![c] = "scan"] /\ deleted' = deleted
         /\ skipped'[c] = skipped[c] \cup {<<item[c], "error">>}
            \/ skipped'[c] = skipped[c] \cup {<<item[c], "young">>}
         /\ DOMAIN skipped' = Cleaner
      \/ /\ at' = [at EXCEPT ![c] = "scan"] /\ dry[c] /\ skipped' = skipped
         /\ deleted' = [deleted EXCEPT ![c] = @ \cup {item[c]}]
      \/ /\ at' = [at EXCEPT ![c] = "delete"] /\ ~dry[c] /\ UNCHANGED <<deleted, skipped>>
         /\ Here(c).old /\ Here(c) # None
  BY DEF CheckAge, Skip, At, CleanInv, CleanTyped
<1>4. CleanTyped'
  <2>1. at' \in [Cleaner -> CleanWhere]
    BY <1>3 DEF CleanInv, CleanTyped, CleanWhere
  <2>2. deleted' \in [Cleaner -> SUBSET Names] /\ DOMAIN skipped' = Cleaner
    BY <1>2, <1>3 DEF CleanInv, CleanTyped, Names
  <2>3. QED
    BY <1>1, <2>1, <2>2 DEF CleanInv, CleanTyped, files, asked
<1>5. ASSUME NEW d \in Cleaner, d # c PROVE Counted(d)' /\ Listed(d)' /\ Seen(d)'
  <2>1. Done(d)' = Done(d) /\ Here(d)' = Here(d)
    BY <1>1, <1>5 DEF Done, Here, files
  <2>2. Counted(d)' /\ Listed(d)'
    BY <1>1, <1>5, <2>1 DEF CleanInv, Counted, Listed, asked
  <2>3. QED
    BY <1>1, <1>5, <2>1, <2>2 DEF CleanInv, Seen, files
<1>6. Counted(c)'
  <2>1. /\ IsFiniteSet(Done(c)) /\ Cardinality(Done(c)) \in Nat
        /\ scanned[c] \in Nat /\ limit[c] \in Nat
        /\ Cardinality(Done(c)) + 1 <= scanned[c] /\ scanned[c] <= limit[c]
    BY <1>1, FS_CardinalityType DEF CleanInv, CleanTyped, Counted, AtItem
  <2>2. \/ Done(c)' = Done(c)
        \/ Done(c)' = Done(c) \cup {item[c]} /\ at'[c] = "scan"
    BY <1>1, <1>3 DEF Done, CleanInv, CleanTyped
  <2>3. /\ IsFiniteSet(Done(c) \cup {item[c]})
        /\ Cardinality(Done(c) \cup {item[c]}) =
             IF item[c] \in Done(c) THEN Cardinality(Done(c)) ELSE Cardinality(Done(c)) + 1
    BY <2>1, FS_AddElement
  <2>4. /\ IsFiniteSet(Done(c)')
        /\ Cardinality(Done(c)') + (IF at'[c] \in AtItem THEN 1 ELSE 0) <= scanned[c]
    <3>1. (IF at'[c] \in AtItem THEN 1 ELSE 0) \in {0, 1}
      OBVIOUS
    <3>2. CASE Done(c)' = Done(c)
      BY <2>1, <3>1, <3>2
    <3>3. CASE Done(c)' = Done(c) \cup {item[c]} /\ at'[c] = "scan"
      <4>1. (IF at'[c] \in AtItem THEN 1 ELSE 0) = 0
        BY <3>3 DEF AtItem
      <4>2. Cardinality(Done(c)') <= Cardinality(Done(c)) + 1 /\ Cardinality(Done(c)') \in Nat
        BY <2>1, <2>3, <3>3
      <4>3. QED
        BY <2>1, <2>3, <3>3, <4>1, <4>2
    <3>4. QED
      BY <2>2, <3>2, <3>3
  <2>5. QED
    BY <1>1, <2>1, <2>4 DEF Counted, asked
<1>7. Listed(c)'
  BY <1>1, <1>3 DEF CleanInv, CleanTyped, Listed, asked, Done
<1>8. Seen(c)'
  BY <1>1, <1>2, <1>3 DEF CleanInv, CleanTyped, Seen, AtItem, Here, files
<1>9. QED
  BY <1>4, <1>5, <1>6, <1>7, <1>8 DEF CleanInv

\* Whoever changes an item, those who looked at it know no more of it.
LEMMA OthersSeen ==
  ASSUME CleanInv, NEW d \in Cleaner, UNCHANGED <<leads, item>>, at'[d] = at[d],
         items' \in [Item -> Content],
         checked'[d].dir => checked[d].dir,
         checked'[d].item => checked[d].item /\ items'[item[d]] = items[item[d]]
  PROVE  Seen(d)'
BY DEF CleanInv, Seen, Here

\* What a step of c does to the names it is done with, within its count
LEMMA CountKept ==
  ASSUME CleanInv, NEW c \in Cleaner, at[c] = "delete", at'[c] = "scan",
         UNCHANGED <<asked, scanned>>,
         Done(c)' = Done(c) \/ Done(c)' = Done(c) \cup {item[c]}
  PROVE  Counted(c)'
<1>1. /\ IsFiniteSet(Done(c)) /\ Cardinality(Done(c)) \in Nat
      /\ scanned[c] \in Nat /\ limit[c] \in Nat
      /\ Cardinality(Done(c)) + 1 <= scanned[c] /\ scanned[c] <= limit[c]
  BY FS_CardinalityType DEF CleanInv, CleanTyped, Counted, AtItem
<1>2. /\ IsFiniteSet(Done(c) \cup {item[c]})
      /\ Cardinality(Done(c) \cup {item[c]}) =
           IF item[c] \in Done(c) THEN Cardinality(Done(c)) ELSE Cardinality(Done(c)) + 1
  BY <1>1, FS_AddElement
<1>3. /\ IsFiniteSet(Done(c)') /\ Cardinality(Done(c)') \in Nat
      /\ Cardinality(Done(c)') <= Cardinality(Done(c)) + 1
  <2>1. CASE Done(c)' = Done(c)
    BY <1>1, <2>1
  <2>2. CASE Done(c)' = Done(c) \cup {item[c]}
    <3>1. Cardinality(Done(c) \cup {item[c]}) \in Nat
      BY <1>1, <1>2
    <3>2. QED
      BY <1>1, <1>2, <2>2, <3>1
  <2>3. QED
    BY <2>1, <2>2
<1>4. (IF at'[c] \in AtItem THEN 1 ELSE 0) = 0
  BY DEF AtItem
<1>5. QED
  BY <1>1, <1>3, <1>4 DEF Counted, asked

LEMMA DeleteStep ==
  ASSUME CleanInv, NEW c \in Cleaner, Delete(c)
  PROVE  CleanInv'
<1>1. /\ UNCHANGED <<leads, asked, todo, item, scanned>> /\ at[c] = "delete"
      /\ at' = [at EXCEPT ![c] = "scan"]
      /\ \A d \in Cleaner : d # c => /\ skipped'[d] = skipped[d]
                                     /\ deleted'[d] = deleted[d] /\ removed'[d] = removed[d]
  BY DEF Delete, Skip, At, CleanInv, CleanTyped
<1>2. item[c] \in Item /\ ~dry[c]
  BY <1>1 DEF CleanInv, CleanTyped, Seen, Listed, AtItem
<1>3. \/ /\ items' = [items EXCEPT ![item[c]] = None] /\ skipped' = skipped
         /\ removed' = [removed EXCEPT ![c] = @ \cup {item[c]}]
         /\ deleted' = [deleted EXCEPT ![c] = @ \cup {item[c]}] /\ Stale(item[c], c)
      \/ /\ skipped' = [skipped EXCEPT ![c] = @ \cup {<<item[c], "error">>}]
         /\ UNCHANGED <<items, removed, deleted, checked>>
      \/ /\ skipped' = [skipped EXCEPT ![c] = @ \cup {<<item[c], "error">>}]
         /\ items' = [items EXCEPT ![item[c]].old = FALSE]
         /\ Here(c).kind = "dir" /\ Stale(item[c], c)
         /\ removed' = [removed EXCEPT ![c] = @ \cup {item[c]}] /\ UNCHANGED deleted
  BY DEF Delete, Skip
<1>4. /\ removed' \in [Cleaner -> SUBSET Names] /\ deleted' \in [Cleaner -> SUBSET Names]
      /\ DOMAIN skipped' = Cleaner
  <2>1. removed[c] \cup {item[c]} \in SUBSET Names /\ deleted[c] \cup {item[c]} \in SUBSET Names
    BY <1>2 DEF CleanInv, CleanTyped, Names
  <2>2. removed' \in [Cleaner -> SUBSET Names]
    BY <1>3, <2>1 DEF CleanInv, CleanTyped
  <2>3. deleted' \in [Cleaner -> SUBSET Names]
    BY <1>3, <2>1 DEF CleanInv, CleanTyped
  <2>4. DOMAIN skipped' = Cleaner
    BY <1>3 DEF CleanInv, CleanTyped
  <2>5. QED
    BY <2>2, <2>3, <2>4
<1>5. items' \in [Item -> Content]
  <2>1. None \in Content /\ items[item[c]] \in Content
    BY <1>2 DEF Content, CleanInv, CleanTyped
  <2>2. Here(c).kind = "dir" => [items[item[c]] EXCEPT !.old = FALSE] \in Content
    <3>1. SUFFICES ASSUME items[item[c]].kind = "dir"
                   PROVE  [items[item[c]] EXCEPT !.old = FALSE] \in Content
      BY DEF Here
    <3>2. items[item[c]] \in [kind : {"file", "dir", "link"}, old : BOOLEAN]
      BY <2>1, <3>1 DEF Content, None
    <3>3. QED
      BY <3>2 DEF Content
  <2>3. CASE items' = [items EXCEPT ![item[c]] = None]
    BY <2>1, <2>3 DEF CleanInv, CleanTyped
  <2>4. CASE Here(c).kind = "dir" /\ items' = [items EXCEPT ![item[c]].old = FALSE]
    BY <2>2, <2>4 DEF CleanInv, CleanTyped
  <2>5. CASE items' = items
    BY <2>5 DEF CleanInv, CleanTyped
  <2>6. QED
    BY <1>3, <2>3, <2>4, <2>5
<1>6. /\ checked' \in [Cleaner -> [dir : BOOLEAN, item : BOOLEAN]]
      /\ \A d \in Cleaner :
           /\ checked'[d].dir = checked[d].dir
           /\ checked'[d].item => checked[d].item
           /\ d # c /\ checked'[d].item /\ items' # items => item[d] # item[c]
  <2>1. \A d \in Cleaner : checked[d] \in [dir : BOOLEAN, item : BOOLEAN]
    BY DEF CleanInv, CleanTyped
  <2>2. CASE Stale(item[c], c)
    <3>1. checked' = [d \in Cleaner |-> IF d # c /\ item[d] = item[c]
                                        THEN [checked[d] EXCEPT !.item = FALSE] ELSE checked[d]]
      BY <2>2 DEF Stale
    <3>2. QED
      BY <2>1, <3>1
  <2>3. CASE UNCHANGED <<items, checked>>
    BY <2>1, <2>3 DEF CleanInv, CleanTyped
  <2>4. QED
    BY <1>3, <2>2, <2>3
<1>7. \A n \in Item : n # item[c] => items'[n] = items[n]
  BY <1>2, <1>3 DEF CleanInv, CleanTyped
<1>8. CleanTyped'
  BY <1>1, <1>4, <1>5, <1>6 DEF CleanInv, CleanTyped, asked, CleanWhere
<1>9. ASSUME NEW d \in Cleaner, d # c PROVE Counted(d)' /\ Listed(d)' /\ Seen(d)'
  <2>1. Done(d)' = Done(d) /\ at'[d] = at[d]
    BY <1>1, <1>9 DEF Done, CleanInv, CleanTyped
  <2>2. Counted(d)' /\ Listed(d)'
    BY <1>1, <1>9, <2>1 DEF CleanInv, Counted, Listed, asked
  <2>3. Seen(d)'
    <3>1. checked'[d].item /\ at[d] \in AtItem => items'[item[d]] = items[item[d]]
      BY <1>6, <1>7, <1>9 DEF CleanInv, Seen
    <3>2. QED
      BY <1>1, <1>6, <2>1, <3>1 DEF CleanInv, Seen, Here, AtItem
  <2>4. QED
    BY <2>2, <2>3
<1>10. Counted(c)'
  <2>1. Done(c)' = Done(c) \/ Done(c)' = Done(c) \cup {item[c]}
    BY <1>3 DEF Done, CleanInv, CleanTyped
  <2>2. at'[c] = "scan"
    BY <1>1 DEF CleanInv, CleanTyped
  <2>3. QED
    BY <1>1, <2>1, <2>2, CountKept
<1>11. Listed(c)' /\ Seen(c)'
  <2>1. at'[c] = "scan"
    BY <1>1 DEF CleanInv, CleanTyped
  <2>2. Listed(c)'
    BY <1>1, <1>2, <1>3, <2>1 DEF CleanInv, CleanTyped, Listed, asked
  <2>3. Seen(c)'
    BY <1>1, <1>6, <2>1 DEF CleanInv, Seen, AtItem
  <2>4. QED
    BY <2>2, <2>3
<1>12. QED
  BY <1>8, <1>9, <1>10, <1>11 DEF CleanInv

\* What the users of the directory do, and nothing
LEMMA UserStep ==
  ASSUME CleanInv, Touch \/ Redirect \/ UNCHANGED cleanVars
  PROVE  CleanInv'
<1>1. UNCHANGED <<at, asked, todo, item, scanned, deleted, skipped, removed>>
  BY DEF Touch, Redirect, cleanVars, asked, files
<1>2. items' \in [Item -> Content]
  BY DEF Touch, Redirect, cleanVars, CleanInv, CleanTyped
<1>3. /\ checked' \in [Cleaner -> [dir : BOOLEAN, item : BOOLEAN]]
      /\ \A c \in Cleaner : /\ checked'[c].dir => checked[c].dir /\ leads' = leads
                            /\ checked'[c].item => /\ checked[c].item
                                                   /\ items'[item[c]] = items[item[c]]
  <2>1. \A c \in Cleaner : checked[c] \in [dir : BOOLEAN, item : BOOLEAN]
    BY DEF CleanInv, CleanTyped
  <2>2. CASE Touch
    <3>1. PICK n \in Item, new \in Content :
            /\ items' = [items EXCEPT ![n] = new] /\ leads' = leads
            /\ checked' = [c \in Cleaner |-> [checked[c] EXCEPT !.item = @ /\ item[c] # n]]
      BY <2>2 DEF Touch
    <3>2. \A c \in Cleaner : /\ checked'[c].dir = checked[c].dir
                             /\ checked'[c].item = (checked[c].item /\ item[c] # n)
      BY <2>1, <3>1
    <3>3. \A c \in Cleaner : item[c] # n => items'[item[c]] = items[item[c]]
      BY <3>1 DEF CleanInv, CleanTyped
    <3>4. checked' \in [Cleaner -> [dir : BOOLEAN, item : BOOLEAN]]
      BY <2>1, <3>1
    <3>5. QED
      BY <3>1, <3>2, <3>3, <3>4
  <2>3. CASE Redirect
    BY <2>3 DEF Redirect
  <2>4. CASE UNCHANGED cleanVars
    BY <2>1, <2>4 DEF cleanVars, CleanInv, CleanTyped
  <2>5. QED
    BY <2>2, <2>3, <2>4
<1>4. CleanTyped'
  BY <1>1, <1>2, <1>3 DEF CleanInv, CleanTyped, asked
<1>5. ASSUME NEW c \in Cleaner PROVE Counted(c)' /\ Listed(c)' /\ Seen(c)'
  <2>1. Counted(c)' /\ Listed(c)'
    BY <1>1 DEF CleanInv, Counted, Listed, Done, asked
  <2>2. Seen(c)'
    BY <1>1, <1>3 DEF CleanInv, Seen, Here, AtItem
  <2>3. QED
    BY <2>1, <2>2
<1>6. QED
  BY <1>4, <1>5 DEF CleanInv

LEMMA CleanInvStep == CleanInv /\ [CleanNext]_cleanVars => CleanInv'
BY QuietStep, CheckAgeStep, DeleteStep, UserStep DEF CleanNext, CleanStep

\* The inductive invariant of a cleaning holds in every reachable state.
THEOREM CleanInvariance == CleanSpec => []CleanInv
<1>1. CleanInit => CleanInv
  BY CleanInitInv
<1>2. CleanInv /\ [CleanNext]_cleanVars => CleanInv'
  BY CleanInvStep
<1>3. QED
  BY <1>1, <1>2, PTL DEF CleanSpec

(* What temp.clean lists is what it did, within its limit, whatever the    *)
(* users of the directory do meanwhile (temp_clean_tool.py 48-90).         *)
THEOREM CleanReportCorrect == CleanSpec => []CleanReportTrue
<1>1. CleanInv => CleanReportTrue
  <2> SUFFICES ASSUME CleanInv, NEW c \in Cleaner
               PROVE  /\ dry[c] \/ at[c] = "refused" => removed[c] = {}
                      /\ ~dry[c] => deleted[c] \subseteq removed[c]
                      /\ \A n \in removed[c] \ deleted[c] : <<n, "error">> \in skipped[c]
                      /\ Cardinality(removed[c] \cup deleted[c]) <= limit[c]
    BY DEF CleanReportTrue
  <2>1. Cardinality(Done(c)) \in Nat /\ scanned[c] \in Nat /\ limit[c] \in Nat
    BY FS_CardinalityType DEF CleanInv, CleanTyped, Counted
  <2>2. Cardinality(Done(c)) <= limit[c]
    BY <2>1 DEF CleanInv, Counted
  <2>3. QED
    BY <2>2 DEF CleanInv, Listed, Done
<1>2. QED
  BY <1>1, CleanInvariance, PTL

(* It removes old files and directories that are no links, in a directory  *)
(* inside, as long as nobody replaces what it looked at.                   *)
THEOREM RemovesCorrect == CleanSpec => RemovesJudged
<1>1. CleanInv /\ [CleanNext]_cleanVars =>
        [\A c \in Cleaner :
           removed'[c] # removed[c] =>
             /\ checked[c].dir => leads = "inside"
             /\ checked[c].item => Here(c).old /\ Here(c).kind \in {"file", "dir"}]_cleanVars
  <2> SUFFICES ASSUME CleanInv, [CleanNext]_cleanVars, NEW c \in Cleaner,
                      removed'[c] # removed[c]
               PROVE  /\ checked[c].dir => leads = "inside"
                      /\ checked[c].item => Here(c).old /\ Here(c).kind \in {"file", "dir"}
    OBVIOUS
  <2>1. at[c] = "delete"
    <3>1. PICK d \in Cleaner : Delete(d)
      BY DEF CleanNext, CleanStep, cleanVars, Open, List, Scan, EndScan, CheckLink, CheckAge,
             Touch, Redirect
    <3>2. c = d
      BY <3>1 DEF Delete, CleanInv, CleanTyped
    <3>3. QED
      BY <3>1, <3>2 DEF Delete
  <2>2. Here(c) \in Content
    BY <2>1 DEF CleanInv, CleanTyped, Seen, AtItem, Here
  <2>3. QED
    BY <2>1, <2>2 DEF CleanInv, Seen, Content
<1>2. QED
  BY <1>1, CleanInvariance, PTL DEF CleanSpec, RemovesJudged
=============================================================================
