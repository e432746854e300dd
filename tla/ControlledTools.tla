-------------------------- MODULE ControlledTools ---------------------------
(***************************************************************************)
(* process.kill and service.restart (mcp_tools/process_kill_tool.py,       *)
(* service_restart_tool.py), with the identity their commands run under    *)
(* (security/least_privilege.py).  Between the inspection of a process and *)
(* the signal the process may exit and its pid be given to another one;    *)
(* every command may time out, before or after it took effect; the account *)
(* of the agent is looked up again for each command.  Processes, accounts  *)
(* and systemd are the environment's.                                      *)
(***************************************************************************)
EXTENDS Integers, FiniteSets

CONSTANTS Call,           \* the tool calls, on threads of the server
          Request,        \* what they may be asked
          Pid, NoPid,
          ReservedPid,    \* up to PROTECTED_PID_MAX, the agent's own, its parent's
          Process, NoProcess,
          Self,           \* the process of the agent
          Owner,          \* owner of every other process
          Name, NoName,
          NameOf,         \* command of every process
          ProtectedUser,  \* PROTECTED_PROCESS_USERS
          ProtectedName,  \* PROTECTED_PROCESS_NAMES
          Service, NoService,
          Allowlist,      \* SERVICE_RESTART_ALLOWLIST
          OwnService,     \* the unit the agent itself runs as
          User,
          AgentUser,      \* AGENT_RUN_USER
          Host            \* who starts the server, and AGENT_STRICT_LEAST_PRIVILEGE

ASSUME UserAssumption ==
  /\ "root" \in ProtectedUser /\ ProtectedUser \subseteq User
  /\ AgentUser \in User \ ProtectedUser /\ "refused" \notin User
ASSUME HostAssumption == Host \subseteq [user : (User \ ProtectedUser) \cup {"root"}, strict : BOOLEAN]
ASSUME RequestAssumption ==
  Request \subseteq [tool : {"kill", "restart"}, pid : Pid \cup {NoPid},
                     expected : Name \cup {NoName}, dry : BOOLEAN,
                     service : Service \cup {NoService}]
ASSUME ProcessAssumption ==
  /\ NoProcess \notin Process /\ Self \in Process
  /\ Owner \in [Process -> User] /\ NameOf \in [Process -> Name] /\ NoName \notin Name
ASSUME PidAssumption == ReservedPid \subseteq Pid /\ NoPid \notin Pid
ASSUME ServiceAssumption == Allowlist \subseteq Service /\ NoService \notin Service

VARIABLES host,      \* fixed when the server starts
          account,   \* the agent's account is found
          table,     \* the process that has each pid
          unborn,    \* processes that have not started yet
          pc, arg,
          before,    \* the first inspection: the process found
          seen,      \* every process that ran at that moment
          exit,      \* how the command of the tool ended
          report,    \* what the call returned
          signals,   \* the signals delivered
          jobs,      \* restarts systemd has begun and not ended
          restarted  \* those it has completed

vars == <<host, account, table, unborn, pc, arg, before, seen, exit, report,
          signals, jobs, restarted>>
system == <<host, account, table, unborn>>

NoReport == [kind |-> "none", ok |-> FALSE, running |-> FALSE]

Init ==
  /\ host \in Host /\ account \in BOOLEAN
  /\ table \in [Pid -> Process \cup {NoProcess}]
  /\ \A q, r \in Pid : q # r /\ table[q] = table[r] => table[q] = NoProcess
  /\ \E q \in ReservedPid : table[q] = Self
  /\ unborn = {p \in Process : \A q \in Pid : table[q] # p}
  /\ pc = [c \in Call |-> "asked"] /\ arg \in [Call -> Request]
  /\ before = [c \in Call |-> NoProcess] /\ seen = [c \in Call |-> {}]
  /\ exit = [c \in Call |-> "none"] /\ report = [c \in Call |-> NoReport]
  /\ signals = {} /\ jobs = {} /\ restarted = {}

-----------------------------------------------------------------------------
\* mutant: strictness forgotten
RunsAsLax == IF host.user # "root" THEN host.user ELSE IF account THEN AgentUser ELSE "root"

(* subprocess_security_options: who a command runs as.  "refused" is the   *)
(* PermissionError of a root server without the account, in strict mode.   *)
RunsAs == IF host.user # "root" THEN host.user
          ELSE IF account THEN AgentUser
          ELSE IF host.strict THEN "refused" ELSE "root"

Running == {table[q] : q \in Pid} \ {NoProcess}
OwnerOf(p) == IF p = Self THEN host.user ELSE Owner[p]
MaySignal(user, p) == user # "refused" /\ (user = "root" \/ user = OwnerOf(p))

Goto(c, where) == pc' = [pc EXCEPT ![c] = where]
Return(c, kind, ok, running) ==
  /\ Goto(c, "returned")
  /\ report' = [report EXCEPT ![c] = [kind |-> kind, ok |-> ok, running |-> running]]

\* mutant: the agent's own pid is nothing special
AllowedReserved(c, p) ==
  /\ p # NoProcess
  /\ OwnerOf(p) \notin ProtectedUser /\ NameOf[p] \notin ProtectedName
  /\ arg[c].expected \in {NoName, NameOf[p]}

\* _is_kill_allowed
Allowed(c, p) ==
  /\ arg[c].pid \notin ReservedPid
  /\ p # NoProcess
  /\ OwnerOf(p) \notin ProtectedUser /\ NameOf[p] \notin ProtectedName
  /\ arg[c].expected \in {NoName, NameOf[p]}

\* mutant: the pid is signalled as it was asked for
ParseKills(c) ==
  /\ pc[c] = "asked" /\ arg[c].tool = "kill"
  /\ IF arg[c].pid = NoPid THEN Return(c, "error", FALSE, FALSE)
     ELSE Goto(c, IF arg[c].dry THEN "inspect" ELSE "kill") /\ UNCHANGED report
  /\ UNCHANGED <<system, arg, before, seen, exit, signals, jobs, restarted>>

\* _parse_pid
Parse(c) ==
  /\ pc[c] = "asked" /\ arg[c].tool = "kill"
  /\ IF arg[c].pid = NoPid THEN Return(c, "error", FALSE, FALSE)
     ELSE Goto(c, "inspect") /\ UNCHANGED report
  /\ UNCHANGED <<system, arg, before, seen, exit, signals, jobs, restarted>>

(* _inspect_process: what ps finds at the pid.  A ps that may not run, or  *)
(* takes too long, counts as no process; one that runs prints all columns. *)
Found(c) == {NoProcess} \cup (IF RunsAs = "refused" THEN {} ELSE {table[arg[c].pid]})

\* The first inspection, and what it is for
Inspect(c) ==
  /\ pc[c] = "inspect"
  /\ \E p \in Found(c) :
       /\ before' = [before EXCEPT ![c] = p]
       /\ IF ~Allowed(c, p) THEN Return(c, "refused", FALSE, FALSE)
          ELSE IF arg[c].dry THEN Return(c, "preview", TRUE, TRUE)
          ELSE Goto(c, "kill") /\ UNCHANGED report
  /\ seen' = [seen EXCEPT ![c] = Running]
  /\ UNCHANGED <<system, arg, exit, signals, jobs, restarted>>

Signal(c) == signals' = signals \cup {[call |-> c, process |-> table[arg[c].pid], as |-> RunsAs]}

(* kill -TERM by the number: it reaches the process that has it by now, if *)
(* the user may signal it; the exit code says whether it did.              *)
Kill(c) ==
  /\ pc[c] = "kill" /\ RunsAs # "refused"
  /\ Goto(c, "look")
  /\ IF table[arg[c].pid] # NoProcess /\ MaySignal(RunsAs, table[arg[c].pid])
     THEN Signal(c) /\ exit' = [exit EXCEPT ![c] = "ok"]
     ELSE exit' = [exit EXCEPT ![c] = "failed"] /\ UNCHANGED signals
  /\ UNCHANGED <<system, arg, before, seen, report, jobs, restarted>>

\* run_template raises: refused, or a timeout that may come after the signal
KillRaises(c) ==
  /\ pc[c] = "kill" /\ Return(c, "error", FALSE, FALSE)
  /\ \/ UNCHANGED signals
     \/ /\ table[arg[c].pid] # NoProcess /\ MaySignal(RunsAs, table[arg[c].pid])
        /\ Signal(c)
  /\ UNCHANGED <<system, arg, before, seen, exit, jobs, restarted>>

\* mutant: a process that is gone was killed
LookSucceeds(c) ==
  /\ pc[c] = "look"
  /\ \E p \in Found(c) : Return(c, "done", exit[c] = "ok" \/ p = NoProcess, p # NoProcess)
  /\ UNCHANGED <<system, arg, before, seen, exit, signals, jobs, restarted>>

\* The second inspection, and the result
Look(c) ==
  /\ pc[c] = "look"
  /\ \E p \in Found(c) : Return(c, "done", exit[c] = "ok", p # NoProcess)
  /\ UNCHANGED <<system, arg, before, seen, exit, signals, jobs, restarted>>

-----------------------------------------------------------------------------
\* service_name against the allowlist
CheckService(c) ==
  /\ pc[c] = "asked" /\ arg[c].tool = "restart"
  /\ IF arg[c].service \in Allowlist THEN Goto(c, "restart") /\ UNCHANGED report
     ELSE Return(c, "refused", FALSE, FALSE)
  /\ UNCHANGED <<system, arg, before, seen, exit, signals, jobs, restarted>>

Unit(c) == [call |-> c, service |-> arg[c].service]

(* systemctl restart waits for the job: completed; or turned down, or the  *)
(* unit does not come up; or, as the job of the agent's own unit takes     *)
(* systemctl down with the agent, killed.                                  *)
Restart(c) ==
  /\ pc[c] = "restart" /\ RunsAs # "refused" /\ Goto(c, "status")
  /\ \/ /\ arg[c].service # OwnService
        /\ exit' = [exit EXCEPT ![c] = "ok"] /\ restarted' = restarted \cup {Unit(c)}
        /\ UNCHANGED jobs
     \/ exit' = [exit EXCEPT ![c] = "failed"] /\ UNCHANGED <<jobs, restarted>>
     \/ /\ arg[c].service = OwnService
        /\ exit' = [exit EXCEPT ![c] = "failed"] /\ jobs' = jobs \cup {Unit(c)}
        /\ UNCHANGED restarted
  /\ UNCHANGED <<system, arg, before, seen, report, signals>>

\* It raises: refused, or a timeout that leaves the job to systemd
RestartRaises(c) ==
  /\ pc[c] = "restart" /\ Return(c, "error", FALSE, FALSE)
  /\ \/ UNCHANGED jobs
     \/ RunsAs # "refused" /\ jobs' = jobs \cup {Unit(c)}
  /\ UNCHANGED <<system, arg, before, seen, exit, signals, restarted>>

\* systemctl status, which may raise too: the restart is then reported as an error
Status(c) ==
  /\ pc[c] = "status"
  /\ \/ RunsAs # "refused" /\ Return(c, "done", exit[c] = "ok", TRUE)
     \/ Return(c, "error", FALSE, FALSE)
  /\ UNCHANGED <<system, arg, before, seen, exit, signals, jobs, restarted>>

-----------------------------------------------------------------------------
\* systemd ends a job it was left with; that of the agent's unit is AgentEnds
JobEnds ==
  /\ \E j \in jobs : /\ j.service # OwnService /\ jobs' = jobs \ {j}
                     /\ restarted' \in {restarted, restarted \cup {j}}
  /\ UNCHANGED <<system, pc, arg, before, seen, exit, report, signals>>

\* The agent goes down, and the calls in progress with it
AgentEnds ==
  /\ \/ \E j \in jobs : j.service = OwnService
     \/ \E s \in signals : s.process = Self
  /\ \E c \in Call : pc[c] \notin {"returned", "lost"}
  /\ pc' = [c \in Call |-> IF pc[c] = "returned" THEN "returned" ELSE "lost"]
  /\ UNCHANGED <<system, arg, before, seen, exit, report, signals, jobs, restarted>>

Exits == /\ \E q \in Pid : /\ table[q] \notin {NoProcess, Self} /\ q \notin ReservedPid
                           /\ table' = [table EXCEPT ![q] = NoProcess]
         /\ UNCHANGED <<host, account, unborn, pc, arg, before, seen, exit, report,
                        signals, jobs, restarted>>

Starts == /\ \E q \in Pid, p \in unborn :
               /\ table[q] = NoProcess /\ q \notin ReservedPid
               /\ table' = [table EXCEPT ![q] = p] /\ unborn' = unborn \ {p}
          /\ UNCHANGED <<host, account, pc, arg, before, seen, exit, report,
                         signals, jobs, restarted>>

\* The account is removed, or created, or its directory service comes back
AccountChanges == /\ account' = ~account
                  /\ UNCHANGED <<host, table, unborn, pc, arg, before, seen, exit, report,
                                 signals, jobs, restarted>>

Step(c) == \/ Parse(c) \/ Inspect(c) \/ Kill(c) \/ KillRaises(c) \/ Look(c)
           \/ CheckService(c) \/ Restart(c) \/ RestartRaises(c) \/ Status(c)

Next == \/ \E c \in Call : Step(c)
        \/ JobEnds \/ AgentEnds \/ Exits \/ Starts \/ AccountChanges

Spec == Init /\ [][Next]_vars
-----------------------------------------------------------------------------
TypeOK ==
  /\ host \in Host /\ account \in BOOLEAN
  /\ table \in [Pid -> Process \cup {NoProcess}] /\ unborn \subseteq Process
  /\ pc \in [Call -> {"asked", "inspect", "kill", "look", "restart", "status",
                      "returned", "lost"}]
  /\ arg \in [Call -> Request]
  /\ before \in [Call -> Process \cup {NoProcess}] /\ seen \in [Call -> SUBSET Process]
  /\ exit \in [Call -> {"none", "ok", "failed"}]
  /\ report \in [Call -> [kind : {"none", "error", "refused", "preview", "done"},
                          ok : BOOLEAN, running : BOOLEAN]]
  /\ signals \subseteq [call : Call, process : Process, as : User]
  /\ jobs \subseteq [call : Call, service : Service]
  /\ restarted \subseteq [call : Call, service : Service]

(* A signal goes to the process that was inspected and passed every rule,  *)
(* or to one that started after the inspection and took over the pid: the  *)
(* check and the signal never disagree about a process they both saw       *)
(* (process_kill_tool.py 24-25, 48).                                       *)
RightTarget ==
  [][\A s \in signals' \ signals :
       /\ arg[s.call].pid \notin ReservedPid /\ ~arg[s.call].dry
       /\ Allowed(s.call, before[s.call])
       /\ s.process = before[s.call] \/ s.process \notin seen[s.call]]_vars

(* Where the inspection looks too early, the identity of the command still *)
(* holds: unless strictness is switched off, no process of a protected     *)
(* user is ever signalled, whatever takes the pid over and whenever the    *)
(* account comes and goes (least_privilege.py 74-83).                      *)
ProtectedSafe ==
  \A s \in signals :
    s.as = "root" \/ OwnerOf(s.process) \in ProtectedUser => host.user = "root" /\ ~host.strict

(* What a call reports is what it did: refusals and previews touch nothing;*)
(* a success had its effect; a kill that failed had none.  Only "error"    *)
(* leaves open whether the signal or the restart took place                *)
(* (process_kill_tool.py 47-66, service_restart_tool.py 22-38).            *)
Signalled(c) == \E s \in signals : s.call = c
Restarted(c) == \E r \in restarted : r.call = c
Begun(c) == \E r \in restarted \cup jobs : r.call = c
ReportTrue ==
  \A c \in Call :
    LET r == report[c]
    IN  /\ r.kind \in {"refused", "preview"} => ~Signalled(c) /\ ~Begun(c)
        /\ r.kind = "done" /\ arg[c].tool = "kill" => (r.ok <=> Signalled(c))
        /\ r.kind = "done" /\ arg[c].tool = "restart" /\ r.ok => Restarted(c)

(* The agent does not operate on itself: a call is lost only if one that   *)
(* named the agent's own unit, which is on the allowlist, came to its      *)
(* restart (process_kill_tool.py 113, rules.py 131).                       *)
AgentSurvives ==
  (\E c \in Call : pc[c] = "lost") => \E j \in jobs : j.service = OwnService
=============================================================================
