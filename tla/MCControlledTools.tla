------------------------- MODULE MCControlledTools --------------------------
(***************************************************************************)
(* Kills and restarts in some behaviours, a cleaning in the others: the    *)
(* two have nothing in common but the run.  Three kinds of host; of the    *)
(* processes two may be killed, one has a protected name, one is root's.   *)
(***************************************************************************)
EXTENDS ControlledTools, TempClean

MCHost == {[user |-> "root", strict |-> TRUE], [user |-> "root", strict |-> FALSE],
           [user |-> "agent", strict |-> TRUE]}
MCOwner == [self |-> "agent", worker |-> "agent", crond |-> "agent", rootd |-> "root"]
MCNameOf == [self |-> "uvicorn", worker |-> "worker", crond |-> "crond", rootd |-> "mysqld"]

Killing(pid, expected, preview) == [tool |-> "kill", pid |-> pid, expected |-> expected, dry |-> preview,
                                service |-> NoService]
Restarting(service) == [tool |-> "restart", pid |-> NoPid, expected |-> NoName, dry |-> FALSE,
                        service |-> service]
MCRequest == {Killing("q1", NoName, FALSE), Killing("q1", "worker", FALSE),
              Killing("q1", NoName, TRUE), Killing("qs", NoName, FALSE),
              Killing(NoPid, NoName, FALSE),
              Restarting("nginx"), Restarting("sshd"), Restarting("software-cup-ops")}

NoCleaning == leads = "outside" /\ items = [n \in Item |-> None]
NoOperation == /\ host.user = "agent" /\ ~account /\ unborn = Process \ {Self}
               /\ \A d \in Call : arg[d].pid = NoPid /\ arg[d].tool = "kill"

ToolsInit == /\ Init /\ CleanInit
             /\ NoCleaning \/ NoOperation
ToolsNext == \/ NoCleaning /\ (\A c \in Cleaner : at[c] = "open") /\ Next /\ UNCHANGED cleanVars
             \/ NoOperation /\ (\A c \in Call : pc[c] = "asked") /\ CleanNext /\ UNCHANGED vars
ToolsSpec == ToolsInit /\ [][ToolsNext]_<<vars, cleanVars>>
=============================================================================
