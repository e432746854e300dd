---------------------------- MODULE GuardSession ----------------------------
(***************************************************************************)
(* A client that asks for one tool again and again, through one of the     *)
(* three ways to the guard, and changes one thing from one request to the  *)
(* next: the chat (POST /api/agent/execute), the tool API (POST            *)
(* /api/tools/{name}) and the MCP server.  The guard keeps no state: what  *)
(* is stated of two requests in a row is stated of its decisions.          *)
(***************************************************************************)
EXTENDS SecurityGuard, FiniteSets

CONSTANTS Asked,        \* the tools asked for
          Targets, Services, Words, Commands,   \* what the client may vary
          MaxTalk       \* bound: words, paths and commands a query names

ASSUME AskedAssumption ==
  /\ Targets \subseteq Path \cup {"none"} /\ Services \subseteq Service
  /\ Words \subseteq Word /\ Commands \subseteq Command
  /\ MaxTalk \in Nat

VARIABLES channel, tool, facts,
          role,        \* the client's token, or the role configured for MCP
          approved,    \* the approved it sends
          decision     \* the guard's answer to the request

guardVars == <<channel, tool, facts, role, approved, decision>>

\* The tool's name is part of the query of the tool API and of MCP
NameWords(t) ==
  {w \in Word : \/ w = "kill" /\ t = "process.kill"
                \/ w = "clean" /\ t = "temp.clean"
                \/ w = "restart" /\ t = "service.restart"
                \/ w = "stop" /\ t = "service.stop"
                \/ w = "delete" /\ t \in {"config.modify", "permission.modify", "user.modify"}
                \/ w = "account" /\ t = "user.modify"}

(* The caller the endpoints make of it, whoever it says it is:             *)
(* _strip_client_role and _role_from_header, approved=False of run_tool,   *)
(* client_role of the MCP server.                                          *)
CallerOf(ch, r, a) ==
  IF ch = "mcp" THEN [trusted |-> "none", claimed |-> r, user |-> "other", approved |-> a]
  ELSE [trusted |-> r, claimed |-> "none", user |-> "other", approved |-> ch = "chat" /\ a]

presented == CallerOf(channel, role, approved)
Text == IF channel = "chat" THEN facts ELSE [facts EXCEPT !.words = @ \cup NameWords(tool)]

(* The arguments the registered schemas have: a path, a pid, a dry run.    *)
TakesPath(t) == t \in ReadScanTools \cup {"temp.clean", "disk", "log"}
GuardInit ==
  /\ channel \in {"chat", "tool", "mcp"} /\ tool \in Asked /\ role \in Role
  /\ channel = "chat" \/ tool \in Registered   \* the two others know the tool list
  /\ approved = FALSE
  /\ facts \in [types : {"ok"}, safeChars : {TRUE}, namesProtected : {FALSE},
                pid : IF tool = "process.kill" THEN {"ordinary", "self"} ELSE {"none"},
                target : IF TakesPath(tool) THEN Targets ELSE {"none"}, mentioned : {{}},
                service : Services, words : {{}}, command : {"none"},
                dryRun : IF tool = "temp.clean" THEN BOOLEAN ELSE {FALSE}]
  /\ decision = Check(tool, Text, presented)

Asks == UNCHANGED <<channel, tool>> /\ decision' = Check(tool', Text', presented')
Approve == ~approved /\ approved' = TRUE /\ UNCHANGED <<facts, role>> /\ Asks
Relogin == (\E r \in Role : role' = r) /\ UNCHANGED <<facts, approved>> /\ Asks
Talk(f) == Cardinality(f.words) + Cardinality(f.mentioned) + (IF f.command = "none" THEN 0 ELSE 1)
Say == /\ \/ \E w \in Words : facts' = [facts EXCEPT !.words = @ \cup {w}]
          \/ \E p \in Targets \ {"none"} : facts' = [facts EXCEPT !.mentioned = @ \cup {p}]
          \/ \E c \in Commands : facts.command = "none" /\ facts' = [facts EXCEPT !.command = c]
       /\ Talk(facts') <= MaxTalk
       /\ UNCHANGED <<role, approved>> /\ Asks

GuardNext == Approve \/ Relogin \/ Say
GuardSpec == GuardInit /\ [][GuardNext]_guardVars
-----------------------------------------------------------------------------
(* Approval answers the request for confirmation and nothing else: it      *)
(* never changes the risk, and lets through only what was medium and had   *)
(* no other fault (guard.py 118-147).                                      *)
ApprovalOnlyConfirms ==
  [][Approve /\ presented' # presented =>
       /\ decision'.risk = decision.risk
       /\ decision'.failed = decision.failed \ {"secondary_confirmation"}
       /\ decision.blocked /\ ~decision'.blocked =>
            decision.risk = "medium" /\ decision.failed = {"secondary_confirmation"}]_guardVars

(* Saying more never helps: a further word, path or command in the query   *)
(* lowers no risk and unblocks nothing.                                    *)
TalkNeverUnblocks ==
  [][Say => /\ Rank[decision'.risk] >= Rank[decision.risk]
            /\ decision.blocked => decision'.blocked]_guardVars

(* What passes for a viewer reads, and scans no path outside the list;     *)
(* what passes without approval changes nothing; and a high risk never     *)
(* passes, not even for an admin who approves it.                          *)
OperationsGuarded ==
  ~decision.blocked =>
    /\ role = "viewer" => /\ tool \notin MediumRiskTools \cup HighRiskTools
                          /\ tool \in {"disk.large_files", "disk.top_dirs"} => facts.target \in ScanSafe
    /\ ~presented.approved /\ tool \in MediumRiskTools =>
         tool = "temp.clean" /\ facts.dryRun /\ facts.target = "tmp"
    /\ tool \notin HighRiskTools /\ "stop" \notin facts.words
=============================================================================
