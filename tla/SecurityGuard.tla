--------------------------- MODULE SecurityGuard ----------------------------
(***************************************************************************)
(* SecurityGuard.check (backend/security/guard.py, rules.py): the decision *)
(* every tool call passes.  Text is abstracted to what the rules look for: *)
(* the classes of words the query and the arguments contain, the class of  *)
(* every path and of the service they name, the outcome of the character   *)
(* and command patterns.  The executor asks about one tool at a time.      *)
(***************************************************************************)
EXTENDS Integers

CONSTANT Declared   \* risk_level of every registered tool, by tool name

LowRiskTools == {"system", "process", "network", "network.diagnostics", "log",
                 "service", "disk", "disk.large_files", "disk.top_dirs",
                 "network.config", "package.repo", "auth", "firewall", "privilege"}
MediumRiskTools == {"service.restart", "temp.clean", "process.kill"}
HighRiskTools == {"config.modify", "permission.modify", "user.modify", "service.stop"}
ReadScanTools == {"disk.large_files", "disk.top_dirs", "package.repo"}

Risk == {"low", "medium", "high", "prohibited"}
Rank == [low |-> 1, medium |-> 2, high |-> 3, prohibited |-> 4]
MaxRisk(a, b) == IF Rank[a] >= Rank[b] THEN a ELSE b

Role == {"viewer", "operator", "admin"}

(* RISK_POLICIES; no allowed roles means every role.                       *)
AllowedRoles == [low |-> Role, medium |-> {"operator", "admin"},
                 high |-> {"admin"}, prohibited |-> {}]
Confirmed == {"medium", "high"}
BlockedProhibited == {"prohibited"}   \* mutant: a high risk may be confirmed
BlockedByDefault == {"high", "prohibited"}

(* Path classes: "tmp" SAFE_TEMP_DIRS; "log" inside SAFE_SCAN_DIRS and     *)
(* under a core path (/var/log, /etc/yum.repos.d); "app" the rest of       *)
(* SAFE_SCAN_DIRS; "core" other CORE_SYSTEM_PATHS; "other" anything else.  *)
Path == {"tmp", "log", "app", "core", "other"}
TempSafe == {"tmp"}
ScanSafe == {"tmp", "log", "app"}
CorePath == {"log", "core"}

(* Word classes: "config" 修改配置, chmod, chown (which also count as        *)
(* destructive); "account" user, 用户; "stop" stop, 停止安全服务; "disable"    *)
(* 停止, disable, 关闭; "delete" rm, delete, remove, write, modify, 删除 ...   *)
Word == {"restart", "clean", "kill", "config", "account", "stop", "disable", "delete"}
MediumWords == {"restart", "clean", "kill"}
HighWords == {"config", "account", "stop"}
StopWords == {"stop", "disable"}
DestructiveWords == {"delete", "clean", "config"}

Service == {"none", "allowed", "protected", "other"}

\* The pattern list the joined text matches, the prohibited one first
Command == {"none", "dangerous", "prohibited"}

(* What the guard is asked: the tool, the facts about query and arguments, *)
(* and who asks (the role bound by the server, the user_role argument, the *)
(* kind of user_id).                                                       *)
Facts == [types : {"ok", "digits", "bad"}, safeChars : BOOLEAN,
          pid : {"none", "protected", "self", "ordinary"}, namesProtected : BOOLEAN,
          target : Path \cup {"none"}, mentioned : SUBSET Path, service : Service,
          words : SUBSET Word, command : Command, dryRun : BOOLEAN]
Caller == [trusted : Role \cup {"none"}, claimed : Role \cup {"none"},
           user : {"admin", "operator", "other"}, approved : BOOLEAN]

(* What registrations declare (ToolDefinition.risk_level): "low" where they *)
(* say nothing, one of the four levels where they do.                       *)
ASSUME DeclaredAssumption == \A t \in DOMAIN Declared : Declared[t] \in Risk

Registered == DOMAIN Declared

\* _check_argument_schema, of values already coerced
SchemaOk(tool, f) == tool \in Registered => f.types = "ok"

\* _check_process_target
ProcessOk(tool, f) ==
  tool = "process.kill" => f.types = "ok" /\ f.pid = "ordinary" /\ ~f.namesProtected

\* _check_dangerous_paths; repo_dir is not one of the argument names it reads
Candidates(tool, f) ==
  f.mentioned \cup (IF tool = "package.repo" THEN {} ELSE {f.target} \ {"none"})
PathOk(tool, f) ==
  /\ "clean" \in f.words => Candidates(tool, f) \subseteq TempSafe
  /\ f.words \cap DestructiveWords # {} => Candidates(tool, f) \cap CorePath = {}

\* mutant: a path outside the list counts as inside
ScanRiskAnywhere(tool, f) ==
  IF tool \in ReadScanTools /\ f.target \notin ScanSafe \cup {"other"} THEN "medium" ELSE "low"

\* _scan_path_risk
ScanRisk(tool, f) ==
  IF tool \in ReadScanTools
     /\ f.target \notin ScanSafe \cup (IF tool = "package.repo" THEN {"none"} ELSE {})
  THEN "medium" ELSE "low"

ToolRisk(tool) ==
  IF tool \in MediumRiskTools THEN "medium"
  ELSE IF tool \in HighRiskTools THEN "high"
  ELSE IF tool \in LowRiskTools THEN "low"
  ELSE IF tool \in Registered THEN Declared[tool] ELSE "high"

\* mutant: the medium words looked for first
TextRiskMediumFirst(f) ==
  IF f.words \cap MediumWords # {} THEN "medium"
  ELSE IF f.words \cap HighWords # {} THEN "high" ELSE "low"

TextRisk(f) ==
  IF \/ f.words \cap HighWords # {}
     \/ f.service = "protected" /\ f.words \cap StopWords # {}
     \/ "restart" \in f.words /\ f.service \notin {"none", "allowed"}
  THEN "high"
  ELSE IF f.words \cap MediumWords # {} THEN "medium" ELSE "low"

\* _calculate_risk
CalculateRisk(tool, f) == MaxRisk(MaxRisk(ToolRisk(tool), TextRisk(f)), ScanRisk(tool, f))

\* The role the caller is taken to have (also _role_from_user_id)
ResolveRole(c) ==
  IF c.trusted # "none" THEN c.trusted
  ELSE IF c.claimed # "none" THEN c.claimed
  ELSE IF c.user \in {"admin", "operator"} THEN c.user ELSE "viewer"

\* mutant: waived for the deletion too
WaivedInTmp(tool, f) == tool = "temp.clean" /\ f.target \in TempSafe

\* _confirmation_waived_by_preview
WaivedByPreview(tool, f) == tool = "temp.clean" /\ f.dryRun /\ f.target \in TempSafe

\* The names of the failed checks
FailedChecks(tool, f, c, risk, confirm) ==
  {n \in {"tool_whitelist", "parameter_schema", "parameter_values", "process_target",
          "dangerous_path", "dangerous_command", "user_permission",
          "secondary_confirmation"} :
     \/ n = "tool_whitelist" /\ tool \notin Registered
     \/ n = "parameter_schema" /\ ~SchemaOk(tool, f)
     \/ n = "parameter_values" /\ ~f.safeChars
     \/ n = "process_target" /\ ~ProcessOk(tool, f)
     \/ n = "dangerous_path" /\ ~PathOk(tool, f)
     \/ n = "dangerous_command" /\ f.command # "none"
     \/ n = "user_permission" /\ ResolveRole(c) \notin AllowedRoles[risk]
     \/ n = "secondary_confirmation" /\ confirm /\ ~c.approved}

\* SecurityGuard.check
Check(tool, f, c) ==
  LET risk    == IF f.command = "prohibited" THEN "prohibited" ELSE CalculateRisk(tool, f)
      confirm == risk \in Confirmed /\ ~WaivedByPreview(tool, f)
      failed  == FailedChecks(tool, f, c, risk, confirm)
  IN  [risk    |-> risk,
       blocked |-> failed # {} \/ risk \in BlockedByDefault,
       confirm |-> confirm,
       failed  |-> failed]

Decision == [risk : Risk, blocked : BOOLEAN, confirm : BOOLEAN, failed : SUBSET STRING]
=============================================================================
