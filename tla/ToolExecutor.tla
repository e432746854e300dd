---------------------------- MODULE ToolExecutor ----------------------------
(***************************************************************************)
(* ToolExecutor.execute (backend/agent/executor.py): one request's chain   *)
(* of tool calls.  Every step resolves its ${id...} reference against the  *)
(* outputs of earlier steps, is checked by SecurityGuard, and is audited   *)
(* before and after its tool runs; a block or a failure ends the chain.    *)
(* An append to the audit log may fail: fail-closed it raises out of       *)
(* execute, otherwise the event is lost.  evaluate_security, the preview   *)
(* that runs nothing, is the operator Evaluate.                            *)
(***************************************************************************)
EXTENDS SecurityGuard, Execution

CONSTANTS Id,           \* step ids
          Template,     \* the steps plans are made of
          MaxSteps,     \* bound on the length of a plan
          Asker,        \* the callers
          Output,       \* what tools return
          FailClosed,   \* AGENT_AUDIT_FAIL_CLOSED
          Traced        \* whether the caller passed a trace_id

ASSUME FailClosedAssumption == FailClosed \in BOOLEAN
ASSUME TracedAssumption == Traced \in BOOLEAN
ASSUME AskerAssumption == Asker \subseteq Caller

(* PlanStep: "whole" is a value that is one reference, which resolution    *)
(* replaces; "partial" has text around it, which resolution leaves alone.  *)
Step == [id : Id, tool : STRING, facts : Facts,
         form : {"none", "whole", "partial"}, ref : Id]
ASSUME TemplateAssumption == Template \subseteq Step

Plan == UNION {[1..n -> Template] : n \in 0..MaxSteps}

(* What a reference reads out of an earlier result: no such path, or a pid *)
(* that is an integer, a numeral, or some other text.                      *)
Value == [types : {"ok", "digits", "bad"}, pid : {"protected", "self", "ordinary"}]
ASSUME OutputAssumption == Output \subseteq [found : BOOLEAN, value : Value, failed : BOOLEAN]

VARIABLES pc,          \* where execute is; "raised": an exception left it
          plan, caller,
          i,           \* the step being executed
          args,        \* its resolved and coerced arguments
          outputs,     \* by step id
          results,     \* result_by_tool: the call each key holds; key <<t, n>> is t#n
          decisions,   \* step_securities
          commands,    \* executed_commands: the steps whose commands they are
          ran,         \* the steps the registry was called for, with arguments
          audit,       \* the events stored in the log
          reply

vars == <<pc, plan, caller, i, args, outputs, results, decisions, commands, ran, audit, reply>>

NoFacts == [types |-> "ok", safeChars |-> TRUE, pid |-> "none", namesProtected |-> FALSE,
            target |-> "none", mentioned |-> {}, service |-> "none", words |-> {},
            command |-> "none", dryRun |-> FALSE]
NoReply == [status |-> "none", approvedRequired |-> FALSE, commands |-> <<>>]

Init == /\ pc = "start"
        /\ plan \in Plan /\ caller \in Asker
        /\ i = 1 /\ args = NoFacts
        /\ outputs = <<>> /\ results = <<>>
        /\ decisions = <<>> /\ commands = <<>> /\ ran = <<>>
        /\ audit = <<>> /\ reply = NoReply

-----------------------------------------------------------------------------
\* _duplicate_step_id
DuplicateId(p) == \E j, k \in DOMAIN p : j # k /\ p[j].id = p[k].id

(* _resolve_references: a "partial" reference keeps its $ and its braces,  *)
(* which are no safe characters.                                           *)
Resolvable(s, out) == s.form = "whole" => s.ref \in DOMAIN out /\ out[s.ref].found
Resolved(s, out) ==
  CASE s.form = "none"    -> s.facts
    [] s.form = "partial" -> [s.facts EXCEPT !.safeChars = FALSE]
    [] s.form = "whole"   -> [s.facts EXCEPT !.types = out[s.ref].value.types,
                                             !.pid = out[s.ref].value.pid]

(* _coerce_arguments: a numeral becomes the integer the schema asks for.   *)
Coerced(tool, f) ==
  IF tool \in Registered /\ f.types = "digits" THEN [f EXCEPT !.types = "ok"] ELSE f

\* mutant: the plan's arguments are checked, not the resolved ones
DecidedEarly(s, f) ==
  LET d == Check(s.tool, s.facts, caller)
  IN  [step |-> s.id, tool |-> s.tool, deferred |-> FALSE, risk |-> d.risk,
       blocked |-> d.blocked, confirm |-> d.confirm, failed |-> d.failed]

\* The entry of step_securities for a checked step
Decided(s, f) ==
  LET d == Check(s.tool, f, caller)
  IN  [step |-> s.id, tool |-> s.tool, deferred |-> FALSE, risk |-> d.risk,
       blocked |-> d.blocked, confirm |-> d.confirm, failed |-> d.failed]

\* _reference_block_decision, _deferred_decision and _reject_duplicate_step
Refused(s) == [step |-> s.id, tool |-> s.tool, deferred |-> FALSE, risk |-> "low",
               blocked |-> TRUE, confirm |-> FALSE, failed |-> {"reference_resolution"}]
Deferred(s) == [Refused(s) EXCEPT !.deferred = TRUE, !.blocked = FALSE, !.failed = {}]
Duplicated(p) ==
  LET k == CHOOSE k \in DOMAIN p : /\ \E j \in 1..(k - 1) : p[j].id = p[k].id
                                   /\ ~DuplicateId(SubSeq(p, 1, k - 1))
  IN  [Refused(p[k]) EXCEPT !.tool = "", !.failed = {"step_id_unique"}]

\* mutant: the preview coerces nothing
EvaluatedRaw(p) == [k \in DOMAIN p |-> IF p[k].form # "none" THEN Deferred(p[k])
                                       ELSE Decided(p[k], p[k].facts)]

\* evaluate_security: the decisions it aggregates, and whether they block
Evaluated(p) == [k \in DOMAIN p |-> IF p[k].form # "none" THEN Deferred(p[k])
                                    ELSE Decided(p[k], Coerced(p[k].tool, p[k].facts))]
EvaluateBlocks(p) == \E k \in DOMAIN p : Evaluated(p)[k].blocked

-----------------------------------------------------------------------------
StoreSwallows(e, then) == audit' \in {audit, Append(audit, e)} /\ pc' = then   \* mutant: never raises

(* AuditLogger.event: stored, lost, or raised through execute.             *)
Store(e, then) ==
  \/ audit' = Append(audit, e) /\ pc' = then
  \/ UNCHANGED audit /\ pc' = IF FailClosed THEN "raised" ELSE then

\* The events guarded by `if trace_id`
StoreIfTraced(e, then) == IF Traced THEN Store(e, then) ELSE UNCHANGED audit /\ pc' = then

Event(stage, status, s) == [stage |-> stage, status |-> status, step |-> s]

Start ==
  /\ pc = "start"
  /\ IF DuplicateId(plan)
     THEN pc' = "judged" /\ decisions' = <<Duplicated(plan)>>
     ELSE pc' = (IF plan = <<>> THEN "closing" ELSE "step") /\ UNCHANGED decisions
  /\ UNCHANGED <<plan, caller, i, args, outputs, results, commands, ran, audit, reply>>

\* Resolve, coerce and check step i
Judge ==
  /\ pc = "step"
  /\ LET s == plan[i] IN
     IF Resolvable(s, outputs)
     THEN /\ args' = Coerced(s.tool, Resolved(s, outputs))
          /\ decisions' = Append(decisions, Decided(s, args'))
     ELSE /\ decisions' = Append(decisions, Refused(s))
          /\ UNCHANGED args
  /\ pc' = "judged"
  /\ UNCHANGED <<plan, caller, i, outputs, results, commands, ran, audit, reply>>

LastBlocked == decisions # <<>> /\ decisions[Len(decisions)].blocked

\* _audit_step_security
AuditDecision ==
  /\ pc = "judged"
  /\ LET d == decisions[Len(decisions)] IN
     StoreIfTraced(Event("security_validation", IF d.blocked THEN "blocked" ELSE "passed", d.step),
                   IF d.blocked THEN "closing" ELSE "cleared")
  /\ UNCHANGED <<plan, caller, i, args, outputs, results, decisions, commands, ran, reply>>

AuditStart ==
  /\ pc = "cleared"
  /\ StoreIfTraced(Event("tool_call", "started", plan[i].id), "calling")
  /\ UNCHANGED <<plan, caller, i, args, outputs, results, decisions, commands, ran, reply>>

Put(f, k, v) == [x \in DOMAIN f \cup {k} |-> IF x = k THEN v ELSE f[x]]

FreeKeyFirst(res, tool) == <<tool, 1>>   \* mutant: no #n

\* _store_result: the bare tool name, or the next free #n
FreeKey(res, tool) ==
  LET n == CHOOSE n \in 1..(Cardinality(DOMAIN res) + 1) :
             /\ <<tool, n>> \notin DOMAIN res
             /\ \A m \in 1..(n - 1) : <<tool, m>> \in DOMAIN res
  IN  <<tool, n>>

(* The registry runs the tool: it returns, possibly a failure, or raises.  *)
Invoked == /\ pc = "calling"
           /\ ran' = Append(ran, [tool |-> plan[i].tool, id |-> plan[i].id, facts |-> args])

Call ==
  /\ Invoked
  /\ \E o \in Output : outputs' = Put(outputs, plan[i].id, o)
  /\ results' = Put(results, FreeKey(results, plan[i].tool), plan[i].id)
  /\ commands' = Append(commands, plan[i].id)
  /\ pc' = "called"
  /\ UNCHANGED <<plan, caller, i, args, decisions, audit, reply>>

CallRaises ==
  /\ Invoked
  /\ pc' = "raised"
  /\ UNCHANGED <<plan, caller, i, args, outputs, results, decisions, commands, audit, reply>>

\* _tool_failure of the step just run
Failure == plan[i].id \in DOMAIN outputs /\ outputs[plan[i].id].failed

\* mutant: a failure halts nothing
AuditDoneGoesOn ==
  /\ pc = "called"
  /\ StoreIfTraced(Event("tool_call", IF Failure THEN "failed" ELSE "completed", plan[i].id),
                   IF i = Len(plan) THEN "closing" ELSE "step")
  /\ i' = IF pc' = "step" THEN i + 1 ELSE i
  /\ UNCHANGED <<plan, caller, args, outputs, results, decisions, commands, ran, reply>>

\* A failure halts the chain; so does its last step
AuditDone ==
  /\ pc = "called"
  /\ StoreIfTraced(Event("tool_call", IF Failure THEN "failed" ELSE "completed", plan[i].id),
                   IF Failure \/ i = Len(plan) THEN "closing" ELSE "step")
  /\ i' = IF pc' = "step" THEN i + 1 ELSE i
  /\ UNCHANGED <<plan, caller, args, outputs, results, decisions, commands, ran, reply>>

(* How the chain ended; a high risk is not worth asking for approval.      *)
ChainStatus ==
  IF LastBlocked
  THEN LET d == decisions[Len(decisions)] IN
       IF d.confirm /\ ~caller.approved /\ d.risk # "high" THEN "approval_required" ELSE "blocked"
  ELSE IF plan # <<>> /\ Failure THEN "failed" ELSE "success"

\* AuditLogger.write, then the ExecutionResult
Close ==
  /\ pc = "closing"
  /\ Store([stage |-> "execution", status |-> ChainStatus, commands |-> commands], "returned")
  /\ reply' = IF pc' = "returned"
              THEN [status |-> ChainStatus, commands |-> commands,
                    approvedRequired |-> /\ LastBlocked /\ ~caller.approved
                                         /\ decisions[Len(decisions)].confirm]
              ELSE reply
  /\ UNCHANGED <<plan, caller, i, args, outputs, results, decisions, commands, ran>>

Next == Start \/ Judge \/ AuditDecision \/ AuditStart \/ Call \/ CallRaises
        \/ AuditDone \/ Close

Spec == Init /\ [][Next]_vars

-----------------------------------------------------------------------------
DecisionType == [step : Id, tool : STRING, deferred : BOOLEAN, risk : Risk,
                 blocked : BOOLEAN, confirm : BOOLEAN, failed : SUBSET STRING]
EventType ==
  [stage : {"security_validation", "tool_call"}, step : Id,
   status : {"blocked", "passed", "started", "failed", "completed"}]
  \cup [stage : {"execution"}, commands : Seq(Id),
       status : {"blocked", "approval_required", "failed", "success"}]

TypeOK ==
  /\ pc \in {"start", "step", "judged", "cleared", "calling", "called", "closing",
             "returned", "raised"}
  /\ plan \in Plan /\ caller \in Asker
  /\ i \in 1..(Len(plan) + 1) /\ args \in Facts
  /\ DOMAIN outputs \subseteq Id /\ \A d \in DOMAIN outputs : outputs[d] \in Output
  /\ \A k \in DOMAIN results : k \in STRING \X Nat /\ results[k] \in Id
  /\ decisions \in Seq(DecisionType)
  /\ commands \in Seq(Id)
  /\ ran \in Seq([tool : STRING, id : Id, facts : Facts])
  /\ audit \in Seq(EventType)
  /\ reply \in [status : {"none", "blocked", "approval_required", "failed", "success"},
                approvedRequired : BOOLEAN, commands : Seq(Id)]

(* Fail-closed, no tool runs before the log holds the decision that passed *)
(* it and the start of its call (executor.py 120, 138-147).                *)
AuditedBeforeRun ==
  FailClosed /\ Traced =>
    \A k \in DOMAIN ran :
      \A e \in {Event("security_validation", "passed", ran[k].id),
                Event("tool_call", "started", ran[k].id)} :
        \E n \in DOMAIN audit : audit[n] = e

(* What runs is what the guard cleared: the arguments a tool is called with*)
(* pass the check themselves, references and numerals included.            *)
OnlyCleared ==
  \A k \in DOMAIN ran : ~Check(ran[k].tool, ran[k].facts, caller).blocked

(* A step that would change the system if it ran                          *)
Changes(s) ==
  /\ s.tool \in MediumRiskTools \cup HighRiskTools
  /\ ~(s.tool = "temp.clean" /\ s.facts.dryRun)

(* A request without approval changes nothing, whatever its plan says: the *)
(* tools that operate run only to preview.  So the client that is asked to *)
(* confirm, and sends the request again, repeats no effect.                *)
UnapprovedChangesNothing ==
  caller.approved \/ \A k \in DOMAIN ran : ~Changes(ran[k])

(* What execute returns is an end Execution promises to its callers, with  *)
(* a result under a key of its own for every call: the n-th call of t is   *)
(* under t#n (executor.py 193-209, 300-310, 368-382).                      *)
Promised ==
  pc = "returned" =>
    LET p == [k \in DOMAIN plan |-> [tool |-> plan[k].tool, changes |-> Changes(plan[k])]]
        n == Len(ran)
    IN  /\ [status |-> reply.status, ran |-> n, asks |-> reply.approvedRequired]
             \in Ends(p, caller.approved)
        /\ DOMAIN results = ResultKeys(p, n)
        /\ \A k \in 1..n :
             \E key \in DOMAIN results : key[1] = plan[k].tool /\ results[key] = plan[k].id

(* The preview and the run agree: a plan that ran to its end was not shown *)
(* as blocked, and a plan with no reference is stopped only if it was.     *)
PreviewAgrees ==
  /\ reply.status = "success" => ~EvaluateBlocks(plan)
  /\ reply.status \in {"blocked", "approval_required"} =>
       \/ EvaluateBlocks(plan)
       \/ DuplicateId(plan)
       \/ \E k \in DOMAIN plan : plan[k].form # "none"

(* Fail-closed, a request that returned has told the log all of it and     *)
(* nothing else: the calls in their order with how each ended, the step    *)
(* that was blocked, and at the end the status and the commands the client *)
(* is given, one for every call (executor.py 122, 172).                    *)
ReplyAudited ==
  FailClosed /\ Traced /\ pc = "returned" =>
    LET stopped == reply.status \in Stopped
        last    == Len(audit)
    IN  /\ \A k \in DOMAIN ran :
             /\ audit[3 * k - 2] = Event("security_validation", "passed", ran[k].id)
             /\ audit[3 * k - 1] = Event("tool_call", "started", ran[k].id)
             /\ audit[3 * k] = Event("tool_call", IF k = Len(ran) /\ reply.status = "failed"
                                                  THEN "failed" ELSE "completed", ran[k].id)
        /\ last = 3 * Len(ran) + (IF stopped THEN 2 ELSE 1)
        /\ stopped => /\ audit[last - 1].stage = "security_validation"
                      /\ audit[last - 1].status = "blocked"
        /\ audit[last] = [stage |-> "execution", status |-> reply.status,
                          commands |-> reply.commands]
        /\ Len(reply.commands) = Len(ran)
        /\ \A k \in DOMAIN ran : reply.commands[k] = ran[k].id
=============================================================================
