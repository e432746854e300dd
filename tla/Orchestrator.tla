---------------------------- MODULE Orchestrator ----------------------------
(***************************************************************************)
(* AgentOrchestrator.run (backend/agent/orchestrator.py): one request from *)
(* its plan to its trace_complete, on the single path or through the       *)
(* reasoning loop.  The planner and the model behind it may answer with    *)
(* any plan; the executor ends a plan as Execution promises, or raises.    *)
(***************************************************************************)
EXTENDS Execution

CONSTANTS Step,          \* [tool, changes]: what plans are made of
          ReadOnly,      \* LOW_RISK_TOOLS
          MaxPlan,       \* bound on the length of a plan
          MaxSteps,      \* AGENT_MAX_REASONING_STEPS
          FailClosed     \* AGENT_AUDIT_FAIL_CLOSED

Tool == {s.tool : s \in Step}
ASSUME StepAssumption == \A s \in Step : s.tool \in ReadOnly => s.changes = FALSE
ASSUME StepsAssumption == MaxSteps \in Nat \ {0} /\ MaxPlan \in Nat \ {0}
ASSUME FailClosedAssumption == FailClosed \in BOOLEAN

Plan == UNION {[1..n -> Step] : n \in 1..MaxPlan}
Tools(plan) == {plan[k].tool : k \in DOMAIN plan}

VARIABLES pc, approved,
          plan, current,   \* the first plan, and the one of this round of the loop
          index,           \* of the round
          executed,        \* tool names handed to the executor
          combined,        \* result: for every key, the round that produced it
          end,             \* how the last execution ended
          suggested,       \* the operations kept for the user to confirm
          turn,            \* the session was updated
          runs,            \* every execution: its plan and how it ended
          audit            \* the stages of the trace in the log

vars == <<pc, approved, plan, current, index, executed, combined, end, suggested, turn,
          runs, audit>>

NoEnd == [status |-> "success", ran |-> 0, asks |-> FALSE]

Init == /\ pc = "received" /\ approved \in BOOLEAN
        /\ plan \in Plan /\ current = plan
        /\ index = 1 /\ executed = {} /\ combined = [k \in {} |-> 0]
        /\ end = NoEnd /\ suggested = {} /\ turn = FALSE
        /\ runs = <<>> /\ audit = <<>>

TraceSwallows(stage, then) == audit' \in {audit, Append(audit, stage)} /\ pc' = then   \* mutant: never raises

\* audit.event: stored, or lost, or fail-closed raised out of run
Trace(stage, then) ==
  \/ audit' = Append(audit, stage) /\ pc' = then
  \/ UNCHANGED audit /\ pc' = IF FailClosed THEN "raised" ELSE then

AnyReadOnly(p) == Tools(p) \cap ReadOnly # {}   \* mutant: one is enough

\* _is_read_only of a plan that is never empty
IsReadOnly(p) == Tools(p) \subseteq ReadOnly
Single == approved \/ ~IsReadOnly(plan)
BlockedOnly == end.status = "blocked"   \* mutant: a request for approval goes on
Blocked == end.status \in Stopped

request == <<approved, plan>>
loop == <<current, index, executed, combined, end, suggested, runs>>

Receive == pc = "received" /\ Trace("received_instruction", "decided")
           /\ UNCHANGED <<request, loop, turn>>
Decide == pc = "decided" /\ Trace("llm_decision", "execute") /\ UNCHANGED <<request, loop, turn>>

\* executor.execute, and combined.update of what it returned
Execute ==
  /\ pc = "execute"
  /\ \/ /\ end' \in Ends(current, approved)
        /\ runs' = Append(runs, [plan |-> current, ran |-> end'.ran])
        /\ executed' = executed \cup Tools(current)
        /\ LET keys == ResultKeys(current, end'.ran)
           IN  combined' = [k \in DOMAIN combined \cup keys |->
                              IF k \in keys THEN index ELSE combined[k]]
        /\ pc' = IF Single THEN "perceived" ELSE "scan"
     \/ pc' = "raised" /\ UNCHANGED <<end, runs, executed, combined>>
  /\ UNCHANGED <<request, current, index, suggested, turn, audit>>

\* The two events of _run_single
Perceive == pc = "perceived" /\ Trace("environment_perception", "result")
            /\ UNCHANGED <<request, loop, turn>>
Result == pc = "result" /\ Trace("execution_result", "conclude") /\ UNCHANGED <<request, loop, turn>>

\* scan_injection of the round's results may hit or not; then the round's event
Scan == pc = "scan" /\ (Trace("injection_scan", "reasoned") \/ (pc' = "reasoned" /\ UNCHANGED audit))
        /\ UNCHANGED <<request, loop, turn>>
Reason == pc = "reasoned" /\ Trace("reasoning_step", "next") /\ UNCHANGED <<request, loop, turn>>

PlanNextAgain == Plan   \* mutant: nothing dropped

(* Planner.plan_next: what is left of any answer when the steps whose tool *)
(* was already handed to the executor are dropped; with none left there is *)
(* no next plan.                                                           *)
PlanNext == {p \in Plan : Tools(p) \cap executed = {}}

(* The round ends the loop: blocked, the last one, or plan_next, which may *)
(* always find nothing more to observe, has no plan.                       *)
Leave == /\ pc = "next" /\ pc' = "conclude"
         /\ UNCHANGED <<request, loop, turn, audit>>

Continue ==
  /\ pc = "next" /\ ~Blocked /\ index < MaxSteps
  /\ \E p \in PlanNext :
       IF IsReadOnly(p)
       THEN /\ current' = p /\ index' = index + 1 /\ pc' = "execute"
            /\ UNCHANGED suggested
       ELSE /\ suggested' = suggested \cup (Tools(p) \ ReadOnly)
            /\ pc' = "suggest" /\ UNCHANGED <<current, index>>
  /\ UNCHANGED <<request, executed, combined, end, runs, turn, audit>>

Suggest == pc = "suggest" /\ Trace("suggested_action", "conclude")
           /\ UNCHANGED <<request, loop, turn>>

\* _conclude, and the update of the session
Conclude == /\ pc = "conclude" /\ pc' = "answer" /\ turn' = TRUE
            /\ UNCHANGED <<request, loop, audit>>
Answer == pc = "answer" /\ Trace("final_answer", "complete") /\ UNCHANGED <<request, loop, turn>>
Complete == pc = "complete" /\ Trace("trace_complete", "returned")
            /\ UNCHANGED <<request, loop, turn>>

Next == \/ Receive \/ Decide \/ Execute \/ Perceive \/ Result \/ Scan \/ Reason
        \/ Leave \/ Continue \/ Suggest \/ Conclude \/ Answer \/ Complete

Spec == Init /\ [][Next]_vars
-----------------------------------------------------------------------------
TypeOK ==
  /\ pc \in {"received", "decided", "execute", "perceived", "result", "scan", "reasoned", "next",
             "suggest", "conclude", "answer", "complete", "returned", "raised"}
  /\ approved \in BOOLEAN /\ plan \in Plan /\ current \in Plan
  /\ index \in 1..MaxSteps /\ executed \subseteq Tool
  /\ \A k \in DOMAIN combined : k \in Tool \X Nat /\ combined[k] \in 1..MaxSteps
  /\ end \in [status : Status, ran : Nat, asks : BOOLEAN]
  /\ suggested \subseteq Tool /\ turn \in BOOLEAN
  /\ runs \in Seq([plan : Plan, ran : Nat]) /\ audit \in Seq(STRING)

(* Without approval nothing changes the system, whatever the planner and   *)
(* the model ask for, and the loop hands the executor read-only tools only *)
(* (orchestrator.py 104, 237-247).                                         *)
LoopReadOnly ==
  ~approved => \A n \in DOMAIN runs :
                 /\ \A k \in 1..runs[n].ran : ~runs[n].plan[k].changes
                 /\ Len(runs) > 1 => Tools(runs[n].plan) \subseteq ReadOnly

(* No result is lost: what any round's tools returned is still under their *)
(* names in the result of the request (orchestrator.py 208).               *)
KeepsResults ==
  \A n \in DOMAIN runs :
    \A k \in ResultKeys(runs[n].plan, runs[n].ran) : combined[k] = n

(* Once a round is blocked nothing runs any more, and nothing more than    *)
(* the configured number of rounds.                                        *)
BlockedStops == [][runs' # runs => end.status \notin Stopped /\ Len(runs') <= MaxSteps]_vars

(* Fail-closed, a request that returned left a whole trail: one reasoning  *)
(* step for every round, its suggestions, and trace_complete at the end;   *)
(* and a trail that is complete belongs to a session that was updated.     *)
Count(stage) == Cardinality({n \in DOMAIN audit : audit[n] = stage})
TrailComplete ==
  FailClosed =>
    /\ pc = "returned" =>
         /\ audit[1] = "received_instruction" /\ audit[2] = "llm_decision"
         /\ audit[Len(audit)] = "trace_complete" /\ audit[Len(audit) - 1] = "final_answer"
         /\ Count("reasoning_step") = IF Single THEN 0 ELSE Len(runs)
         /\ Count("suggested_action") = IF suggested = {} THEN 0 ELSE 1
    /\ Count("trace_complete") > 0 => pc = "returned" /\ turn
=============================================================================
