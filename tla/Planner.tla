------------------------------- MODULE Planner -------------------------------
(***************************************************************************)
(* Planner (backend/agent/planner.py) and what LLMClient (llm_client.py)   *)
(* makes of the model's answer: from what the query says, the entities of  *)
(* the session and the answer to the steps the executor is given.  A query *)
(* is abstracted to what the keyword lists and patterns find in it; the    *)
(* client's own context is empty, as the chat page sends it.               *)
(***************************************************************************)
EXTENDS Naturals, Sequences, FiniteSets

CONSTANTS None,
          Restartable,  \* the service names _extract_service_name knows
          TempIn        \* by path: the temp directory its text contains, or None

\* The tools, in the order the rules look for them
RuleOrder == <<"process.kill", "temp.clean", "service.restart", "system", "process",
               "network.config", "network.diagnostics", "network", "log", "service",
               "package.repo", "disk.top_dirs", "disk.large_files", "disk", "auth",
               "firewall", "privilege">>
AllowedTools == {RuleOrder[k] : k \in DOMAIN RuleOrder}

(* asks: the tools whose words the query contains; refers: the follow-up   *)
(* words ("that process", "it", "go on"); pid, service, path: what it      *)
(* names.  An entity is what the session remembers of each.                *)
Query == [asks : SUBSET AllowedTools, refers : SUBSET {"process", "service", "log", "path"},
          pid : Nat \cup {None}, service : STRING, path : STRING]
NoEntity == [pid |-> None, service |-> None, path |-> None]

\* Arguments of a call; leak: the conversation itself is among them
NoArgs == [pid |-> None, service |-> None, unit |-> None, path |-> None, leak |-> FALSE]

\* The first of the candidates there is: every argument is filled if missing
First(candidates) ==
  LET there == {k \in DOMAIN candidates : candidates[k] # None}
  IN  IF there = {} THEN None
      ELSE candidates[CHOOSE k \in there : \A j \in there : k <= j]
When(condition, v) == IF condition THEN v ELSE None

(* A loop that keeps some elements of a sequence: those at the places, in  *)
(* their order.                                                            *)
Picked(s, places) ==
  [n \in 1..Cardinality(places) |->
     s[CHOOSE k \in places : Cardinality({j \in places : j <= k}) = n]]
Only(tools, S) == Picked(tools, {k \in DOMAIN tools : tools[k] \in S})

ServiceIn(q) == When(q.service \in Restartable, q.service)   \* _extract_service_name

-----------------------------------------------------------------------------
\* A tool's words are not counted when a tool before it took them
Displaced(t) == CASE t = "process.kill"        -> {"process"}
                  [] t = "service.restart"     -> {"service"}
                  [] t = "network.config"      -> {"network.diagnostics", "network"}
                  [] t = "network.diagnostics" -> {"network"}
                  [] OTHER                     -> {}

(* The _is_..._followup tests: a word that refers to an entity of the      *)
(* session, when there is one.                                             *)
Follows(kind, q, known) == kind \in q.refers /\ known # None

Selected(q, e) ==
  LET asked == q.asks \ UNION {Displaced(t) : t \in q.asks}
      logs  == asked \cup {t \in {"log"} : Follows("log", q, e.service)}
      all   == logs \cup {t \in {"process", "service", "disk.top_dirs"} :
                            \/ t = "process" /\ Follows("process", q, e.pid)
                               /\ "process.kill" \notin asked
                            \/ t = "service" /\ Follows("service", q, e.service)
                               /\ "log" \notin logs
                            \/ t = "disk.top_dirs" /\ Follows("path", q, e.path)}
  IN  IF all = {} THEN {"system", "process"} ELSE all

\* mutant: the session before the text
RuleArgsSessionFirst(q, e, T) ==
  [pid |-> First(<<When(T \cap {"process", "process.kill"} # {}, e.pid),
                   When("process.kill" \in T, q.pid)>>),
   service |-> First(<<When(T \cap {"service.restart", "service"} # {}, e.service),
                       When("service.restart" \in T, ServiceIn(q))>>),
   unit |-> When("log" \in T /\ "log" \in q.refers, e.service),
   path |-> When("temp.clean" \in T, TempIn[q.path]), leak |-> FALSE]

(* The arguments all the tools of a rule plan share.  For disk.top_dirs the*)
(* session's path comes before the text's.                                 *)
RuleArgs(q, e, T) ==
  [pid     |-> First(<<When("process.kill" \in T, q.pid),
                       When(T \cap {"process", "process.kill"} # {}, e.pid)>>),
   service |-> First(<<When("service.restart" \in T, ServiceIn(q)),
                       When(T \cap {"service.restart", "service"} # {}, e.service)>>),
   unit    |-> When("log" \in T /\ "log" \in q.refers, e.service),
   path    |-> First(<<When("temp.clean" \in T, TempIn[q.path]),
                       When("disk.large_files" \in T, q.path),
                       When("disk.top_dirs" \in T /\ "path" \in q.refers, e.path),
                       When("disk.top_dirs" \in T, q.path)>>),
   leak    |-> FALSE]

\* Plan.execution_steps of a list of tools that share their arguments
Flat(tools, args) ==
  [k \in DOMAIN tools |-> [id |-> k, tool |-> tools[k], ref |-> 0, args |-> args]]

RulePlan(q, e) ==
  LET tools == Only(RuleOrder, Selected(q, e))
      args  == RuleArgs(q, e, Selected(q, e))
  IN  [source |-> "rules", args |-> args, steps |-> Flat(tools, args)]

-----------------------------------------------------------------------------
(* The model's answer: "silent" (no reply, no JSON, nothing in it), a list *)
(* of steps and a list of tools that may hold anything, or "misshapen":    *)
(* JSON of other types than the parser takes for granted, which raises.    *)
(* Step ids are numbers, k for "sk"; 0 for a missing id or reference.      *)
IsList(s) == s \in Seq({s[k] : k \in DOMAIN s})
IsStep(s) == /\ DOMAIN s = {"id", "tool", "ref", "args"} /\ s.id \in Nat
             /\ DOMAIN s.args = DOMAIN NoArgs
Silent == [kind |-> "silent", steps |-> <<>>, tools |-> <<>>, args |-> NoArgs]

Known(steps) == Picked(steps, {k \in DOMAIN steps : steps[k].tool \in AllowedTools})
DistinctIds(steps) == \A j, k \in DOMAIN steps : steps[j].id = steps[k].id => j = k

\* mutant: numbered after the unknown tools were dropped
ParseStepsRenumbered(raw) ==
  LET steps == [k \in DOMAIN Known(raw) |->
                  [Known(raw)[k] EXCEPT !.id = IF @ = 0 THEN k ELSE @]]
  IN  IF DistinctIds(steps) THEN steps ELSE <<>>

(* _parse_steps: a step without id is numbered by its place in the answer; *)
(* two of one id, and no step is used.                                     *)
ParseSteps(raw) ==
  LET steps == Known([k \in DOMAIN raw |-> [raw[k] EXCEPT !.id = IF @ = 0 THEN k ELSE @]])
  IN  IF DistinctIds(steps) THEN steps ELSE <<>>

\* analyze: with no steps and no tools left there is no decision
Tools(answer) == Only(answer.tools, AllowedTools)
NoDecision(answer) == ParseSteps(answer.steps) = <<>> /\ Tools(answer) = <<>>

\* _enrich_arguments, for the tools one after the other
PathFor(q, t) == IF t = "temp.clean" THEN TempIn[q.path]
                 ELSE When(t \in {"disk.large_files", "disk.top_dirs"}, q.path)
Enriched(q, tools, args) ==
  [args EXCEPT !.path = First(<<@>> \o [k \in DOMAIN tools |-> PathFor(q, tools[k])])]

\* list(dict.fromkeys(tools))
Once(tools) == Picked(tools, {k \in DOMAIN tools : \A j \in 1..(k - 1) : tools[j] # tools[k]})

ModelPlan(q, answer) ==
  LET steps == ParseSteps(answer.steps)
      args  == Enriched(q, Tools(answer), answer.args)
  IN  IF steps # <<>>
      THEN [source |-> "llm", args |-> NoArgs,
            steps |-> [k \in DOMAIN steps |->
                         [steps[k] EXCEPT !.args = Enriched(q, <<steps[k].tool>>, @)]]]
      ELSE [source |-> "llm", args |-> args, steps |-> Flat(Once(Tools(answer)), args)]

\* Planner.plan
PlanOf(q, e, answer) == IF NoDecision(answer) THEN RulePlan(q, e) ELSE ModelPlan(q, answer)

-----------------------------------------------------------------------------
\* mutant: looks whether the service tool has run
RuleNextServiceOnce(conversation, executed, abnormal) ==
  IF abnormal /\ "service" \notin executed
  THEN Flat(<<"log">>, [NoArgs EXCEPT !.leak = conversation]) ELSE <<>>

(* _rule_next: a service found failed or inactive asks for its log, with   *)
(* the whole context for arguments, the conversation included.             *)
RuleNext(conversation, executed, abnormal) ==
  IF abnormal /\ "log" \notin executed
  THEN Flat(<<"log">>, [NoArgs EXCEPT !.leak = conversation]) ELSE <<>>

\* plan_next: the steps of the next plan, none if there is none
PlanNext(conversation, executed, abnormal, answer) ==
  LET steps == ParseSteps(answer.steps)
  IN  IF NoDecision(answer) THEN RuleNext(conversation, executed, abnormal)
      ELSE IF steps # <<>> THEN Picked(steps, {k \in DOMAIN steps : steps[k].tool \notin executed})
      ELSE Flat(Once(Only(Tools(answer), AllowedTools \ executed)), answer.args)
=============================================================================
