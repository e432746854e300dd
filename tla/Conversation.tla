---------------------------- MODULE Conversation ----------------------------
(***************************************************************************)
(* A client and the agent in a conversation: AgentOrchestrator.run         *)
(* (orchestrator.py) from the session it reads, over the plan, the guarded *)
(* steps, the rounds of the loop and the conclusion, to the session it     *)
(* writes.  Requests of one session may be under way together.  The audit  *)
(* trail is in Orchestrator, the store in SessionStore, the chain of steps *)
(* in ToolExecutor; here is what is said, meant and done.                  *)
(***************************************************************************)
EXTENDS SecurityGuard, Planner

CONSTANTS Request,      \* requests, in the order the client sends them
          Queries,      \* the queries it may send
          Answer,       \* what the model may answer, Misshapen among them
          Misshapen,
          Pids,         \* the processes `process` may find on top
          PidClass, PathClass,   \* what the guard sees in a pid, in a path
          Cwd,          \* where the agent runs: disk tools look there by default
          MaxRounds     \* AGENT_MAX_REASONING_STEPS

ASSUME RequestAssumption == Request \subseteq Nat /\ MaxRounds \in Nat \ {0}
(* What is not misshapen is two lists (analyze, _parse_steps).             *)
ASSUME AnswerAssumption ==
  /\ Silent \in Answer /\ Misshapen \in Answer
  /\ \A a \in Answer : IsList(a.steps) /\ IsList(a.tools) /\ \A k \in DOMAIN a.steps : IsStep(a.steps[k])
ASSUME QueryAssumption == \A q \in Queries : q.asks \subseteq AllowedTools
ASSUME ToolAssumption == AllowedTools \subseteq Registered   \* build_registry
ASSUME NameAssumption == None \notin Restartable

VARIABLES model,      \* whether a model is configured
          sessions,   \* by id, which is that of the request it was made for
          held,       \* the session id of the client's last reply
          pending,    \* the last request answered with approved_required
          req         \* the requests

chatVars == <<model, sessions, held, pending, req>>

NoRequest == 0
NoPending == [query |-> None, operations |-> {}, left |-> NoEntity, rules |-> FALSE]
NoPlan == [source |-> "none", args |-> NoArgs, steps |-> <<>>]
Fresh == [pc |-> "new", query |-> None, approved |-> FALSE, sid |-> NoRequest,
          conversation |-> FALSE, plan |-> NoPlan, current |-> <<>>, answers |-> <<>>,
          k |-> 1, round |-> 1, outputs |-> <<>>, executed |-> {}, ran |-> <<>>,
          found |-> NoEntity, abnormal |-> FALSE, blocked |-> FALSE, asks |-> FALSE]

ChatInit == /\ model \in BOOLEAN
            /\ sessions = [s \in {} |-> NoEntity] /\ held = NoRequest
            /\ pending = NoPending
            /\ req = [r \in Request |-> Fresh]

ToolsOf(steps) == {steps[k].tool : k \in DOMAIN steps}
ReadOnly(steps) == ToolsOf(steps) \subseteq LowRiskTools
Target(x) == CASE x.tool = "process.kill"    -> x.args.pid
               [] x.tool = "service.restart" -> x.args.service
               [] x.tool = "temp.clean"      -> x.args.path
Operations(steps) == {[tool |-> s.tool, target |-> Target(s)] :
                        s \in {steps[k] : k \in {j \in DOMAIN steps :
                                                   steps[j].tool \notin LowRiskTools}}}
Loops(q) == ~q.approved /\ ReadOnly(q.plan.steps)

\* A model that is not configured is never asked
Answers == IF model THEN Answer ELSE {Silent}

(* resolve_session_id, context, plan: the session is read once, before the *)
(* model is asked.                                                         *)
Begin(r, query, approved) ==
  /\ req[r].pc = "new" /\ \A q \in Request : q < r => req[q].pc # "new"
  /\ LET live == held \in DOMAIN sessions
         seen == IF live THEN sessions[held] ELSE NoEntity
         sid  == IF live THEN held ELSE r
     IN  \E a \in Answers :
           IF a = Misshapen THEN req' = [req EXCEPT ![r] = [Fresh EXCEPT !.pc = "raised"]]
           ELSE LET plan == PlanOf(query, seen, a)
                IN  req' = [req EXCEPT ![r] =
                              [Fresh EXCEPT !.pc = "execute", !.query = query,
                                            !.approved = approved, !.sid = sid,
                                            !.conversation = live, !.plan = plan,
                                            !.current = plan.steps, !.answers = <<a>>]]
  /\ UNCHANGED <<model, sessions, held, pending>>

Ask(r) == \E query \in Queries : Begin(r, query, FALSE)

\* The client ticks the confirmation and sends the same query again
Confirm(r) == pending.query # None /\ Begin(r, pending.query, TRUE)

-----------------------------------------------------------------------------
WordsOf(query) == {w \in Word : \/ w = "kill" /\ "process.kill" \in query.asks
                                \/ w = "clean" /\ "temp.clean" \in query.asks
                                \/ w = "restart" /\ "service.restart" \in query.asks}

(* What the guard sees of a step (executor.py 106-119); a required argument*)
(* that is missing does not fit the schema.                                *)
FactsOf(query, tool, args) ==
  [types |-> IF \/ tool = "process.kill" /\ args.pid = None
                \/ tool = "service.restart" /\ args.service = None
                \/ tool = "temp.clean" /\ args.path = None
             THEN "bad" ELSE "ok",
   safeChars |-> ~args.leak, namesProtected |-> FALSE,
   pid |-> IF args.pid = None THEN "none" ELSE PidClass[args.pid],
   target |-> PathClass[args.path], mentioned |-> {PathClass[query.path]} \ {"none"},
   service |-> IF args.service = None THEN "none"
               ELSE IF args.service \in Restartable THEN "allowed" ELSE "other",
   words |-> WordsOf(query), command |-> "none", dryRun |-> FALSE]

ClientOf(q) == [trusted |-> "operator", claimed |-> "none", user |-> "other",
                approved |-> q.approved]

(* The entities in what a tool returns: the process looked at or the one   *)
(* on top, the service restarted, the directory looked into.               *)
Found(tool, args) ==
  CASE tool = "process" ->
         {[NoEntity EXCEPT !.pid = p] : p \in IF args.pid = None THEN Pids ELSE {None, args.pid}}
    [] tool = "service.restart" -> {[NoEntity EXCEPT !.service = args.service]}
    [] tool \in {"disk", "disk.large_files", "disk.top_dirs", "temp.clean"} ->
         {[NoEntity EXCEPT !.path = First(<<args.path, Cwd>>)]}
    [] OTHER -> {NoEntity}

Merged(e, f) == [key \in DOMAIN e |-> First(<<f[key], e[key]>>)]

StepOf(q) == q.current[q.k]
Resolves(q) == StepOf(q).ref # 0 => /\ StepOf(q).ref \in DOMAIN q.outputs
                                    /\ q.outputs[StepOf(q).ref].pid # None
ArgsOf(q) == IF StepOf(q).ref = 0 THEN StepOf(q).args
             ELSE [StepOf(q).args EXCEPT !.pid = q.outputs[StepOf(q).ref].pid]

Verdict(q) == Check(StepOf(q).tool, FactsOf(q.query, StepOf(q).tool, ArgsOf(q)), ClientOf(q))
Cleared(q) == Resolves(q) /\ ~Verdict(q).blocked

\* A reference that does not resolve, or the guard, ends the execution
Stop(r) ==
  LET q == req[r] IN
  /\ q.pc = "execute" /\ ~Cleared(q)
  /\ req' = [req EXCEPT ![r] = [q EXCEPT
               !.pc = "conclude", !.blocked = TRUE,
               !.asks = Resolves(q) /\ Verdict(q).confirm /\ ~q.approved,
               !.executed = @ \cup ToolsOf(q.current), !.k = 1, !.outputs = <<>>]]
  /\ UNCHANGED <<model, sessions, held, pending>>

Ran(q, tool) == \E n \in DOMAIN q.ran : q.ran[n].tool = tool

(* A step the guard cleared runs; a failure ends the chain, not the loop.  *)
(* The output is what a reference can take a pid from; _rule_next looks at *)
(* the first result of the service tool, which alone is under its name.    *)
Run(r) ==
  LET q == req[r] s == StepOf(q) args == ArgsOf(q) IN
  /\ q.pc = "execute" /\ Cleared(q)
  /\ \E fails \in BOOLEAN,
        abnormal \in {b \in BOOLEAN : b => s.tool = "service" /\ ~Ran(q, "service")} :
     \E f \in Found(s.tool, args) \cup IF fails THEN {NoEntity} ELSE {} :
       LET ends == fails \/ q.k = Len(q.current) IN
       req' = [req EXCEPT ![r] = [q EXCEPT
                 !.ran = Append(@, [tool |-> s.tool, args |-> args, ref |-> s.ref, round |-> q.round,
                                    read |-> IF s.ref = 0 THEN None ELSE q.outputs[s.ref].call]),
                 !.outputs = IF ends THEN <<>>
                             ELSE [id \in DOMAIN @ \cup {s.id} |->
                                     IF id # s.id THEN @[id]
                                     ELSE [call |-> <<s.tool, s.args.pid>>, pid |-> f.pid]],
                 !.found = Merged(@, f), !.abnormal = @ \/ abnormal,
                 !.executed = @ \cup ToolsOf(q.current),
                 !.pc = IF ~ends THEN "execute" ELSE IF Loops(q) THEN "next" ELSE "conclude",
                 !.k = IF ends THEN 1 ELSE @ + 1]]
  /\ UNCHANGED <<model, sessions, held, pending>>

\* The end of a round: the next plan runs, is suggested, or there is none
NextRound(r) ==
  LET q == req[r] IN
  /\ q.pc = "next"
  /\ \E a \in IF q.round < MaxRounds THEN Answers ELSE {Silent} :
       LET steps == IF q.round < MaxRounds
                    THEN PlanNext(q.conversation, q.executed, q.abnormal, a) ELSE <<>>
       IN  req' = [req EXCEPT ![r] =
                     CASE a = Misshapen -> [Fresh EXCEPT !.pc = "raised"]
                       [] a # Misshapen /\ steps = <<>> -> [q EXCEPT !.pc = "conclude"]
                       [] a # Misshapen /\ steps # <<>> /\ ~ReadOnly(steps) ->
                            [q EXCEPT !.pc = "conclude", !.asks = TRUE]
                       [] OTHER -> [q EXCEPT !.pc = "execute", !.current = steps,
                                             !.answers = Append(@, a), !.round = @ + 1]]
  /\ UNCHANGED <<model, sessions, held, pending>>

-----------------------------------------------------------------------------
\* mutant: only what the tools returned
EntitiesFound(q) == q.found

(* _extract_entities: the arguments of the first plan, then the results,   *)
(* last one first; a unit is a service.                                    *)
Entities(q) == LET a == q.plan.args
               IN  Merged([pid |-> a.pid, service |-> First(<<a.unit, a.service>>),
                           path |-> a.path], q.found)

(* _conclude and update, and the reply.  A blocked request is not shown to *)
(* the model; a misshapen conclusion raises, and the session stays as it   *)
(* was.                                                                    *)
Conclude(r) ==
  LET q == req[r] IN
  /\ q.pc = "conclude"
  /\ \/ /\ sessions' = [s \in DOMAIN sessions \cup {q.sid} |->
                          IF s = q.sid THEN Entities(q) ELSE sessions[s]]
        /\ held' = q.sid
        /\ pending' = IF q.asks
                      THEN [query |-> q.query, operations |-> Operations(q.plan.steps),
                            left |-> Entities(q), rules |-> q.plan.source = "rules"]
                      ELSE pending
        /\ req' = [req EXCEPT ![r] = [Fresh EXCEPT !.pc = "returned"]]
     \/ /\ model /\ ~q.blocked
        /\ req' = [req EXCEPT ![r] = [Fresh EXCEPT !.pc = "raised"]]
        /\ UNCHANGED <<sessions, held, pending>>
  /\ UNCHANGED model

\* The time to live of a session is over
Expire(s) == /\ s \in DOMAIN sessions
             /\ sessions' = [t \in DOMAIN sessions \ {s} |-> sessions[t]]
             /\ UNCHANGED <<model, held, pending, req>>

ChatNext == \/ \E r \in Request : \/ Ask(r) \/ Confirm(r)
                                  \/ Stop(r) \/ Run(r) \/ NextRound(r) \/ Conclude(r)
            \/ \E s \in DOMAIN sessions : Expire(s)

ChatSpec == ChatInit /\ [][ChatNext]_chatVars
-----------------------------------------------------------------------------
(* A confirmation does what the user was asked about: while the session is *)
(* as the question left it, the rules plan the same operations on the same *)
(* targets again, although they read the session anew and it now holds the *)
(* entities of the request itself (session_context.py 118-137).  Read-only *)
(* tools may join them, and arguments no operation reads.                  *)
Confirming(r) == req[r].pc = "new" /\ req'[r].pc = "execute" /\ req'[r].approved
ConfirmRepeats ==
  [][\A r \in Request :
       Confirming(r) /\ pending.rules /\ req'[r].plan.source = "rules"
         /\ held \in DOMAIN sessions /\ sessions[held] = pending.left
       => Operations(req'[r].plan.steps) = pending.operations]_chatVars

(* A reference reads the step the model meant: the one it gave that id, or *)
(* the n-th step of its answer for sn, although unknown tools, and tools   *)
(* that have run, are dropped (llm_client.py 134-153, planner.py 234-239). *)
Meant(answer, id) ==
  {<<answer.steps[j].tool, answer.steps[j].args.pid>> : j \in {j \in DOMAIN answer.steps :
     /\ answer.steps[j].tool \in AllowedTools
     /\ answer.steps[j].id = id \/ (answer.steps[j].id = 0 /\ j = id)}}
RefsMeant ==
  \A r \in Request : \A n \in DOMAIN req[r].ran :
    LET x == req[r].ran[n]
    IN  x.ref # 0 => x.read \in Meant(req[r].answers[x.round], x.ref)

(* Without a model, a diagnosis that finds a service failed or inactive has*)
(* read its log when it answers (planner.py 262-290); in a session that    *)
(* has a turn before it is blocked instead: the conversation is among the  *)
(* arguments, and is no safe text.                                         *)
EscalationReached ==
  \A r \in Request :
    LET q == req[r]
    IN  ~model /\ q.pc = "conclude" /\ Loops(q) /\ q.abnormal /\ MaxRounds > 1 =>
          \/ Ran(q, "log")
          \/ q.blocked /\ (q.round = 1 \/ q.conversation)

Named(query, tool) == CASE tool = "process.kill"    -> query.pid
                        [] tool = "service.restart" -> query.service
                        [] tool = "temp.clean"      -> query.path
Operated(r) == {x \in {req[r].ran[n] : n \in DOMAIN req[r].ran} : x.tool \notin LowRiskTools}

(* What the session remembers never takes the place of a target the query  *)
(* names and the rules know: the process, an allowlisted service, a path   *)
(* with a temporary directory in it (planner.py 168-199).                  *)
TargetsMeant ==
  \A r \in Request : req[r].plan.source = "rules" =>
    \A x \in Operated(r) :
      LET named == Named(req[r].query, x.tool)
      IN  CASE x.tool = "temp.clean" -> TempIn[named] # None => Target(x) = TempIn[named]
            [] x.tool = "service.restart" -> named \in Restartable => Target(x) = named
            [] OTHER -> named # None => Target(x) = named

(* planner.py:492: for controlled tools only values the user literally     *)
(* wrote are filled in.  An operation the rules planned acts on what its   *)
(* query names, if it names anything.                                      *)
LiteralTargets ==
  \A r \in Request : req[r].plan.source = "rules" =>
    \A x \in Operated(r) : LET named == Named(req[r].query, x.tool)
                           IN  named # None => Target(x) = named
=============================================================================
