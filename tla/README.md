# A TLA+ model of kylin-security-agent

The program is an operations agent for Kylin Linux. A user writes a request in
natural language; a planner (rules, or a remote model) makes a plan of tool
calls; every call is checked by a security guard, run by an executor, and
written to a hash-chained audit log. Around this core stand a reasoning loop,
conversation sessions, an HTTP front with rate limits, an MCP server and a
background monitor. The modules here are translated from `src/backend/`
(`executor.py:120` below means `src/backend/agent/executor.py`, line 120).
The read-only tools' parsing of command output and the wording of texts are not
modelled.

All modules are plain TLA+. `tlc -config X.cfg M` runs a configuration (`module`
in `PROJECT.json` says which M), `tlapm M.tla` checks the proofs of a module.

## 1. Inventory

| Component | Source | State | Operations | Module |
|---|---|---|---|---|
| Audit log | `audit/store.py`, `audit/logger.py` | SQLite tables `audit_events` and `audit_meta`, one `threading.Lock` per process | `AuditLogger.event/write`, `append`, `verify_chain` | `AuditStore`, `AuditLog` |
| Security guard | `security/guard.py`, `security/rules.py` | none | `check` and its sub-checks | `SecurityGuard`, `GuardSession` |
| Tool executor | `agent/executor.py` | one request's outputs, results, decisions | `execute`, `evaluate_security` | `ToolExecutor`, `Execution` |
| Orchestrator | `agent/orchestrator.py` | one request's rounds, suggestions, trail | `run` (`_run_single`, `_run_loop`) | `Orchestrator` |
| Planner, LLM client | `agent/planner.py`, `agent/llm_client.py` | none | `plan`, `plan_next`, `analyze`, `conclude` | `Planner`, `Conversation` |
| Session store | `agent/session_context.py` | sessions by id, one lock | `resolve_session_id`, `context`, `update`, `_extract_entities` | `SessionStore`, `Conversation` |
| Rate limits | `security/rate_limit.py`, middleware of `main.py` | hits by key, a semaphore | `allow`, `retry_after`, `_sweep`, `try_acquire`, `release` | `RateLimiter` |
| Authentication | `security/auth.py` | tokens from the settings | role and principal of a header | constants of three modules |
| Monitor | `monitor/scheduler.py`, `checks.py`, `alerts.py` | thread, stop event, alerts, status | `start`, `stop`, `run_once`, `add`, `recent` | `MonitorScheduler` |
| HTTP API | `main.py` | none of its own | endpoints, middleware, lifespan | in `RateLimiter`, `GuardSession`, `MonitorScheduler`, `Conversation` |
| MCP server | `mcp_server/server.py` | none of its own | `run_tool_call` | a channel of `GuardSession` |
| Registry | `mcp_tools/registry.py`, `builtin.py` | tools with declared risks | `call` | constant `Declared`, action `Call` |
| Controlled tools | `mcp_tools/process_kill_tool.py`, `service_restart_tool.py`, `temp_clean_tool.py` | the system they operate on | kill, restart, clean | `ControlledTools`, `TempClean` |
| Command runner, least privilege | `mcp_tools/command_runner.py`, `security/least_privilege.py` | none | templates run as a chosen user | identity, errors and timeouts in `ControlledTools` |
| Front end | `src/frontend/app.js` | one session id | ask, confirm | the client of `Conversation` |
| Read-only tools, redaction, sanitizer, prompts, metrics, config | see `PROJECT.json` | none the others depend on | | not modelled |

How they interact:

* The HTTP server calls `AgentOrchestrator.run` on one thread per request. `run`
  asks the session store for an id and a context, the planner for a plan, the
  executor for an execution, and updates the session at the end. All of them
  append to the one audit log of the process.
* The executor asks the guard before each call, and the registry for the call.
  The tool API, the MCP server and the monitor use the same executor, the
  monitor from its own thread.
* The database file can be open in several processes at a time: workers, an
  exporting script, a restarted server. Inside a process the lock orders
  writers, between processes only SQLite does.
* The controlled tools act on a host that others change at the same time, and
  their commands run as a user that is looked up for each of them.
* What a turn did becomes the entities of the session, which the planner reads
  in the next; the page keeps one session id and, to confirm, sends the same
  query again, which is planned anew.
* The rate-limit middleware runs on the event loop before any endpoint; only
  the time inside `call_next` interleaves.

What is hard in each, and what makes it correct:

* **Audit log.** Interleaving of threads and processes, a crash inside the
  transaction, a statement that fails, an edit of the table from outside.
  Correct: one chain, never forked; a fail-closed call that returned is stored;
  `verify_chain` never vouches for an edited table; every call ends.
* **Guard.** A dozen independent rules on text and arguments. Correct: they are
  monotone (more words never help, a greater role is never refused more),
  approval stands for the confirmation only, an unapproved or lesser caller
  changes nothing.
* **Executor.** The check and the call see arguments that references and
  coercions rewrite in between; a chain ends in the middle; the log fails.
  Correct: what runs was cleared and audited; the reply tells what ran; nothing
  changes before approval; no result is overwritten.
* **Orchestrator.** The model may ask for anything, in any round. Correct: the
  loop never operates, it ends, results survive, the trail is whole.
* **Sessions.** Ids leak or are invented; sessions expire between two calls of
  one request; updates race. Correct: one owner per id, bounded size, nothing
  older than the time to live, the least recent goes first.
* **Rate limits.** Keys nobody can enumerate, eviction, rounding, requests that
  end by exception or cancellation. Correct: quota per caller, bounded memory,
  honest `Retry-After`, no place lost or gained in the gate.
* **Monitor.** A stop that times out, a start that follows, an exception in the
  middle of a round. Correct: one loop at most, it ends after a stop, lives
  otherwise, and no alert of a finished round is missing.

* **Controlled tools.** What is inspected may be gone, replaced or redirected by
  the time it is signalled, restarted or deleted; a command that timed out may
  have taken effect. Correct: check and operation never disagree about what they
  both saw; protected users are safe even where the check came too early; a
  reply says what was done; the agent does not end itself.
* **Planner and conversation.** Targets come from the text, from the session or
  from a model that may answer anything; what is confirmed is planned a second
  time. Correct: a target that is named is the one acted on, references read the
  step they were meant for, a confirmation repeats what was asked about.

`PROJECT.json` lists the hazards one by one, each with its line and the
properties that watch it. Three have none: timestamps out of order
(logger.py:27), for which no document promises anything; the capacity of the
session store (session_context.py:114), which is proved instead of run; and
misshapen answers of a model (llm_client.py:186), of which section 5 tells.

## 2. Modules

Ordered by importance.

| Module | Models | Composes with |
|---|---|---|
| `AuditLog` | what the audit component promises: one growing log, a call takes effect once or not at all | abstract |
| `AuditStore` | the store and the logger in front of it, statement by statement | implements `AuditLog` |
| `AuditStoreProofs` | theorems about `AuditStore` | extends it |
| `SecurityGuard` | `SecurityGuard.check`, as operators | used by the next two |
| `Execution` | what an execution promises the callers of the executor | abstract |
| `ToolExecutor` | `execute` on one plan, with the guard and a log that may fail | keeps `Execution` |
| `GuardSession` | a client that repeats a request, changing one thing at a time | extends `SecurityGuard` |
| `Orchestrator` | `run` on both of its paths | uses `Execution` for the executor |
| `RateLimiter` | middleware, limiter and gate | |
| `SessionStore` | concurrent requests at the session store | |
| `MonitorScheduler` | start, stop, loop and alert store | |
| `ControlledTools` | `process.kill`, `service.restart`, the identity of their commands | |
| `TempClean` | `temp.clean` | checked together with `ControlledTools` |
| `Planner` | `plan`, `plan_next`, `_parse_steps`, as operators | used by the next |
| `Conversation` | requests of one session, from the text to the session they leave | extends `SecurityGuard` and `Planner` |
| `AgentProofs` | theorems about `SecurityGuard`, `GuardSession`, `ToolExecutor`, `Planner` and `Conversation`: what the guard is worth, to those that ask it | extends them |
| `ControlledToolsProofs`, `OrchestratorProofs`, `RateLimiterProofs`, `SessionStoreProofs`, `MonitorSchedulerProofs` | theorems about the modules they are named after, the first also about `TempClean` | extend them |
| `SequenceLemmas` | what these proofs use of sequences | |

The `MC...` modules give the constants their values for TLC.

How state and actions correspond to the code:

* **AuditStore.** `db` is the committed file, `txn` what the open transaction
  sees, `writer` the holder of SQLite's write lock, `mutex[p]` the
  `threading.Lock` of process `p`, `pc[t]` the statement thread `t` is at.
  `append` is `Acquire, Begin | Busy, ReadLast, Insert, UpdateMeta, Commit`, with
  `Rollback` possible at each statement inside the `try` and `Busy` (the timeout
  of `BEGIN IMMEDIATE`, which stands before the `try`) releasing only the lock.
  `verify_chain` is `Acquire, VerifyRows, VerifyMeta`: two SELECTs with no
  transaction around them, so two snapshots. A digest is its own preimage, which
  makes it collision free and lets every comparison of digests be a comparison
  of histories. `log` is a history variable: the rows ever committed. `Tamper`
  is the edit the documented threat model (docs/audit-tracing.md) names, made
  by somebody who leaves `audit_meta` alone, with or without a recomputed digest.
* **SecurityGuard.** Texts become the classes of words, paths, services and
  commands the rules tell apart; the classes are explained at their definitions.
  `Check` takes the risk and the failed checks from the same operators the code
  has as methods, and keeps its order where order matters (the pattern list
  before the risk, the high words before the medium ones). `GuardSession` names its
  initial states, steps and variables `GuardInit`, `GuardNext` and `guardVars`,
  because its proofs and those about the executor share their lemmas.
* **ToolExecutor.** One action per stretch of `execute` between two points where
  it can be left: `Start` (duplicate ids), `Judge` (resolve, coerce, check), one
  action for each of the audit appends, `Call` or `CallRaises`, `AuditDone`,
  `Close`. A tool returns one of the `Output`s: with the path a reference asks
  for or without, with an integer, a numeral or garbage there, failed or not.
  `Evaluated` is `evaluate_security`, the preview.
* **Orchestrator.** One action per audit event of `run`, `Execute` for the
  executor (any end `Execution!Ends` allows, or an exception), `Continue` for
  `plan_next`. The planner, and the model that may stand behind it, answer any
  plan; a later one only names tools that were not handed to the executor before,
  as `plan_next` sees to for the model and for the rules.
* **RateLimiter.** Atomic up to `call_next`, since the middleware runs on the
  event loop; `Done` is the `finally`. `Limited` reads the clock twice, as
  `allow` and `retry_after` do. `Scale` ticks make a second, so that
  `Retry-After`, an integer of seconds, is rounded. `Trim` is the `popleft` loop,
  said by how many hits it takes (`Expired`).
* **SessionStore.** `Resolve`, `ReadContext`, `Update` are the three locked
  methods; `ReadClock` is the clock `update` reads before its lock.
* **MonitorScheduler.** `pc[t]` is where a loop thread is; `lifecycle` is where
  the caller of start and stop is (the lifespan calls them one at a time).
  `Joined` returns for an ended thread or by timeout.
* **ControlledTools.** `pc[c]` is the command the call is at: `Parse, Inspect,
  Kill | KillRaises, Look` for `process.kill`, `CheckService, Restart |
  RestartRaises, Status` for `service.restart`. `table` is the process table, with
  pids that are given to new processes (`Exits`, `Starts`); `RunsAs` is
  `subprocess_security_options`, evaluated at each command while the account
  comes and goes (`AccountChanges`). The `...Raises` actions are timeouts, before
  or after the effect. `jobs` are restarts systemd goes on with alone
  (`JobEnds`); one of the agent's own unit ends every call (`AgentEnds`). `seen`
  is a history variable: what ran when a call inspected.
* **TempClean.** One action per look at the file system: `Open` (resolve and
  judge the directory), `List`, then for each item `Scan`, `CheckLink`,
  `CheckAge`, `Delete`, and `EndScan`. `Touch` and `Redirect` are the users of the
  directory. `checked` is a history variable: whether the directory and the item
  are still as the call last looked at them.
* **Planner.** A query is what the keyword lists and patterns find in it: the
  tools whose words it contains, the follow-up words, and the pid, service and
  path it names. `Selected` is the sequence of tests in `plan`, `RuleArgs` the
  arguments they leave, `ParseSteps` and `ModelPlan` the way of a model's answer.
  The loops that keep some elements of a list are `Picked`, which says at which
  places, and `Only`, which says which; a `SelectSeq` or a fold would do for TLC,
  but the provers know nothing of those.
* **Conversation.** `Begin` reads the session and plans (`Ask` with a new query,
  `Confirm` with the old one and the confirmation), `Run` and `Stop` are the steps
  of an execution, `NextRound` the loop, `Conclude` the reply and the update of
  the session. The guard is `SecurityGuard!Check` itself; the executor is reduced
  to what references and results need, `ToolExecutor` having the rest. `answers`
  (what the model said in each round) and, in `ran`, `round` and `read` are history
  variables. Initial states and steps are `ChatInit` and `ChatNext`, since
  `AgentProofs` extends `ToolExecutor` too.

## 3. Runs

The bounds are the constants of each `.cfg`. Every passing run is exhaustive
within them.

| Run | Shows | Bounds and why they are enough |
|---|---|---|
| `audit_append` | `ChainIntact`, `ReturnedIsStored`, `Refines` (implements `AuditLog`), `CallsEnd` | 2 threads in one process and 1 in another contend for both locks; 3 events, so that a third follows a lost or stored one; 1 crash at any point; fail-closed |
| `audit_tamper` | `VerdictSound`, `AlarmExplained` | 3 events, 2 verifications, 1 edit, 1 crash: an edit before, between and after the SELECTs of a verification, with commits around it |
| `executor_chain` | `AuditedBeforeRun`, `OnlyCleared`, `UnapprovedChangesNothing`, `Promised`, `PreviewAgrees`, `ReplyAudited` | all plans of at most 3 steps over 9 templates, 6 callers, 6 outputs; three steps give a reference over a distance, and three calls of one tool |
| `guard_session` | `OperationsGuarded`, `ApprovalOnlyConfirms`, `TalkNeverUnblocks` | a tool of each kind, a target of each class but one, two words, paths or commands in the query; the properties speak of two requests in a row, and the run starts from all |
| `orchestrator_loop` | `LoopReadOnly`, `KeepsResults`, `TrailComplete`, `BlockedStops` | plans of 2 steps over 4 read-only tools and one deletion that may be a preview; 3 rounds, fewer than there are tools to look at, so that the limit ends the loop |
| `limiter_quota` | `MemoryBound`, `Quota`, `GateExact`, `RetryHonest` | 3 keys for a memory of 2, 1 place in the gate, a window of 2 ticks over 4: two windows, eviction, refusals |
| `session_isolation` | `Isolation`, `OneOwner`, `FreshContext` | 3 requests of 2 principals, an invented id, 2 places, a time to live of 2 over 5 ticks |
| `monitor_loop` | `OneLoop`, `AlertsKept`, `StopEnds`, `LoopLives` | 2 loop threads, rounds of up to 3 alerts into a store of 2 |
| `controlled_tools` | `RightTarget`, `ProtectedSafe`, `ReportTrue`, `AgentSurvives`; `RemovesJudged`, `CleanReportTrue` | 2 calls, 2 pids (one reserved), 4 processes of which 2 may be killed, 3 hosts, 3 services: a pid is reused, by a process that may and by ones that may not be killed, and a call overtakes another. For the cleaning 1 call, 2 items, 2 changes: the directory or an item is replaced between any two looks, and a limit of 1 ends the scan early |
| `conversation` | `RefsMeant`, `EscalationReached`, `TargetsMeant`, `ConfirmRepeats` | 10 queries, 7 answers of a model, 3 requests, 2 rounds: a turn, a turn that uses what it left, and a confirmation, with another request in between |
| `audit_verify_shared` | violation of `NoFalseAlarm` | see the findings |
| `wrong_target` | violation of `LiteralTargets` | see the findings |

In `controlled_tools` a behaviour has calls of one kind only: `ControlledTools`
and `TempClean` share no state. `conversation` and `wrong_target` run under
`MCSpec`: a request that executes reads and writes nothing of the others, so its
steps are taken in one go, and only its first (the session is read) and its last
(the session is written) interleave; at most two requests wait to conclude, and
the third only confirms, without a model. What this leaves out are orders of
steps that commute, and a third request under way.

`CHECK_DEADLOCK FALSE` stands in the runs whose system really may stop: the
audit runs, the limiter and the sessions when their bounded inputs are used up,
the executor and the orchestrator when the request has returned, the controlled
tools and the conversation when all calls and requests have. A client of
`guard_session` and the monitor never stop, and deadlock is checked there.

Each property has a mutant, a plausible bug in one definition (marked "mutant"
in a comment) under which the same run finds it violated.

**Fairness.** Safety needs none. `audit_append` assumes that each
thread that can take its next statement eventually does (`WF` of `Step`: the
operating system schedules it, SQLite answers), and that a thread waiting for a
`threading.Lock` that is released again and again gets it some time (`SF` of
`Acquire`). It does not assume that a statement ever succeeds: `Busy`,
`Rollback` and `Crash` are never fair, and a waiting `BEGIN` may end by either.
`monitor_loop` assumes `WF` of each loop's next step: checks run through tools
with timeouts, and `_stop.wait` returns after the interval. Nothing is assumed
of whoever calls start and stop.

## 4. Proofs

The theorems hold for all values of the constants that satisfy the assumptions
stated in the modules beside them. These say what kind of value a constant is
(a declared risk is one of the four levels, a path one of the classes), and no
more, with these exceptions: every thread has a process (`AuditStore`);
ids the server mints are never guessed (`IdAssumption` of `SessionStore`: uuid4);
tools that count as read-only change nothing (`StepAssumption` of
`Orchestrator`); "root" is a protected user, the agent's account and that of an
unprivileged server are not (`UserAssumption`, `HostAssumption` of
`ControlledTools`); the tools the planner knows are registered, queries ask for
those, and what of a model's answer is not misshapen is two lists
(`ToolAssumption`, `QueryAssumption`, `AnswerAssumption` of `Conversation`; what
is misshapen raises, and is a step of its own).

| Module | Theorem | States |
|---|---|---|
| `AuditStoreProofs` | `IInvStep`, `Invariance`, `TypeCorrect` | `IInv` is inductive, and an invariant; the types |
| | `ChainCorrect` | `[]ChainIntact`: no interleaving, failure or crash forks the chain |
| | `TamperEvidence` | two tables that both verify against one `audit_meta` record hold the same events; downwards from the last row, with `HashInjective` at each |
| | `VerdictCorrect` | `VerdictSound`, from `TamperEvidence` and `ChainCorrect` |
| | `FailClosedCorrect` | `[]ReturnedIsStored` |
| | `AlarmCorrect` | `AlarmExplained`: the only false alarm is that of the findings |
| | `Refinement` | `Refines`: every initial state and step of `AuditStore` is one of `AuditLog`, or a stutter |
| `AgentProofs` | `ClearedCorrect`, `AuditedCorrect` | `[]OnlyCleared`, `[]AuditedBeforeRun` |
| | `PromiseKept` | `[]Promised`: what `execute` returns is an end of `Execution`, and every result has a key of its own |
| | `PreviewCorrect` | `[]PreviewAgrees`: the preview showed what the run then meets |
| | `ReplyAuditedCorrect` | `[]ReplyAudited`: the log of a request is its calls, its block and its summary, and nothing else |
| | `UnapprovedCorrect` | `[]UnapprovedChangesNothing`, with the lemma `ClearedIsHarmless` about the guard: what it lets pass without approval changes nothing, whatever the text and the declared risk |
| | `GuardedCorrect` | of `GuardSpec`: `[]OperationsGuarded`, for any tools registered with any risk, and any text |
| | `ApprovalCorrect`, `TalkCorrect` | `ApprovalOnlyConfirms`, and `TalkNeverUnblocks`: `Check` is monotone in what the query says |
| | `TargetsCorrect` | of `ChatSpec`: `[]TargetsMeant`, for any queries, sessions and answers, any number of requests under way together |
| | `ConfirmCorrect` | `ConfirmRepeats`: what is confirmed is planned again as it was asked about |
| | `RefsCorrect` | `[]RefsMeant`: dropping unknown tools, and tools that have run, leaves the references right |
| | `EscalationCorrect` | `[]EscalationReached`, for any number of rounds |
| `OrchestratorProofs` | `ReadOnlyCorrect`, `BlockedStopsCorrect` | `[]LoopReadOnly`, `BlockedStops`, for plans of any length and any number of rounds |
| | `KeepsResultsCorrect` | `[]KeepsResults`: no later round overwrites what an earlier one returned |
| | `TrailCorrect` | `[]TrailComplete`: a request returned exactly if its trail is whole |
| `SessionStoreProofs` | `IsolationCorrect`, `OneOwnerCorrect`, `FreshCorrect` | `[]Isolation`, `[]OneOwner`, `FreshContext` |
| | `CapacityCorrect` | `[]CapacityBound`: the store never grows beyond `MaxSessions` |
| `RateLimiterProofs` | `GateCorrect`, `MemoryCorrect` | `[]GateExact`, `[]MemoryBound` |
| | `QuotaCorrect` | `[]Quota`: for any window, limit and clock resolution |
| | `RetryHonestCorrect` | `[]RetryHonest`: who waits what the 429 said is only refused again if its key was allowed a request since |
| `MonitorSchedulerProofs` | `TypeCorrect`, `OneLoopCorrect` | `[]TypeOK`, `[]OneLoop` |
| | `AlertsKeptCorrect` | `AlertsKept`: a finished round left its alerts, count and errors, for any capacity |
| `ControlledToolsProofs` | `TargetCorrect`, `ProtectedCorrect`, `ReportCorrect`, `SurvivalCorrect` | `RightTarget`, `[]ProtectedSafe`, `[]ReportTrue`, `[]AgentSurvives` |
| | `CleanReportCorrect`, `RemovesCorrect` | of `CleanSpec`: `[]CleanReportTrue`, `RemovesJudged` |

None of the invariants is inductive by itself; what has to be known besides is
the reason why the code is correct.

* **AuditStore.** A `Commit` keeps the chain only because the open transaction is
  the committed database plus one row that follows its last digest. `IInv` adds
  that: the threads between `BEGIN IMMEDIATE` and `COMMIT` are exactly the writer
  (`OneWriter`); a thread inside a call has an event in hand (`HasEvent`);
  `Progress(t)` says how far `txn` is ahead of `db` at each statement. The process
  locks occur nowhere in it: SQLite's write lock alone keeps the chain whole,
  which is what the code relies on between processes. The collision freedom of
  sha256 is built into the model of digests and used in `HashInjective`. For
  `AlarmExplained`: what a verification fetched is what the log was then, and the
  log only grows (`Fetched`); a start of a chain whose end is the whole chain's
  end is the whole chain (`StartOfChain`).
* **SecurityGuard.** A joint risk is at least each of its parts and grows with them
  (`RankOfMax`, `RankOfMaxGrows`), so `Check` can be compared part by part for two
  requests of which one says more (`SaysMore`). `Answered` says that the guard's
  answer is about the request as the endpoint made it.
* **ToolExecutor.** From the judgement of a step to its call the decision is
  about the very arguments the tool gets (`Judged`, `Ready`), and the log holds
  the two events the call waits for (`Told`). For the reply: step `i` is reached
  when the `i - 1` before it ran and none was blocked (`Place`), each of them with
  the facts the plan has for it unless it has a reference (`AsPlanned`); the keys
  of the results of one tool are numbered without gaps (`Keys`); and at every
  point the log has three events for each call done and those of the step under
  way, by their positions (`Log`).
* **Conversation.** `Talking` says of every request how it came by what it does
  (`Sound`), and of the pending question how it was asked (`Remembered`); TLC
  finds it true in all states of `conversation`.
  An operation the rules planned has the arguments of the first plan (`Acting`):
  later rounds only read. Those arguments are `RuleArgs` of the query and of *some*
  entities, which is all that is known of the session a request read, others
  writing it at any time; `FirstOfTwo` and `FirstOfFour`, what filling an argument if
  missing comes to, give `TargetsMeant`.
  For `ConfirmRepeats`: a question is asked before anything ran, so that the
  session is left with the arguments of the plan and nothing found (`Unrun`,
  `Remembered`), and planning from one's own arguments selects the same
  operations with the same targets (`AimedAgain`, `OperationsAgain`). That fails
  for whole plans: see section 5.
  For `RefsMeant`: of the plan under way, each step has the id the model meant
  (`Meaning`), as the parser numbers by the place in the answer before it drops
  (`ParsedIs`), and the outputs are kept by these ids; a plan of the rules has no
  references at all.
  For `EscalationReached`: the loop takes all tools of a round for executed, also
  those behind a failed step. The rules put the log before the service
  (`LogFirst`), so where a service was found abnormal the log of that plan has run
  (`Reading`); if it is not in the plan, the next round is the log.
* **Orchestrator.** On the path of the loop the current plan, not only those that
  ran, is read-only (`Runs`); the round index counts the executions, none of the
  earlier ones blocked (`Rounds`); no tool of the current plan was handed to the
  executor before (`Results`); the trail is as far as `pc` and the round say
  (`Trail`).
* **SessionStore.** An id is minted by one request, and who holds it is of that
  request's principal (`Minted`); a session is as a finished request left it
  (`Kept`); so is a context (`Continued`). The capacity needs no more than that an
  update adds one session and eviction, when it is full, finds one to remove:
  the one updated first exists (`LeastNatural`).
* **RateLimiter.** The requests being served are among those admitted, so the
  next is none of them (`Serving`). A sweep that finds the memory full drops one
  key, and one comes in (`Remembered`). The quota of one moment is no
  invariant: hits that leave the window must not be counted again. `Counted`
  therefore speaks of every window that ends now or later: of the requests of a
  key in it, the bucket has a hit for each, unless the key was evicted. What a
  client was told covers the time until the oldest hit expires (`Covered`), rounding
  included.
* **MonitorScheduler.** The thread the scheduler refers to is the only one that
  may be alive (`OnlyKnown`): a stop whose join times out must not forget it.
  That one loop runs is also why a round finds its alerts in the store: nobody
  else adds any (`Kept`), others only prune, and the newest survive that
  (`NewestKept`).
* **ControlledTools.** The agent's pid is reserved and never reused (`Placed`);
  between the inspection and the signal, whatever has the pid is what was judged
  or started later (`Looked`); a call that has not returned has not done more than
  its place says (`Told`).
* **TempClean.** What a call did fits its limit, with one to spare while it is at
  an item (`Counted`); what it looked at and nobody changed is as it saw it
  (`Seen`).

Only model-checked: liveness (`CallsEnd`, `StopEnds`, `LoopLives`), which is out
of reach of the provers used. Every other property of a passing run is a theorem.

## 5. Findings

Each is a run whose property, taken from a document or a comment, TLC violates.

1. `audit_verify_shared` (code): `verify_chain` reads rows and meta in two
   SELECTs without a transaction (store.py:148-151). A commit of another process
   in between makes it report a clean database as broken. `AlarmExplained` says
   that this is the only kind of false alarm.
2. `wrong_target` (code): an operation the rules plan may act on another target
   than its query names, when they do not know the name. "清理 /tmp/cache 临时文件"
   becomes `temp.clean` of all of `/tmp`, because `_extract_temp_path` looks for a
   temp directory as a substring (planner.py:482-484); "重启 foo 服务" after a turn
   about nginx restarts nginx, because the open argument is filled from the
   session (planner.py:168; 176 for pids, so that a kill by name takes the pid of
   the turn before). Both still need the confirmation.
   The docstring at planner.py:492 says that only values the user literally wrote
   are filled in for controlled tools, tests/test_controlled_tools.py:89-91 has a
   restart without a known service blocked. `TargetsMeant` says what does hold.

Met while modelling, not the subject of a run:

* An answer of the model that is JSON of other types than expected (a list, null
  where a list belongs) raises out of `analyze` and `conclude` (llm_client.py
  97-117, 182-190, 209), in `conclude` possibly after the operation ran;
  docs/llm-agent-json-contract.md:137 and 141 promise the fallback to the rules.
  `Conversation` has the step (`Misshapen`, and the second half of `Conclude`).
* From the second turn of a session on, `_rule_next` hands the whole context on as
  arguments, the conversation included (planner.py:279); the guard refuses it as
  unsafe text, so the escalation to the log that docs/multi-step-reasoning.md
  104-106 describe ends in a block. `EscalationReached` holds with this exception
  spelled out.
* A confirmation need not run the plan that was shown: planned again, it may gain a
  read-only step and the arguments that go with it. "重启 nginx 服务，继续看" leaves
  nginx in the session, so that `_is_service_log_followup` (planner.py:138, 410-415)
  adds the log and its `unit` the second time. `ConfirmRepeats` therefore speaks of
  the operations and their targets, which do stay.
* `update` reads the clock before it takes the lock (session_context.py:93-95):
  the session written last may carry the older time and be evicted first, even by
  its own update, although line 112 promises the least recently updated.
* A start that follows a stop whose join timed out finds the old loop alive and
  does nothing (scheduler.py:78-80); then the old loop ends and nothing monitors.
  docs/proactive-monitoring.md:63 takes such a start for harmless.
* With fail-closed auditing, an append that raises (scheduler.py:64) ends the
  round, and the alerts behind it never reach the store, where
  docs/proactive-monitoring.md:57 promises every one.
* The second inspection of a kill takes a failed `ps` for an ended process:
  `still_running` false does not mean that the process is gone. The least
  privilege rules know the agent's pid and its parent's, not those of sibling
  workers of one server.
* In `disk.top_dirs` the session's path comes before the text's; a query about a
  service that is healthy never enters the session, so that "继续看它的日志" has no
  unit to look for; a confirmed request may run read-only tools besides the
  operation; /api/security/evaluate plans without the session, so that its preview
  of a follow-up differs from the request; the page's button for a suggested
  action drops `dry_run` and the age limit (app.js:302-311).
* A blocked chain reports the commands that ran before the block
  (executor.py:130), docs/audit-tracing.md:99 says a blocked request has none; a
  known token is keyed by principal and an unknown one by address
  (rate_limit.py:93), docs/self-protection-observability.md 28-29 speak of any
  token; the timestamp of an event is taken before the logger queues for the
  store (logger.py:27), so timestamps may disagree with ids; README.md:29 still
  calls the audit log JSONL.

## 6. Not modelled

* Texts: wording, localisation, redaction, prompts, the reading of JSON and of
  authorization headers. They enter only as the classes the rules distinguish,
  an answer of the model as its steps, its tools or its failure to be either.
* The read-only tools, metrics, configuration and database helper: no state, or
  none that anything else depends on. The rest of the front end shows what the
  API returns.
* In the planner: numeric arguments (limits, depths, sizes, ages), and a context
  the client itself sends, which the page leaves empty.
* `query`, `read_recent` and the export of the audit log: they only read.
* Two processes with different settings, and changes of the settings at run
  time: `FailClosed` is one constant. A deployment with several workers has one
  session store, limiter and monitor per worker; each module is one of them.
* File systems below the look of a name: hard links, mounts, and what a directory
  holds while `rmtree` walks it, of which only success, failure and failure half
  way are distinguished.

## 7. What comes next

1. A composition of several requests over one `AuditLog`, so that trails
   interleave; its questions would replace `TrailComplete`.
2. `Conversation` as a client of `SessionStore`, by a refinement: its sessions by
   id are those of one principal.
3. The numeric arguments of the controlled tools, from the query through the
   guard's schema to the limit of `temp.clean`.
