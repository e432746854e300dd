------------------------- MODULE OrchestratorProofs -------------------------
(***************************************************************************)
(* Proofs about Orchestrator, for any plans the planner and the model may  *)
(* come up with, of any length, and any number of rounds.                  *)
(***************************************************************************)
EXTENDS Orchestrator, SequenceLemmas, TLAPS

(* The rounds: before the execution of a round there were as many as its   *)
(* index says, and none was blocked; the single path runs once.            *)
Before == pc \in {"received", "decided", "execute"}
InLoop == pc \in {"scan", "reasoned", "next"}
Rounds == /\ index \in 1..MaxSteps /\ IsSeq(runs)
          /\ Before => Len(runs) = index - 1 /\ ~Blocked
          /\ InLoop => Len(runs) = index /\ ~Single
          /\ Single => Len(runs) <= 1 /\ (Before => Len(runs) = 0)

(* On the path of the loop every plan is read-only, also the next one; and *)
(* without approval nothing that ran changes the system.                   *)
Runs == /\ ~Single => IsReadOnly(current)
        /\ \A n \in DOMAIN runs :
             /\ ~Single => IsReadOnly(runs[n].plan)
             /\ ~approved => \A k \in 1..runs[n].ran : ~runs[n].plan[k].changes

IInv == Rounds /\ Runs

LEMMA InitIInv == Init => IInv
<1> SUFFICES ASSUME Init PROVE IInv
  OBVIOUS
<1>1. runs = <<>> /\ index = 1 /\ pc = "received" /\ current = plan /\ end = NoEnd
  BY DEF Init
<1>2. IsSeq(runs) /\ Len(runs) = 0 /\ DOMAIN runs = {}
  BY <1>1 DEF IsSeq
<1>3. ~Blocked
  BY <1>1 DEF Blocked, NoEnd, Stopped
<1>4. QED
  BY <1>1, <1>2, <1>3, StepsAssumption DEF IInv, Rounds, Runs, Before, InLoop, Single

\* The steps that only write the trail and go on
LEMMA TraceStep ==
  ASSUME IInv, UNCHANGED <<request, loop>>,
         Before' => Before, InLoop' => InLoop
  PROVE  IInv'
BY DEF IInv, Rounds, Runs, Before, InLoop, Single, Blocked, request, loop

LEMMA ExecuteStep ==
  ASSUME IInv, Execute
  PROVE  IInv'
<1>1. pc = "execute" /\ UNCHANGED <<approved, plan, current, index>>
  BY DEF Execute, request
<1>2. Len(runs) = index - 1 /\ (Single => Len(runs) = 0) /\ IsSeq(runs) /\ index \in 1..MaxSteps
  BY <1>1 DEF IInv, Rounds, Before
<1>3. CASE pc' = "raised" /\ UNCHANGED <<end, runs>>
  BY <1>1, <1>3 DEF IInv, Rounds, Runs, Before, InLoop, Single
<1>4. CASE /\ end' \in Ends(current, approved)
           /\ runs' = Append(runs, [plan |-> current, ran |-> end'.ran])
           /\ pc' = IF Single THEN "perceived" ELSE "scan"
  <2> DEFINE e == [plan |-> current, ran |-> end'.ran]
  <2>1. /\ IsSeq(runs') /\ DOMAIN runs' = 1..(Len(runs) + 1) /\ DOMAIN runs = 1..Len(runs)
        /\ Len(runs) \in Nat /\ Len(runs') = Len(runs) + 1 /\ runs'[Len(runs) + 1] = e
        /\ \A n \in DOMAIN runs : runs'[n] = runs[n]
    BY <1>2, <1>4, AppendSeq
  <2>2. ~approved => \A k \in 1..e.ran : ~e.plan[k].changes
    BY <1>4 DEF Ends
  <2>3. ~Single => IsReadOnly(e.plan)
    BY DEF IInv, Runs
  <2> HIDE DEF e
  <2>4. \A n \in DOMAIN runs' : (n \in DOMAIN runs /\ runs'[n] = runs[n]) \/ runs'[n] = e
    BY <2>1
  <2>5. Runs'
    <3>1. ~Single' <=> ~Single
      BY <1>1 DEF Single
    <3>2. ~Single' => IsReadOnly(current')
      BY <1>1, <3>1 DEF IInv, Runs
    <3>3. \A n \in DOMAIN runs' :
            /\ ~Single' => IsReadOnly(runs'[n].plan)
            /\ ~approved' => \A k \in 1..runs'[n].ran : ~runs'[n].plan[k].changes
      BY <1>1, <2>2, <2>3, <2>4, <3>1 DEF IInv, Runs
    <3>4. QED
      BY <3>2, <3>3 DEF Runs
  <2>6. Rounds'
    BY <1>1, <1>2, <1>4, <2>1 DEF Rounds, Before, InLoop, Single
  <2>7. QED
    BY <2>5, <2>6 DEF IInv
<1>5. QED
  BY <1>3, <1>4 DEF Execute

LEMMA ContinueStep ==
  ASSUME IInv, Continue
  PROVE  IInv'
<1>1. /\ pc = "next" /\ ~Blocked /\ index < MaxSteps
      /\ UNCHANGED <<approved, plan, runs, end>>
  BY DEF Continue, request
<1>2. Len(runs) = index /\ ~Single /\ index \in 1..MaxSteps
  BY <1>1 DEF IInv, Rounds, InLoop
<1>3. \/ IsReadOnly(current') /\ index' = index + 1 /\ pc' = "execute"
      \/ pc' = "suggest" /\ UNCHANGED <<current, index>>
  BY DEF Continue
<1>4. index' \in 1..MaxSteps
  BY <1>1, <1>2, <1>3, StepsAssumption
<1>5. pc' = "execute" => Len(runs') = index' - 1
  BY <1>1, <1>2, <1>3
<1>6. QED
  BY <1>1, <1>2, <1>3, <1>4, <1>5 DEF IInv, Rounds, Runs, Before, InLoop, Single, Blocked

LEMMA IInvStep == IInv /\ [Next]_vars => IInv'
<1> SUFFICES ASSUME IInv, [Next]_vars PROVE IInv'
  OBVIOUS
<1>1. CASE Receive \/ Decide \/ Scan \/ Reason \/ Suggest \/ Answer \/ Complete
  <2>1. (Before' => Before) /\ (InLoop' => InLoop) /\ UNCHANGED <<request, loop>>
    BY <1>1 DEF Receive, Decide, Scan, Reason, Suggest, Answer, Complete, Trace, Before, InLoop
  <2>2. QED
    BY <2>1, TraceStep
<1>2. CASE Perceive \/ Result \/ Leave \/ Conclude \/ UNCHANGED vars
  <2>1. (Before' => Before) /\ (InLoop' => InLoop) /\ UNCHANGED <<request, loop>>
    BY <1>2 DEF Perceive, Result, Leave, Conclude, vars, Trace, Before, InLoop, request, loop
  <2>2. QED
    BY <2>1, TraceStep
<1>3. QED
  BY <1>1, <1>2, ExecuteStep, ContinueStep DEF Next

\* The inductive invariant holds in every reachable state.
THEOREM Invariance == Spec => []IInv
<1>1. Init => IInv
  BY InitIInv
<1>2. IInv /\ [Next]_vars => IInv'
  BY IInvStep
<1>3. QED
  BY <1>1, <1>2, PTL DEF Spec

(* Without approval nothing changes the system, and what the loop hands    *)
(* the executor after its first round is read-only, whatever the planner   *)
(* and the model come up with (orchestrator.py 104, 237-247).              *)
THEOREM ReadOnlyCorrect == Spec => []LoopReadOnly
<1>1. IInv => LoopReadOnly
  <2> SUFFICES ASSUME IInv, ~approved, NEW n \in DOMAIN runs
               PROVE  /\ \A k \in 1..runs[n].ran : ~runs[n].plan[k].changes
                      /\ Len(runs) > 1 => Tools(runs[n].plan) \subseteq ReadOnly
    BY DEF LoopReadOnly
  <2>1. Len(runs) > 1 => ~Single
    BY AppendSeq DEF IInv, Rounds
  <2>2. QED
    BY <2>1 DEF IInv, Runs, IsReadOnly
<1>2. QED
  BY <1>1, Invariance, PTL

(* No round follows one that was blocked, nor more than the configured     *)
(* number, for any number.                                                 *)
THEOREM BlockedStopsCorrect == Spec => BlockedStops
<1>1. IInv /\ [Next]_vars =>
        [runs' # runs => end.status \notin Stopped /\ Len(runs') <= MaxSteps]_vars
  <2> SUFFICES ASSUME IInv, [Next]_vars, runs' # runs
               PROVE  end.status \notin Stopped /\ Len(runs') <= MaxSteps
    OBVIOUS
  <2>1. Execute
    BY DEF Next, vars, Receive, Decide, Perceive, Result, Scan, Reason, Leave, Continue,
           Suggest, Conclude, Answer, Complete, loop
  <2>2. Len(runs) = index - 1 /\ ~Blocked /\ index \in 1..MaxSteps /\ IsSeq(runs)
    BY <2>1 DEF Execute, IInv, Rounds, Before
  <2>3. Len(runs') = Len(runs) + 1
    BY <2>1, <2>2, AppendSeq DEF Execute
  <2>4. QED
    BY <2>2, <2>3, StepsAssumption DEF Blocked
<1>2. QED
  BY <1>1, Invariance, PTL DEF Spec, BlockedStops
-----------------------------------------------------------------------------
(* Results: the plan that is about to run names no tool the executor was   *)
(* handed before, so its keys are not those of an earlier round, and each  *)
(* key of a round is in the result with the number of that round.          *)
Results ==
  /\ current \in Plan
  /\ Before => Tools(current) \cap executed = {}
  /\ \A n \in DOMAIN runs : \A k \in ResultKeys(runs[n].plan, runs[n].ran) :
       k[1] \in executed /\ k \in DOMAIN combined /\ combined[k] = n

\* The keys of a run belong to tools of its plan.
LEMMA KeysOfPlan ==
  ASSUME NEW p \in Plan, NEW n \in 0..Len(p), NEW k \in ResultKeys(p, n)
  PROVE  k[1] \in Tools(p)
<1>1. 1..n \subseteq DOMAIN p
  <2>1. PICK m \in 1..MaxPlan : p \in [1..m -> Step]
    BY DEF Plan
  <2>2. m \in Nat /\ p \in Seq(Step) /\ Len(p) = m /\ DOMAIN p = 1..m
    BY <2>1, StepsAssumption
  <2>3. QED
    BY <2>1, <2>2
<1>2. PICK j \in 1..n : \E m : k = <<p[j].tool, m>>
  BY Zenon DEF ResultKeys
<1>3. QED
  BY <1>1, <1>2 DEF Tools

LEMMA InitResults == Init => Results
<1> SUFFICES ASSUME Init PROVE Results
  OBVIOUS
<1>1. DOMAIN runs = {}
  BY DEF Init
<1>2. QED
  BY <1>1 DEF Init, Results

\* A round's results come in under keys of their own.
LEMMA ExecuteResults ==
  ASSUME IInv, Results, Execute
  PROVE  Results'
<1>1. pc = "execute" /\ current' = current /\ Before
  BY DEF Execute, Before
<1>2. Len(runs) = index - 1 /\ IsSeq(runs) /\ index \in 1..MaxSteps
  BY <1>1 DEF IInv, Rounds
<1>3. CASE pc' = "raised" /\ UNCHANGED <<end, runs, executed, combined>>
  BY <1>1, <1>3 DEF Results, Before
<1>4. CASE /\ end' \in Ends(current, approved)
           /\ runs' = Append(runs, [plan |-> current, ran |-> end'.ran])
           /\ executed' = executed \cup Tools(current)
           /\ LET keys == ResultKeys(current, end'.ran)
              IN  combined' = [k \in DOMAIN combined \cup keys |->
                                 IF k \in keys THEN index ELSE combined[k]]
           /\ pc' = IF Single THEN "perceived" ELSE "scan"
  <2> DEFINE e == [plan |-> current, ran |-> end'.ran]
             keys == ResultKeys(current, end'.ran)
  <2>1. /\ DOMAIN runs' = 1..(Len(runs) + 1) /\ DOMAIN runs = 1..Len(runs)
        /\ Len(runs) \in Nat /\ runs'[Len(runs) + 1] = e
        /\ \A n \in DOMAIN runs : runs'[n] = runs[n]
    BY <1>2, <1>4, AppendSeq
  <2>2. end'.ran \in 0..Len(current)
    BY <1>4 DEF Ends
  <2>3. \A k \in keys : k[1] \in Tools(current)
    BY <2>2, KeysOfPlan DEF Results
  <2>4. Tools(current) \cap executed = {}
    BY <1>1 DEF Results
  <2>5. combined' = [k \in DOMAIN combined \cup keys |-> IF k \in keys THEN index ELSE combined[k]]
    BY <1>4
  <2> HIDE DEF keys
  <2>6. ASSUME NEW n \in DOMAIN runs, NEW k \in ResultKeys(runs'[n].plan, runs'[n].ran)
        PROVE  k[1] \in executed' /\ k \in DOMAIN combined' /\ combined'[k] = n
    <3>1. k[1] \in executed /\ k \in DOMAIN combined /\ combined[k] = n
      BY <2>1, <2>6 DEF Results
    <3>2. k \notin keys
      BY <2>3, <2>4, <3>1
    <3>3. QED
      BY <1>4, <2>5, <3>1, <3>2
  <2>7. ASSUME NEW k \in ResultKeys(e.plan, e.ran)
        PROVE  k[1] \in executed' /\ k \in DOMAIN combined' /\ combined'[k] = index
    <3>1. k \in keys
      BY <2>7 DEF keys
    <3>2. QED
      BY <1>4, <2>3, <2>5, <3>1
  <2>8. index = Len(runs) + 1
    BY <1>2, <2>1
  <2> HIDE DEF e
  <2>9. \A n \in DOMAIN runs' : \A k \in ResultKeys(runs'[n].plan, runs'[n].ran) :
          k[1] \in executed' /\ k \in DOMAIN combined' /\ combined'[k] = n
    <3>1. \A n \in DOMAIN runs' : n \in DOMAIN runs \/ (n = index /\ runs'[n] = e)
      BY <2>1, <2>8
    <3>2. QED
      BY <2>6, <2>7, <3>1
  <2>10. QED
    BY <1>1, <1>4, <2>9 DEF Results, Before
<1>5. QED
  BY <1>3, <1>4 DEF Execute

LEMMA ResultsStep == IInv /\ Results /\ [Next]_vars => Results'
<1> SUFFICES ASSUME IInv, Results, [Next]_vars PROVE Results'
  OBVIOUS
<1>1. CASE Continue
  <2>1. UNCHANGED <<executed, combined, runs>>
    BY <1>1 DEF Continue
  <2>2. PICK p \in PlanNext :
          \/ current' = p /\ pc' = "execute"
          \/ current' = current /\ pc' = "suggest"
    BY <1>1 DEF Continue
  <2>3. QED
    BY <2>1, <2>2 DEF Results, Before, PlanNext
<1>2. CASE ~Execute /\ ~Continue
  <2>1. (Before' => Before) /\ UNCHANGED <<current, executed, combined, runs>>
    BY <1>2 DEF Next, vars, loop, Receive, Decide, Perceive, Result, Scan, Reason, Leave, Suggest,
                Conclude, Answer, Complete, Trace, Before
  <2>2. QED
    BY <2>1 DEF Results
<1>3. QED
  BY <1>1, <1>2, ExecuteResults

(* What any round's tools returned is still in the result of the request   *)
(* under their names, for any plans, any number of calls of a tool in them *)
(* and any number of rounds (orchestrator.py 208, planner.py 238).         *)
THEOREM KeepsResultsCorrect == Spec => []KeepsResults
<1>1. Init => IInv /\ Results
  BY InitIInv, InitResults
<1>2. IInv /\ Results /\ [Next]_vars => IInv' /\ Results'
  BY IInvStep, ResultsStep
<1>3. Results => KeepsResults
  BY DEF Results, KeepsResults
<1>4. QED
  BY <1>1, <1>2, <1>3, PTL DEF Spec
-----------------------------------------------------------------------------
(* The trail: what the log holds at every point of the request while       *)
(* nothing was raised out of run.  A round has its reasoning step once it  *)
(* was reasoned about; suggestions are in the log from then on.            *)
Working == {"execute", "perceived", "result", "scan", "reasoned", "next"}
Ended == {"conclude", "answer", "complete", "returned"}
Reasoned == IF Single THEN 0
            ELSE IF pc \in {"scan", "reasoned"} THEN Len(runs) - 1 ELSE Len(runs)
Told == IF suggested = {} \/ pc = "suggest" THEN 0 ELSE 1

Opening == /\ pc = "received" => Len(audit) = 0
           /\ pc = "decided" => Len(audit) = 1 /\ audit[1] = "received_instruction"
           /\ pc \in Working \cup Ended \cup {"suggest"} =>
                /\ Len(audit) >= 2
                /\ audit[1] = "received_instruction" /\ audit[2] = "llm_decision"
Closing == /\ pc = "complete" => audit[Len(audit)] = "final_answer"
           /\ pc = "returned" => /\ audit[Len(audit)] = "trace_complete"
                                 /\ audit[Len(audit) - 1] = "final_answer"
           /\ pc \in {"answer", "complete", "returned"} => turn
Counts == /\ pc # "returned" => CountOf(audit, "trace_complete") = 0
          /\ pc # "raised" => CountOf(audit, "reasoning_step") = Reasoned
          /\ pc # "raised" => CountOf(audit, "suggested_action") = Told
          /\ pc \in {"received", "decided"} \cup Working => suggested = {}
          /\ pc = "suggest" => suggested # {}
Places == pc \in {"received", "decided", "suggest", "raised"} \cup Working \cup Ended
Trail == FailClosed => IsSeq(audit) /\ Places /\ Opening /\ Closing /\ Counts

LEMMA CountEmpty == ASSUME NEW x PROVE CountOf(<<>>, x) = 0
<1>1. {n \in DOMAIN <<>> : <<>>[n] = x} = {}
  OBVIOUS
<1>2. QED
  BY <1>1, FS_EmptySet DEF CountOf

LEMMA InitTrail == Init => Trail
<1> SUFFICES ASSUME Init PROVE Trail
  OBVIOUS
<1>1. audit = <<>> /\ pc = "received" /\ suggested = {} /\ Len(runs) = 0
  BY DEF Init
<1>2. IsSeq(audit) /\ Len(audit) = 0
  BY <1>1 DEF IsSeq
<1>3. \A x : CountOf(audit, x) = 0
  BY <1>1, CountEmpty
<1>4. QED
  BY <1>1, <1>2, <1>3 DEF Trail, Places, Opening, Closing, Counts, Reasoned, Told, Working, Ended

\* Fail-closed, an event is in the log behind the others, or it was raised.
LEMMA TraceTells ==
  ASSUME FailClosed, IsSeq(audit), NEW stage, NEW then, Trace(stage, then)
  PROVE  /\ IsSeq(audit)' /\ Len(audit) \in Nat
         /\ \A x : CountOf(audit, x) \in Nat
         /\ \/ pc' = "raised" /\ audit' = audit
            \/ /\ pc' = then /\ Len(audit') = Len(audit) + 1 /\ audit'[Len(audit')] = stage
               /\ \A n \in 1..Len(audit) : audit'[n] = audit[n]
               /\ \A x : CountOf(audit', x) = IF x = stage THEN CountOf(audit, x) + 1
                                               ELSE CountOf(audit, x)
<1>1. CASE audit' = Append(audit, stage) /\ pc' = then
  <2>1. \A x : CountOf(audit, x) \in Nat
               /\ CountOf(audit', x) = IF x = stage THEN CountOf(audit, x) + 1
                                       ELSE CountOf(audit, x)
    BY <1>1, CountAppend
  <2>2. /\ IsSeq(audit') /\ DOMAIN audit = 1..Len(audit) /\ Len(audit) \in Nat
        /\ \A n \in DOMAIN audit : audit'[n] = audit[n]
        /\ audit'[Len(audit) + 1] = stage /\ Len(audit') = Len(audit) + 1
    BY <1>1, AppendSeq
  <2>3. QED
    BY <1>1, <2>1, <2>2
<1>2. CASE UNCHANGED audit /\ pc' = IF FailClosed THEN "raised" ELSE then
  BY <1>2, CountAppend, AppendSeq
<1>3. QED
  BY <1>1, <1>2 DEF Trace

\* Steps that append nothing leave the counts and the ends of the log.
LEMMA SameTrail ==
  ASSUME UNCHANGED audit
  PROVE  /\ IsSeq(audit) => IsSeq(audit)'
         /\ \A x : CountOf(audit', x) = CountOf(audit, x)
OBVIOUS

LEMMA TrailStep == IInv /\ Trail /\ [Next]_vars => Trail'
<1> SUFFICES ASSUME IInv, Trail, [Next]_vars, FailClosed
             PROVE  IsSeq(audit)' /\ Places' /\ Opening' /\ Closing' /\ Counts'
  BY DEF Trail
<1>1. IsSeq(audit) /\ Places /\ Opening /\ Closing /\ Counts
  BY DEF Trail
<1>2. Len(runs) \in Nat
  BY AppendSeq DEF IInv, Rounds
<1> USE DEF Places, Opening, Closing, Counts, Reasoned, Told, Working, Ended, Single
<1>3. CASE Receive
  <2>1. /\ pc = "received" /\ Trace("received_instruction", "decided")
        /\ UNCHANGED <<approved, plan, suggested, turn, runs>>
    BY <1>3 DEF Receive, request, loop
  <2>2. Places' /\ Opening' /\ Closing'
    BY <1>1, <2>1, TraceTells
  <2>3. Counts'
    BY <1>1, <2>1, TraceTells
  <2>4. QED
    BY <1>1, <2>1, <2>2, <2>3, TraceTells
<1>4. CASE Decide
  <2>1. /\ pc = "decided" /\ Trace("llm_decision", "execute")
        /\ UNCHANGED <<approved, plan, suggested, turn, runs>>
    BY <1>4 DEF Decide, request, loop
  <2>2. Places' /\ Opening' /\ Closing'
    BY <1>1, <2>1, TraceTells
  <2>3. Counts'
    BY <1>1, <2>1, TraceTells
  <2>4. QED
    BY <1>1, <2>1, <2>2, <2>3, TraceTells
<1>5. CASE Execute
  <2>1. /\ pc = "execute" /\ UNCHANGED <<approved, plan, suggested, turn, audit>>
        /\ \/ pc' \in {"perceived", "scan"} /\ pc' = (IF Single THEN "perceived" ELSE "scan")
              /\ \E e : runs' = Append(runs, e)
           \/ pc' = "raised"
    BY <1>5 DEF Execute, request
  <2>2. pc' # "raised" => Len(runs') = Len(runs) + 1
    BY <2>1, AppendSeq DEF IInv, Rounds
  <2>3. IsSeq(audit)' /\ \A x : CountOf(audit', x) = CountOf(audit, x)
    BY <1>1, <2>1, SameTrail
  <2>4. Places' /\ Opening' /\ Closing'
    BY <1>1, <2>1
  <2>5. Counts'
    BY <1>1, <1>2, <2>1, <2>2, <2>3
  <2>6. QED
    BY <2>3, <2>4, <2>5
<1>6. CASE Perceive
  <2>1. pc = "perceived" /\ Trace("environment_perception", "result")
        /\ UNCHANGED <<approved, plan, suggested, turn, runs>>
    BY <1>6 DEF Perceive, request, loop
  <2>2. Places' /\ Opening' /\ Closing'
    BY <1>1, <2>1, TraceTells
  <2>3. Counts'
    BY <1>1, <2>1, TraceTells
  <2>4. QED
    BY <1>1, <2>1, <2>2, <2>3, TraceTells
<1>7. CASE Result
  <2>1. /\ pc = "result" /\ Trace("execution_result", "conclude")
        /\ UNCHANGED <<approved, plan, suggested, turn, runs>>
    BY <1>7 DEF Result, request, loop
  <2>2. Places' /\ Opening' /\ Closing'
    BY <1>1, <2>1, TraceTells
  <2>3. Counts'
    BY <1>1, <2>1, TraceTells
  <2>4. QED
    BY <1>1, <2>1, <2>2, <2>3, TraceTells
<1>8. CASE Scan
  <2>1. /\ pc = "scan" /\ UNCHANGED <<approved, plan, suggested, turn, runs>>
        /\ \/ Trace("injection_scan", "reasoned")
           \/ pc' = "reasoned" /\ UNCHANGED audit
    BY <1>8 DEF Scan, request, loop
  <2>2. CASE Trace("injection_scan", "reasoned")
    <3>1. Places' /\ Opening' /\ Closing'
      BY <1>1, <2>1, <2>2, TraceTells
    <3>2. Counts'
      BY <1>1, <2>1, <2>2, TraceTells
    <3>3. QED
      BY <1>1, <2>2, <3>1, <3>2, TraceTells
  <2>3. CASE pc' = "reasoned" /\ UNCHANGED audit
    BY <1>1, <2>1, <2>3, SameTrail
  <2>4. QED
    BY <2>1, <2>2, <2>3
<1>9. CASE Reason
  <2>1. /\ pc = "reasoned" /\ Trace("reasoning_step", "next")
        /\ UNCHANGED <<approved, plan, suggested, turn, runs>>
    BY <1>9 DEF Reason, request, loop
  <2>2. ~Single
    BY <2>1 DEF IInv, Rounds, InLoop
  <2>3. Places' /\ Opening' /\ Closing'
    BY <1>1, <2>1, TraceTells
  <2>4. Counts'
    BY <1>1, <1>2, <2>1, <2>2, TraceTells
  <2>5. QED
    BY <1>1, <2>1, <2>3, <2>4, TraceTells
<1>10. CASE Leave
  BY <1>1, <1>10 DEF Leave, request, loop
<1>11. CASE Continue
  <2>1. /\ pc = "next" /\ UNCHANGED <<approved, plan, turn, runs, audit>>
        /\ \/ pc' = "execute" /\ suggested' = suggested
           \/ pc' = "suggest" /\ suggested' # {}
    <3>1. PICK p \in PlanNext :
            IF IsReadOnly(p)
            THEN pc' = "execute" /\ suggested' = suggested
            ELSE pc' = "suggest" /\ suggested' = suggested \cup (Tools(p) \ ReadOnly)
      BY <1>11 DEF Continue
    <3>2. QED
      BY <1>11, <3>1 DEF Continue, request, IsReadOnly
  <2>2. IsSeq(audit)' /\ \A x : CountOf(audit', x) = CountOf(audit, x)
    BY <1>1, <2>1, SameTrail
  <2>3. Places' /\ Opening' /\ Closing'
    BY <1>1, <2>1
  <2>4. Counts'
    BY <1>1, <2>1, <2>2
  <2>5. QED
    BY <2>2, <2>3, <2>4
<1>12. CASE Suggest
  <2>1. /\ pc = "suggest" /\ Trace("suggested_action", "conclude")
        /\ UNCHANGED <<approved, plan, suggested, turn, runs>>
    BY <1>12 DEF Suggest, request, loop
  <2>2. Places' /\ Opening' /\ Closing'
    BY <1>1, <2>1, TraceTells
  <2>3. Counts'
    BY <1>1, <2>1, TraceTells
  <2>4. QED
    BY <1>1, <2>1, <2>2, <2>3, TraceTells
<1>13. CASE Conclude
  <2>1. /\ pc = "conclude" /\ pc' = "answer" /\ turn' = TRUE
        /\ UNCHANGED <<approved, plan, suggested, runs, audit>>
    BY <1>13 DEF Conclude, request, loop
  <2>2. IsSeq(audit)' /\ \A x : CountOf(audit', x) = CountOf(audit, x)
    BY <1>1, <2>1, SameTrail
  <2>3. Places' /\ Opening' /\ Closing'
    BY <1>1, <2>1
  <2>4. Counts'
    BY <1>1, <2>1, <2>2
  <2>5. QED
    BY <2>2, <2>3, <2>4
<1>14. CASE Answer
  <2>1. /\ pc = "answer" /\ Trace("final_answer", "complete")
        /\ UNCHANGED <<approved, plan, suggested, turn, runs>>
    BY <1>14 DEF Answer, request, loop
  <2>2. Places' /\ Opening' /\ Closing'
    BY <1>1, <2>1, TraceTells
  <2>3. Counts'
    BY <1>1, <2>1, TraceTells
  <2>4. QED
    BY <1>1, <2>1, <2>2, <2>3, TraceTells
<1>15. CASE Complete
  <2>1. /\ pc = "complete" /\ Trace("trace_complete", "returned")
        /\ UNCHANGED <<approved, plan, suggested, turn, runs>>
    BY <1>15 DEF Complete, request, loop
  <2>2. Places' /\ Opening' /\ Closing'
    BY <1>1, <2>1, TraceTells
  <2>3. Counts'
    BY <1>1, <2>1, TraceTells
  <2>4. QED
    BY <1>1, <2>1, <2>2, <2>3, TraceTells
<1>16. CASE UNCHANGED vars
  BY <1>1, <1>16 DEF vars
<1>17. QED
  BY <1>3, <1>4, <1>5, <1>6, <1>7, <1>8, <1>9, <1>10, <1>11, <1>12, <1>13, <1>14, <1>15, <1>16
     DEF Next

(* Fail-closed, a request that returned left a whole trail, whatever       *)
(* appends failed on the way of the others: a reasoning step for every     *)
(* round, the suggestions, the answer and its end; and a complete trail is *)
(* that of a request that returned and updated its session.                *)
THEOREM TrailCorrect == Spec => []TrailComplete
<1>1. Init => IInv /\ Trail
  BY InitIInv, InitTrail
<1>2. IInv /\ Trail /\ [Next]_vars => IInv' /\ Trail'
  BY IInvStep, TrailStep
<1>3. Trail => TrailComplete
  <2> SUFFICES ASSUME Trail, FailClosed
               PROVE  TrailComplete
    BY DEF TrailComplete
  <2>1. \A stage : Count(stage) = CountOf(audit, stage)
    BY DEF Count, CountOf
  <2>2. IsSeq(audit) /\ Places /\ Opening /\ Closing /\ Counts
    BY DEF Trail
  <2>3. CountOf(audit, "trace_complete") > 0 => pc = "returned"
    BY <2>2 DEF Counts
  <2>4. QED
    BY <2>1, <2>2, <2>3
       DEF TrailComplete, Opening, Closing, Counts, Reasoned, Told, Ended
<1>4. QED
  BY <1>1, <1>2, <1>3, PTL DEF Spec
=============================================================================
