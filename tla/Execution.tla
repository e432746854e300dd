----------------------------- MODULE Execution ------------------------------
(***************************************************************************)
(* What ToolExecutor.execute promises its callers: how many steps of the   *)
(* plan ran and how the chain ended.  The executor is shown to keep the    *)
(* promise, and the orchestrator is checked against it.                    *)
(***************************************************************************)
EXTENDS Naturals, Sequences, FiniteSets

Status == {"success", "failed", "blocked", "approval_required"}
Stopped == {"blocked", "approval_required"}

(* The ends of a plan, given for each step its tool and whether it would   *)
(* change the system.                                                      *)
Ends(plan, approved) ==
  {e \in [status : Status, ran : 0..Len(plan), asks : BOOLEAN] :
     /\ e.status = "success" => e.ran = Len(plan)
     /\ e.status = "failed" => e.ran > 0
     /\ e.status \in Stopped => e.ran < Len(plan)
     /\ e.status = "approval_required" => e.asks
     /\ e.asks => e.status \in Stopped /\ ~approved
     /\ approved \/ \A k \in 1..e.ran : ~plan[k].changes}

\* The keys of result_by_tool after n steps: t#m for the m-th call of t
ResultKeys(plan, n) ==
  {<<plan[k].tool, Cardinality({j \in 1..k : plan[j].tool = plan[k].tool})>> : k \in 1..n}
=============================================================================
