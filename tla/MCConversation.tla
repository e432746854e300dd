--------------------------- MODULE MCConversation ---------------------------
(***************************************************************************)
(* Ten queries: operations that name their target, name one the rules do   *)
(* not know or name none; diagnoses; follow-ups.  Seven answers of a model:*)
(* references, unknown tools, two steps of one id, tools that have run.    *)
(***************************************************************************)
EXTENDS Conversation, TLC

MCDeclared == [t \in AllowedTools |-> "low"]
Says(asks, refers, pid, service, path) ==
  [asks |-> asks, refers |-> refers, pid |-> pid, service |-> service, path |-> path]
MCAsks ==
  {Says({"process.kill", "process"}, {}, 7, None, None),
   Says({"process.kill", "process"}, {"process"}, None, None, None),
   Says({"service.restart", "service"}, {"service"}, None, "nginx", None),
   Says({"service.restart", "service"}, {}, None, "foo", None),
   Says({"service.restart", "service"}, {"log"}, None, "nginx", None),
   Says({"temp.clean"}, {"path"}, None, None, "/tmp/cache"),
   Says({"service"}, {"service"}, None, None, None),
   Says({"process"}, {}, None, None, None),
   Says({}, {"log", "path"}, None, None, None),
   Says({"disk.top_dirs"}, {"path"}, None, None, "/opt")}
MCTempIn == (None :> None) @@ ("/tmp" :> "/tmp") @@ ("/tmp/cache" :> "/tmp")
            @@ ("/opt" :> None) @@ ("cwd" :> None)
MCPidClass == (7 :> "ordinary") @@ (8 :> "ordinary") @@ (1 :> "protected")
MCPathClass == (None :> "none") @@ ("/tmp" :> "tmp") @@ ("/tmp/cache" :> "tmp")
               @@ ("/opt" :> "app") @@ ("cwd" :> "app")

At(tool, id, ref) == [tool |-> tool, id |-> id, ref |-> ref, args |-> NoArgs]
Look(pid) == [At("process", 0, 0) EXCEPT !.args.pid = pid]
Steps(steps, tools) == [kind |-> "plan", steps |-> steps, tools |-> tools, args |-> NoArgs]
MCMisshapen == [Silent EXCEPT !.kind = "misshapen"]
MCAnswer ==
  {Silent, MCMisshapen,
   Steps(<<At("process", 0, 0), At("process.kill", 0, 1)>>, <<>>),
   Steps(<<At("process", 2, 0), At("process.kill", 0, 2)>>, <<"service", "shell">>),
   Steps(<<At("service", 0, 0), At("process", 9, 0), At("log", 0, 9)>>, <<>>),
   Steps(<<At("shell", 0, 0), Look(8), Look(7), At("log", 0, 2)>>, <<>>),
   Steps(<<>>, <<"temp.clean", "temp.clean">>)}

(* A request that executes touches nothing of the others, and they nothing *)
(* of it: its steps are taken in one go, and it may wait, with what it read*)
(* of the session, before it concludes, one at a time.  The third request,  *)
(* made only where no model is configured, confirms.                       *)
Executing(r) == req[r].pc \in {"execute", "next"}
Executes == \E r \in Request : Stop(r) \/ Run(r) \/ NextRound(r)
Waiting == {r \in Request : req[r].pc = "conclude"}
Talks == \/ /\ Cardinality(Waiting) < 2
            /\ \E r \in Request : (r < 3 /\ Ask(r)) \/ ((r < 3 \/ ~model) /\ Confirm(r))
         \/ \E r \in Request : Conclude(r)
         \/ \E s \in DOMAIN sessions : Expire(s)
MCSpec == ChatInit /\ [][IF \E r \in Request : Executing(r) THEN Executes ELSE Talks]_chatVars
=============================================================================
