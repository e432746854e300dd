--------------------------- MODULE MCToolExecutor ---------------------------
(* Plans of up to three steps over a read-only tool, a controlled tool that *)
(* may take its pid from a reference, a preview and a deletion, and a tool  *)
(* nobody registered.                                                       *)
EXTENDS ToolExecutor

Tools == [t \in {"process", "process.kill", "temp.clean"} |->
            IF t = "process" THEN "low" ELSE "medium"]
Ids == {"s1", "s2", "s3"}

Make(id, tool, form, ref, facts) ==
  [id |-> id, tool |-> tool, facts |-> facts, form |-> form, ref |-> ref]
Kill(form) == Make("s2", "process.kill", form, "s1", [NoFacts EXCEPT !.pid = "ordinary"])
Clean(dry) == Make("s3", "temp.clean", "none", "s1",
                   [NoFacts EXCEPT !.target = "tmp", !.dryRun = dry])

Templates ==
  {Make("s1", "process", "none", "s1", NoFacts),
   Make("s3", "process", "none", "s1", [NoFacts EXCEPT !.types = "digits"]),
   Kill("none"), Kill("whole"), Kill("partial"), Clean(TRUE), Clean(FALSE),
   Make("s2", "shell", "none", "s1", NoFacts),
   Make("s1", "process", "none", "s1", [NoFacts EXCEPT !.words = {"stop"}])}

Askers ==
  {[trusted |-> r, claimed |-> "none", user |-> "other", approved |-> a] :
     r \in {"viewer", "operator", "admin"}, a \in BOOLEAN}

Returns(found, types, pid, failed) ==
  [found |-> found, value |-> [types |-> types, pid |-> pid], failed |-> failed]
Outputs ==
  {Returns(TRUE, "ok", "ordinary", FALSE), Returns(TRUE, "digits", "ordinary", FALSE),
   Returns(TRUE, "digits", "protected", FALSE), Returns(TRUE, "bad", "ordinary", FALSE),
   Returns(FALSE, "ok", "ordinary", FALSE), Returns(TRUE, "ok", "ordinary", TRUE)}
=============================================================================
