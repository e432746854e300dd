--------------------------- MODULE MCGuardSession ---------------------------
(* A tool of every kind: read-only, scanning, controlled, high risk, known  *)
(* only to the registry, and unknown.                                       *)
EXTENDS GuardSession

Tools == [t \in {"system", "disk.top_dirs", "package.repo", "process.kill", "temp.clean",
                 "service.restart", "custom", "service.stop"} |->
            IF t \in {"process.kill", "temp.clean", "service.restart", "custom"} THEN "medium"
            ELSE IF t = "service.stop" THEN "high" ELSE "low"]
AskedTools == DOMAIN Tools \cup {"shell"}
SomeTargets == {"none", "tmp", "log", "core", "other"}
SomeServices == {"none", "allowed", "protected"}
=============================================================================
