--------------------------- MODULE MCOrchestrator ---------------------------
(* Four read-only tools and a deletion that may be a preview.              *)
EXTENDS Orchestrator

ReadTools == {"service", "log", "disk", "network"}
Steps3 == [tool : ReadTools, changes : {FALSE}] \cup [tool : {"temp.clean"}, changes : BOOLEAN]
=============================================================================
