------------------------- MODULE MCMonitorScheduler -------------------------
(* Two loop threads, so that a second could be started while one runs.      *)
EXTENDS MonitorScheduler
=============================================================================
