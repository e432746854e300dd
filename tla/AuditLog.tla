------------------------------ MODULE AuditLog ------------------------------
(***************************************************************************)
(* What the audit component promises to its callers (AuditLogger over      *)
(* AuditStore): one log, shared by the threads of all the processes, that  *)
(* only grows.  A call takes effect at one instant or not at all; with     *)
(* FailClosed it returns normally only after its event entered the log.    *)
(* A crash forgets calls in progress and nothing else.  AuditStore         *)
(* implements this specification (see AuditStore!Refines).                 *)
(***************************************************************************)
EXTENDS Sequences

CONSTANTS Thread,      \* the threads of all the processes
          Event,       \* the events a caller may hand over
          NoEvent,     \* placeholder of a thread that has made no call
          FailClosed   \* AGENT_AUDIT_FAIL_CLOSED

VARIABLES log,      \* the sequence of stored events
          call,     \* call[t]: "idle", "pending" or "applied"
          event,    \* event[t]: the event of t's latest call
          outcome   \* outcome[t]: how that call ended ("none": it has not)

vars == <<log, call, event, outcome>>

Init == /\ log = <<>>
        /\ call = [t \in Thread |-> "idle"]
        /\ event = [t \in Thread |-> NoEvent]
        /\ outcome = [t \in Thread |-> "none"]

Invoke(t) == /\ call[t] = "idle"
             /\ call' = [call EXCEPT ![t] = "pending"]
             /\ \E e \in Event : event' = [event EXCEPT ![t] = e]
             /\ outcome' = [outcome EXCEPT ![t] = "none"]
             /\ UNCHANGED log

\* The event enters the log.
Apply(t) == /\ call[t] = "pending"
            /\ call' = [call EXCEPT ![t] = "applied"]
            /\ log' = Append(log, event[t])
            /\ UNCHANGED <<event, outcome>>

\* Best-effort callers may be told nothing of an event that was not stored.
Return(t) == /\ call[t] = "applied" \/ (call[t] = "pending" /\ ~FailClosed)
             /\ call' = [call EXCEPT ![t] = "idle"]
             /\ outcome' = [outcome EXCEPT ![t] = "returned"]
             /\ UNCHANGED <<log, event>>

Raise(t) == /\ call[t] = "pending"
            /\ FailClosed
            /\ call' = [call EXCEPT ![t] = "idle"]
            /\ outcome' = [outcome EXCEPT ![t] = "raised"]
            /\ UNCHANGED <<log, event>>

\* The process of the threads ts dies.
Crash(ts) == /\ call' = [t \in Thread |-> IF t \in ts THEN "idle" ELSE call[t]]
             /\ UNCHANGED <<log, event, outcome>>

Next == \/ \E t \in Thread : Invoke(t) \/ Apply(t) \/ Return(t) \/ Raise(t)
        \/ \E ts \in SUBSET Thread : Crash(ts)

Spec == Init /\ [][Next]_vars
=============================================================================
