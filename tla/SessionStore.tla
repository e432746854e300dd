---------------------------- MODULE SessionStore ----------------------------
(***************************************************************************)
(* ConversationSessionStore (backend/agent/session_context.py) under the   *)
(* threads of the HTTP server: AgentOrchestrator.run resolves the session  *)
(* id, reads the context, plans and executes, and writes the new state.    *)
(* Each of the three takes the store's lock; the clock of the new state is *)
(* read before the lock.                                                   *)
(***************************************************************************)
EXTENDS Integers, Sequences, FiniteSets

CONSTANTS Request,          \* agent requests; each mints at most one fresh id
          Owner, OwnerOf,   \* the principal each request is presented by
          Chosen,           \* ids a client may make up
          NoId,
          MaxSessions, Ttl,
          MaxNow            \* bound on the clock

ASSUME OwnerAssumption == OwnerOf \in [Request -> Owner]
ASSUME IdAssumption == Request \cap Chosen = {} /\ NoId \notin Request \cup Chosen
ASSUME CapacityAssumption == MaxSessions \in Nat \ {0} /\ Ttl \in Nat \ {0} /\ MaxNow \in Nat

SessionId == Request \cup Chosen   \* uuid4 is the name of the request it was made for

VARIABLES now,
          sessions,   \* by id: the owner, the request whose turn it holds, updated_at
          pc, sid,    \* of each request: where run is, its resolved id
          context,    \* the request whose turn it was given, or NoId
          stamp       \* its reading of the clock

vars == <<now, sessions, pc, sid, context, stamp>>

State == [owner : Owner, turn : Request, updated_at : 0..MaxNow]

Init == /\ now = 0 /\ sessions = [s \in {} |-> 0]
        /\ pc = [r \in Request |-> "new"] /\ sid = [r \in Request |-> NoId]
        /\ context = [r \in Request |-> NoId] /\ stamp = [r \in Request |-> 0]

LiveForever == DOMAIN sessions   \* mutant: nothing expires

\* _purge_expired
Live == {s \in DOMAIN sessions : now - sessions[s].updated_at <= Ttl}
Only(keep, f) == [s \in keep |-> f[s]]

Goto(r, where) == pc' = [pc EXCEPT ![r] = where]

MineByName(r, s) == s \in Live   \* mutant: the owner is not compared
Mine(r, s) == s \in Live /\ sessions[s].owner = OwnerOf[r]

\* mutant: an id nobody has is taken as it comes
ResolveTrusting(r, presented) ==
  /\ pc[r] = "new" /\ Goto(r, "resolved")
  /\ sessions' = IF presented = NoId THEN sessions ELSE Only(Live, sessions)
  /\ sid' = [sid EXCEPT ![r] = IF presented # NoId /\ (presented \notin Live \/ Mine(r, presented))
                               THEN presented ELSE r]
  /\ UNCHANGED <<now, context, stamp>>

\* resolve_session_id, of what the client presents
Resolve(r, presented) ==
  /\ pc[r] = "new" /\ Goto(r, "resolved")
  /\ sessions' = IF presented = NoId THEN sessions ELSE Only(Live, sessions)
  /\ sid' = [sid EXCEPT ![r] = IF Mine(r, presented) THEN presented ELSE r]
  /\ UNCHANGED <<now, context, stamp>>

\* context
ReadContext(r) ==
  /\ pc[r] = "resolved" /\ Goto(r, "planned")
  /\ sessions' = Only(Live, sessions)
  /\ context' = [context EXCEPT ![r] = IF Mine(r, sid[r]) THEN sessions[sid[r]].turn ELSE NoId]
  /\ UNCHANGED <<now, sid, stamp>>

\* update reads the clock, which never reads the same twice
ReadClock(r) ==
  /\ pc[r] = "planned" /\ Goto(r, "stamped")
  /\ now < MaxNow /\ now' = now + 1
  /\ stamp' = [stamp EXCEPT ![r] = now']
  /\ UNCHANGED <<sessions, sid, context>>

\* _evict_over_capacity
Evicted(f) ==
  IF Cardinality(DOMAIN f) <= MaxSessions THEN f
  ELSE LET o == CHOOSE o \in DOMAIN f :
                  \A s \in DOMAIN f : f[o].updated_at <= f[s].updated_at
       IN  Only(DOMAIN f \ {o}, f)

\* update, under the lock: an expired or evicted session comes back
Update(r) ==
  /\ pc[r] = "stamped" /\ Goto(r, "done")
  /\ LET state == [owner |-> OwnerOf[r], turn |-> r, updated_at |-> stamp[r]]
     IN  sessions' = Evicted([s \in Live \cup {sid[r]} |->
                                IF s = sid[r] THEN state ELSE sessions[s]])
  /\ UNCHANGED <<now, sid, context, stamp>>

\* Planning, a tool or the audit log raised: run ends without an update
Fail(r) ==
  /\ pc[r] \in {"resolved", "planned"} /\ Goto(r, "done")
  /\ UNCHANGED <<now, sessions, sid, context, stamp>>

Tick == now < MaxNow /\ now' = now + 1 /\ UNCHANGED <<sessions, pc, sid, context, stamp>>

Next == \/ \E r \in Request :
             \/ \E p \in SessionId \cup {NoId} : Resolve(r, p)
             \/ ReadContext(r) \/ ReadClock(r) \/ Update(r) \/ Fail(r)
        \/ Tick

Spec == Init /\ [][Next]_vars
-----------------------------------------------------------------------------
(* A session belongs to one principal for ever, whichever ids clients make *)
(* up or learn from each other: what a request is given as its context is  *)
(* a turn of its own principal, in the session it continues.               *)
Isolation ==
  \A r \in Request :
    context[r] # NoId => /\ OwnerOf[context[r]] = OwnerOf[r]
                         /\ sid[context[r]] = sid[r]

(* The store never gives one id to two principals, not even in the time    *)
(* between the resolution of an id and the first write of its session.     *)
OneOwner ==
  \A q, r \in Request : sid[q] # NoId /\ sid[q] = sid[r] => OwnerOf[q] = OwnerOf[r]

(* A conversation that was silent for longer than the time to live is not  *)
(* continued: no request is given a turn older than that.                  *)
FreshContext ==
  [][\A r \in Request :
       context'[r] # context[r] => now - stamp[context'[r]] <= Ttl]_vars

=============================================================================
