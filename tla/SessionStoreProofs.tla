------------------------- MODULE SessionStoreProofs -------------------------
(***************************************************************************)
(* Proofs about SessionStore, for any requests, principals, ids that       *)
(* clients make up, capacity and time to live.                             *)
(***************************************************************************)
EXTENDS SessionStore, SequenceLemmas, FiniteSetTheorems, TLAPS

USE DEF Goto, Only

Where == {"new", "resolved", "planned", "stamped", "done"}

\* The variables of the requests, and the clock
Typed ==
  /\ now \in Nat
  /\ pc \in [Request -> Where] /\ stamp \in [Request -> Nat]
  /\ sid \in [Request -> Request \cup {NoId}]
  /\ context \in [Request -> Request \cup {NoId}]

(* An id is minted by one request, which holds it, and any other that      *)
(* holds it is of the same principal; a new request holds none.            *)
Minted ==
  \A r \in Request :
    /\ pc[r] = "new" <=> sid[r] = NoId
    /\ sid[r] # NoId => sid[sid[r]] = sid[r] /\ OwnerOf[sid[r]] = OwnerOf[r]

\* A session is as the last request of it left it, under that request's id
Kept(f) ==
  /\ DOMAIN f \subseteq Request
  /\ \A s \in DOMAIN f :
       /\ f[s].turn \in Request /\ f[s].owner = OwnerOf[f[s].turn]
       /\ pc[f[s].turn] = "done" /\ sid[f[s].turn] = s
       /\ f[s].updated_at = stamp[f[s].turn]

(* A context is the turn of a request that is done, in the same session; a *)
(* request has none before it asks.                                        *)
Continued ==
  \A r \in Request :
    /\ pc[r] \in {"new", "resolved"} => context[r] = NoId
    /\ context[r] # NoId => pc[context[r]] = "done" /\ sid[context[r]] = sid[r] /\ sid[r] # NoId

IInv == Typed /\ Minted /\ Kept(sessions) /\ Continued

-----------------------------------------------------------------------------
LEMMA InitIInv == Init => IInv
<1> SUFFICES ASSUME Init PROVE IInv
  OBVIOUS
<1>1. NoId \notin Request
  BY IdAssumption
<1>2. DOMAIN sessions = {}
  BY DEF Init
<1>3. QED
  BY <1>1, <1>2 DEF Init, IInv, Typed, Where, Minted, Kept, Continued

\* What Live leaves was there before.
LEMMA LiveKept == Kept(sessions) => Live \subseteq Request /\ Live \subseteq DOMAIN sessions
BY DEF Live, Kept

\* Sessions that a step leaves out, or leaves alone, are kept as they were.
LEMMA OthersKept ==
  ASSUME Kept(sessions), NEW keep \in SUBSET DOMAIN sessions,
         sessions' = [s \in keep |-> sessions[s]],
         \A r \in Request : pc[r] = "done" =>
           pc'[r] = "done" /\ sid'[r] = sid[r] /\ stamp'[r] = stamp[r]
  PROVE  Kept(sessions)'
<1>1. DOMAIN sessions' = keep /\ \A s \in keep : sessions'[s] = sessions[s]
  OBVIOUS
<1>2. QED
  BY <1>1 DEF Kept

LEMMA SameKept ==
  ASSUME Kept(sessions), sessions' = sessions,
         \A r \in Request : pc[r] = "done" =>
           pc'[r] = "done" /\ sid'[r] = sid[r] /\ stamp'[r] = stamp[r]
  PROVE  Kept(sessions)'
BY DEF Kept

LEMMA ResolveStep ==
  ASSUME IInv, NEW r \in Request, NEW p \in SessionId \cup {NoId}, Resolve(r, p)
  PROVE  IInv'
<1>0. NoId \notin Request /\ Live \subseteq Request
  BY IdAssumption, LiveKept DEF IInv
<1>1. sid[r] = NoId /\ pc[r] = "new"
  BY DEF Resolve, IInv, Minted
<1>2. /\ sid' = [sid EXCEPT ![r] = sid'[r]] /\ pc' = [pc EXCEPT ![r] = "resolved"]
      /\ sid'[r] \in Request
  BY <1>0 DEF Resolve, IInv, Typed, Mine
<1>3. \A q \in Request : sid[q] # r
  BY <1>0, <1>1 DEF IInv, Minted
<1>4. \/ sid'[r] = r
      \/ sid'[r] # r /\ sid[sid'[r]] = sid'[r] /\ OwnerOf[sid'[r]] = OwnerOf[r]
  <2>1. CASE Mine(r, p)
    <3>1. /\ p \in DOMAIN sessions /\ sid[sessions[p].turn] = p /\ sessions[p].turn \in Request
          /\ sessions[p].owner = OwnerOf[r] /\ sessions[p].owner = OwnerOf[sessions[p].turn]
      BY <2>1 DEF Mine, Live, IInv, Kept
    <3>2. p \in Request /\ p # r /\ sid[p] = p /\ OwnerOf[p] = OwnerOf[r]
      BY <1>0, <1>1, <3>1 DEF IInv, Kept, Minted
    <3>3. sid'[r] = p
      BY <2>1 DEF Resolve, IInv, Typed
    <3>4. QED
      BY <3>2, <3>3
  <2>2. CASE ~Mine(r, p)
    BY <2>2 DEF Resolve, IInv, Typed
  <2>3. QED
    BY <2>1, <2>2
<1>5. Typed'
  BY <1>2 DEF IInv, Typed, Where, Resolve
<1>6. Minted'
  <2> SUFFICES ASSUME NEW q \in Request
               PROVE  /\ pc'[q] = "new" <=> sid'[q] = NoId
                      /\ sid'[q] # NoId => sid'[sid'[q]] = sid'[q] /\ OwnerOf[sid'[q]] = OwnerOf[q]
    BY DEF Minted
  <2>1. CASE q = r
    BY <1>0, <1>2, <1>4, <2>1 DEF IInv, Typed
  <2>2. CASE q # r
    BY <1>2, <1>3, <2>2 DEF IInv, Typed, Minted
  <2>3. QED
    BY <2>1, <2>2
<1>7. \A q \in Request : pc[q] = "done" =>
        pc'[q] = "done" /\ sid'[q] = sid[q] /\ stamp'[q] = stamp[q]
  BY <1>1, <1>2 DEF Resolve, IInv, Typed
<1>8. Kept(sessions)'
  BY <1>7, LiveKept, OthersKept, SameKept DEF Resolve, IInv
<1>9. Continued'
  BY <1>0, <1>1, <1>2, <1>7 DEF Continued, Resolve, IInv, Typed
<1>10. QED
  BY <1>5, <1>6, <1>8, <1>9 DEF IInv

LEMMA ReadContextStep ==
  ASSUME IInv, NEW r \in Request, ReadContext(r)
  PROVE  IInv'
<1>1. pc' = [pc EXCEPT ![r] = "planned"] /\ pc[r] = "resolved" /\ UNCHANGED <<now, sid, stamp>>
  BY DEF ReadContext
<1>2. Mine(r, sid[r]) => LET t == sessions[sid[r]].turn
                         IN  t \in Request /\ pc[t] = "done" /\ sid[t] = sid[r]
  BY DEF Mine, Live, IInv, Kept
<1>3. context'[r] \in Request \cup {NoId} /\ context' = [context EXCEPT ![r] = context'[r]]
  BY <1>2 DEF ReadContext, IInv, Typed
<1>4. context'[r] # NoId => pc[context'[r]] = "done" /\ sid[context'[r]] = sid[r]
  BY <1>2 DEF ReadContext, IInv, Typed
<1>5. Typed'
  BY <1>1, <1>3 DEF IInv, Typed, Where
<1>6. Minted'
  BY <1>1 DEF IInv, Typed, Minted
<1>7. \A q \in Request : pc[q] = "done" => pc'[q] = "done"
  BY <1>1 DEF IInv, Typed
<1>8. Kept(sessions)'
  BY <1>1, <1>7, LiveKept, OthersKept DEF ReadContext, IInv
<1>9. Continued'
  <2> SUFFICES ASSUME NEW q \in Request, context'[q] # NoId
               PROVE  /\ pc'[q] \notin {"new", "resolved"} /\ sid[q] # NoId
                      /\ pc'[context'[q]] = "done" /\ sid[context'[q]] = sid[q]
    BY <1>1 DEF Continued
  <2>1. CASE q = r
    BY <1>1, <1>3, <1>4, <1>7, <2>1 DEF IInv, Minted, Typed
  <2>2. CASE q # r
    BY <1>1, <1>3, <1>7, <2>2 DEF IInv, Continued, Typed
  <2>3. QED
    BY <2>1, <2>2
<1>10. QED
  BY <1>5, <1>6, <1>8, <1>9 DEF IInv

\* The states of a store from which some may be taken: see Evicted
LEMMA EvictedFrom ==
  ASSUME NEW f
  PROVE  \/ Evicted(f) = f
         \/ \E keep \in SUBSET DOMAIN f : Evicted(f) = [s \in keep |-> f[s]]
BY DEF Evicted

LEMMA UpdateStep ==
  ASSUME IInv, NEW r \in Request, Update(r)
  PROVE  IInv'
<1> DEFINE state == [owner |-> OwnerOf[r], turn |-> r, updated_at |-> stamp[r]]
           f == [s \in Live \cup {sid[r]} |-> IF s = sid[r] THEN state ELSE sessions[s]]
<1>1. /\ pc' = [pc EXCEPT ![r] = "done"] /\ pc[r] = "stamped"
      /\ UNCHANGED <<now, sid, context, stamp>> /\ sessions' = Evicted(f)
  BY DEF Update
<1>2. Typed'
  BY <1>1 DEF IInv, Typed, Where
<1>3. Minted'
  BY <1>1 DEF IInv, Typed, Minted
<1>4. \A q \in Request : pc[q] = "done" => pc'[q] = "done"
  BY <1>1 DEF IInv, Typed
<1>5. pc'[r] = "done" /\ sid[r] \in Request
  BY <1>1, IdAssumption DEF IInv, Typed, Minted
<1>6. \A s \in DOMAIN f :
        /\ s \in Request /\ f[s].turn \in Request /\ f[s].owner = OwnerOf[f[s].turn]
        /\ pc'[f[s].turn] = "done" /\ sid[f[s].turn] = s
        /\ f[s].updated_at = stamp[f[s].turn]
  <2> SUFFICES ASSUME NEW s \in Live \cup {sid[r]}
               PROVE  /\ s \in Request /\ f[s].turn \in Request
                      /\ f[s].owner = OwnerOf[f[s].turn]
                      /\ pc'[f[s].turn] = "done" /\ sid[f[s].turn] = s
                      /\ f[s].updated_at = stamp[f[s].turn]
    OBVIOUS
  <2>1. CASE s = sid[r]
    BY <1>5, <2>1
  <2>2. CASE s # sid[r]
    BY <1>4, <2>2, LiveKept DEF IInv, Kept
  <2>3. QED
    BY <2>1, <2>2
<1>7. Kept(sessions)'
  <2> HIDE DEF f
  <2>1. CASE sessions' = f
    BY <1>1, <1>6, <2>1 DEF Kept
  <2>2. CASE \E keep \in SUBSET DOMAIN f : sessions' = [s \in keep |-> f[s]]
    BY <1>1, <1>6, <2>2 DEF Kept
  <2>3. QED
    BY <1>1, <2>1, <2>2, EvictedFrom
<1>8. Continued'
  BY <1>1, <1>4 DEF Continued, IInv, Typed
<1>9. QED
  BY <1>2, <1>3, <1>7, <1>8 DEF IInv

LEMMA ReadClockStep ==
  ASSUME IInv, NEW r \in Request, ReadClock(r)
  PROVE  IInv'
<1>1. /\ pc' = [pc EXCEPT ![r] = "stamped"] /\ pc[r] = "planned"
      /\ stamp' = [stamp EXCEPT ![r] = now'] /\ now' = now + 1
      /\ UNCHANGED <<sessions, sid, context>>
  BY DEF ReadClock
<1>2. \A q \in Request : pc[q] = "done" => pc'[q] = "done" /\ stamp'[q] = stamp[q]
  BY <1>1 DEF IInv, Typed
<1>3. Typed'
  BY <1>1 DEF IInv, Typed, Where
<1>4. Minted'
  BY <1>1 DEF IInv, Typed, Minted
<1>5. Kept(sessions)'
  BY <1>1, <1>2, SameKept DEF IInv
<1>6. Continued'
  BY <1>1, <1>2 DEF Continued, IInv, Typed
<1>7. QED
  BY <1>3, <1>4, <1>5, <1>6 DEF IInv

LEMMA FailStep ==
  ASSUME IInv, NEW r \in Request, Fail(r)
  PROVE  IInv'
<1>1. /\ pc' = [pc EXCEPT ![r] = "done"] /\ pc[r] \in {"resolved", "planned"}
      /\ UNCHANGED <<now, sessions, sid, context, stamp>>
  BY DEF Fail
<1>2. \A q \in Request : pc[q] = "done" => pc'[q] = "done"
  BY <1>1 DEF IInv, Typed
<1>3. Typed'
  BY <1>1 DEF IInv, Typed, Where
<1>4. Minted'
  BY <1>1 DEF IInv, Typed, Minted
<1>5. Kept(sessions)'
  BY <1>1, <1>2, SameKept DEF IInv
<1>6. Continued'
  BY <1>1, <1>2 DEF Continued, IInv, Typed
<1>7. QED
  BY <1>3, <1>4, <1>5, <1>6 DEF IInv

\* Every step preserves the invariant.
LEMMA IInvStep == IInv /\ [Next]_vars => IInv'
<1> SUFFICES ASSUME IInv, [Next]_vars PROVE IInv'
  OBVIOUS
<1>1. CASE Tick
  BY <1>1 DEF Tick, IInv, Typed, Minted, Kept, Continued
<1>2. CASE UNCHANGED vars
  BY <1>2 DEF vars, IInv, Typed, Minted, Kept, Continued
<1>3. ASSUME NEW r \in Request, NEW p \in SessionId \cup {NoId}, Resolve(r, p)
      PROVE  IInv'
  BY <1>3, ResolveStep
<1>4. ASSUME NEW r \in Request, ReadContext(r) \/ ReadClock(r) \/ Update(r) \/ Fail(r)
      PROVE  IInv'
  BY <1>4, ReadContextStep, ReadClockStep, UpdateStep, FailStep
<1>5. QED
  BY <1>1, <1>2, <1>3, <1>4 DEF Next

\* The inductive invariant holds in every reachable state.
THEOREM Invariance == Spec => []IInv
<1>1. Init => IInv
  BY InitIInv
<1>2. IInv /\ [Next]_vars => IInv'
  BY IInvStep
<1>3. QED
  BY <1>1, <1>2, PTL DEF Spec

(* A request is only ever given a turn of its own principal, in the        *)
(* session it continues, whatever ids the clients make up: resolve, the    *)
(* owner checks and the update of session_context.py.                      *)
THEOREM IsolationCorrect == Spec => []Isolation
<1>1. IInv => Isolation
  <2> SUFFICES ASSUME IInv, NEW r \in Request, context[r] # NoId
               PROVE  OwnerOf[context[r]] = OwnerOf[r] /\ sid[context[r]] = sid[r]
    BY DEF Isolation
  <2>1. context[r] \in Request /\ sid[context[r]] = sid[r] /\ sid[r] # NoId
    BY DEF IInv, Typed, Continued
  <2>2. OwnerOf[sid[r]] = OwnerOf[r] /\ OwnerOf[sid[context[r]]] = OwnerOf[context[r]]
    BY <2>1 DEF IInv, Minted
  <2>3. QED
    BY <2>1, <2>2
<1>2. QED
  BY <1>1, Invariance, PTL

(* No id is ever held by requests of two principals, from the moment it is *)
(* resolved and not only once its session is written.                      *)
THEOREM OneOwnerCorrect == Spec => []OneOwner
<1>1. IInv => OneOwner
  BY DEF IInv, Minted, OneOwner
<1>2. QED
  BY <1>1, Invariance, PTL

(* No request is given a turn that is older than the time to live.         *)
THEOREM FreshCorrect == Spec => FreshContext
<1>1. IInv /\ [Next]_vars =>
        [\A r \in Request : context'[r] # context[r] => now - stamp[context'[r]] <= Ttl]_vars
  <2> SUFFICES ASSUME IInv, [Next]_vars, NEW q \in Request, context'[q] # context[q]
               PROVE  now - stamp[context'[q]] <= Ttl
    OBVIOUS
  <2>1. ReadContext(q)
    <3>1. PICK r \in Request : ReadContext(r)
      BY DEF Next, vars, Resolve, ReadClock, Update, Fail, Tick
    <3>2. q = r
      BY <3>1 DEF ReadContext, IInv, Typed
    <3>3. QED
      BY <3>1, <3>2
  <2>2. context[q] = NoId
    BY <2>1 DEF ReadContext, IInv, Continued
  <2>3. Mine(q, sid[q]) /\ context'[q] = sessions[sid[q]].turn
    BY <2>1, <2>2 DEF ReadContext, IInv, Typed
  <2>4. QED
    BY <2>3 DEF Mine, Live, IInv, Kept
<1>2. QED
  BY <1>1, Invariance, PTL DEF Spec, FreshContext
-----------------------------------------------------------------------------
(* The store never holds more sessions than its capacity: update evicts    *)
(* one for the one it adds.                                                *)
CapacityBound == IsFiniteSet(DOMAIN sessions) /\ Cardinality(DOMAIN sessions) <= MaxSessions

\* Of one session too many, the one that was updated first goes.
LEMMA EvictedFits ==
  ASSUME NEW f, IsFiniteSet(DOMAIN f), Cardinality(DOMAIN f) <= MaxSessions + 1,
         \A s \in DOMAIN f : f[s].updated_at \in Nat
  PROVE  /\ IsFiniteSet(DOMAIN Evicted(f))
         /\ Cardinality(DOMAIN Evicted(f)) <= MaxSessions
<1>1. Cardinality(DOMAIN f) \in Nat
  BY FS_CardinalityType
<1>2. CASE Cardinality(DOMAIN f) <= MaxSessions
  BY <1>2 DEF Evicted
<1>3. CASE ~(Cardinality(DOMAIN f) <= MaxSessions)
  <2> DEFINE o == CHOOSE o \in DOMAIN f :
                    \A s \in DOMAIN f : f[o].updated_at <= f[s].updated_at
             Times == {f[s].updated_at : s \in DOMAIN f}
  <2>1. DOMAIN f # {}
    BY <1>3, FS_EmptySet, CapacityAssumption
  <2>2. \E m \in Times : \A n \in Times : m <= n
    BY <2>1, LeastNatural
  <2>3. \E q \in DOMAIN f : \A s \in DOMAIN f : f[q].updated_at <= f[s].updated_at
    BY <2>2
  <2>4. o \in DOMAIN f
    BY <2>3
  <2>5. DOMAIN Evicted(f) = DOMAIN f \ {o}
    BY <1>3 DEF Evicted
  <2> HIDE DEF o
  <2>6. IsFiniteSet(DOMAIN f \ {o}) /\ Cardinality(DOMAIN f \ {o}) = Cardinality(DOMAIN f) - 1
    BY <2>4, FS_RemoveElement
  <2>7. QED
    BY <1>1, <2>5, <2>6, CapacityAssumption
<1>4. QED
  BY <1>2, <1>3

\* Sessions that expire make room.
LEMMA LiveFits ==
  ASSUME CapacityBound
  PROVE  IsFiniteSet(Live) /\ Cardinality(Live) <= MaxSessions
<1>1. Live \in SUBSET DOMAIN sessions
  BY DEF Live
<1>2. IsFiniteSet(Live) /\ Cardinality(Live) <= Cardinality(DOMAIN sessions)
  BY <1>1, FS_Subset DEF CapacityBound
<1>3. Cardinality(Live) \in Nat /\ Cardinality(DOMAIN sessions) \in Nat
  BY <1>2, FS_CardinalityType DEF CapacityBound
<1>4. QED
  BY <1>2, <1>3, CapacityAssumption DEF CapacityBound

LEMMA UpdateFits ==
  ASSUME IInv, CapacityBound, NEW r \in Request, Update(r)
  PROVE  CapacityBound'
<1> DEFINE state == [owner |-> OwnerOf[r], turn |-> r, updated_at |-> stamp[r]]
           f == [s \in Live \cup {sid[r]} |-> IF s = sid[r] THEN state ELSE sessions[s]]
<1>1. sessions' = Evicted(f)
  BY DEF Update
<1>2. IsFiniteSet(Live \cup {sid[r]}) /\ Cardinality(Live \cup {sid[r]}) <= MaxSessions + 1
  <2>1. Cardinality(Live) \in Nat /\ IsFiniteSet(Live) /\ Cardinality(Live) <= MaxSessions
    BY LiveFits, FS_CardinalityType
  <2>2. /\ IsFiniteSet(Live \cup {sid[r]})
        /\ Cardinality(Live \cup {sid[r]}) =
             IF sid[r] \in Live THEN Cardinality(Live) ELSE Cardinality(Live) + 1
    BY <2>1, FS_AddElement
  <2>3. QED
    BY <2>1, <2>2, CapacityAssumption
<1>3. \A s \in DOMAIN f : f[s].updated_at \in Nat
  BY LiveKept DEF IInv, Kept, Typed
<1>4. DOMAIN f = Live \cup {sid[r]}
  OBVIOUS
<1> HIDE DEF f
<1>5. QED
  BY <1>1, <1>2, <1>3, <1>4, EvictedFits DEF CapacityBound

(* However many conversations there are, the store stays within its        *)
(* capacity: of ConversationSessionStore, max_sessions.                    *)
THEOREM CapacityCorrect == Spec => []CapacityBound
<1>1. Init => CapacityBound
  <2>1. Init => DOMAIN sessions = {}
    BY DEF Init
  <2>2. QED
    BY <2>1, FS_EmptySet, CapacityAssumption DEF CapacityBound
<1>2. IInv /\ CapacityBound /\ [Next]_vars => CapacityBound'
  <2> SUFFICES ASSUME IInv, CapacityBound, [Next]_vars PROVE CapacityBound'
    OBVIOUS
  <2>1. CASE sessions' = sessions
    BY <2>1 DEF CapacityBound
  <2>2. CASE sessions' = Only(Live, sessions)
    BY <2>2, LiveFits DEF CapacityBound
  <2>3. CASE \E r \in Request : Update(r)
    BY <2>3, UpdateFits
  <2>4. QED
    BY <2>1, <2>2, <2>3 DEF Next, vars, Resolve, ReadContext, ReadClock, Fail, Tick
<1>3. QED
  BY <1>1, <1>2, Invariance, PTL DEF Spec
=============================================================================
