------------------------- MODULE RateLimiterProofs --------------------------
(***************************************************************************)
(* Proofs about RateLimiter, for any clients, tokens, limits, capacities   *)
(* and resolution of the clock.                                            *)
(***************************************************************************)
EXTENDS RateLimiter, SequenceLemmas, FiniteSetTheorems, TLAPS

(* The requests being served are some of those that were admitted, so the  *)
(* next one is none of them; the gate is exact.                            *)
Serving == /\ IsFiniteSet(serving) /\ free \in 0..MaxConcurrent
           /\ IsSeq(sent)
           /\ serving \subseteq 1..Len(sent)
           /\ GateExact

\* The keys remembered are few.
Remembered == IsFiniteSet(DOMAIN hits) /\ MemoryBound

IInv == Serving /\ Remembered

LEMMA InitIInv == Init => IInv
<1> SUFFICES ASSUME Init PROVE IInv
  OBVIOUS
<1>1. serving = {} /\ DOMAIN hits = {} /\ free = MaxConcurrent /\ sent = <<>>
  BY DEF Init
<1>2. IsSeq(sent)
  BY <1>1 DEF IsSeq
<1>3. QED
  BY <1>1, <1>2, FS_EmptySet, CapacityAssumption
     DEF IInv, Serving, Remembered, GateExact, MemoryBound

LEMMA ServeStep ==
  ASSUME Serving, NEW c \in Client, Serve(c)
  PROVE  Serving'
<1>1. sent' = Append(sent, [client |-> c, at |-> now])
  BY DEF Serve
<1>2. Len(sent) \in Nat /\ Len(sent') = Len(sent) + 1
  BY <1>1, AppendSeq DEF Serving
<1>3. IsSeq(sent')
  BY <1>1, AppendSeq DEF Serving
<1>4. Len(sent') \notin serving
  BY <1>2 DEF Serving
<1>5. /\ IsFiniteSet(serving \cup {Len(sent')}) /\ Cardinality(serving) \in Nat
      /\ Cardinality(serving \cup {Len(sent')}) = Cardinality(serving) + 1
  BY <1>4, FS_AddElement, FS_CardinalityType DEF Serving
<1>6. CASE free > 0
  <2>1. free' = free - 1 /\ serving' = serving \cup {Len(sent')}
    BY <1>6 DEF Serve
  <2>2. serving' \subseteq 1..Len(sent')
    <3>1. serving \subseteq 1..(Len(sent) + 1)
      BY <1>2 DEF Serving
    <3>2. Len(sent) + 1 \in 1..(Len(sent) + 1)
      BY <1>2
    <3>3. QED
      BY <1>2, <2>1, <3>1, <3>2
  <2>3. Cardinality(serving') = Cardinality(serving) + 1 /\ IsFiniteSet(serving')
    BY <1>5, <2>1
  <2>4. free' \in 0..MaxConcurrent /\ free' + Cardinality(serving') = MaxConcurrent
    BY <1>5, <1>6, <2>1, <2>3, CapacityAssumption DEF Serving, GateExact
  <2>5. QED
    BY <1>3, <2>2, <2>3, <2>4 DEF Serving, GateExact
<1>7. CASE ~(free > 0)
  <2>1. UNCHANGED <<free, serving>>
    BY <1>7 DEF Serve
  <2>2. serving' \subseteq 1..Len(sent')
    BY <1>2, <2>1 DEF Serving
  <2>3. QED
    BY <1>3, <2>1, <2>2 DEF Serving, GateExact
<1>8. QED
  BY <1>6, <1>7

LEMMA DoneStep ==
  ASSUME Serving, NEW r \in serving, Done(r)
  PROVE  Serving'
<1>1. /\ IsFiniteSet(serving \ {r}) /\ Cardinality(serving) \in Nat
      /\ Cardinality(serving \ {r}) = Cardinality(serving) - 1
      /\ Cardinality(serving \ {r}) \in Nat
  BY FS_RemoveElement, FS_CardinalityType DEF Serving
<1>2. free' \in 0..MaxConcurrent /\ GateExact'
  BY <1>1, CapacityAssumption DEF Serving, GateExact, Done
<1>3. QED
  BY <1>1, <1>2 DEF Serving, Done

\* A sweep leaves at most MaxKeys keys of one more.
LEMMA SweepFits ==
  ASSUME NEW h, NEW k, IsFiniteSet(DOMAIN h), Cardinality(DOMAIN h) <= MaxKeys + 1,
         NEW g \in Sweep(h, k)
  PROVE  IsFiniteSet(DOMAIN g) /\ Cardinality(DOMAIN g) <= MaxKeys
<1> DEFINE live == {x \in DOMAIN h : Trim(h[x], now) # <<>>}
<1>1. live \in SUBSET DOMAIN h
  OBVIOUS
<1>2. /\ IsFiniteSet(live) /\ Cardinality(live) \in Nat /\ Cardinality(DOMAIN h) \in Nat
      /\ Cardinality(live) <= Cardinality(DOMAIN h)
  BY <1>1, FS_Subset, FS_CardinalityType
<1>3. \/ Cardinality(live) <= MaxKeys /\ DOMAIN g = live
      \/ \E o \in live : DOMAIN g = live \ {o}
  <2>1. live = {x \in DOMAIN h : [y \in DOMAIN h |-> Trim(h[y], now)][x] # <<>>}
    OBVIOUS
  <2> HIDE DEF live
  <2>2. QED
    BY <2>1 DEF Sweep
<1> HIDE DEF live
<1>4. CASE \E o \in live : DOMAIN g = live \ {o}
  <2>1. PICK o \in live : DOMAIN g = live \ {o}
    BY <1>4
  <2>2. IsFiniteSet(live \ {o}) /\ Cardinality(live \ {o}) = Cardinality(live) - 1
    BY <1>2, FS_RemoveElement
  <2>3. QED
    BY <1>2, <2>1, <2>2, CapacityAssumption
<1>5. QED
  BY <1>2, <1>3, <1>4

LEMMA AdmitFits ==
  ASSUME Remembered, NEW k, Admit(k)
  PROVE  Remembered'
<1> DEFINE h == [x \in DOMAIN hits \cup {k} |-> IF x = k THEN Append(Bucket(k), now) ELSE hits[x]]
<1>1. hits' \in IF Cardinality(DOMAIN h) > MaxKeys THEN Sweep(h, k) ELSE {h}
  BY DEF Admit
<1>2. DOMAIN h = DOMAIN hits \cup {k}
  OBVIOUS
<1> HIDE DEF h
<1>3. Cardinality(DOMAIN hits) \in Nat /\ IsFiniteSet(DOMAIN hits)
  BY FS_CardinalityType DEF Remembered
<1>4. /\ IsFiniteSet(DOMAIN hits \cup {k})
      /\ Cardinality(DOMAIN hits \cup {k}) =
           IF k \in DOMAIN hits THEN Cardinality(DOMAIN hits) ELSE Cardinality(DOMAIN hits) + 1
  BY <1>3, FS_AddElement
<1>5. IsFiniteSet(DOMAIN h) /\ Cardinality(DOMAIN h) <= MaxKeys + 1 /\ Cardinality(DOMAIN h) \in Nat
  BY <1>2, <1>3, <1>4, CapacityAssumption DEF Remembered, MemoryBound
<1>6. CASE Cardinality(DOMAIN h) > MaxKeys
  BY <1>1, <1>5, <1>6, SweepFits DEF Remembered, MemoryBound
<1>7. CASE ~(Cardinality(DOMAIN h) > MaxKeys)
  BY <1>1, <1>5, <1>7, CapacityAssumption DEF Remembered, MemoryBound
<1>8. QED
  BY <1>6, <1>7

LEMMA IInvStep == IInv /\ [Next]_vars => IInv'
<1> SUFFICES ASSUME IInv, [Next]_vars PROVE IInv'
  OBVIOUS
<1>1. ASSUME NEW c \in Client, Limited(c) PROVE IInv'
  <2>1. UNCHANGED <<free, serving, sent>> /\ DOMAIN hits' = DOMAIN hits
    BY <1>1 DEF Limited
  <2>2. QED
    BY <2>1 DEF IInv, Serving, Remembered, GateExact, MemoryBound
<1>2. ASSUME NEW c \in Client, Serve(c) PROVE IInv'
  BY <1>2, ServeStep, AdmitFits DEF IInv, Serve
<1>3. ASSUME NEW r \in serving, Done(r) PROVE IInv'
  BY <1>3, DoneStep DEF IInv, Done, Remembered, MemoryBound
<1>4. CASE Tick \/ UNCHANGED vars
  BY <1>4 DEF Tick, vars, IInv, Serving, Remembered, GateExact, MemoryBound
<1>5. QED
  BY <1>1, <1>2, <1>3, <1>4 DEF Next

\* The inductive invariant holds in every reachable state.
THEOREM Invariance == Spec => []IInv
<1>1. Init => IInv
  BY InitIInv
<1>2. IInv /\ [Next]_vars => IInv'
  BY IInvStep
<1>3. QED
  BY <1>1, <1>2, PTL DEF Spec

(* No place of the gate is ever lost or given twice, for any capacity and  *)
(* however the requests end.                                               *)
THEOREM GateCorrect == Spec => []GateExact
<1>1. IInv => GateExact
  BY DEF IInv, Serving
<1>2. QED
  BY <1>1, Invariance, PTL

(* The limiter's memory is bounded, for any number of clients and keys.    *)
THEOREM MemoryCorrect == Spec => []MemoryBound
<1>1. IInv => MemoryBound
  BY DEF IInv, Remembered
<1>2. QED
  BY <1>1, Invariance, PTL
-----------------------------------------------------------------------------
(* What _trim leaves of a bucket.                                          *)

\* The hits of a bucket within the window that ends at t
HitsInWindow(bucket, t) == {m \in 1..Len(bucket) : Fresh(bucket[m], t)}

\* The loop of _trim stops: somewhere there is a first hit that is fresh, or none.
LEMMA ExpiredDefined ==
  ASSUME NEW b \in Seq(Int), NEW at \in Int
  PROVE  /\ Expired(b, at) \in 0..Len(b)
         /\ \A m \in 1..Expired(b, at) : ~Fresh(b[m], at)
         /\ Expired(b, at) < Len(b) => Fresh(b[Expired(b, at) + 1], at)
<1> DEFINE Stop(d) == d \in 0..Len(b) /\ (d < Len(b) => Fresh(b[d + 1], at))
           D == {d \in Nat : Stop(d)}
<1>1. Len(b) \in Nat
  OBVIOUS
<1>2. D \in SUBSET Nat /\ D # {}
  BY <1>1
<1>3. PICK d \in D : \A e \in D : d <= e
  <2> HIDE DEF D
  <2>1. \E d \in D : \A e \in D : d <= e
    BY <1>2, LeastNatural
  <2>2. QED
    BY <2>1
<1>4. d \in 0..Len(b) /\ (d < Len(b) => Fresh(b[d + 1], at))
  BY <1>3
<1>5. ASSUME NEW m \in 1..d PROVE ~Fresh(b[m], at)
  <2>1. m - 1 \in Nat /\ m - 1 < d /\ d <= Len(b) /\ (m - 1) + 1 = m /\ d \in Nat
    BY <1>1, <1>4
  <2>2. m - 1 \notin D
    <3> HIDE DEF D
    <3>1. \A e \in D : d <= e
      BY <1>3
    <3>2. QED
      BY <2>1, <3>1
  <2>3. m - 1 < Len(b) /\ m - 1 \in 0..Len(b)
    BY <1>1, <2>1
  <2>4. QED
    BY <2>1, <2>2, <2>3
<1>6. QED
  BY <1>4, <1>5 DEF Expired

\* The trimmed bucket is the end of the bucket from its first fresh hit.
LEMMA TrimIsEnd ==
  ASSUME NEW b \in Seq(Int), NEW at \in Int
  PROVE  /\ Trim(b, at) \in Seq(Int)
         /\ Len(Trim(b, at)) = Len(b) - Expired(b, at)
         /\ \A m \in 1..(Len(b) - Expired(b, at)) : Trim(b, at)[m] = b[m + Expired(b, at)]
<1>1. Expired(b, at) \in 0..Len(b) /\ Len(b) \in Nat
  BY ExpiredDefined
<1> DEFINE d == Expired(b, at)
<1> HIDE DEF d
<1>2. d \in 0..Len(b)
  BY <1>1 DEF d
<1>3. Trim(b, at) = SubSeq(b, d + 1, Len(b))
  BY DEF Trim, d
<1>4. \A i \in (d + 1)..Len(b) : b[i] \in Int
  BY <1>1, <1>2
<1>5. SubSeq(b, d + 1, Len(b)) = [i \in 1..(Len(b) - d) |-> b[i + d]]
  BY <1>1, <1>2
<1>6. QED
  BY <1>1, <1>2, <1>3, <1>5 DEF d

\* Nothing that is still in a window that ends now or later is lost.
LEMMA TrimKeeps ==
  ASSUME NEW b \in Seq(Int), NEW at \in Int, NEW t \in Int, t >= at
  PROVE  /\ IsFiniteSet(HitsInWindow(Trim(b, at), t))
         /\ Cardinality(HitsInWindow(b, t)) <= Cardinality(HitsInWindow(Trim(b, at), t))
<1> DEFINE d == Expired(b, at)
           S == HitsInWindow(b, t)
           T == HitsInWindow(Trim(b, at), t)
           f == [m \in S |-> m - d]
<1>1. d \in 0..Len(b) /\ Len(b) \in Nat /\ \A m \in 1..d : ~Fresh(b[m], at)
  BY ExpiredDefined
<1>2. Len(Trim(b, at)) = Len(b) - d /\ \A m \in 1..(Len(b) - d) : Trim(b, at)[m] = b[m + d]
  BY TrimIsEnd
<1> HIDE DEF d
<1>3. T \in SUBSET (1..(Len(b) - d))
  BY <1>1, <1>2 DEF HitsInWindow
<1>4. IsFiniteSet(T)
  <2>1. IsFiniteSet(1..(Len(b) - d))
    BY <1>1, UpTo
  <2> HIDE DEF T
  <2>2. QED
    BY <1>3, <2>1, FS_Subset
<1>5. ASSUME NEW m \in S PROVE m - d \in T /\ m \in Int /\ d \in Int
  <2>1. m \in 1..Len(b) /\ Fresh(b[m], t) /\ b[m] \in Int
    BY DEF HitsInWindow
  <2>2. Fresh(b[m], at)
    BY <2>1, LimitAssumption DEF Fresh
  <2>3. m - d \in 1..(Len(b) - d) /\ (m - d) + d = m
    BY <1>1, <2>1, <2>2
  <2>4. QED
    BY <1>1, <1>2, <2>1, <2>3 DEF HitsInWindow
<1>6. f \in Injection(S, T)
  <2> HIDE DEF S, T
  <2>1. f \in [S -> T]
    BY <1>5
  <2>2. \A x, y \in S : f[x] = f[y] => x = y
    BY <1>5
  <2>3. QED
    BY <2>1, <2>2 DEF Injection, IsInjective
<1>7. QED
  <2> HIDE DEF S, T, f
  <2>1. Cardinality(S) <= Cardinality(T)
    BY <1>4, <1>6, FS_Injection
  <2>2. QED
    BY <1>4, <2>1 DEF S, T

LEMMA TrimType ==
  ASSUME NEW b \in Seq(Int), NEW at \in Int, Len(b) <= Limit
  PROVE  Trim(b, at) \in Seq(Int) /\ Len(Trim(b, at)) <= Limit
<1>1. Len(Trim(b, at)) = Len(b) - Expired(b, at) /\ Trim(b, at) \in Seq(Int)
  BY TrimIsEnd
<1>2. Expired(b, at) \in 0..Len(b) /\ Len(b) \in Nat
  BY ExpiredDefined
<1>3. QED
  BY <1>1, <1>2, LimitAssumption

\* A bucket that is as full after the trim as it may be was not trimmed at all.
LEMMA TrimFull ==
  ASSUME NEW b \in Seq(Int), NEW at \in Int, Len(b) <= Limit, ~(Len(Trim(b, at)) < Limit)
  PROVE  /\ Len(b) = Limit /\ Len(Trim(b, at)) = Limit
         /\ Trim(b, at)[1] = b[1] /\ b[1] \in Int /\ Fresh(b[1], at)
<1>1. /\ Expired(b, at) \in 0..Len(b) /\ Len(b) \in Nat
      /\ Expired(b, at) < Len(b) => Fresh(b[Expired(b, at) + 1], at)
  BY ExpiredDefined
<1>2. /\ Len(Trim(b, at)) = Len(b) - Expired(b, at)
      /\ \A m \in 1..(Len(b) - Expired(b, at)) : Trim(b, at)[m] = b[m + Expired(b, at)]
  BY TrimIsEnd
<1>3. Expired(b, at) = 0 /\ Len(b) = Limit
  BY <1>1, <1>2, LimitAssumption
<1>4. 1 \in 1..Len(b) /\ 0 < Len(b)
  BY <1>3, LimitAssumption
<1>5. b[1] \in Int
  BY <1>4
<1>6. QED
  BY <1>1, <1>2, <1>3, <1>4, <1>5
-----------------------------------------------------------------------------
(* The quota.  For every window that ends now or later, the bucket of a    *)
(* key that was not evicted has as many hits in it as the key was allowed  *)
(* requests; stated only for the present it is not inductive, for a trim   *)
(* could drop what counts at the next tick.                                *)

BucketOf(k) == IF k \in DOMAIN hits THEN hits[k] ELSE <<>>
SentOf(k, t) == {n \in DOMAIN sent : RateLimitKey(sent[n].client) = k /\ Fresh(sent[n].at, t)}

Timed == /\ now \in Int
         /\ \A k \in DOMAIN hits : hits[k] \in Seq(Int) /\ Len(hits[k]) <= Limit
         /\ IsSeq(sent) /\ \A n \in DOMAIN sent : sent[n].at \in Int

Counted == \A k \in Key \ evicted : \A t \in Int :
             t >= now => Cardinality(SentOf(k, t)) <= Cardinality(HitsInWindow(BucketOf(k), t))

\* The buckets of allow before a sweep
Hit(k) == [x \in DOMAIN hits \cup {k} |-> IF x = k THEN Append(Bucket(k), now) ELSE hits[x]]

LEMMA BucketOfType ==
  ASSUME Timed, NEW k
  PROVE  /\ BucketOf(k) \in Seq(Int) /\ Len(BucketOf(k)) <= Limit
         /\ Bucket(k) = Trim(BucketOf(k), now) \/ (Bucket(k) = <<>> /\ BucketOf(k) = <<>>)
         /\ Bucket(k) \in Seq(Int)
<1>1. <<>> \in Seq(Int) /\ Len(<<>>) <= Limit
  BY LimitAssumption
<1>2. CASE k \in DOMAIN hits
  BY <1>2, TrimIsEnd DEF Timed, BucketOf, Bucket
<1>3. CASE k \notin DOMAIN hits
  BY <1>1, <1>3 DEF BucketOf, Bucket
<1>4. QED
  BY <1>2, <1>3

\* A hit counts in every window that it is fresh for.
LEMMA HitsAppend ==
  ASSUME NEW b \in Seq(Int), NEW h \in Int, NEW t \in Int
  PROVE  /\ IsFiniteSet(HitsInWindow(b, t)) /\ Cardinality(HitsInWindow(b, t)) \in Nat
         /\ Cardinality(HitsInWindow(b, t)) <= Len(b)
         /\ Cardinality(HitsInWindow(Append(b, h), t)) =
              IF Fresh(h, t) THEN Cardinality(HitsInWindow(b, t)) + 1
                             ELSE Cardinality(HitsInWindow(b, t))
<1>1. /\ Len(b) \in Nat /\ Len(Append(b, h)) = Len(b) + 1
      /\ \A m \in 1..Len(b) : Append(b, h)[m] = b[m]
      /\ Append(b, h)[Len(b) + 1] = h
  OBVIOUS
<1> DEFINE H == HitsInWindow(b, t)
           G == HitsInWindow(Append(b, h), t)
<1>2. H \in SUBSET (1..Len(b)) /\ Len(b) + 1 \notin H
  BY <1>1 DEF HitsInWindow
<1>3. G = IF Fresh(h, t) THEN H \cup {Len(b) + 1} ELSE H
  BY <1>1 DEF HitsInWindow
<1> HIDE DEF H, G
<1>4. IsFiniteSet(1..Len(b)) /\ Cardinality(1..Len(b)) = Len(b)
  BY <1>1, UpTo
<1>5. IsFiniteSet(H) /\ Cardinality(H) \in Nat /\ Cardinality(H) <= Len(b)
  BY <1>2, <1>4, FS_Subset, FS_CardinalityType
<1>6. Cardinality(H \cup {Len(b) + 1}) = Cardinality(H) + 1
  BY <1>2, <1>5, FS_AddElement
<1>7. Cardinality(G) = IF Fresh(h, t) THEN Cardinality(H) + 1 ELSE Cardinality(H)
  BY <1>3, <1>6
<1>8. QED
  BY <1>5, <1>7 DEF H, G

\* The requests of a key in a window, after one more request.
LEMMA SentAppend ==
  ASSUME Timed, NEW c, sent' = Append(sent, [client |-> c, at |-> now]), NEW k, NEW t \in Int
  PROVE  /\ Cardinality(SentOf(k, t)) \in Nat
         /\ Cardinality(SentOf(k, t)') =
              IF RateLimitKey(c) = k /\ Fresh(now, t) THEN Cardinality(SentOf(k, t)) + 1
                                                      ELSE Cardinality(SentOf(k, t))
<1>1. /\ Len(sent) \in Nat /\ DOMAIN sent' = 1..(Len(sent) + 1) /\ DOMAIN sent = 1..Len(sent)
      /\ \A n \in DOMAIN sent : sent'[n] = sent[n]
      /\ sent'[Len(sent) + 1] = [client |-> c, at |-> now]
  BY AppendSeq DEF Timed
<1> DEFINE S == SentOf(k, t)
           R == {n \in DOMAIN sent' : RateLimitKey(sent'[n].client) = k /\ Fresh(sent'[n].at, t)}
<1>2. SentOf(k, t)' = R
  BY DEF SentOf, Fresh, RateLimitKey
<1>3. S \in SUBSET (1..Len(sent)) /\ Len(sent) + 1 \notin S
  BY <1>1 DEF SentOf
<1>4. R = IF RateLimitKey(c) = k /\ Fresh(now, t) THEN S \cup {Len(sent) + 1} ELSE S
  BY <1>1 DEF SentOf
<1> HIDE DEF S, R
<1>5. IsFiniteSet(1..Len(sent))
  BY <1>1, FS_Interval
<1>6. IsFiniteSet(S) /\ Cardinality(S) \in Nat
  BY <1>3, <1>5, FS_Subset, FS_CardinalityType
<1>7. Cardinality(S \cup {Len(sent) + 1}) = Cardinality(S) + 1
  BY <1>3, <1>6, FS_AddElement
<1>8. Cardinality(R) = IF RateLimitKey(c) = k /\ Fresh(now, t) THEN Cardinality(S) + 1 ELSE Cardinality(S)
  BY <1>4, <1>7
<1>9. QED
  BY <1>2, <1>6, <1>8 DEF S

\* What the buckets are when allow says yes, before the sweep and after it.
LEMMA AdmitBuckets ==
  ASSUME Timed, NEW k, Len(Bucket(k)) < Limit, Admit(k)
  PROVE  /\ \A x \in DOMAIN Hit(k) : Hit(k)[x] \in Seq(Int) /\ Len(Hit(k)[x]) <= Limit
         /\ DOMAIN hits' \subseteq DOMAIN Hit(k)
         /\ \A x \in DOMAIN hits' : hits'[x] = Hit(k)[x] \/ hits'[x] = Trim(Hit(k)[x], now)
         /\ \A x \in DOMAIN Hit(k) \ DOMAIN hits' : x \in evicted' \/ Trim(Hit(k)[x], now) = <<>>
         /\ evicted \subseteq evicted'
<1>1. ASSUME NEW x \in DOMAIN Hit(k) PROVE Hit(k)[x] \in Seq(Int) /\ Len(Hit(k)[x]) <= Limit
  <2>1. CASE x = k
    <3>1. Bucket(k) \in Seq(Int) /\ now \in Int
      BY BucketOfType DEF Timed
    <3>2. Append(Bucket(k), now) \in Seq(Int) /\ Len(Append(Bucket(k), now)) = Len(Bucket(k)) + 1
          /\ Len(Bucket(k)) \in Nat
      BY <3>1
    <3>3. QED
      BY <2>1, <3>2, LimitAssumption DEF Hit
  <2>2. CASE x # k
    BY <2>2 DEF Hit, Timed
  <2>3. QED
    BY <2>1, <2>2
<1>2. /\ hits' \in IF Cardinality(DOMAIN Hit(k)) > MaxKeys THEN Sweep(Hit(k), k) ELSE {Hit(k)}
      /\ evicted' = evicted \cup {x \in DOMAIN Hit(k) \ DOMAIN hits' : Trim(Hit(k)[x], now) # <<>>}
  BY DEF Admit, Hit
<1>3. CASE hits' \in Sweep(Hit(k), k)
  <2>1. PICK live \in SUBSET DOMAIN Hit(k) : hits' = [x \in live |-> Trim(Hit(k)[x], now)]
    BY <1>3, Zenon DEF Sweep
  <2>2. QED
    BY <1>1, <1>2, <2>1
<1>4. CASE hits' = Hit(k)
  BY <1>1, <1>2, <1>4
<1>5. QED
  BY <1>2, <1>3, <1>4

LEMMA TimedStep ==
  ASSUME Timed, [Next]_vars
  PROVE  Timed' /\ now <= now'
<1>1. ASSUME NEW c \in Client, Limited(c) PROVE Timed' /\ now <= now'
  <2> DEFINE k == RateLimitKey(c)
  <2> HIDE DEF k
  <2>1. /\ now' \in {now, now + 1} /\ sent' = sent
        /\ hits' = [hits EXCEPT ![k] = Trim(@, now')]
    BY <1>1 DEF Limited, k
  <2>2. now' \in Int /\ now <= now'
    BY <2>1 DEF Timed
  <2>3. ASSUME NEW x \in DOMAIN hits' PROVE hits'[x] \in Seq(Int) /\ Len(hits'[x]) <= Limit
    <3>1. x \in DOMAIN hits /\ hits[x] \in Seq(Int) /\ Len(hits[x]) <= Limit
          /\ hits'[x] = IF x = k THEN Trim(hits[x], now') ELSE hits[x]
      BY <2>1 DEF Timed
    <3>2. QED
      BY <2>2, <3>1, TrimType
  <2>4. QED
    BY <2>1, <2>2, <2>3 DEF Timed
<1>2. ASSUME NEW c \in Client, Serve(c) PROVE Timed' /\ now <= now'
  <2> DEFINE k == RateLimitKey(c)
  <2>1. sent' = Append(sent, [client |-> c, at |-> now]) /\ now' = now /\ Admit(k)
        /\ Len(Bucket(k)) < Limit
    BY <1>2 DEF Serve, Allowed
  <2>2. ASSUME NEW x \in DOMAIN hits' PROVE hits'[x] \in Seq(Int) /\ Len(hits'[x]) <= Limit
    <3>1. /\ Hit(k)[x] \in Seq(Int) /\ Len(Hit(k)[x]) <= Limit
          /\ hits'[x] = Hit(k)[x] \/ hits'[x] = Trim(Hit(k)[x], now)
      BY <2>1, AdmitBuckets
    <3>2. \A b \in Seq(Int) : Len(b) <= Limit => Trim(b, now) \in Seq(Int) /\ Len(Trim(b, now)) <= Limit
      BY TrimType DEF Timed
    <3>3. QED
      BY <3>1, <3>2
  <2>3. IsSeq(sent') /\ \A n \in DOMAIN sent' : sent'[n].at \in Int
    <3>1. /\ IsSeq(sent') /\ Len(sent) \in Nat
          /\ DOMAIN sent' = 1..(Len(sent) + 1) /\ DOMAIN sent = 1..Len(sent)
          /\ \A n \in DOMAIN sent : sent'[n] = sent[n]
          /\ sent'[Len(sent) + 1] = [client |-> c, at |-> now]
      BY <2>1, AppendSeq DEF Timed
    <3>2. QED
      BY <3>1 DEF Timed
  <2>4. QED
    BY <2>1, <2>2, <2>3 DEF Timed
<1>3. ASSUME NEW r \in serving, Done(r) PROVE Timed' /\ now <= now'
  BY <1>3 DEF Done, Timed
<1>4. CASE Tick \/ UNCHANGED vars
  BY <1>4 DEF Tick, vars, Timed
<1>5. QED
  BY <1>1, <1>2, <1>3, <1>4 DEF Next

LEMMA CountedServe ==
  ASSUME Timed, Counted, NEW c \in Client, Serve(c)
  PROVE  Counted'
<1> DEFINE k == RateLimitKey(c)
<1>1. sent' = Append(sent, [client |-> c, at |-> now]) /\ now' = now /\ Admit(k)
      /\ Len(Bucket(k)) < Limit /\ now \in Int
  BY DEF Serve, Allowed, Timed
<1> HIDE DEF k
<1>2. /\ \A x \in DOMAIN Hit(k) : Hit(k)[x] \in Seq(Int)
      /\ DOMAIN hits' \subseteq DOMAIN Hit(k)
      /\ \A x \in DOMAIN hits' : hits'[x] = Hit(k)[x] \/ hits'[x] = Trim(Hit(k)[x], now)
      /\ \A x \in DOMAIN Hit(k) \ DOMAIN hits' : x \in evicted' \/ Trim(Hit(k)[x], now) = <<>>
      /\ evicted \subseteq evicted'
  BY <1>1, AdmitBuckets
<1> SUFFICES ASSUME NEW x \in Key \ evicted', NEW t \in Int, t >= now
             PROVE  Cardinality(SentOf(x, t)') <= Cardinality(HitsInWindow(BucketOf(x)', t))
  BY <1>1 DEF Counted, HitsInWindow, Fresh, SentOf, RateLimitKey
<1> DEFINE b == IF x \in DOMAIN Hit(k) THEN Hit(k)[x] ELSE <<>>
<1>3. BucketOf(x) \in Seq(Int) /\ Bucket(x) \in Seq(Int)
  BY BucketOfType
<1>4. x \notin evicted
      /\ Cardinality(SentOf(x, t)) <= Cardinality(HitsInWindow(BucketOf(x), t))
      /\ Cardinality(SentOf(x, t)) \in Nat
      /\ Cardinality(HitsInWindow(BucketOf(x), t)) \in Nat
  BY <1>1, <1>2, <1>3, SentAppend, HitsAppend DEF Counted
<1>5. b \in Seq(Int) /\ Cardinality(HitsInWindow(b, t)) \in Nat
      /\ Cardinality(SentOf(x, t)') <= Cardinality(HitsInWindow(b, t))
      /\ Cardinality(SentOf(x, t)') \in Nat
  <2>1. b \in Seq(Int)
    BY <1>2
  <2>2. Cardinality(HitsInWindow(b, t)) \in Nat
    BY <1>1, <2>1, HitsAppend
  <2>3. CASE x = k
    <3>1. Cardinality(SentOf(x, t)') =
            IF Fresh(now, t) THEN Cardinality(SentOf(x, t)) + 1 ELSE Cardinality(SentOf(x, t))
      BY <1>1, <2>3, SentAppend DEF k
    <3>2. b = Append(Bucket(x), now)
      BY <2>3 DEF Hit
    <3>3. Cardinality(HitsInWindow(BucketOf(x), t)) <= Cardinality(HitsInWindow(Bucket(x), t))
      <4>1. CASE Bucket(x) = Trim(BucketOf(x), now)
        BY <1>1, <1>3, <4>1, TrimKeeps
      <4>2. CASE Bucket(x) = BucketOf(x)
        BY <1>4, <4>2
      <4>3. QED
        BY <4>1, <4>2, BucketOfType
    <3>4. /\ Cardinality(HitsInWindow(Bucket(x), t)) \in Nat
          /\ Cardinality(HitsInWindow(b, t)) =
               IF Fresh(now, t) THEN Cardinality(HitsInWindow(Bucket(x), t)) + 1
                                ELSE Cardinality(HitsInWindow(Bucket(x), t))
      BY <1>1, <1>3, <3>2, HitsAppend
    <3> HIDE DEF b
    <3>5. QED
      BY <1>4, <2>1, <2>2, <3>1, <3>3, <3>4
  <2>4. CASE x # k
    <3>1. Cardinality(SentOf(x, t)') = Cardinality(SentOf(x, t))
      BY <1>1, <2>4, SentAppend DEF k
    <3>2. b = BucketOf(x)
      BY <2>4 DEF Hit, BucketOf
    <3> HIDE DEF b
    <3>3. QED
      BY <1>4, <2>1, <2>2, <3>1, <3>2
  <2>5. QED
    BY <2>3, <2>4
<1> HIDE DEF b
<1>6. Cardinality(HitsInWindow(b, t)) <= Cardinality(HitsInWindow(Trim(b, now), t))
  BY <1>1, <1>5, TrimKeeps
<1>7. BucketOf(x)' = b \/ BucketOf(x)' = Trim(b, now)
  <2>1. CASE x \in DOMAIN hits'
    <3>1. BucketOf(x)' = hits'[x] /\ x \in DOMAIN Hit(k)
      BY <1>2, <2>1 DEF BucketOf
    <3>2. QED
      BY <1>2, <2>1, <3>1 DEF b
  <2>2. CASE x \notin DOMAIN hits'
    <3>1. BucketOf(x)' = <<>>
      BY <2>2 DEF BucketOf
    <3>2. CASE x \in DOMAIN Hit(k)
      BY <1>2, <2>2, <3>1, <3>2 DEF b
    <3>3. CASE x \notin DOMAIN Hit(k)
      BY <3>1, <3>3 DEF b
    <3>4. QED
      BY <3>2, <3>3
  <2>3. QED
    BY <2>1, <2>2
<1>8. Cardinality(HitsInWindow(Trim(b, now), t)) \in Nat
  BY <1>1, <1>5, TrimIsEnd, HitsAppend
<1>9. QED
  BY <1>5, <1>6, <1>7, <1>8

LEMMA CountedStep ==
  ASSUME Timed, Counted, [Next]_vars
  PROVE  Counted'
<1>1. ASSUME NEW c \in Client, Limited(c) PROVE Counted'
  <2> DEFINE k == RateLimitKey(c)
  <2> HIDE DEF k
  <2>1. /\ now' \in {now, now + 1} /\ sent' = sent /\ evicted' = evicted
        /\ hits' = [hits EXCEPT ![k] = Trim(@, now')]
    BY <1>1 DEF Limited, k
  <2>2. now' \in Int /\ now <= now' /\ now \in Int
    BY <2>1 DEF Timed
  <2> SUFFICES ASSUME NEW x \in Key \ evicted, NEW t \in Int, t >= now'
               PROVE  Cardinality(SentOf(x, t)) <= Cardinality(HitsInWindow(BucketOf(x)', t))
    BY <2>1 DEF Counted, HitsInWindow, Fresh, SentOf, RateLimitKey
  <2>3. BucketOf(x) \in Seq(Int)
    BY BucketOfType
  <2>4. BucketOf(x)' = BucketOf(x) \/ BucketOf(x)' = Trim(BucketOf(x), now')
    BY <2>1 DEF BucketOf
  <2>5. /\ Cardinality(SentOf(x, t)) \in Nat
        /\ Cardinality(SentOf(x, t)) <= Cardinality(HitsInWindow(BucketOf(x), t))
    <3>1. t >= now
      BY <2>2
    <3>2. IsFiniteSet(SentOf(x, t))
      <4>1. SentOf(x, t) \in SUBSET (1..Len(sent)) /\ Len(sent) \in Nat
        BY DEF SentOf, Timed, IsSeq
      <4>2. IsFiniteSet(1..Len(sent))
        BY <4>1, UpTo
      <4>3. QED
        BY <4>1, <4>2, FS_Subset
    <3>3. QED
      BY <3>1, <3>2, FS_CardinalityType DEF Counted
  <2>6. /\ Cardinality(HitsInWindow(BucketOf(x), t)) \in Nat
        /\ Cardinality(HitsInWindow(Trim(BucketOf(x), now'), t)) \in Nat
    BY <2>2, <2>3, TrimIsEnd, HitsAppend
  <2>7. Cardinality(HitsInWindow(BucketOf(x), t)) <= Cardinality(HitsInWindow(Trim(BucketOf(x), now'), t))
    BY <2>2, <2>3, TrimKeeps
  <2>8. QED
    BY <2>4, <2>5, <2>6, <2>7
<1>2. ASSUME NEW c \in Client, Serve(c) PROVE Counted'
  BY <1>2, CountedServe
<1>3. ASSUME UNCHANGED <<hits, sent, evicted>> PROVE Counted'
  <2>1. now <= now' /\ now' \in Int /\ now \in Int
    BY TimedStep DEF Timed
  <2> SUFFICES ASSUME NEW x \in Key \ evicted, NEW t \in Int, t >= now'
               PROVE  Cardinality(SentOf(x, t)) <= Cardinality(HitsInWindow(BucketOf(x), t))
    BY <1>3 DEF Counted, HitsInWindow, Fresh, SentOf, RateLimitKey, BucketOf
  <2>2. QED
    BY <2>1 DEF Counted
<1>4. QED
  BY <1>1, <1>2, <1>3 DEF Next, Done, Tick, vars

LEMMA InitCounted == Init => Timed /\ Counted
<1> SUFFICES ASSUME Init PROVE Timed /\ Counted
  OBVIOUS
<1>1. now = 0 /\ hits = <<>> /\ sent = <<>> /\ DOMAIN hits = {} /\ DOMAIN sent = {}
  BY DEF Init
<1>2. IsSeq(sent)
  BY <1>1 DEF IsSeq
<1>3. Timed
  BY <1>1, <1>2 DEF Timed
<1>4. ASSUME NEW k, NEW t \in Int
      PROVE  Cardinality(SentOf(k, t)) <= Cardinality(HitsInWindow(BucketOf(k), t))
  <2>1. SentOf(k, t) = {}
    BY <1>1 DEF SentOf
  <2>2. BucketOf(k) = <<>>
    BY <1>1 DEF BucketOf
  <2>3. HitsInWindow(BucketOf(k), t) = {}
    BY <2>2 DEF HitsInWindow
  <2>4. QED
    BY <2>1, <2>3, FS_EmptySet
<1>5. QED
  BY <1>3, <1>4 DEF Counted

THEOREM CountedCorrect == Spec => [](Timed /\ Counted)
<1>1. Init => Timed /\ Counted
  BY InitCounted
<1>2. (Timed /\ Counted) /\ [Next]_vars => (Timed /\ Counted)'
  BY TimedStep, CountedStep
<1>3. QED
  BY <1>1, <1>2, PTL DEF Spec

(* No caller is allowed more than the limit in any window, for any limit,  *)
(* window and resolution of the clock, and whatever tokens a host makes up *)
(* (rate_limit.py 28-38, 78-82).                                           *)
THEOREM QuotaCorrect == Spec => []Quota
<1>1. Timed /\ Counted => Quota
  <2> SUFFICES ASSUME Timed, Counted PROVE Quota
    OBVIOUS
  <2>1. ASSUME NEW k \in Key \ evicted,
               NEW Callers, \A c \in Callers : RateLimitKey(c) = k
        PROVE  SentInWindow(Callers) <= Limit
    <3> DEFINE S == {n \in DOMAIN sent : sent[n].client \in Callers /\ Fresh(sent[n].at, now)}
               T == SentOf(k, now)
               H == HitsInWindow(BucketOf(k), now)
    <3>1. S \in SUBSET T /\ T \in SUBSET (1..Len(sent)) /\ Len(sent) \in Nat
      BY <2>1 DEF SentOf, Timed, IsSeq
    <3>2. Cardinality(T) <= Cardinality(H)
      BY DEF Counted, Timed
    <3>3. Len(BucketOf(k)) \in Nat /\ Len(BucketOf(k)) <= Limit /\ BucketOf(k) \in Seq(Int)
      BY BucketOfType
    <3>4. Cardinality(H) \in Nat /\ Cardinality(H) <= Len(BucketOf(k))
      BY <3>3, HitsAppend DEF Timed
    <3> HIDE DEF S, T, H
    <3>5. IsFiniteSet(1..Len(sent))
      BY <3>1, UpTo
    <3>6. IsFiniteSet(T)
      BY <3>1, <3>5, FS_Subset
    <3>7. IsFiniteSet(S) /\ Cardinality(S) <= Cardinality(T)
      BY <3>1, <3>6, FS_Subset
    <3>8. Cardinality(S) \in Nat /\ Cardinality(T) \in Nat
      BY <3>6, <3>7, FS_CardinalityType
    <3>9. Cardinality(S) <= Limit
      BY <3>2, <3>3, <3>4, <3>7, <3>8, LimitAssumption
    <3>10. QED
      BY <3>9 DEF SentInWindow, S
  <2>2. ASSUME NEW k \in Known
        PROVE  \/ <<k, "principal">> \in evicted
               \/ SentInWindow({c \in Client : c.token = k}) <= Limit
    <3>1. <<k, "principal">> \in Key
      BY DEF Key
    <3>2. \A c \in {d \in Client : d.token = k} : RateLimitKey(c) = <<k, "principal">>
      BY DEF RateLimitKey
    <3>3. QED
      BY <2>1, <3>1, <3>2
  <2>3. ASSUME NEW h \in Host
        PROVE  \/ <<h, "ip">> \in evicted
               \/ SentInWindow({c \in Client : c.host = h /\ c.token \notin Known}) <= Limit
    <3>1. <<h, "ip">> \in Key
      BY DEF Key
    <3>2. \A c \in {d \in Client : d.host = h /\ d.token \notin Known} : RateLimitKey(c) = <<h, "ip">>
      BY DEF RateLimitKey
    <3>3. QED
      BY <2>1, <3>1, <3>2
  <2>4. QED
    BY <2>2, <2>3 DEF Quota
<1>2. QED
  BY <1>1, CountedCorrect, PTL
-----------------------------------------------------------------------------
(* Retry-After.  What a client was told covers the first hit of its bucket, *)
(* as long as no request of its key came in since.                         *)

Since(c) == \E n \in DOMAIN sent :
              RateLimitKey(sent[n].client) = RateLimitKey(c) /\ sent[n].at >= promise[c].at

Covered(c) ==
  \/ Since(c)
  \/ Len(BucketOf(RateLimitKey(c))) < Limit
  \/ BucketOf(RateLimitKey(c))[1] + Window * Scale <= promise[c].at + promise[c].after * Scale

Told == /\ promise \in [Client -> [at : Int, after : Int]]
        /\ \A c \in Client : promise[c].at <= now /\ Covered(c)

\* Seconds rounded up are no fewer ticks.
LEMMA RoundedUp ==
  ASSUME NEW x \in Int, NEW s \in Nat \ {0}
  PROVE  (x \div s) + 1 \in Int /\ x <= ((x \div s) + 1) * s
<1>1. x \div s \in Int /\ x % s \in 0..(s - 1)
  OBVIOUS
<1>2. x = s * (x \div s) + (x % s)
  OBVIOUS
<1>3. ((x \div s) + 1) * s = s * (x \div s) + s
  BY <1>1
<1>4. s * (x \div s) \in Int
  BY <1>1
<1>5. QED
  BY <1>1, <1>2, <1>3, <1>4

\* A bucket that only lost hits covers what it covered.
LEMMA CoveredKept ==
  ASSUME Timed, NEW c \in Client, Covered(c), NEW b \in Seq(Int), NEW at \in Int,
         b = BucketOf(RateLimitKey(c)) \/ b = Trim(BucketOf(RateLimitKey(c)), at) \/ b = <<>>
  PROVE  \/ Since(c)
         \/ Len(b) < Limit
         \/ b[1] + Window * Scale <= promise[c].at + promise[c].after * Scale
<1> DEFINE a == BucketOf(RateLimitKey(c))
<1>1. a \in Seq(Int) /\ Len(a) <= Limit
  BY BucketOfType
<1>2. CASE b = a
  BY <1>2 DEF Covered
<1>3. CASE b = Trim(a, at)
  <2>1. \/ Len(b) < Limit
        \/ Len(a) = Limit /\ b[1] = a[1]
    <3> HIDE DEF a
    <3>1. QED
      BY <1>1, <1>3, TrimFull
  <2>2. QED
    BY <2>1, LimitAssumption DEF Covered
<1>4. CASE b = <<>>
  <2>1. Len(b) = 0
    BY <1>4
  <2>2. QED
    BY <2>1, LimitAssumption
<1>5. QED
  BY <1>2, <1>3, <1>4

LEMMA ToldLimited ==
  ASSUME Timed, Told, NEW c \in Client, Limited(c)
  PROVE  Told'
<1> DEFINE k == RateLimitKey(c)
           b == BucketOf(k)
           r == Trim(b, now')
<1>1. /\ now' \in {now, now + 1} /\ sent' = sent
      /\ hits' = [hits EXCEPT ![k] = Trim(@, now')]
      /\ promise' = [promise EXCEPT ![c] = [at |-> now', after |-> RetryAfter(hits'[k], now')]]
      /\ ~(Len(Bucket(k)) < Limit)
  BY DEF Limited, Allowed
<1>2. now' \in Int /\ now <= now' /\ now \in Int
  BY <1>1 DEF Timed
<1>3. k \in DOMAIN hits
  <2>1. CASE k \notin DOMAIN hits
    <3>1. Bucket(k) = <<>>
      BY <2>1 DEF Bucket
    <3>2. QED
      BY <1>1, <3>1, LimitAssumption
  <2>2. QED
    BY <2>1
<1>4. b \in Seq(Int) /\ Len(b) <= Limit /\ hits'[k] = r
  <2>1. hits'[k] = r
    BY <1>1, <1>3 DEF BucketOf
  <2>2. QED
    BY <2>1, BucketOfType
<1>5. ASSUME NEW x PROVE BucketOf(x)' = IF x = k THEN r ELSE BucketOf(x)
  BY <1>1, <1>3 DEF BucketOf
<1>6. r \in Seq(Int) /\ Len(r) <= Limit
  BY <1>2, <1>4, TrimType
<1> DEFINE after == RetryAfter(r, now')
<1>7. after \in Int /\ (Len(r) < Limit \/ r[1] + Window * Scale <= now' + after * Scale)
  <2>1. CASE Len(r) < Limit
    BY <2>1 DEF RetryAfter
  <2>2. CASE ~(Len(r) < Limit)
    <3> DEFINE x == Window * Scale - (now' - r[1])
    <3>1. Len(r) \in Nat /\ Len(r) > 0
      BY <1>6, <2>2, LimitAssumption
    <3>2. r[1] \in Int /\ Head(r) = r[1]
      BY <1>6, <3>1
    <3>3. Window * Scale \in Int
      BY LimitAssumption
    <3>4. x \in Int
      BY <1>2, <3>2, <3>3
    <3>5. after = (x \div Scale) + 1
      BY <2>2, <3>2 DEF RetryAfter
    <3> HIDE DEF x, after
    <3>6. after \in Int /\ x <= after * Scale
      BY <3>4, <3>5, RoundedUp, LimitAssumption
    <3>7. after * Scale \in Int
      BY <3>6, LimitAssumption
    <3>8. r[1] + Window * Scale <= now' + after * Scale
      BY <1>2, <3>2, <3>3, <3>4, <3>6, <3>7 DEF x
    <3>9. QED
      BY <3>6, <3>8
  <2>3. QED
    BY <2>1, <2>2
<1> HIDE DEF after
<1>8. promise' = [promise EXCEPT ![c] = [at |-> now', after |-> after]]
  BY <1>1, <1>4 DEF after
<1>9. promise' \in [Client -> [at : Int, after : Int]]
  BY <1>2, <1>7, <1>8 DEF Told
<1>10. ASSUME NEW d \in Client PROVE promise'[d].at <= now' /\ Covered(d)'
  <2>1. CASE d = c
    <3>1. promise'[d] = [at |-> now', after |-> after] /\ BucketOf(RateLimitKey(d))' = r
      BY <1>5, <1>8, <2>1 DEF Told, RateLimitKey
    <3>2. QED
      BY <1>2, <1>7, <3>1 DEF Covered, RateLimitKey
  <2>2. CASE d # c
    <3> DEFINE e == BucketOf(RateLimitKey(d))'
    <3>1. promise'[d] = promise[d] /\ Covered(d) /\ promise[d].at <= now /\ promise[d].at \in Int
      BY <1>8, <2>2 DEF Told
    <3>2. e = IF RateLimitKey(d) = k THEN r ELSE BucketOf(RateLimitKey(d))
      BY <1>5 DEF RateLimitKey
    <3>3. e = BucketOf(RateLimitKey(d)) \/ e = Trim(BucketOf(RateLimitKey(d)), now')
      BY <3>2
    <3>4. e \in Seq(Int)
      BY <1>6, <3>2, BucketOfType
    <3>5. (Since(d))' = Since(d)
      BY <1>1, <3>1 DEF Since, RateLimitKey
    <3> HIDE DEF e
    <3>6. \/ Since(d)
          \/ Len(e) < Limit
          \/ e[1] + Window * Scale <= promise[d].at + promise[d].after * Scale
      BY <1>2, <3>1, <3>3, <3>4, CoveredKept
    <3>7. Covered(d)'
      BY <3>1, <3>5, <3>6 DEF Covered, RateLimitKey, e
    <3>8. QED
      BY <1>2, <3>1, <3>7
  <2>3. QED
    BY <2>1, <2>2
<1>11. QED
  BY <1>9, <1>10 DEF Told

LEMMA ToldServe ==
  ASSUME Timed, Told, NEW c \in Client, Serve(c)
  PROVE  Told'
<1> DEFINE k == RateLimitKey(c)
<1>1. sent' = Append(sent, [client |-> c, at |-> now]) /\ now' = now /\ Admit(k)
      /\ Len(Bucket(k)) < Limit /\ now \in Int /\ promise' = promise
  BY DEF Serve, Allowed, Timed
<1>2. /\ DOMAIN sent' = 1..(Len(sent) + 1) /\ DOMAIN sent = 1..Len(sent) /\ Len(sent) \in Nat
      /\ \A n \in DOMAIN sent : n \in DOMAIN sent' /\ sent'[n] = sent[n]
      /\ sent'[Len(sent) + 1] = [client |-> c, at |-> now]
  BY <1>1, AppendSeq DEF Timed
<1> HIDE DEF k
<1>3. /\ DOMAIN hits' \subseteq DOMAIN Hit(k)
      /\ \A x \in DOMAIN hits' : hits'[x] = Hit(k)[x] \/ hits'[x] = Trim(Hit(k)[x], now)
  BY <1>1, AdmitBuckets
<1> SUFFICES ASSUME NEW d \in Client PROVE Covered(d)'
  BY <1>1 DEF Told
<1>4. Covered(d) /\ promise[d].at <= now /\ promise[d].at \in Int
  BY DEF Told
<1>5. CASE RateLimitKey(d) = k
  <2>1. Len(sent) + 1 \in DOMAIN sent'
    BY <1>2
  <2>2. \E n \in DOMAIN sent' :
          RateLimitKey(sent'[n].client) = RateLimitKey(d) /\ sent'[n].at >= promise'[d].at
    <3>1. sent'[Len(sent) + 1].client = c /\ sent'[Len(sent) + 1].at = now
      BY <1>2
    <3>2. promise'[d].at = promise[d].at /\ now >= promise[d].at
      BY <1>1, <1>4
    <3>3. QED
      BY <1>5, <2>1, <3>1, <3>2 DEF k
  <2>3. QED
    BY <2>2 DEF Covered, Since, RateLimitKey
<1>6. CASE RateLimitKey(d) # k
  <2> DEFINE x == RateLimitKey(d)
             e == BucketOf(x)'
  <2>1. e = BucketOf(x) \/ e = Trim(BucketOf(x), now) \/ e = <<>>
    <3>1. CASE x \notin DOMAIN hits'
      BY <3>1 DEF BucketOf, RateLimitKey
    <3>2. CASE x \in DOMAIN hits'
      <4>1. x \in DOMAIN hits /\ Hit(k)[x] = hits[x]
        BY <1>3, <1>6, <3>2 DEF Hit
      <4>2. BucketOf(x) = hits[x] /\ e = hits'[x]
        BY <3>2, <4>1 DEF BucketOf, RateLimitKey
      <4>3. QED
        BY <1>3, <3>2, <4>1, <4>2
    <3>3. QED
      BY <3>1, <3>2
  <2>2. e \in Seq(Int)
    <3>1. BucketOf(x) \in Seq(Int)
      BY BucketOfType
    <3>2. Trim(BucketOf(x), now) \in Seq(Int) /\ <<>> \in Seq(Int)
      BY <1>1, <3>1, TrimIsEnd
    <3>3. QED
      BY <2>1, <3>1, <3>2
  <2>3. Since(d) => Since(d)'
    BY <1>1, <1>2 DEF Since, RateLimitKey
  <2> HIDE DEF e
  <2>4. \/ Since(d)
        \/ Len(e) < Limit
        \/ e[1] + Window * Scale <= promise[d].at + promise[d].after * Scale
    BY <1>1, <1>4, <2>1, <2>2, CoveredKept
  <2>5. QED
    BY <1>1, <2>3, <2>4 DEF Covered, RateLimitKey, e
<1>7. QED
  BY <1>5, <1>6

LEMMA ToldStep ==
  ASSUME Timed, Told, [Next]_vars
  PROVE  Told'
<1>1. ASSUME NEW c \in Client, Limited(c) PROVE Told'
  BY <1>1, ToldLimited
<1>2. ASSUME NEW c \in Client, Serve(c) PROVE Told'
  BY <1>2, ToldServe
<1>3. ASSUME UNCHANGED <<hits, sent, promise>> PROVE Told'
  <2>1. now <= now' /\ now' \in Int /\ now \in Int
    BY TimedStep DEF Timed
  <2>2. ASSUME NEW c \in Client PROVE promise'[c].at <= now' /\ Covered(c)'
    <3>1. promise'[c] = promise[c] /\ Covered(c) /\ promise[c].at <= now /\ promise[c].at \in Int
      BY <1>3 DEF Told
    <3>2. Covered(c)'
      BY <1>3, <3>1 DEF Covered, Since, BucketOf, RateLimitKey
    <3>3. QED
      BY <2>1, <3>1, <3>2
  <2>3. QED
    BY <1>3, <2>2 DEF Told
<1>4. QED
  BY <1>1, <1>2, <1>3 DEF Next, Done, Tick, vars

LEMMA InitTold == Init => Told
<1> SUFFICES ASSUME Init PROVE Told
  OBVIOUS
<1>1. now = 0 /\ DOMAIN hits = {} /\ promise = [c \in Client |-> [at |-> 0, after |-> 0]]
  BY DEF Init, NoPromise
<1>2. ASSUME NEW c \in Client PROVE Covered(c)
  <2>1. BucketOf(RateLimitKey(c)) = <<>>
    BY <1>1 DEF BucketOf
  <2>2. QED
    BY <2>1, LimitAssumption DEF Covered
<1>3. QED
  BY <1>1, <1>2 DEF Told

(* Whoever waits for what the 429 said is let in, for any limit, window    *)
(* and resolution of the clock, unless its key was used in between         *)
(* (rate_limit.py 40-49, main.py 127-132).                                 *)
THEOREM RetryHonestCorrect == Spec => RetryHonest
<1>1. Timed /\ Told /\ [Next]_vars => (Timed /\ Told)'
  BY TimedStep, ToldStep
<1>2. Timed /\ Told /\ [Next]_vars =>
        [\A c \in Client :
           LET p == promise[c]
           IN  promise'[c] # p /\ p # NoPromise /\ now >= p.at + p.after * Scale
                 => \E n \in DOMAIN sent :
                      RateLimitKey(sent[n].client) = RateLimitKey(c) /\ sent[n].at >= p.at]_vars
  <2> SUFFICES ASSUME Timed, Told, Next, NEW c \in Client, promise'[c] # promise[c],
                      now >= promise[c].at + promise[c].after * Scale
               PROVE  Since(c)
    BY DEF Since
  <2>1. PICK d \in Client : Limited(d)
    BY DEF Next, Serve, Done, Tick
  <2>2. promise' = [promise EXCEPT ![d] = [at |-> now', after |-> RetryAfter(hits'[RateLimitKey(d)], now')]]
        /\ ~(Len(Bucket(RateLimitKey(d))) < Limit)
    BY <2>1 DEF Limited, Allowed
  <2>3. c = d
    BY <2>2 DEF Told
  <2> DEFINE b == BucketOf(RateLimitKey(c))
             until == promise[c].at + promise[c].after * Scale
  <2>4. b \in Seq(Int) /\ Len(b) <= Limit /\ ~(Len(Trim(b, now)) < Limit) /\ now \in Int
    <3>1. Bucket(RateLimitKey(c)) # <<>>
      BY <2>2, <2>3, LimitAssumption
    <3>2. QED
      BY <2>2, <2>3, <3>1, BucketOfType DEF Timed
  <2> HIDE DEF b
  <2>5. Len(b) = Limit /\ b[1] \in Int /\ Fresh(b[1], now)
    BY <2>4, TrimFull
  <2>6. until \in Int /\ Window * Scale \in Int
    <3>1. promise[c].at \in Int /\ promise[c].after \in Int
      BY DEF Told
    <3>2. promise[c].after * Scale \in Int
      BY <3>1, LimitAssumption
    <3>3. QED
      BY <3>1, <3>2, LimitAssumption
  <2>7. Since(c) \/ Len(b) < Limit \/ b[1] + Window * Scale <= until
    BY DEF Told, Covered, b
  <2> HIDE DEF until
  <2>8. ~(b[1] + Window * Scale <= until)
    <3>1. now >= until
      BY DEF until
    <3>2. QED
      BY <2>4, <2>5, <2>6, <3>1 DEF Fresh
  <2>9. QED
    BY <2>5, <2>7, <2>8, LimitAssumption
<1>3. Init => Timed /\ Told
  BY InitCounted, InitTold
<1>4. QED
  BY <1>1, <1>2, <1>3, PTL DEF Spec, RetryHonest
=============================================================================
