----------------------------- MODULE RateLimiter ----------------------------
(***************************************************************************)
(* The HTTP middleware of backend/main.py with the RateLimiter and the     *)
(* ConcurrencyGate of backend/security/rate_limit.py.  The middleware runs *)
(* on the event loop: nothing interleaves between a request's arrival and  *)
(* its admission or refusal, only while it is being served.                *)
(* Time is counted in ticks, Scale of them in a second.                    *)
(***************************************************************************)
EXTENDS Integers, Sequences, FiniteSets

CONSTANTS Token, Known,   \* bearer tokens, and those the server configured
          Host, NoToken,
          Client,         \* who sends requests: with which token, from which host
          Limit, Window,  \* requests per window of so many seconds
          MaxKeys,        \* keys the limiter remembers
          MaxConcurrent,  \* capacity of the gate
          Scale,
          MaxNow, MaxSent \* bounds: ticks, requests admitted

ASSUME TokenAssumption == Known \subseteq Token /\ NoToken \notin Token
ASSUME LimitAssumption == Limit \in Nat \ {0} /\ Window \in Nat \ {0} /\ Scale \in Nat \ {0}
ASSUME CapacityAssumption == MaxKeys \in Nat \ {0} /\ MaxConcurrent \in Nat \ {0}
ASSUME BoundAssumption == MaxNow \in Nat /\ MaxSent \in Nat

ASSUME ClientAssumption == Client \subseteq [token : Token \cup {NoToken}, host : Host]

Key == (Known \X {"principal"}) \cup (Host \X {"ip"})

\* mutant: any token is a principal
KeyByAnyToken(c) == IF c.token # NoToken THEN <<c.token, "principal">> ELSE <<c.host, "ip">>

\* rate_limit_key: only a configured token is a principal
RateLimitKey(c) == IF c.token \in Known THEN <<c.token, "principal">> ELSE <<c.host, "ip">>

VARIABLES now,
          hits,       \* _hits: by key, the times of the requests it was allowed
          free,       \* the semaphore of the gate
          serving,    \* requests inside call_next
          sent,       \* every request allowed so far: its client and its time
          promise,    \* by client, what its last 429 said, or NoPromise
          evicted     \* history: the keys a sweep dropped before their window had passed

vars == <<now, hits, free, serving, sent, promise, evicted>>

NoPromise == [at |-> 0, after |-> 0]

Init == /\ now = 0 /\ hits = <<>> /\ free = MaxConcurrent
        /\ serving = {} /\ sent = <<>>
        /\ promise = [c \in Client |-> NoPromise] /\ evicted = {}

\* _trim: a hit leaves the window after exactly Window seconds
Fresh(t, at) == t > at - Window * Scale
Expired(bucket, at) ==   \* how many popleft takes away
  CHOOSE d \in 0..Len(bucket) : /\ \A m \in 1..d : ~Fresh(bucket[m], at)
                                /\ d < Len(bucket) => Fresh(bucket[d + 1], at)
Trim(bucket, at) == SubSeq(bucket, Expired(bucket, at) + 1, Len(bucket))

Bucket(k) == IF k \in DOMAIN hits THEN Trim(hits[k], now) ELSE <<>>

\* mutant: not rounded up
RetryRoundedDown(bucket, at) ==
  IF Len(bucket) < Limit THEN 0 ELSE (Window * Scale - (at - Head(bucket))) \div Scale

\* retry_after: int(window - (now - bucket[0])) + 1, of seconds; 0 when there is
\* room again
RetryAfter(bucket, at) ==
  IF Len(bucket) < Limit THEN 0 ELSE ((Window * Scale - (at - Head(bucket))) \div Scale) + 1

(* _sweep, of the buckets with k the newest key: drop what is empty, then  *)
(* the key hit least recently while there are too many.  One key came in   *)
(* since the last sweep, so at most one goes; of equal times the sort puts *)
(* the newest key last.                                                    *)
Last(bucket) == bucket[Len(bucket)]
SweepTrims(h, k) ==   \* mutant: drops only what is empty
  LET live == {x \in DOMAIN h : Trim(h[x], now) # <<>>} IN {[x \in live |-> Trim(h[x], now)]}
Sweep(h, k) ==
  LET trimmed == [x \in DOMAIN h |-> Trim(h[x], now)]
      live    == {x \in DOMAIN h : trimmed[x] # <<>>}
      oldest  == {x \in live \ {k} : \A y \in live : Last(h[x]) <= Last(h[y])}
  IN  IF Cardinality(live) <= MaxKeys
      THEN {[x \in live |-> trimmed[x]]}
      ELSE {[x \in live \ {o} |-> trimmed[x]] : o \in oldest}

\* RateLimiter.allow, when it says yes
Admit(k) ==
  LET h == [x \in DOMAIN hits \cup {k} |-> IF x = k THEN Append(Bucket(k), now) ELSE hits[x]]
  IN  /\ hits' \in IF Cardinality(DOMAIN h) > MaxKeys THEN Sweep(h, k) ELSE {h}
      /\ evicted' = evicted \cup {x \in DOMAIN h \ DOMAIN hits' : Trim(h[x], now) # <<>>}

Allowed(c) == Len(Bucket(RateLimitKey(c))) < Limit

\* 429, with Retry-After: retry_after reads the clock again, and trims the
\* refused bucket, perhaps to nothing
Limited(c) ==
  LET k == RateLimitKey(c) IN
  /\ ~Allowed(c)
  /\ now' \in {now, now + 1} /\ now' <= MaxNow
  /\ hits' = [hits EXCEPT ![k] = Trim(@, now')]
  /\ promise' = [promise EXCEPT ![c] = [at |-> now', after |-> RetryAfter(hits'[k], now')]]
  /\ UNCHANGED <<free, serving, sent, evicted>>

\* A heavy request passes the limiter, and then the gate, or is refused with 503
Serve(c) ==
  /\ Allowed(c) /\ Len(sent) < MaxSent
  /\ Admit(RateLimitKey(c))
  /\ sent' = Append(sent, [client |-> c, at |-> now])
  /\ IF free > 0
     THEN free' = free - 1 /\ serving' = serving \cup {Len(sent')}
     ELSE UNCHANGED <<free, serving>>
  /\ UNCHANGED <<now, promise>>

\* mutant: not released
DoneLeaks(r) == /\ r \in serving /\ serving' = serving \ {r}
                /\ UNCHANGED <<now, hits, free, sent, promise, evicted>>

\* call_next returned, raised or was cancelled: finally releases the gate
Done(r) ==
  /\ r \in serving /\ serving' = serving \ {r}
  /\ free' = IF free < MaxConcurrent THEN free + 1 ELSE free
  /\ UNCHANGED <<now, hits, sent, promise, evicted>>

Tick == /\ now < MaxNow /\ now' = now + 1
        /\ UNCHANGED <<hits, free, serving, sent, promise, evicted>>

Next == \/ \E c \in Client : Limited(c) \/ Serve(c)
        \/ \E r \in serving : Done(r)
        \/ Tick

Spec == Init /\ [][Next]_vars
-----------------------------------------------------------------------------
TypeOK ==
  /\ now \in 0..MaxNow
  /\ DOMAIN hits \subseteq Key
  /\ \A k \in DOMAIN hits : hits[k] \in Seq(0..MaxNow)
  /\ free \in 0..MaxConcurrent
  /\ serving \subseteq 1..MaxSent
  /\ sent \in Seq([client : Client, at : 0..MaxNow])
  /\ promise \in [Client -> [at : 0..MaxNow, after : Nat]]
  /\ evicted \subseteq Key

(* The limiter remembers at most MaxKeys keys, however many ask            *)
(* (rate_limit.py 35-36, 56-71).                                           *)
MemoryBound == Cardinality(DOMAIN hits) <= MaxKeys

\* The requests of a caller, by what a caller is for the limits
SentInWindow(Callers) ==
  Cardinality({n \in DOMAIN sent : sent[n].client \in Callers /\ Fresh(sent[n].at, now)})

(* As long as its key was not evicted, no principal, and no host through   *)
(* all the clients without a configured token on it, whatever tokens they  *)
(* make up, is allowed more than Limit requests in any window.             *)
Quota ==
  /\ \A k \in Known : \/ <<k, "principal">> \in evicted
                      \/ SentInWindow({c \in Client : c.token = k}) <= Limit
  /\ \A h \in Host :
       \/ <<h, "ip">> \in evicted
       \/ SentInWindow({c \in Client : c.host = h /\ c.token \notin Known}) <= Limit

(* A client that waits as long as its 429 told it is not refused again,    *)
(* unless its key was allowed a request since (main.py 127-132).           *)
RetryHonest ==
  [][\A c \in Client :
       LET p == promise[c]
       IN  promise'[c] # p /\ p # NoPromise /\ now >= p.at + p.after * Scale
             => \E n \in DOMAIN sent :
                  RateLimitKey(sent[n].client) = RateLimitKey(c) /\ sent[n].at >= p.at]_vars

(* The place of every request that is no longer served is free again, and  *)
(* never more than MaxConcurrent are served (main.py 134-141).             *)
GateExact == free + Cardinality(serving) = MaxConcurrent
=============================================================================
