---------------------------- MODULE RateLimiter ----------------------------
(***************************************************************************)
(* RateLimitMiddleware of api/forge/api/middleware.py: a sliding window of *)
(* accepted requests for each client address and path.  The list of time   *)
(* stamps of a bucket is the set of the requests that put them there.      *)
(* Nothing is awaited inside the lock, so each block under it is one step; *)
(* other requests run while call_next serves an admitted one.              *)
(***************************************************************************)
EXTENDS Integers, FiniteSets

CONSTANTS
    Requests,  \* HTTP requests
    KeyOf,     \* KeyOf[r]: client address and path
    Exempt,    \* keys whose path is exempt (/api/v1/auth..., /api/v1/health)
    Limit,     \* max_requests
    Window,    \* window_seconds
    Horizon    \* when the model's clock stops; any number will do

ASSUME LimitAssumption ==
    /\ IsFiniteSet(Requests)
    /\ Limit \in Nat \ {0}
    /\ Window \in Nat \ {0}
    /\ Horizon \in Nat

VARIABLES
    now,     \* time.time(), assumed not to go back
    bucket,  \* bucket[k]: the requests whose stamps _buckets[k] holds
    stamp,   \* stamp[r]: when r was admitted
    state,   \* state[r]
    told     \* told[r]: X-RateLimit-Remaining of the answer to r

limiterVars == <<now, bucket, stamp, state, told>>

Keys   == {KeyOf[r] : r \in Requests}
States == {"waiting", "serving", "passed", "answered", "refused"}

LimiterInit ==
    /\ now = 0
    /\ bucket = [k \in Keys |-> {}]
    /\ stamp = [r \in Requests |-> 0]
    /\ state = [r \in Requests |-> "waiting"]
    /\ told = [r \in Requests |-> 0]

-----------------------------------------------------------------------------
\* Fault: a stamp leaves its bucket one tick early.
RecentTooShort(S) == {r \in S : stamp[r] + Window > now + 1}

\* t > now - window_seconds
Recent(S) == {r \in S : stamp[r] + Window > now}

Left(S) == IF Cardinality(S) >= Limit THEN 0 ELSE Limit - Cardinality(S)

\* An exempt path goes straight to call_next.
PassThrough(r) ==
    /\ state[r] = "waiting"
    /\ KeyOf[r] \in Exempt
    /\ state' = [state EXCEPT ![r] = "passed"]
    /\ UNCHANGED <<now, bucket, stamp, told>>

\* Fault: the bucket is not pruned before it is measured.
RefuseUnpruned(r) ==
    LET k == KeyOf[r] IN
    /\ state[r] = "waiting"
    /\ k \notin Exempt
    /\ Cardinality(bucket[k]) >= Limit
    /\ bucket' = [bucket EXCEPT ![k] = Recent(@)]
    /\ state' = [state EXCEPT ![r] = "refused"]
    /\ UNCHANGED <<now, stamp, told>>

\* The first block under the lock prunes the bucket, then refuses ...
Refuse(r) ==
    LET k == KeyOf[r] IN
    /\ state[r] = "waiting"
    /\ k \notin Exempt
    /\ Cardinality(Recent(bucket[k])) >= Limit
    /\ bucket' = [bucket EXCEPT ![k] = Recent(@)]
    /\ state' = [state EXCEPT ![r] = "refused"]
    /\ UNCHANGED <<now, stamp, told>>

\* ... or admits and appends the stamp.
Admit(r) ==
    LET k == KeyOf[r] IN
    /\ state[r] = "waiting"
    /\ k \notin Exempt
    /\ Cardinality(Recent(bucket[k])) < Limit
    /\ bucket' = [bucket EXCEPT ![k] = Recent(@) \cup {r}]
    /\ stamp' = [stamp EXCEPT ![r] = now]
    /\ state' = [state EXCEPT ![r] = "serving"]
    /\ UNCHANGED <<now, told>>

\* Fault: the bucket read before call_next is used after it.
AnswerStale(r) ==
    /\ state[r] = "serving"
    /\ state' = [state EXCEPT ![r] = "answered"]
    /\ told' = [told EXCEPT ![r] =
                  Left({q \in bucket[KeyOf[r]] : stamp[q] < stamp[r]} \cup {r})]
    /\ UNCHANGED <<now, bucket, stamp>>

\* The second block: the bucket as the others have left it, not pruned again.
Answer(r) ==
    /\ state[r] = "serving"
    /\ state' = [state EXCEPT ![r] = "answered"]
    /\ told' = [told EXCEPT ![r] = Left(bucket[KeyOf[r]])]
    /\ UNCHANGED <<now, bucket, stamp>>

Tick ==
    /\ now < Horizon
    /\ now' = now + 1
    /\ UNCHANGED <<bucket, stamp, state, told>>

LimiterNext ==
    \/ \E r \in Requests : PassThrough(r) \/ Refuse(r) \/ Admit(r) \/ Answer(r)
    \/ Tick

LimiterSpec == LimiterInit /\ [][LimiterNext]_limiterVars

-----------------------------------------------------------------------------
LimiterTypeOK ==
    /\ now \in Nat
    /\ bucket \in [Keys -> SUBSET Requests]
    /\ stamp \in [Requests -> Nat]
    /\ state \in [Requests -> States]
    /\ told \in [Requests -> 0 .. Limit]

Admitted(k) == {r \in Requests : KeyOf[r] = k /\ state[r] \in {"serving", "answered"}}

\* The requests of key k admitted in the window that ends at time t.
InWindow(k, t) == {r \in Admitted(k) : stamp[r] <= t /\ t < stamp[r] + Window}

\* No window of Window seconds, wherever it starts, sees more than Limit
\* admitted requests of one client and path, although each bucket forgets its
\* stamps as it goes and requests of the same key are served concurrently.
WindowBound ==
    \A k \in Keys, t \in 0 .. now : Cardinality(InWindow(k, t)) <= Limit

\* A request is refused only if the last window is full of admitted requests:
\* forgotten, refused and exempt requests never count against a client.
NoUndueRefusal ==
    [][\A r \in Requests :
          state[r] # "refused" /\ state'[r] = "refused" =>
              Cardinality(InWindow(KeyOf[r], now)) >= Limit]_limiterVars

\* X-RateLimit-Remaining never promises more than the limiter would still
\* admit at that moment, whatever the others did while the request was served.
RemainingIsAvailable ==
    [][\A r \in Requests :
          state[r] = "serving" /\ state'[r] = "answered" =>
              told'[r] + Cardinality(InWindow(KeyOf[r], now)) <= Limit]_limiterVars
=============================================================================
