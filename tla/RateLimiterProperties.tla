----------------------- MODULE RateLimiterProperties ------------------------
(* What the gateways' rate limiter promises about one client.               *)
EXTENDS RateLimiter

TypeOK ==
    /\ now \in Nat /\ behind \in [Gateway -> 0 .. Skew]
    /\ tokens \in [Bucket -> 0 .. Capacity]
    /\ ts \in [Bucket -> Int \cup {NULL}] /\ touched \in Nat
    /\ request \in [Request -> [at : {"new", "redis", "local", "admitted", "refused", "gone"},
                                gateway : Gateway \cup {NULL},
                                stamp : Int \cup {NULL}, taken : Nat \cup {NULL}]]
    /\ spent \in [Bucket -> Nat] /\ slipped \in [Bucket -> Nat]
    /\ hint \in [Bucket -> Int \cup {NULL}]
    /\ renewed \in [Bucket -> Nat] /\ faults \in 0 .. MaxFaults

\* What a bucket would hold if it had filled by itself since its stamp.
Level(b) ==
    LET since == IF ts[b] = NULL THEN 0 ELSE now - ts[b]
        sum == tokens[b] + since * Refill
    IN IF sum > Capacity THEN Capacity ELSE sum
Levels == [b \in Bucket |-> Level(b)]

\* The lazily computed buckets, with the expiry of an idle client's key,
\* late requests and slow clocks, behave as buckets that fill by themselves, in
\* which clocks and delays count for at most Skew + MaxDelay of time per request,
\* and which are full before their time only when their data was lost
\* (ratelimit.lua, localBucketStore.Allow).
Limit == INSTANCE TokenBuckets WITH level <- Levels, Gift <- Disagreement * Refill
LimitSpec == Limit!Spec

\* Whether Redis is unreachable or loses its data, replies are lost or gateways
\* restart, a bucket has let through, since the start, no more than its capacity,
\* once more for each time it was lost, what time has brought, and what it was paid
\* for twice when stamps went back (ratelimit.lua, localBucketStore.Allow).
AdmissionBound ==
    \A b \in Bucket :
       Cost * spent[b] <= Capacity * (1 + renewed[b]) + Refill * (now + slipped[b])

\* A client that waits for as long as Retry-After says finds a token, unless
\* another request took it (RateLimitMiddleware: int(seconds) + 1).
BucketOf(r) == IF request[r].at = "redis" THEN Redis ELSE request[r].gateway
RetryAfterSuffices ==
    [][\A r \in Request :
          /\ InFlight(r)
          /\ hint[BucketOf(r)] # NULL /\ request[r].stamp >= hint[BucketOf(r)]
          => request'[r].at # "refused"]_vars

=============================================================================
