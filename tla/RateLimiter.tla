---------------------------- MODULE RateLimiter -----------------------------
(* The gateways' rate limiter for one client: the bucket in Redis that all  *)
(* gateways share (ratelimit.lua), and one bucket in the memory of each     *)
(* gateway for when Redis does not answer (ratelimit.go).  A request takes  *)
(* its stamp from the gateway's clock before it reaches a bucket.           *)
EXTENDS Integers

CONSTANTS
    Gateway, Request,
    Capacity, Refill, Cost,   \* of a bucket, in fractions of a token (TokenBuckets)
    Slack,      \* what EXPIRE adds to the time a bucket takes to fill: 60 s
    Skew,       \* bound: how far a gateway's clock may be behind
    MaxDelay,   \* bound: time from a request's stamp to its bucket
    MaxTime,    \* bound: the clock
    MaxFaults,  \* bound: lost replies, restarts and losses of Redis's data
    NULL

Redis == "redis"
Bucket == {Redis} \cup Gateway
Disagreement == Skew + MaxDelay

ASSUME RateLimiterAssumption ==
    /\ Redis \notin Gateway
    /\ Refill \in Nat \ {0} /\ Cost \in Nat \ {0}
    /\ Capacity \in Nat /\ Capacity >= Cost
    /\ Slack \in Nat /\ Skew \in Nat /\ MaxDelay \in Nat
    /\ MaxTime \in Nat /\ MaxFaults \in Nat
    /\ NULL \notin Gateway \cup Int

VARIABLES
    now,        \* the time, of which every gateway's clock shows its own version
    behind,     \* how far each gateway's clock is behind
    tokens, ts, \* per bucket: its content at its stamp; ts = NULL: no bucket
    touched,    \* when Redis last ran the script: what EXPIRE counts from
    request,    \* the requests, each with its gateway, its stamp and where it is
    spent,      \* history: requests each bucket let through
    slipped,    \* history: time each bucket was paid for twice, its stamp having gone back
    hint,       \* history: the stamp from which the last refusal promised a token
    renewed,    \* history: how often each bucket was lost before it had filled
    faults      \* counts what MaxFaults bounds

buckets == <<tokens, ts, spent, slipped, hint>>
vars == <<now, behind, buckets, touched, request, renewed, faults>>

New == [at |-> "new", gateway |-> NULL, stamp |-> NULL, taken |-> NULL]
Clock(g) == now - behind[g]
Fault == faults < MaxFaults /\ faults' = faults + 1

Init ==
    /\ now = 0
    /\ behind \in [Gateway -> 0 .. Skew]
    /\ tokens = [b \in Bucket |-> Capacity] /\ ts = [b \in Bucket |-> NULL]
    /\ touched = 0
    /\ request = [r \in Request |-> New]
    /\ spent = [b \in Bucket |-> 0] /\ slipped = [b \in Bucket |-> 0]
    /\ hint = [b \in Bucket |-> NULL] /\ renewed = [b \in Bucket |-> 0]
    /\ faults = 0

-----------------------------------------------------------------------------
(* One bucket, a caller's stamp: the same arithmetic in Lua and in Go.       *)

FaultyElapsedBackwards(b, stamp) ==
    IF ts[b] = NULL THEN 0 ELSE IF stamp < ts[b] THEN ts[b] - stamp ELSE stamp - ts[b]
Elapsed(b, stamp) == IF ts[b] = NULL \/ stamp < ts[b] THEN 0 ELSE stamp - ts[b]

FaultyRefilledUncapped(b, stamp) == tokens[b] + Elapsed(b, stamp) * Refill
Refilled(b, stamp) ==
    LET sum == tokens[b] + Elapsed(b, stamp) * Refill
    IN IF sum > Capacity THEN Capacity ELSE sum

\* A stamp older than the bucket's last one is stored all the same, and so is
\* one older than the bucket.
Slip(b, stamp) ==
    IF ts[b] = NULL THEN now - stamp ELSE IF stamp < ts[b] THEN ts[b] - stamp ELSE 0

Allows(b, stamp) == Refilled(b, stamp) >= Cost

\* Retry-After, in whole units of time.
FaultyRetryAfterTruncated(left) == (Cost - left) \div Refill
RetryAfter(left) == (Cost - left) \div Refill + 1

\* What HMSET stores as ts.
FaultyStoredFirst(b, stamp) == IF ts[b] = NULL THEN stamp ELSE ts[b]
Stored(b, stamp) == stamp

RunBucket(b, stamp) ==
    LET left == IF Allows(b, stamp) THEN Refilled(b, stamp) - Cost ELSE Refilled(b, stamp)
    IN /\ tokens' = [tokens EXCEPT ![b] = left]
       /\ ts' = [ts EXCEPT ![b] = Stored(b, stamp)]
       /\ spent' = IF Allows(b, stamp) THEN [spent EXCEPT ![b] = @ + 1] ELSE spent
       /\ slipped' = [slipped EXCEPT ![b] = @ + Slip(b, stamp)]
       /\ hint' = [hint EXCEPT ![b] = IF Allows(b, stamp) THEN NULL ELSE stamp + RetryAfter(left)]

Answer(r, b) ==
    request' = [request EXCEPT ![r].at = IF Allows(b, request[r].stamp) THEN "admitted" ELSE "refused"]

-----------------------------------------------------------------------------
(* A request.                                                                *)

\* Allow reads the clock, then calls Redis.
Arrive(r, g) ==
    /\ request[r].at = "new"
    /\ request' = [request EXCEPT ![r] = [at |-> "redis", gateway |-> g, stamp |-> Clock(g), taken |-> now]]
    /\ UNCHANGED <<now, behind, buckets, touched, renewed, faults>>

RedisAnswers(r) ==
    /\ request[r].at = "redis"
    /\ RunBucket(Redis, request[r].stamp)
    /\ touched' = now
    /\ Answer(r, Redis)
    /\ UNCHANGED <<now, behind, renewed, faults>>

\* The script ran and its reply is lost: the Redis client may send it again.
ReplyLost(r) ==
    /\ request[r].at = "redis"
    /\ Fault
    /\ RunBucket(Redis, request[r].stamp)
    /\ touched' = now
    /\ UNCHANGED <<now, behind, request, renewed>>

\* allowViaFallback reads the clock again.
RedisFails(r) ==
    /\ request[r].at = "redis"
    /\ request' = [request EXCEPT ![r].at = "local", ![r].taken = now,
                                  ![r].stamp = Clock(request[r].gateway)]
    /\ UNCHANGED <<now, behind, buckets, touched, renewed, faults>>

LocalAnswers(r) ==
    /\ request[r].at = "local"
    /\ RunBucket(request[r].gateway, request[r].stamp)
    /\ Answer(r, request[r].gateway)
    /\ UNCHANGED <<now, behind, touched, renewed, faults>>

-----------------------------------------------------------------------------
(* Time, and what is lost.                                                   *)

\* The time to fill a bucket, rounded up, and the slack.
TTL == (Capacity + Refill - 1) \div Refill + Slack

InFlight(r) == request[r].at \in {"redis", "local"}

Tick ==
    /\ now < MaxTime
    /\ \A r \in Request : InFlight(r) => now - request[r].taken < MaxDelay
    /\ now' = now + 1
    /\ UNCHANGED <<behind, buckets, touched, request, renewed, faults>>

Drop(b) ==
    /\ tokens' = [tokens EXCEPT ![b] = Capacity]
    /\ ts' = [ts EXCEPT ![b] = NULL]
    /\ hint' = [hint EXCEPT ![b] = NULL]
    /\ UNCHANGED <<spent, slipped>>

\* Redis drops the key of an idle client.
Expire ==
    /\ ts[Redis] # NULL
    /\ now >= touched + TTL
    /\ Drop(Redis)
    /\ UNCHANGED <<now, behind, touched, request, renewed, faults>>

\* Redis restarts without a saved copy of the key, or evicts it.
LoseData ==
    /\ ts[Redis] # NULL
    /\ Fault
    /\ Drop(Redis)
    /\ renewed' = [renewed EXCEPT ![Redis] = @ + 1]
    /\ UNCHANGED <<now, behind, touched, request>>

\* A gateway restarts: its bucket and the requests in it are gone.
Restart(g) ==
    /\ Fault
    /\ Drop(g)
    /\ renewed' = [renewed EXCEPT ![g] = @ + 1]
    /\ request' = [r \in Request |->
          IF InFlight(r) /\ request[r].gateway = g
          THEN [request[r] EXCEPT !.at = "gone"] ELSE request[r]]
    /\ UNCHANGED <<now, behind, touched>>

Next == \/ \E r \in Request : \/ \E g \in Gateway : Arrive(r, g)
                              \/ RedisAnswers(r) \/ ReplyLost(r) \/ RedisFails(r)
                              \/ LocalAnswers(r)
        \/ Tick \/ Expire \/ LoseData
        \/ \E g \in Gateway : Restart(g)

Spec == Init /\ [][Next]_vars
=============================================================================
