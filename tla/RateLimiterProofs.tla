-------------------------- MODULE RateLimiterProofs --------------------------
(***************************************************************************)
(* The rate limiter for every number of gateways and requests, every       *)
(* capacity, rate and cost, and whatever the clocks: its buckets implement *)
(* TokenBuckets, and the bounds of RateLimiterProperties hold.             *)
(***************************************************************************)
EXTENDS RateLimiterProperties, TLAPS

-----------------------------------------------------------------------------
(* Arithmetic.                                                             *)

LEMMA MulType ==
    ASSUME NEW a \in Nat, NEW b \in Nat
    PROVE  a * b \in Nat
  OBVIOUS

LEMMA MulMonotone ==
    ASSUME NEW a \in Int, NEW b \in Int, NEW c \in Nat, a <= b
    PROVE  a * c <= b * c
<1>1. (b - a) * c = b * c - a * c
  OBVIOUS
<1>2. (b - a) * c \in Nat
  BY MulType
<1> QED
  BY <1>1, <1>2

LEMMA MulSum ==
    ASSUME NEW a \in Int, NEW b \in Int, NEW c \in Int
    PROVE  (a + b) * c = a * c + b * c
  OBVIOUS

LEMMA MulOneMore ==
    ASSUME NEW a \in Int, NEW c \in Int
    PROVE  c * (a + 1) = c * a + c
  OBVIOUS

\* A quotient and one more, times the divisor, is more than the dividend.
LEMMA DivCeiling ==
    ASSUME NEW a \in Nat, NEW d \in Nat \ {0}
    PROVE  a \div d \in Nat /\ a < (a \div d + 1) * d
  OBVIOUS

-----------------------------------------------------------------------------
(* Types and clocks.                                                       *)

Requests == [at : {"new", "redis", "local", "admitted", "refused", "gone"},
             gateway : Gateway \cup {NULL}, stamp : Int \cup {NULL}, taken : Nat \cup {NULL}]

\* A request on its way took its stamp at most MaxDelay ago, from a clock at most
\* Skew behind.
StampOK(r) ==
    InFlight(r) =>
        /\ request[r].gateway \in Gateway
        /\ request[r].stamp \in Int
        /\ now - Disagreement <= request[r].stamp /\ request[r].stamp <= now
        /\ request[r].taken \in Nat
        /\ request[r].stamp <= request[r].taken
        /\ request[r].taken - Skew <= request[r].stamp
        /\ request[r].taken <= now /\ now <= request[r].taken + MaxDelay

\* No bucket was stamped in the future, and Redis saw every stamp it stores.
ClockInv ==
    /\ \A r \in Request : StampOK(r)
    /\ \A b \in Bucket : ts[b] = NULL => tokens[b] = Capacity
    /\ \A b \in Bucket : ts[b] # NULL => ts[b] <= now
    /\ ts[Redis] # NULL => ts[Redis] <= touched
    /\ touched <= now

TypeInv == TypeOK /\ ClockInv

USE RateLimiterAssumption

LEMMA RedisIsBucket == Redis \in Bucket /\ Gateway \subseteq Bucket
  BY DEF Bucket

LEMMA DisagreementType == Disagreement \in Nat
  BY DEF Disagreement

LEMMA ElapsedType ==
    ASSUME TypeOK, NEW b \in Bucket, NEW stamp \in Int
    PROVE  Elapsed(b, stamp) \in Nat
  BY DEF TypeOK, Elapsed

LEMMA RefilledType ==
    ASSUME TypeOK, NEW b \in Bucket, NEW stamp \in Int
    PROVE  /\ Refilled(b, stamp) \in 0 .. Capacity
           /\ tokens[b] <= Refilled(b, stamp)
<1>1. Elapsed(b, stamp) * Refill \in Nat
  BY ElapsedType, MulType
<1>2. tokens[b] \in 0 .. Capacity
  BY DEF TypeOK
<1> QED
  BY <1>1, <1>2 DEF Refilled

\* What one run of the script leaves behind in its bucket.
LEMMA RunBucketType ==
    ASSUME TypeInv, NEW b \in Bucket, NEW stamp \in Int, stamp <= now, RunBucket(b, stamp)
    PROVE  /\ tokens' \in [Bucket -> 0 .. Capacity] /\ ts' \in [Bucket -> Int \cup {NULL}]
           /\ spent' \in [Bucket -> Nat] /\ slipped' \in [Bucket -> Nat]
           /\ hint' \in [Bucket -> Int \cup {NULL}]
           /\ ts'[b] = stamp
           /\ \A c \in Bucket \ {b} : ts'[c] = ts[c] /\ tokens'[c] = tokens[c]
<1> DEFINE left == IF Allows(b, stamp) THEN Refilled(b, stamp) - Cost ELSE Refilled(b, stamp)
<1>1. Refilled(b, stamp) \in 0 .. Capacity
  BY RefilledType DEF TypeInv
<1>2. left \in 0 .. Capacity
  BY <1>1 DEF Allows
<1>3. tokens' = [tokens EXCEPT ![b] = left] /\ ts' = [ts EXCEPT ![b] = stamp]
  BY DEF RunBucket, Stored
<1>4. Slip(b, stamp) \in Nat
  BY DEF Slip, TypeInv, TypeOK
<1>5. ~Allows(b, stamp) => RetryAfter(left) \in Nat
  <2> SUFFICES ASSUME ~Allows(b, stamp) PROVE RetryAfter(left) \in Nat
    OBVIOUS
  <2>1. Cost - left \in Nat
    BY <1>1 DEF Allows
  <2> QED
    BY <2>1, DivCeiling DEF RetryAfter
<1>6. hint' = [hint EXCEPT ![b] = IF Allows(b, stamp) THEN NULL ELSE stamp + RetryAfter(left)]
  BY DEF RunBucket
<1>7. spent' = IF Allows(b, stamp) THEN [spent EXCEPT ![b] = @ + 1] ELSE spent
  BY DEF RunBucket
<1>8. slipped' = [slipped EXCEPT ![b] = @ + Slip(b, stamp)]
  BY DEF RunBucket
<1> HIDE DEF left
<1>9. TypeOK
  BY DEF TypeInv
<1>10. hint' \in [Bucket -> Int \cup {NULL}]
  BY <1>5, <1>6, <1>9 DEF TypeOK
<1>11. spent' \in [Bucket -> Nat] /\ slipped' \in [Bucket -> Nat]
  BY <1>4, <1>7, <1>8, <1>9 DEF TypeOK
<1>12. tokens' \in [Bucket -> 0 .. Capacity] /\ ts' \in [Bucket -> Int \cup {NULL}]
  BY <1>2, <1>3, <1>9 DEF TypeOK
<1>13. ts'[b] = stamp /\ \A c \in Bucket \ {b} : ts'[c] = ts[c] /\ tokens'[c] = tokens[c]
  BY <1>3, <1>9 DEF TypeOK
<1> QED
  BY <1>10, <1>11, <1>12, <1>13

\* The clocks' part of the invariant after a bucket was used, when the requests'
\* part is kept.
LEMMA RunBucketClocks ==
    ASSUME TypeInv, NEW b \in Bucket, NEW stamp \in Int, stamp <= now, RunBucket(b, stamp),
           now' = now, b = Redis => touched' = now, b # Redis => touched' = touched
    PROVE  /\ \A c \in Bucket : ts'[c] = NULL => tokens'[c] = Capacity
           /\ \A c \in Bucket : ts'[c] # NULL => ts'[c] <= now'
           /\ ts'[Redis] # NULL => ts'[Redis] <= touched'
           /\ touched' <= now'
<1>1. ts'[b] = stamp /\ \A c \in Bucket \ {b} : ts'[c] = ts[c] /\ tokens'[c] = tokens[c]
  BY RunBucketType
<1>2. now \in Nat /\ touched \in Nat
  BY DEF TypeInv, TypeOK
<1> QED
  BY <1>1, <1>2, RedisIsBucket DEF TypeInv, ClockInv

LEMMA InitTypes == Init => TypeInv
<1> SUFFICES ASSUME Init PROVE TypeInv
  OBVIOUS
<1>1. TypeOK
  BY DEF Init, TypeOK, New
<1>2. \A r \in Request : ~InFlight(r)
  BY DEF Init, New, InFlight
<1>3. ClockInv
  BY <1>2, RedisIsBucket DEF Init, ClockInv, StampOK
<1> QED
  BY <1>1, <1>3 DEF TypeInv

LEMMA ArriveTypes ==
    ASSUME TypeInv, NEW r \in Request, NEW g \in Gateway, Arrive(r, g) PROVE TypeInv'
<1>1. /\ now \in Nat /\ behind[g] \in 0 .. Skew /\ Clock(g) \in Int
      /\ Clock(g) <= now /\ now - Skew <= Clock(g)
  BY DEF TypeInv, TypeOK, Clock
<1>2. request'[r] = [at |-> "redis", gateway |-> g, stamp |-> Clock(g), taken |-> now]
  BY DEF Arrive, TypeInv, TypeOK
<1>3. \A q \in Request \ {r} : request'[q] = request[q]
  BY DEF Arrive, TypeInv, TypeOK
<1>4. TypeOK'
  BY <1>1 DEF Arrive, TypeInv, TypeOK, buckets
<1>5. StampOK(r)'
  BY <1>1, <1>2 DEF StampOK, Arrive, Disagreement, InFlight
<1>6. \A q \in Request \ {r} : StampOK(q)'
  BY <1>3 DEF StampOK, Arrive, TypeInv, ClockInv, InFlight
<1>7. ClockInv'
  BY <1>5, <1>6 DEF ClockInv, TypeInv, Arrive, buckets
<1> QED
  BY <1>4, <1>7 DEF TypeInv

LEMMA RedisFailsTypes ==
    ASSUME TypeInv, NEW r \in Request, RedisFails(r) PROVE TypeInv'
<1> DEFINE g == request[r].gateway
<1>1. g \in Gateway
  BY DEF TypeInv, ClockInv, StampOK, RedisFails, InFlight
<1> HIDE DEF g
<1>2. /\ now \in Nat /\ behind[g] \in 0 .. Skew /\ Clock(g) \in Int
      /\ Clock(g) <= now /\ now - Skew <= Clock(g)
  BY <1>1 DEF TypeInv, TypeOK, Clock
<1>3. /\ request' = [request EXCEPT ![r].at = "local", ![r].taken = now, ![r].stamp = Clock(g)]
      /\ UNCHANGED <<now, behind, buckets, touched, renewed, faults>>
  BY DEF RedisFails, g
<1>4. request \in [Request -> Requests]
  BY DEF TypeInv, TypeOK, Requests
<1>5. request' \in [Request -> Requests]
  <2> DEFINE new == [request[r] EXCEPT !.at = "local", !.taken = now, !.stamp = Clock(g)]
  <2>1. new \in Requests
    BY <1>2, <1>4 DEF Requests
  <2>2. request' = [request EXCEPT ![r] = new]
    BY <1>3, <1>4 DEF Requests
  <2> HIDE DEF new
  <2> QED
    BY <1>4, <2>1, <2>2
<1>6. /\ request'[r].at = "local" /\ request'[r].taken = now
      /\ request'[r].stamp = Clock(g) /\ request'[r].gateway = g
  BY <1>3, <1>4 DEF g, Requests
<1>7. \A q \in Request \ {r} : request'[q] = request[q]
  BY <1>3, <1>4
<1>8. TypeOK'
  BY <1>3, <1>5 DEF TypeInv, TypeOK, buckets, Requests
<1>9. StampOK(r)'
  BY <1>1, <1>2, <1>3, <1>6 DEF StampOK, Disagreement, InFlight
<1>10. \A q \in Request \ {r} : StampOK(q)'
  BY <1>3, <1>7 DEF StampOK, TypeInv, ClockInv, InFlight
<1>11. ClockInv'
  BY <1>3, <1>9, <1>10 DEF ClockInv, TypeInv, buckets
<1> QED
  BY <1>8, <1>11 DEF TypeInv

\* A request that has its answer is no longer on its way.
LEMMA AnswerTypes ==
    ASSUME TypeInv, NEW r \in Request, NEW b \in Bucket, Answer(r, b), now' = now
    PROVE  /\ request' \in [Request -> Requests]
           /\ \A q \in Request : StampOK(q)'
           /\ request'[r].at = IF Allows(b, request[r].stamp) THEN "admitted" ELSE "refused"
<1>1. request \in [Request -> Requests]
  BY DEF TypeInv, TypeOK, Requests
<1>2. request' \in [Request -> Requests]
  BY <1>1 DEF Answer, Requests
<1>3. request'[r].at = IF Allows(b, request[r].stamp) THEN "admitted" ELSE "refused"
  BY <1>1 DEF Answer, Requests
<1>4. \A q \in Request \ {r} : request'[q] = request[q]
  BY <1>1 DEF Answer
<1>5. \A q \in Request \ {r} : StampOK(q)'
  BY <1>4 DEF StampOK, TypeInv, ClockInv, InFlight
<1>6. StampOK(r)'
  BY <1>3 DEF StampOK, InFlight
<1> QED
  BY <1>2, <1>3, <1>5, <1>6

LEMMA RedisAnswersTypes ==
    ASSUME TypeInv, NEW r \in Request, RedisAnswers(r) PROVE TypeInv'
<1> DEFINE s == request[r].stamp
<1>1. s \in Int /\ s <= now
  BY DEF TypeInv, ClockInv, StampOK, RedisAnswers, InFlight
<1>2. RunBucket(Redis, s) /\ Answer(r, Redis) /\ touched' = now
      /\ UNCHANGED <<now, behind, renewed, faults>>
  BY DEF RedisAnswers
<1> HIDE DEF s
<1>3. TypeOK'
  BY <1>1, <1>2, RunBucketType, AnswerTypes, RedisIsBucket DEF TypeInv, TypeOK, Requests
<1>4. ClockInv'
  BY <1>1, <1>2, RunBucketClocks, AnswerTypes, RedisIsBucket DEF ClockInv
<1> QED
  BY <1>3, <1>4 DEF TypeInv

LEMMA ReplyLostTypes ==
    ASSUME TypeInv, NEW r \in Request, ReplyLost(r) PROVE TypeInv'
<1> DEFINE s == request[r].stamp
<1>1. s \in Int /\ s <= now
  BY DEF TypeInv, ClockInv, StampOK, ReplyLost, InFlight
<1>2. RunBucket(Redis, s) /\ touched' = now /\ UNCHANGED <<now, behind, request, renewed>>
      /\ faults < MaxFaults /\ faults' = faults + 1
  BY DEF ReplyLost, Fault
<1> HIDE DEF s
<1>3. TypeOK'
  BY <1>1, <1>2, RunBucketType, RedisIsBucket DEF TypeInv, TypeOK
<1>4. \A q \in Request : StampOK(q)'
  BY <1>2 DEF StampOK, TypeInv, ClockInv, InFlight
<1>5. ClockInv'
  BY <1>1, <1>2, <1>4, RunBucketClocks, RedisIsBucket DEF ClockInv
<1> QED
  BY <1>3, <1>5 DEF TypeInv

LEMMA LocalAnswersTypes ==
    ASSUME TypeInv, NEW r \in Request, LocalAnswers(r) PROVE TypeInv'
<1> DEFINE s == request[r].stamp
           g == request[r].gateway
<1>1. s \in Int /\ s <= now /\ g \in Gateway
  BY DEF TypeInv, ClockInv, StampOK, LocalAnswers, InFlight
<1>2. RunBucket(g, s) /\ Answer(r, g) /\ UNCHANGED <<now, behind, touched, renewed, faults>>
  BY DEF LocalAnswers
<1> HIDE DEF s, g
<1>3. g \in Bucket /\ g # Redis
  BY <1>1, RedisIsBucket
<1>4. TypeOK'
  BY <1>1, <1>2, <1>3, RunBucketType, AnswerTypes DEF TypeInv, TypeOK, Requests
<1>5. ClockInv'
  BY <1>1, <1>2, <1>3, RunBucketClocks, AnswerTypes DEF ClockInv
<1> QED
  BY <1>4, <1>5 DEF TypeInv

LEMMA TickTypes ==
    ASSUME TypeInv, Tick PROVE TypeInv'
<1>1. TypeOK'
  BY DEF Tick, TypeInv, TypeOK, buckets
<1>2. now \in Nat /\ now' = now + 1
  BY DEF Tick, TypeInv, TypeOK
<1>3. ASSUME NEW q \in Request PROVE StampOK(q)'
  <2> SUFFICES ASSUME InFlight(q) PROVE StampOK(q)'
    BY DEF StampOK, InFlight, Tick
  <2>1. now - request[q].taken < MaxDelay
    BY DEF Tick
  <2>2. StampOK(q)
    BY DEF TypeInv, ClockInv
  <2> QED
    BY <1>2, <2>1, <2>2 DEF StampOK, Tick, Disagreement, InFlight
<1>4. ClockInv'
  <2>1. \A b \in Bucket : ts[b] \in Int \cup {NULL}
    BY DEF TypeInv, TypeOK
  <2>2. touched \in Nat
    BY DEF TypeInv, TypeOK
  <2> QED
    BY <1>2, <1>3, <2>1, <2>2 DEF ClockInv, Tick, TypeInv, buckets
<1> QED
  BY <1>1, <1>4 DEF TypeInv

LEMMA DropTypes ==
    ASSUME TypeInv, NEW b \in Bucket, Drop(b), now' = now, touched' = touched
    PROVE  /\ tokens' \in [Bucket -> 0 .. Capacity] /\ ts' \in [Bucket -> Int \cup {NULL}]
           /\ hint' \in [Bucket -> Int \cup {NULL}]
           /\ tokens'[b] = Capacity /\ ts'[b] = NULL
           /\ \A c \in Bucket \ {b} : ts'[c] = ts[c] /\ tokens'[c] = tokens[c]
           /\ \A c \in Bucket : ts'[c] = NULL => tokens'[c] = Capacity
           /\ \A c \in Bucket : ts'[c] # NULL => ts'[c] <= now'
           /\ ts'[Redis] # NULL => ts'[Redis] <= touched'
<1>1. tokens' = [tokens EXCEPT ![b] = Capacity] /\ ts' = [ts EXCEPT ![b] = NULL]
      /\ hint' = [hint EXCEPT ![b] = NULL]
  BY DEF Drop
<1>2. tokens'[b] = Capacity /\ ts'[b] = NULL
      /\ \A c \in Bucket \ {b} : ts'[c] = ts[c] /\ tokens'[c] = tokens[c]
  BY <1>1 DEF TypeInv, TypeOK
<1>3. /\ tokens' \in [Bucket -> 0 .. Capacity] /\ ts' \in [Bucket -> Int \cup {NULL}]
      /\ hint' \in [Bucket -> Int \cup {NULL}]
  BY <1>1 DEF TypeInv, TypeOK
<1> QED
  BY <1>2, <1>3, RedisIsBucket DEF TypeInv, ClockInv

LEMMA ExpireTypes ==
    ASSUME TypeInv, Expire PROVE TypeInv'
<1>1. Drop(Redis) /\ UNCHANGED <<now, behind, touched, request, renewed, faults>>
  BY DEF Expire
<1>2. TypeOK'
  BY <1>1, DropTypes, RedisIsBucket DEF TypeInv, TypeOK, Drop
<1>3. \A q \in Request : StampOK(q)'
  BY <1>1 DEF StampOK, TypeInv, ClockInv, InFlight
<1>4. ClockInv'
  BY <1>1, <1>3, DropTypes, RedisIsBucket DEF ClockInv, TypeInv
<1> QED
  BY <1>2, <1>4 DEF TypeInv

LEMMA LoseDataTypes ==
    ASSUME TypeInv, LoseData PROVE TypeInv'
<1>1. /\ Drop(Redis) /\ UNCHANGED <<now, behind, touched, request>>
      /\ faults < MaxFaults /\ faults' = faults + 1
      /\ renewed' = [renewed EXCEPT ![Redis] = @ + 1]
  BY DEF LoseData, Fault
<1>2. TypeOK'
  BY <1>1, DropTypes, RedisIsBucket DEF TypeInv, TypeOK, Drop
<1>3. \A q \in Request : StampOK(q)'
  BY <1>1 DEF StampOK, TypeInv, ClockInv, InFlight
<1>4. ClockInv'
  BY <1>1, <1>3, DropTypes, RedisIsBucket DEF ClockInv, TypeInv
<1> QED
  BY <1>2, <1>4 DEF TypeInv

LEMMA RestartTypes ==
    ASSUME TypeInv, NEW g \in Gateway, Restart(g) PROVE TypeInv'
<1>1. /\ Drop(g) /\ UNCHANGED <<now, behind, touched>>
      /\ faults < MaxFaults /\ faults' = faults + 1
      /\ renewed' = [renewed EXCEPT ![g] = @ + 1]
      /\ request' = [r \in Request |->
            IF InFlight(r) /\ request[r].gateway = g
            THEN [request[r] EXCEPT !.at = "gone"] ELSE request[r]]
  BY DEF Restart, Fault
<1>2. g \in Bucket
  BY RedisIsBucket
<1>3. request' \in [Request -> Requests]
  <2>1. request \in [Request -> Requests]
    BY DEF TypeInv, TypeOK, Requests
  <2>2. ASSUME NEW r \in Request PROVE [request[r] EXCEPT !.at = "gone"] \in Requests
    BY <2>1 DEF Requests
  <2> QED
    BY <1>1, <2>1, <2>2
<1>4. TypeOK'
  BY <1>1, <1>2, <1>3, DropTypes DEF TypeInv, TypeOK, Drop, Requests
<1>5. ASSUME NEW q \in Request PROVE StampOK(q)'
  <2>1. CASE InFlight(q) /\ request[q].gateway = g
    <3>1. request'[q].at = "gone"
      BY <1>1, <2>1 DEF TypeInv, TypeOK
    <3> QED
      BY <3>1 DEF StampOK, InFlight
  <2>2. CASE ~(InFlight(q) /\ request[q].gateway = g)
    <3>1. request'[q] = request[q]
      BY <1>1, <2>2
    <3> QED
      BY <1>1, <3>1 DEF StampOK, TypeInv, ClockInv, InFlight
  <2> QED
    BY <2>1, <2>2
<1>6. ClockInv'
  BY <1>1, <1>2, <1>5, DropTypes DEF ClockInv, TypeInv
<1> QED
  BY <1>4, <1>6 DEF TypeInv

LEMMA TypesAreKept == TypeInv /\ [Next]_vars => TypeInv'
<1> SUFFICES ASSUME TypeInv, [Next]_vars PROVE TypeInv'
  OBVIOUS
<1>1. ASSUME NEW r \in Request, NEW g \in Gateway, Arrive(r, g) PROVE TypeInv'
  BY <1>1, ArriveTypes
<1>2. ASSUME NEW r \in Request, RedisAnswers(r) PROVE TypeInv'
  BY <1>2, RedisAnswersTypes
<1>3. ASSUME NEW r \in Request, ReplyLost(r) PROVE TypeInv'
  BY <1>3, ReplyLostTypes
<1>4. ASSUME NEW r \in Request, RedisFails(r) PROVE TypeInv'
  BY <1>4, RedisFailsTypes
<1>5. ASSUME NEW r \in Request, LocalAnswers(r) PROVE TypeInv'
  BY <1>5, LocalAnswersTypes
<1>6. CASE Tick
  BY <1>6, TickTypes
<1>7. CASE Expire
  BY <1>7, ExpireTypes
<1>8. ASSUME NEW g \in Gateway, Restart(g) PROVE TypeInv'
  BY <1>8, RestartTypes
<1>9. CASE LoseData
  BY <1>9, LoseDataTypes
<1>10. CASE UNCHANGED vars
  BY <1>10 DEF vars, buckets, TypeInv, TypeOK, ClockInv, StampOK, InFlight
<1> QED
  BY <1>1, <1>2, <1>3, <1>4, <1>5, <1>6, <1>7, <1>8, <1>9, <1>10 DEF Next

\* Types, and the order of the clocks, in every behaviour of the rate limiter:
\* no bucket holds more than its capacity or a stamp from the future.
THEOREM TypesHold == Spec => []TypeInv
<1> QED
  BY InitTypes, TypesAreKept, PTL DEF Spec

\* The type invariant (ratelimit.lua, ratelimit.go): no bucket ever holds less
\* than nothing or more than its capacity.
THEOREM TypeCorrect == Spec => []TypeOK
<1>1. TypeInv => TypeOK
  BY DEF TypeInv
<1> QED
  BY <1>1, TypesHold, PTL

-----------------------------------------------------------------------------
(* The refinement: a bucket's level is its content and what came in since  *)
(* its stamp.                                                              *)

\* What comes in from a stamp until now.
Since(stamp) == (now - stamp) * Refill

LEMMA LevelType ==
    ASSUME TypeInv, NEW b \in Bucket
    PROVE  /\ Level(b) \in 0 .. Capacity
           /\ ts[b] = NULL => Level(b) = Capacity
           /\ ts[b] # NULL => /\ Since(ts[b]) \in Nat
                              /\ Level(b) = Limit!AtMostCapacity(tokens[b] + Since(ts[b]))
<1>1. /\ tokens[b] \in 0 .. Capacity /\ now \in Nat
      /\ ts[b] = NULL => tokens[b] = Capacity
      /\ ts[b] # NULL => ts[b] \in Int /\ ts[b] <= now
  BY DEF TypeInv, TypeOK, ClockInv
<1>2. CASE ts[b] = NULL
  BY <1>1, <1>2 DEF Level
<1>3. CASE ts[b] # NULL
  <2>1. now - ts[b] \in Nat
    BY <1>1, <1>3
  <2>2. Since(ts[b]) \in Nat
    BY <2>1, MulType DEF Since
  <2>3. Level(b) = Limit!AtMostCapacity(tokens[b] + Since(ts[b]))
    BY <1>3 DEF Level, Since, Limit!AtMostCapacity
  <2> QED
    BY <1>1, <1>3, <2>2, <2>3 DEF Limit!AtMostCapacity
<1> QED
  BY <1>2, <1>3

\* A caller sees at most what is there, and misses no more than what came in since
\* its stamp.
LEMMA LevelSeen ==
    ASSUME TypeInv, NEW b \in Bucket, NEW stamp \in Int,
           now - Disagreement <= stamp, stamp <= now
    PROVE  /\ Since(stamp) \in 0 .. Disagreement * Refill
           /\ Refilled(b, stamp) <= Level(b)
           /\ Level(b) <= Refilled(b, stamp) + Since(stamp)
<1>1. now \in Nat /\ Disagreement \in Nat /\ tokens[b] \in 0 .. Capacity
  BY DisagreementType DEF TypeInv, TypeOK
<1>2. Since(stamp) \in Nat
  <2>1. now - stamp \in Nat
    BY <1>1
  <2> QED
    BY <2>1, MulType DEF Since
<1>3. Since(stamp) <= Disagreement * Refill
  <2>1. now - stamp <= Disagreement /\ now - stamp \in Int
    BY <1>1
  <2> QED
    BY <1>1, <2>1, MulMonotone DEF Since
<1>4. Disagreement * Refill \in Nat
  BY <1>1, MulType
<1>5. CASE ts[b] = NULL
  <2>1. Refilled(b, stamp) = Capacity /\ Level(b) = Capacity
    BY <1>1, <1>5, LevelType DEF Refilled, Elapsed, TypeInv, ClockInv
  <2> QED
    BY <1>2, <1>3, <1>4, <2>1
<1>6. CASE ts[b] # NULL /\ stamp < ts[b]
  <2>1. ts[b] \in Int
    BY <1>6 DEF TypeInv, TypeOK
  <2>2. Refilled(b, stamp) = tokens[b]
    BY <1>1, <1>6 DEF Refilled, Elapsed
  <2>3. Since(ts[b]) <= Since(stamp)
    <3>1. now - ts[b] <= now - stamp
      BY <1>1, <1>6, <2>1
    <3> QED
      BY <1>1, <2>1, <3>1, MulMonotone DEF Since
  <2> QED
    BY <1>1, <1>2, <1>3, <1>4, <1>6, <2>2, <2>3, LevelType DEF Limit!AtMostCapacity
<1>7. CASE ts[b] # NULL /\ stamp >= ts[b]
  <2> DEFINE came == (stamp - ts[b]) * Refill
  <2>1. ts[b] \in Int
    BY <1>7 DEF TypeInv, TypeOK
  <2>2. came \in Nat
    <3>1. stamp - ts[b] \in Nat
      BY <1>7, <2>1
    <3> QED
      BY <3>1, MulType
  <2>3. Refilled(b, stamp) = Limit!AtMostCapacity(tokens[b] + came)
    BY <1>7, <2>1 DEF Refilled, Elapsed, Limit!AtMostCapacity
  <2>4. Since(ts[b]) = came + Since(stamp)
    <3>1. now - ts[b] = (stamp - ts[b]) + (now - stamp)
      BY <1>1, <2>1
    <3>2. stamp - ts[b] \in Int /\ now - stamp \in Int
      BY <1>1, <2>1
    <3> QED
      BY <3>1, <3>2, MulSum DEF Since
  <2> HIDE DEF came
  <2> QED
    BY <1>1, <1>2, <1>3, <1>4, <1>7, <2>2, <2>3, <2>4, LevelType DEF Limit!AtMostCapacity
<1> QED
  BY <1>5, <1>6, <1>7 DEF TypeInv, TypeOK

\* After a request, what it left and what came in since its stamp.
LEMMA LevelAfter ==
    ASSUME TypeInv, NEW b \in Bucket, NEW stamp \in Int, stamp <= now,
           RunBucket(b, stamp), now' = now
    PROVE  LET left == IF Allows(b, stamp) THEN Refilled(b, stamp) - Cost
                                           ELSE Refilled(b, stamp)
           IN  Levels' = [Levels EXCEPT ![b] = Limit!AtMostCapacity(left + Since(stamp))]
<1> DEFINE left == IF Allows(b, stamp) THEN Refilled(b, stamp) - Cost ELSE Refilled(b, stamp)
<1>1. tokens' = [tokens EXCEPT ![b] = left] /\ ts' = [ts EXCEPT ![b] = stamp]
  BY DEF RunBucket, Stored
<1> HIDE DEF left
<1>2. \A c \in Bucket \ {b} : Level(c)' = Level(c)
  BY <1>1 DEF Level, TypeInv, TypeOK
<1>3. Level(b)' = Limit!AtMostCapacity(left + Since(stamp))
  BY <1>1 DEF Level, Since, TypeInv, TypeOK, Limit!AtMostCapacity
<1>4. Levels' = [Levels EXCEPT ![b] = Limit!AtMostCapacity(left + Since(stamp))]
  BY <1>2, <1>3 DEF Levels
<1> QED
  BY <1>4 DEF left

\* A request that reaches a bucket is let through or refused there, with a gift.
LEMMA RunBucketRefines ==
    ASSUME TypeInv, NEW b \in Bucket, NEW stamp \in Int,
           now - Disagreement <= stamp, stamp <= now, RunBucket(b, stamp),
           now' = now, renewed' = renewed
    PROVE  Limit!Next
<1> DEFINE gift == Refilled(b, stamp) + Since(stamp) - Level(b)
<1>1. /\ Refilled(b, stamp) \in 0 .. Capacity /\ Level(b) \in 0 .. Capacity
      /\ Since(stamp) \in 0 .. Disagreement * Refill
      /\ Refilled(b, stamp) <= Level(b) /\ Level(b) <= Refilled(b, stamp) + Since(stamp)
  BY RefilledType, LevelType, LevelSeen DEF TypeInv
<1>2. Disagreement * Refill \in Nat
  BY DisagreementType, MulType
<1>3. gift \in 0 .. Disagreement * Refill
  BY <1>1, <1>2
<1>4. Levels[b] = Level(b)
  BY DEF Levels
<1>5. CASE Allows(b, stamp)
  <2>1. Levels' = [Levels EXCEPT ![b] =
                      Limit!AtMostCapacity(Refilled(b, stamp) - Cost + Since(stamp))]
    BY <1>5, LevelAfter
  <2>2. Refilled(b, stamp) - Cost + Since(stamp) = Levels[b] - Cost + gift
    BY <1>1, <1>4
  <2>3. Levels[b] >= Cost
    BY <1>1, <1>4, <1>5 DEF Allows
  <2> HIDE DEF gift
  <2>4. Limit!Admit(b, gift)
    BY <2>1, <2>2, <2>3 DEF Limit!Admit
  <2> QED
    BY <1>3, <2>4 DEF Limit!Next
<1>6. CASE ~Allows(b, stamp)
  <2>1. Levels' = [Levels EXCEPT ![b] = Limit!AtMostCapacity(Refilled(b, stamp) + Since(stamp))]
    BY <1>6, LevelAfter
  <2>2. Refilled(b, stamp) + Since(stamp) = Levels[b] + gift
    BY <1>1, <1>4
  <2>3. Levels[b] < Cost + Disagreement * Refill
    BY <1>1, <1>2, <1>4, <1>6 DEF Allows
  <2> HIDE DEF gift
  <2>4. Limit!Deny(b, gift)
    BY <2>1, <2>2, <2>3 DEF Limit!Deny
  <2> QED
    BY <1>3, <2>4 DEF Limit!Next
<1> QED
  BY <1>5, <1>6

LEMMA TickRefines ==
    ASSUME TypeInv, Tick PROVE Limit!Next
<1>1. /\ now \in Nat /\ now' = now + 1 /\ tokens' = tokens /\ ts' = ts /\ renewed' = renewed
  BY DEF Tick, TypeInv, TypeOK, buckets
<1>2. ASSUME NEW b \in Bucket PROVE Level(b)' = Limit!AtMostCapacity(Level(b) + Refill)
  <2>1. Level(b) \in 0 .. Capacity /\ tokens[b] \in 0 .. Capacity
    BY LevelType DEF TypeInv, TypeOK
  <2>2. CASE ts[b] = NULL
    BY <1>1, <2>1, <2>2, LevelType DEF Level, Limit!AtMostCapacity, TypeInv, ClockInv
  <2>3. CASE ts[b] # NULL
    <3>1. ts[b] \in Int /\ now - ts[b] \in Int
      BY <1>1, <2>3 DEF TypeInv, TypeOK
    <3>2. (now + 1 - ts[b]) * Refill = Since(ts[b]) + Refill
      <4>1. now + 1 - ts[b] = (now - ts[b]) + 1
        BY <1>1, <3>1
      <4> QED
        BY <3>1, <4>1, MulSum DEF Since
    <3>3. Level(b)' = Limit!AtMostCapacity(tokens[b] + (Since(ts[b]) + Refill))
      <4>1. Level(b)' = Limit!AtMostCapacity(tokens[b] + (now + 1 - ts[b]) * Refill)
        <5>1. tokens'[b] = tokens[b] /\ now' - ts'[b] = now + 1 - ts[b] /\ ts'[b] # NULL
          BY <1>1, <2>3, <3>1
        <5>2. Level(b)' = Limit!AtMostCapacity(tokens'[b] + (now' - ts'[b]) * Refill)
          BY <5>1, Zenon DEF Level, Limit!AtMostCapacity
        <5> QED
          BY <5>1, <5>2, Zenon
      <4> QED
        BY <3>2, <4>1
    <3>4. Since(ts[b]) \in Nat /\ Level(b) = Limit!AtMostCapacity(tokens[b] + Since(ts[b]))
      BY <2>3, LevelType
    <3> QED
      BY <2>1, <3>3, <3>4 DEF Limit!AtMostCapacity
  <2> QED
    BY <2>2, <2>3
<1>3. Levels' = [b \in Bucket |-> Limit!AtMostCapacity(Levels[b] + Refill)]
  BY <1>2 DEF Levels
<1> QED
  BY <1>1, <1>3 DEF Limit!Next, Limit!Tick

\* An idle client's bucket is full by the time Redis drops it.
LEMMA ExpireRefines ==
    ASSUME TypeInv, Expire PROVE Levels' = Levels
<1> DEFINE fill == (Capacity + Refill - 1) \div Refill
<1>1. /\ now \in Nat /\ touched \in Nat /\ ts[Redis] \in Int /\ tokens[Redis] \in 0 .. Capacity
      /\ ts[Redis] # NULL /\ ts[Redis] <= touched /\ now >= touched + TTL
      /\ Drop(Redis) /\ now' = now
  BY RedisIsBucket DEF TypeInv, TypeOK, ClockInv, Expire
<1>2. Capacity + Refill - 1 \in Nat
  OBVIOUS
<1>3. fill \in Nat /\ Capacity + Refill - 1 < (fill + 1) * Refill
  BY <1>2, DivCeiling
<1>4. TTL = fill + Slack
  BY DEF TTL
<1> HIDE DEF fill
<1>5. Capacity <= fill * Refill
  <2>1. (fill + 1) * Refill = fill * Refill + Refill
    BY <1>3, MulSum
  <2>2. fill * Refill \in Nat
    BY <1>3, MulType
  <2> QED
    BY <1>3, <2>1, <2>2
<1>6. fill * Refill <= Since(ts[Redis])
  <2>1. fill <= now - ts[Redis]
    BY <1>1, <1>3, <1>4
  <2> QED
    BY <1>1, <1>3, <2>1, MulMonotone DEF Since
<1>7. fill * Refill \in Nat
  BY <1>3, MulType
<1>8. Level(Redis) = Capacity
  BY <1>1, <1>5, <1>6, <1>7, RedisIsBucket, LevelType DEF Limit!AtMostCapacity
<1>9. Level(Redis)' = Capacity
  <2>1. tokens'[Redis] = Capacity /\ ts'[Redis] = NULL
    BY <1>1, RedisIsBucket DEF Drop, TypeInv, TypeOK
  <2> QED
    BY <2>1 DEF Level
<1>10. \A c \in Bucket \ {Redis} : Level(c)' = Level(c)
  BY <1>1 DEF Drop, Level, TypeInv, TypeOK
<1> QED
  BY <1>8, <1>9, <1>10 DEF Levels

\* A bucket that is lost is a full one, and counted.
LEMMA DropRefines ==
    ASSUME TypeInv, NEW b \in Bucket, Drop(b), now' = now,
           renewed' = [renewed EXCEPT ![b] = @ + 1]
    PROVE  Limit!Next
<1>1. Level(b)' = Capacity
  <2>1. tokens'[b] = Capacity /\ ts'[b] = NULL
    BY DEF Drop, TypeInv, TypeOK
  <2> QED
    BY <2>1 DEF Level
<1>2. \A c \in Bucket \ {b} : Level(c)' = Level(c)
  BY DEF Drop, Level, TypeInv, TypeOK
<1>3. Levels' = [Levels EXCEPT ![b] = Capacity]
  BY <1>1, <1>2 DEF Levels
<1> QED
  BY <1>3 DEF Limit!Next, Limit!Renew

LEMMA InitRefines ==
    ASSUME Init PROVE Limit!Init
<1>1. \A b \in Bucket : Level(b) = Capacity
  BY DEF Init, Level
<1> QED
  BY <1>1 DEF Init, Limit!Init, Limit!Full, Levels

LEMMA StepRefines ==
    ASSUME TypeInv, [Next]_vars PROVE [Limit!Next]_<<Levels, renewed>>
<1>1. ASSUME NEW r \in Request, NEW g \in Gateway, Arrive(r, g) PROVE <<Levels, renewed>>' = <<Levels, renewed>>
  BY <1>1 DEF Arrive, buckets, Levels, Level
<1>2. ASSUME NEW r \in Request, RedisAnswers(r) \/ ReplyLost(r) PROVE Limit!Next
  <2>1. InFlight(r) /\ RunBucket(Redis, request[r].stamp) /\ now' = now /\ renewed' = renewed
    BY <1>2 DEF RedisAnswers, ReplyLost, InFlight
  <2>2. StampOK(r)
    BY DEF TypeInv, ClockInv
  <2> QED
    BY <2>1, <2>2, RunBucketRefines, RedisIsBucket DEF StampOK
<1>3. ASSUME NEW r \in Request, RedisFails(r) PROVE <<Levels, renewed>>' = <<Levels, renewed>>
  BY <1>3 DEF RedisFails, buckets, Levels, Level
<1>4. ASSUME NEW r \in Request, LocalAnswers(r) PROVE Limit!Next
  <2>1. InFlight(r) /\ RunBucket(request[r].gateway, request[r].stamp)
        /\ now' = now /\ renewed' = renewed
    BY <1>4 DEF LocalAnswers, InFlight
  <2>2. StampOK(r)
    BY DEF TypeInv, ClockInv
  <2> QED
    BY <2>1, <2>2, RunBucketRefines, RedisIsBucket DEF StampOK
<1>5. CASE Tick
  BY <1>5, TickRefines
<1>6. CASE Expire
  BY <1>6, ExpireRefines DEF Expire
<1>7. CASE LoseData
  BY <1>7, DropRefines, RedisIsBucket DEF LoseData
<1>8. ASSUME NEW g \in Gateway, Restart(g) PROVE Limit!Next
  BY <1>8, DropRefines, RedisIsBucket DEF Restart
<1>9. CASE UNCHANGED vars
  BY <1>9 DEF vars, buckets, Levels, Level
<1> QED
  BY <1>1, <1>2, <1>3, <1>4, <1>5, <1>6, <1>7, <1>8, <1>9 DEF Next

\* The limiter implements buckets that fill by themselves (ratelimit.lua,
\* localBucketStore.Allow): the lazy refill, the expiry of idle keys, late stamps
\* and lost replies cost at most Skew + MaxDelay of refill per request, and a bucket
\* is full before its time only when it was lost.
THEOREM LimitCorrect == Spec => LimitSpec
<1>1. Init => Limit!Init
  BY InitRefines
<1>2. TypeInv /\ [Next]_vars => [Limit!Next]_<<Levels, renewed>>
  BY StepRefines
<1> QED
  BY <1>1, <1>2, TypesHold, PTL DEF Spec, LimitSpec, Limit!Spec

-----------------------------------------------------------------------------
(* How much is let through.                                                *)

\* What a bucket has been given covers what it let through, what it holds, and
\* what has come in since its stamp.
Paid(b) == Cost * spent[b] + tokens[b] + (IF ts[b] = NULL THEN 0 ELSE Since(ts[b]))
Given(b) == Capacity * (1 + renewed[b]) + Refill * (now + slipped[b])
SpendInv == \A b \in Bucket : Paid(b) <= Given(b)

LEMMA PaidType ==
    ASSUME TypeInv, NEW b \in Bucket
    PROVE  /\ renewed[b] \in Nat /\ spent[b] \in Nat /\ slipped[b] \in Nat
           /\ Cost * spent[b] \in Nat /\ Capacity * (1 + renewed[b]) \in Nat
           /\ Refill * (now + slipped[b]) \in Nat
           /\ Paid(b) \in Nat /\ Given(b) \in Nat
<1>1. renewed[b] \in Nat /\ spent[b] \in Nat /\ slipped[b] \in Nat /\ now \in Nat
      /\ tokens[b] \in Nat
  BY DEF TypeInv, TypeOK
<1>2. Cost * spent[b] \in Nat /\ Capacity * (1 + renewed[b]) \in Nat
      /\ Refill * (now + slipped[b]) \in Nat
  BY <1>1, MulType
<1>3. ts[b] # NULL => Since(ts[b]) \in Nat
  BY LevelType
<1> QED
  BY <1>1, <1>2, <1>3 DEF Paid, Given

\* A run of the script takes no more than it leaves, was given, or slipped.
LEMMA RunBucketSpends ==
    ASSUME TypeInv, SpendInv, NEW b \in Bucket, NEW stamp \in Int, stamp <= now,
           RunBucket(b, stamp), now' = now, renewed' = renewed
    PROVE  SpendInv'
<1> DEFINE left == IF Allows(b, stamp) THEN Refilled(b, stamp) - Cost ELSE Refilled(b, stamp)
           slip == Slip(b, stamp)
           more == IF Allows(b, stamp) THEN 1 ELSE 0
<1>1. /\ tokens' = [tokens EXCEPT ![b] = left] /\ ts' = [ts EXCEPT ![b] = stamp]
      /\ spent' = [spent EXCEPT ![b] = @ + more]
      /\ slipped' = [slipped EXCEPT ![b] = @ + slip]
  <2>1. CASE Allows(b, stamp)
    BY <2>1 DEF RunBucket, Stored
  <2>2. CASE ~Allows(b, stamp)
    <3>1. spent = [spent EXCEPT ![b] = @ + 0]
      BY DEF TypeInv, TypeOK
    <3> QED
      BY <2>2, <3>1 DEF RunBucket, Stored
  <2> QED
    BY <2>1, <2>2
<1>2. /\ tokens'[b] = left /\ ts'[b] = stamp
      /\ spent'[b] = spent[b] + more /\ slipped'[b] = slipped[b] + slip
  BY <1>1 DEF TypeInv, TypeOK
<1>3. ASSUME NEW c \in Bucket \ {b} PROVE Paid(c)' <= Given(c)'
  <2>1. tokens'[c] = tokens[c] /\ ts'[c] = ts[c] /\ spent'[c] = spent[c] /\ slipped'[c] = slipped[c]
    BY <1>1 DEF TypeInv, TypeOK
  <2>2. Paid(c)' = Paid(c) /\ Given(c)' = Given(c)
    BY <2>1 DEF Paid, Given, Since
  <2> QED
    BY <2>2 DEF SpendInv
<1>4. /\ now \in Nat /\ stamp \in Int /\ tokens[b] \in 0 .. Capacity /\ left \in Int
      /\ ts[b] # NULL => ts[b] \in Int
      /\ ts[b] = NULL => tokens[b] = Capacity
  BY RefilledType DEF TypeInv, TypeOK, ClockInv
<1>5. slip \in Nat
  BY <1>4 DEF Slip
<1>6. left + more * Cost = Refilled(b, stamp) /\ Refilled(b, stamp) \in 0 .. Capacity
      /\ more \in 0 .. 1
  BY RefilledType DEF TypeInv
<1>7. Refilled(b, stamp) + Since(stamp)
         <= tokens[b] + (IF ts[b] = NULL THEN 0 ELSE Since(ts[b])) + slip * Refill
  <2>1. CASE ts[b] = NULL
    <3>1. slip * Refill = Since(stamp) /\ Since(stamp) \in Int
      BY <1>4, <2>1 DEF Slip, Since
    <3> QED
      BY <1>4, <1>6, <2>1, <3>1
  <2>2. CASE ts[b] # NULL /\ stamp < ts[b]
    <3>1. Refilled(b, stamp) = tokens[b]
      BY <1>4, <2>2 DEF Refilled, Elapsed
    <3>2. now - stamp = (now - ts[b]) + slip /\ now - ts[b] \in Int
      BY <1>4, <2>2 DEF Slip
    <3>3. Since(stamp) = Since(ts[b]) + slip * Refill /\ Since(ts[b]) \in Int
          /\ slip * Refill \in Int
      BY <1>5, <3>2, MulSum DEF Since
    <3> QED
      BY <1>4, <2>2, <3>1, <3>3
  <2>3. CASE ts[b] # NULL /\ stamp >= ts[b]
    <3> DEFINE came == (stamp - ts[b]) * Refill
    <3>1. came \in Int
      BY <1>4, <2>3
    <3>2. Refilled(b, stamp) <= tokens[b] + came
      BY <1>4, <2>3, <3>1 DEF Refilled, Elapsed
    <3>3. now - ts[b] = (stamp - ts[b]) + (now - stamp) /\ stamp - ts[b] \in Int
          /\ now - stamp \in Int
      BY <1>4, <2>3
    <3>4. Since(ts[b]) = came + Since(stamp) /\ Since(stamp) \in Int /\ Since(ts[b]) \in Int
      BY <3>1, <3>3, MulSum DEF Since
    <3>5. slip = 0
      BY <1>4, <2>3 DEF Slip
    <3>6. slip * Refill = 0
      BY <3>5
    <3> HIDE DEF came, slip
    <3> QED
      BY <1>4, <1>6, <2>3, <3>1, <3>2, <3>4, <3>6
  <2> QED
    BY <1>4, <2>1, <2>2, <2>3
<1> HIDE DEF left, slip, more
<1>8. Paid(b)' <= Given(b)'
  <2>1. Paid(b)' = Cost * (spent[b] + more) + left + Since(stamp)
    BY <1>2, <1>4 DEF Paid, Since
  <2>2. Cost * (spent[b] + more) = Cost * spent[b] + more * Cost
    <3>1. spent[b] \in Nat /\ (more = 0 \/ more = 1)
      BY <1>6, PaidType
    <3> QED
      BY <3>1
  <2>3. Given(b)' = Capacity * (1 + renewed[b]) + Refill * (now + (slipped[b] + slip))
    BY <1>2 DEF Given
  <2>4. Refill * (now + (slipped[b] + slip)) = Refill * (now + slipped[b]) + slip * Refill
    BY <1>4, <1>5, PaidType
  <2>5. /\ slip * Refill \in Nat /\ more * Cost \in Nat /\ Since(stamp) \in Int
        /\ ts[b] # NULL => Since(ts[b]) \in Int
    <3>1. more \in Nat
      BY <1>6
    <3>2. slip * Refill \in Nat /\ more * Cost \in Nat
      BY <1>5, <3>1, MulType
    <3>3. Since(stamp) \in Int
      BY <1>4 DEF Since
    <3>4. ts[b] # NULL => Since(ts[b]) \in Int
      BY LevelType
    <3> QED
      BY <3>2, <3>3, <3>4
  <2>6. Cost * spent[b] + tokens[b] + (IF ts[b] = NULL THEN 0 ELSE Since(ts[b]))
           <= Capacity * (1 + renewed[b]) + Refill * (now + slipped[b])
    BY DEF SpendInv, Paid, Given
  <2>7. /\ Cost * spent[b] \in Nat /\ Capacity * (1 + renewed[b]) \in Nat
        /\ Refill * (now + slipped[b]) \in Nat
    BY PaidType
  <2> DEFINE was == IF ts[b] = NULL THEN 0 ELSE Since(ts[b])
  <2>8. was \in Int
    BY <2>5
  <2> HIDE DEF was
  <2>9. Refilled(b, stamp) + Since(stamp) <= tokens[b] + was + slip * Refill
        /\ Cost * spent[b] + tokens[b] + was
              <= Capacity * (1 + renewed[b]) + Refill * (now + slipped[b])
    BY <1>7, <2>6 DEF was
  <2> QED
    BY <1>4, <1>6, <2>1, <2>2, <2>3, <2>4, <2>5, <2>7, <2>8, <2>9
<1> QED
  BY <1>3, <1>8 DEF SpendInv

LEMMA TickSpends ==
    ASSUME TypeInv, SpendInv, Tick PROVE SpendInv'
<1>1. now \in Nat /\ now' = now + 1 /\ UNCHANGED <<buckets, renewed>>
  BY DEF Tick, TypeInv, TypeOK
<1>2. ASSUME NEW b \in Bucket PROVE Paid(b)' <= Given(b)'
  <2>1. Paid(b) <= Given(b) /\ Paid(b) \in Nat /\ Given(b) \in Nat
    BY PaidType DEF SpendInv
  <2>2. Given(b)' = Given(b) + Refill
    <3>1. slipped[b] \in Nat /\ Capacity * (1 + renewed[b]) \in Nat
      BY PaidType
    <3>2. Given(b)' = Capacity * (1 + renewed[b]) + Refill * (now + 1 + slipped[b])
      BY <1>1 DEF Given, buckets
    <3>3. Refill * (now + 1 + slipped[b]) = Refill * (now + slipped[b]) + Refill
      <4>1. now + slipped[b] \in Int /\ now + 1 + slipped[b] = (now + slipped[b]) + 1
        BY <1>1, <3>1
      <4> QED
        BY <4>1, MulOneMore
    <3> QED
      BY <1>1, <3>1, <3>2, <3>3 DEF Given
  <2>3. Paid(b)' <= Paid(b) + Refill
    <3>1. CASE ts[b] = NULL
      <4>1. Paid(b)' = Paid(b)
        BY <1>1, <3>1 DEF Paid, buckets
      <4> QED
        BY <2>1, <4>1
    <3>2. CASE ts[b] # NULL
      <4>1. ts[b] \in Int /\ Cost * spent[b] \in Nat /\ tokens[b] \in Int
        BY <3>2, PaidType DEF TypeInv, TypeOK
      <4>2. (now + 1 - ts[b]) * Refill = (now - ts[b]) * Refill + Refill
        BY <1>1, <4>1
      <4>3. Paid(b)' = Cost * spent[b] + tokens[b] + (now + 1 - ts[b]) * Refill
        <5>1. /\ tokens'[b] = tokens[b] /\ now' - ts'[b] = now + 1 - ts[b] /\ ts'[b] # NULL
              /\ spent'[b] = spent[b]
          BY <1>1, <3>2, <4>1 DEF buckets
        <5>2. Paid(b)' = Cost * spent'[b] + tokens'[b] + (now' - ts'[b]) * Refill
          BY <5>1, Zenon DEF Paid, Since
        <5> QED
          BY <5>1, <5>2, Zenon
      <4>4. (now - ts[b]) * Refill \in Int
        BY <1>1, <4>1
      <4> QED
        BY <3>2, <4>1, <4>2, <4>3, <4>4 DEF Paid, Since
    <3> QED
      BY <3>1, <3>2
  <2>4. Paid(b)' \in Int
    <3>1. TypeInv'
      BY TickTypes
    <3> QED
      BY <1>1, <3>1, LevelType, PaidType DEF Paid, buckets, TypeInv, TypeOK, Since
  <2> QED
    BY <2>1, <2>2, <2>3, <2>4
<1> QED
  BY <1>2 DEF SpendInv

\* A bucket that is dropped starts full.
LEMMA DropSpends ==
    ASSUME TypeInv, SpendInv, NEW b \in Bucket, Drop(b), now' = now,
           \A c \in Bucket \ {b} : renewed'[c] = renewed[c],
           \/ renewed'[b] = renewed[b] + 1
           \/ renewed'[b] = renewed[b] /\ Level(b) = Capacity /\ ts[b] # NULL
    PROVE  SpendInv'
<1>1. /\ tokens'[b] = Capacity /\ ts'[b] = NULL /\ spent' = spent /\ slipped' = slipped
      /\ \A c \in Bucket \ {b} : tokens'[c] = tokens[c] /\ ts'[c] = ts[c]
  BY DEF Drop, TypeInv, TypeOK
<1>2. ASSUME NEW c \in Bucket \ {b} PROVE Paid(c)' <= Given(c)'
  <2>1. Paid(c)' = Paid(c) /\ Given(c)' = Given(c)
    BY <1>1 DEF Paid, Given, Since
  <2> QED
    BY <2>1 DEF SpendInv
<1>3. Paid(b)' = Cost * spent[b] + Capacity
  <2>1. Cost * spent[b] \in Nat
    BY PaidType
  <2> QED
    BY <1>1, <2>1 DEF Paid
<1>4. /\ renewed[b] \in Nat /\ Cost * spent[b] \in Nat
      /\ Capacity * (1 + renewed[b]) \in Nat /\ Refill * (now + slipped[b]) \in Nat
      /\ tokens[b] \in Nat /\ Paid(b) <= Given(b)
  BY PaidType DEF TypeInv, TypeOK, SpendInv
<1>5. ASSUME renewed'[b] = renewed[b] + 1
      PROVE  Paid(b)' <= Given(b)'
  <2>1. Given(b)' = Capacity * (1 + (renewed[b] + 1)) + Refill * (now + slipped[b])
    BY <1>1, <1>5 DEF Given
  <2>2. Capacity * (1 + (renewed[b] + 1)) = Capacity * (1 + renewed[b]) + Capacity
    BY <1>4
  <2>3. ts[b] # NULL => Since(ts[b]) \in Nat
    BY LevelType
  <2>4. Cost * spent[b] <= Given(b)
    BY <1>4, <2>3 DEF Paid, Given
  <2>5. Given(b)' = Given(b) + Capacity
    BY <1>4, <2>1, <2>2 DEF Given
  <2>6. Given(b) \in Nat
    BY PaidType
  <2> QED
    BY <1>3, <1>4, <2>4, <2>5, <2>6
<1>6. ASSUME renewed'[b] = renewed[b], Level(b) = Capacity, ts[b] # NULL
      PROVE  Paid(b)' <= Given(b)'
  <2>1. Given(b)' = Given(b)
    BY <1>1, <1>6 DEF Given
  <2>2. Since(ts[b]) \in Nat /\ Capacity <= tokens[b] + Since(ts[b])
    BY <1>4, <1>6, LevelType DEF Limit!AtMostCapacity
  <2>3. Paid(b) = Cost * spent[b] + tokens[b] + Since(ts[b])
    BY <1>6 DEF Paid
  <2>4. Given(b) \in Nat
    BY PaidType
  <2> QED
    BY <1>3, <1>4, <2>1, <2>2, <2>3, <2>4
<1> QED
  BY <1>2, <1>5, <1>6 DEF SpendInv

LEMMA SpendingIsKept ==
    ASSUME TypeInv, SpendInv, [Next]_vars PROVE SpendInv'
<1> USE RedisIsBucket
<1>1. ASSUME UNCHANGED <<now, buckets, renewed>> PROVE SpendInv'
  BY <1>1 DEF buckets, SpendInv, Paid, Given, Since
<1>2. ASSUME NEW r \in Request, NEW g \in Gateway, Arrive(r, g) PROVE SpendInv'
  BY <1>1, <1>2 DEF Arrive
<1>3. ASSUME NEW r \in Request, RedisAnswers(r) \/ ReplyLost(r) PROVE SpendInv'
  <2>1. InFlight(r) /\ RunBucket(Redis, request[r].stamp) /\ now' = now /\ renewed' = renewed
    BY <1>3 DEF RedisAnswers, ReplyLost, InFlight
  <2>2. StampOK(r)
    BY DEF TypeInv, ClockInv
  <2> QED
    BY <2>1, <2>2, RunBucketSpends DEF StampOK
<1>4. ASSUME NEW r \in Request, RedisFails(r) PROVE SpendInv'
  BY <1>1, <1>4 DEF RedisFails
<1>5. ASSUME NEW r \in Request, LocalAnswers(r) PROVE SpendInv'
  <2>1. InFlight(r) /\ RunBucket(request[r].gateway, request[r].stamp)
        /\ now' = now /\ renewed' = renewed
    BY <1>5 DEF LocalAnswers, InFlight
  <2>2. StampOK(r)
    BY DEF TypeInv, ClockInv
  <2> QED
    BY <2>1, <2>2, RunBucketSpends DEF StampOK
<1>6. CASE Tick
  BY <1>6, TickSpends
<1>7. CASE Expire
  <2>1. Drop(Redis) /\ now' = now /\ renewed' = renewed /\ ts[Redis] # NULL
    BY <1>7 DEF Expire
  <2>2. Level(Redis) = Capacity
    <3>1. Levels'[Redis] = Levels[Redis]
      BY <1>7, ExpireRefines
    <3>2. ts'[Redis] = NULL /\ tokens'[Redis] = Capacity
      BY <2>1 DEF Drop, TypeInv, TypeOK
    <3>3. Level(Redis)' = Capacity
      BY <3>2 DEF Level
    <3> QED
      BY <3>1, <3>3 DEF Levels
  <2>3. \A c \in Bucket : renewed'[c] = renewed[c]
    BY <2>1
  <2> QED
    BY <2>1, <2>2, <2>3, DropSpends
<1>8. ASSUME NEW g \in Gateway, Restart(g) PROVE SpendInv'
  <2>1. Drop(g) /\ now' = now /\ renewed' = [renewed EXCEPT ![g] = @ + 1]
    BY <1>8 DEF Restart
  <2>2. renewed'[g] = renewed[g] + 1 /\ \A c \in Bucket \ {g} : renewed'[c] = renewed[c]
    BY <2>1 DEF TypeInv, TypeOK
  <2> QED
    BY <2>1, <2>2, DropSpends
<1>9. CASE LoseData
  <2>1. Drop(Redis) /\ now' = now /\ renewed' = [renewed EXCEPT ![Redis] = @ + 1]
    BY <1>9 DEF LoseData
  <2>2. renewed'[Redis] = renewed[Redis] + 1
        /\ \A c \in Bucket \ {Redis} : renewed'[c] = renewed[c]
    BY <2>1 DEF TypeInv, TypeOK
  <2> QED
    BY <2>1, <2>2, DropSpends
<1>10. CASE UNCHANGED vars
  BY <1>1, <1>10 DEF vars
<1> QED
  BY <1>2, <1>3, <1>4, <1>5, <1>6, <1>7, <1>8, <1>9, <1>10 DEF Next

LEMMA InitSpends == Init => SpendInv
<1> SUFFICES ASSUME Init, NEW b \in Bucket PROVE Paid(b) <= Given(b)
  BY DEF SpendInv
<1>1. /\ tokens[b] = Capacity /\ ts[b] = NULL /\ spent[b] = 0 /\ slipped[b] = 0 /\ now = 0
      /\ renewed[b] = 0
  BY DEF Init
<1>2. Paid(b) = Capacity /\ Given(b) = Capacity
  BY <1>1 DEF Paid, Given
<1> QED
  BY <1>2

\* The bound on what a bucket has let through since the start, for every number of
\* gateways, requests and faults (Allow, allowViaFallback, ratelimit.lua).
THEOREM AdmissionBounded == Spec => []AdmissionBound
<1>1. TypeInv /\ SpendInv => AdmissionBound
  <2> SUFFICES ASSUME TypeInv, SpendInv, NEW b \in Bucket
               PROVE  Cost * spent[b] <= Capacity * (1 + renewed[b]) + Refill * (now + slipped[b])
    BY DEF AdmissionBound
  <2>1. /\ Paid(b) <= Given(b) /\ Cost * spent[b] \in Nat /\ Given(b) \in Nat
        /\ tokens[b] \in Nat /\ (ts[b] # NULL => Since(ts[b]) \in Nat)
    BY PaidType, LevelType DEF SpendInv, TypeInv, TypeOK
  <2>2. Cost * spent[b] <= Paid(b)
    BY <2>1 DEF Paid
  <2>3. Paid(b) \in Nat
    BY PaidType
  <2>4. Cost * spent[b] <= Given(b)
    BY <2>1, <2>2, <2>3
  <2> QED
    BY <2>4 DEF Given
<1>2. TypeInv /\ SpendInv /\ [Next]_vars => SpendInv'
  BY SpendingIsKept
<1> QED
  BY <1>1, <1>2, InitSpends, TypesHold, PTL DEF Spec

-----------------------------------------------------------------------------
(* Retry-After.                                                            *)

\* By the stamp promised in the last refusal, the bucket's content will have grown
\* to a token.
HintOK(b) ==
    hint[b] # NULL =>
        /\ ts[b] # NULL
        /\ hint[b] \in Int /\ hint[b] >= ts[b]
        /\ tokens[b] + (hint[b] - ts[b]) * Refill >= Cost
HintInv == \A b \in Bucket : HintOK(b)

LEMMA RunBucketHints ==
    ASSUME TypeInv, HintInv, NEW b \in Bucket, NEW stamp \in Int, stamp <= now,
           RunBucket(b, stamp)
    PROVE  HintInv'
<1> DEFINE left == Refilled(b, stamp)
<1>1. ASSUME NEW c \in Bucket \ {b} PROVE HintOK(c)'
  <2>1. tokens'[c] = tokens[c] /\ ts'[c] = ts[c] /\ hint'[c] = hint[c]
    BY DEF RunBucket, TypeInv, TypeOK
  <2> QED
    BY <2>1 DEF HintInv, HintOK
<1>2. CASE Allows(b, stamp)
  <2>1. hint'[b] = NULL
    BY <1>2 DEF RunBucket, TypeInv, TypeOK
  <2> QED
    BY <1>1, <2>1 DEF HintInv, HintOK
<1>3. CASE ~Allows(b, stamp)
  <2>1. /\ tokens'[b] = left /\ ts'[b] = stamp /\ hint'[b] = stamp + RetryAfter(left)
    BY <1>3 DEF RunBucket, Stored, TypeInv, TypeOK
  <2>2. left \in Nat /\ Cost - left \in Nat
    BY <1>3, RefilledType DEF Allows, TypeInv
  <2> HIDE DEF left
  <2>3. RetryAfter(left) \in Nat /\ Cost - left < RetryAfter(left) * Refill
    BY <2>2, DivCeiling DEF RetryAfter
  <2>4. RetryAfter(left) * Refill \in Nat
    BY <2>3, MulType
  <2>5. hint'[b] - ts'[b] = RetryAfter(left) /\ hint'[b] >= ts'[b] /\ hint'[b] \in Int
    BY <2>1, <2>3
  <2>6. tokens'[b] + (hint'[b] - ts'[b]) * Refill >= Cost
    BY <2>1, <2>2, <2>3, <2>4, <2>5
  <2>7. HintOK(b)'
    BY <2>1, <2>5, <2>6 DEF HintOK
  <2> QED
    BY <1>1, <2>7 DEF HintInv
<1> QED
  BY <1>2, <1>3

LEMMA DropHints ==
    ASSUME TypeInv, HintInv, NEW b \in Bucket, Drop(b) PROVE HintInv'
<1>1. hint'[b] = NULL /\ \A c \in Bucket \ {b} :
         tokens'[c] = tokens[c] /\ ts'[c] = ts[c] /\ hint'[c] = hint[c]
  BY DEF Drop, TypeInv, TypeOK
<1> QED
  BY <1>1 DEF HintInv, HintOK

LEMMA HintsAreKept ==
    ASSUME TypeInv, HintInv, [Next]_vars PROVE HintInv'
<1> USE RedisIsBucket
<1>1. ASSUME UNCHANGED buckets PROVE HintInv'
  BY <1>1 DEF buckets, HintInv, HintOK
<1>2. ASSUME NEW r \in Request, NEW g \in Gateway, Arrive(r, g) PROVE HintInv'
  BY <1>1, <1>2 DEF Arrive
<1>3. ASSUME NEW r \in Request, RedisAnswers(r) \/ ReplyLost(r) PROVE HintInv'
  <2>1. InFlight(r) /\ RunBucket(Redis, request[r].stamp)
    BY <1>3 DEF RedisAnswers, ReplyLost, InFlight
  <2>2. StampOK(r)
    BY DEF TypeInv, ClockInv
  <2> QED
    BY <2>1, <2>2, RunBucketHints DEF StampOK
<1>4. ASSUME NEW r \in Request, RedisFails(r) PROVE HintInv'
  BY <1>1, <1>4 DEF RedisFails
<1>5. ASSUME NEW r \in Request, LocalAnswers(r) PROVE HintInv'
  <2>1. InFlight(r) /\ RunBucket(request[r].gateway, request[r].stamp)
    BY <1>5 DEF LocalAnswers, InFlight
  <2>2. StampOK(r)
    BY DEF TypeInv, ClockInv
  <2> QED
    BY <2>1, <2>2, RunBucketHints DEF StampOK
<1>6. CASE Tick
  BY <1>1, <1>6 DEF Tick
<1>7. CASE Expire
  BY <1>7, DropHints DEF Expire
<1>8. ASSUME NEW g \in Gateway, Restart(g) PROVE HintInv'
  BY <1>8, DropHints DEF Restart
<1>9. CASE LoseData
  BY <1>9, DropHints DEF LoseData
<1>10. CASE UNCHANGED vars
  BY <1>1, <1>10 DEF vars
<1> QED
  BY <1>2, <1>3, <1>4, <1>5, <1>6, <1>7, <1>8, <1>9, <1>10 DEF Next

LEMMA InitHints == Init => HintInv
  BY DEF Init, HintInv, HintOK

\* A request with a stamp no older than the promise finds a token.
LEMMA PromiseKept ==
    ASSUME TypeInv, HintInv, NEW b \in Bucket, NEW stamp \in Int,
           hint[b] # NULL, stamp >= hint[b]
    PROVE  Allows(b, stamp)
<1>1. /\ ts[b] \in Int /\ hint[b] \in Int /\ ts[b] # NULL /\ hint[b] >= ts[b]
      /\ tokens[b] + (hint[b] - ts[b]) * Refill >= Cost /\ tokens[b] \in Nat
  BY DEF HintInv, HintOK, TypeInv, TypeOK
<1>2. Elapsed(b, stamp) = stamp - ts[b]
  BY <1>1 DEF Elapsed
<1>3. (hint[b] - ts[b]) * Refill <= (stamp - ts[b]) * Refill
  <2>1. hint[b] - ts[b] <= stamp - ts[b]
    BY <1>1
  <2> QED
    BY <1>1, <2>1, MulMonotone
<1>4. (hint[b] - ts[b]) * Refill \in Int /\ (stamp - ts[b]) * Refill \in Int
  BY <1>1
<1>5. tokens[b] + (stamp - ts[b]) * Refill >= Cost
  BY <1>1, <1>3, <1>4
<1> QED
  BY <1>1, <1>2, <1>4, <1>5 DEF Allows, Refilled

\* Who waits as long as Retry-After says is not refused, unless another request
\* took the token (RateLimitMiddleware).
THEOREM RetryAfterCorrect == Spec => RetryAfterSuffices
<1> DEFINE Kept == \A r \in Request :
                      /\ InFlight(r)
                      /\ hint[BucketOf(r)] # NULL /\ request[r].stamp >= hint[BucketOf(r)]
                      => request'[r].at # "refused"
<1>1. TypeInv /\ HintInv /\ [Next]_vars => [Kept]_vars
  <2> SUFFICES ASSUME TypeInv, HintInv, Next, NEW r \in Request, InFlight(r),
                      hint[BucketOf(r)] # NULL, request[r].stamp >= hint[BucketOf(r)],
                      request'[r].at = "refused"
               PROVE  FALSE
    OBVIOUS
  <2>1. StampOK(r) /\ request \in [Request -> Requests] /\ request[r].at # "refused"
    BY DEF TypeInv, ClockInv, TypeOK, Requests, InFlight
  <2>2. BucketOf(r) \in Bucket
    BY <2>1, RedisIsBucket DEF BucketOf, StampOK
  <2>3. Allows(BucketOf(r), request[r].stamp)
    BY <2>1, <2>2, PromiseKept DEF StampOK
  <2>4. ASSUME NEW q \in Request, RedisAnswers(q) PROVE FALSE
    <3>1. q = r
      BY <2>1, <2>4 DEF RedisAnswers, Answer
    <3>2. request'[r].at = "admitted"
      BY <2>1, <2>3, <2>4, <3>1, RedisIsBucket, AnswerTypes DEF RedisAnswers, BucketOf
    <3> QED
      BY <3>2
  <2>5. ASSUME NEW q \in Request, LocalAnswers(q) PROVE FALSE
    <3>1. q = r
      BY <2>1, <2>5 DEF LocalAnswers, Answer
    <3>2. BucketOf(r) = request[r].gateway
      BY <2>5, <3>1 DEF LocalAnswers, BucketOf
    <3>3. request'[r].at = "admitted"
      BY <2>2, <2>3, <2>5, <3>1, <3>2, AnswerTypes DEF LocalAnswers
    <3> QED
      BY <3>3
  <2>6. ASSUME NEW q \in Request, NEW g \in Gateway, Arrive(q, g) PROVE FALSE
    BY <2>1, <2>6 DEF Arrive
  <2>7. ASSUME NEW q \in Request, ReplyLost(q) PROVE FALSE
    BY <2>1, <2>7 DEF ReplyLost
  <2>8. ASSUME NEW q \in Request, RedisFails(q) PROVE FALSE
    <3>1. request'[q].at = "local"
      BY <2>1, <2>8 DEF RedisFails, Requests
    <3>2. q # r => request'[r] = request[r]
      BY <2>1, <2>8 DEF RedisFails
    <3> QED
      BY <2>1, <3>1, <3>2
  <2>9. CASE Tick
    BY <2>1, <2>9 DEF Tick
  <2>10. CASE Expire
    BY <2>1, <2>10 DEF Expire
  <2>11. ASSUME NEW g \in Gateway, Restart(g) PROVE FALSE
    <3>1. request'[r] = request[r] \/ request'[r] = [request[r] EXCEPT !.at = "gone"]
      BY <2>11 DEF Restart
    <3> QED
      BY <2>1, <3>1 DEF Requests
  <2>12. CASE LoseData
    BY <2>1, <2>12 DEF LoseData
  <2> QED
    BY <2>4, <2>5, <2>6, <2>7, <2>8, <2>9, <2>10, <2>11, <2>12 DEF Next
<1>2. TypeInv /\ HintInv /\ [Next]_vars => HintInv'
  BY HintsAreKept
<1> QED
  BY <1>1, <1>2, InitHints, TypesHold, PTL DEF Spec, RetryAfterSuffices
=============================================================================
