---------------------------- MODULE TokenBuckets ----------------------------
(* What the rate limiter promises of one client: buckets that fill by       *)
(* themselves as time passes and from which every request let through takes *)
(* a token.  Callers read their own clocks, so a request may leave up to    *)
(* Gift too much behind.                                                    *)
EXTENDS Integers

CONSTANTS
    Bucket,     \* the buckets of the client
    Capacity,   \* what a bucket holds, in fractions of a token
    Refill,     \* what comes in per unit of time
    Cost,       \* what a request takes: the fractions of one token
    Gift        \* what comes in while the stamps of two requests disagree

VARIABLES
    level,      \* what each bucket holds now
    renewed     \* how often each bucket was lost with the process that holds it

AtMostCapacity(x) == IF x > Capacity THEN Capacity ELSE x
Full == [b \in Bucket |-> Capacity]

Init == level = Full /\ renewed = [b \in Bucket |-> 0]

Tick ==
    /\ level' = [b \in Bucket |-> AtMostCapacity(level[b] + Refill)]
    /\ UNCHANGED renewed

Admit(b, gift) ==
    /\ level[b] >= Cost
    /\ level' = [level EXCEPT ![b] = AtMostCapacity(@ - Cost + gift)]
    /\ UNCHANGED renewed

\* A request is refused only when less than a token is there, or as much as the
\* caller's clock cannot know of.
Deny(b, gift) ==
    /\ level[b] < Cost + Gift
    /\ level' = [level EXCEPT ![b] = AtMostCapacity(@ + gift)]
    /\ UNCHANGED renewed

\* A bucket is full at once only when it was lost.
Renew(b) ==
    /\ level' = [level EXCEPT ![b] = Capacity]
    /\ renewed' = [renewed EXCEPT ![b] = @ + 1]

Next == \/ Tick
        \/ \E b \in Bucket, gift \in 0 .. Gift : Admit(b, gift) \/ Deny(b, gift)
        \/ \E b \in Bucket : Renew(b)

Spec == Init /\ [][Next]_<<level, renewed>>
=============================================================================
