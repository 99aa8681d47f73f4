--------------------------- MODULE MCRateLimiter ----------------------------
(* Instances of RateLimiterProperties for TLC.                              *)
EXTENDS RateLimiterProperties, TLC

\* Requests are alike, and so are gateways up to their clocks; no property of
\* these instances is about liveness.
Symmetries == Permutations(Request) \cup Permutations(Gateway)
=============================================================================
