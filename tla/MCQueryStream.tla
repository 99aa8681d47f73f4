--------------------------- MODULE MCQueryStream ----------------------------
(* Instances of QueryStreamProperties for TLC.                              *)
EXTENDS QueryStreamProperties

CONSTANTS primary, fallback

MCChains == {<<primary, fallback>>}
=============================================================================
