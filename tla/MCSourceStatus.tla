--------------------------- MODULE MCSourceStatus ---------------------------
(* An instance of SourceStatus for TLC, with the thresholds in scale.      *)
EXTENDS MCRecrawl, SourceStatus
=============================================================================
