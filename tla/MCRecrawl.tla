----------------------------- MODULE MCRecrawl -----------------------------
(* Instances of RecrawlProperties for TLC.                                 *)
EXTENDS RecrawlProperties, TLC

\* Versions 1 and 2 differ only cosmetically, version 3 by content.
MCClass == <<1, 1, 3>>

\* Versions 1 and 2 differ by content.
MCClassDistinct == <<1, 2>>

Symmetry == Permutations(Host) \cup Permutations(Source)
=============================================================================
