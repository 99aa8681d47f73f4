-------------------------- MODULE MCAnswerPipeline --------------------------
(* Instances of AnswerPipelineProperties for TLC.                          *)
EXTENDS AnswerPipelineProperties, TLC

\* Two questions close in topic; "personal" asks for advice by its wording.
CONSTANTS personal, factual

MCDistance == (personal :> (personal :> 0 @@ factual :> 1))
           @@ (factual  :> (personal :> 1 @@ factual :> 0))

\* Two versions of a page with as many chunks.
MCChunkCount == <<1, 1>>

Symmetry == Permutations(Request)
=============================================================================
