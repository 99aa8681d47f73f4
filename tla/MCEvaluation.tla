---------------------------- MODULE MCEvaluation ----------------------------
(* Instances of EvaluationProperties for TLC.                               *)
EXTENDS EvaluationProperties

MCMetrics == <<"faithfulness", "context_precision">>

\* One row of each kind scored, and nothing errored, empty, refused or leaked.
MCAccepted == [g \in CIGate |-> CASE g = "non_advice_scored_count" -> 200
                                  [] g = "advice_scored_count" -> 100
                                  [] OTHER -> 0]
=============================================================================
