------------------------ MODULE EvaluationProperties ------------------------
(* What an evaluation run promises to whoever reads its exit code.          *)
EXTENDS Evaluation

TypeOK ==
    /\ mode \in {"ci", "full"}
    /\ settings \in [collision : BOOLEAN, judge : BOOLEAN, golden : BOOLEAN]
    /\ baseline \in [CIGate -> Nat \cup {NULL}] \cup {NULL}
    /\ pc \in {"start", "query", "judge", "selfcheck", "ragas", "gate", "return", "done"}
    /\ row \in 1 .. NumRows + 1
    /\ draft \in Record /\ judge \in JudgeCall \cup {NULL}
    /\ records \in Seq(Record)
    /\ job \in Nat /\ scores \in Seq(RagasScore \cup {NULL}) /\ collector \in Seq(Nat)
    /\ rowFailures \subseteq [row : Row, metric : DOMAIN RagasMetrics]
    /\ written \in BOOLEAN \cup {NULL} /\ exit \in {NULL, "pass", "fail", "raised"}
    /\ calls \in Nat /\ judged \subseteq Row /\ faults \in 0 .. MaxFaults
    /\ lost \subseteq Row \X (DOMAIN RagasMetrics)

\* Exit code 0 means that every golden row was answered and scored, and that
\* no gate passed for lack of a value or of a baseline to compare it with
\* (run.py: incomplete, bool(None), "value is not None").
PassIsComplete ==
    exit = "pass" =>
      /\ Len(records) = NumRows
      /\ \A r \in DOMAIN records : Scored(records[r])
      /\ mode = "full" => \A m \in DOMAIN RagasMetrics :
                            \E r \in DOMAIN records : records[r].metrics[m] # NULL
      /\ mode = "ci" => \A g \in CIGate : baseline[g] # NULL

\* A failed RAGAS job is reported against the golden row it was scoring,
\* whatever rows are missing from the batch, all of them are, and the row's
\* metric stays empty (metrics.py: golden_index, job number // metrics).
FailureNamesItsRow ==
    LET named == {<<f.row, f.metric>> : f \in rowFailures}
        valued == {rm \in (DOMAIN records) \X (DOMAIN RagasMetrics) :
                      records[rm[1]].metrics[rm[2]] # NULL}
    IN /\ named \subseteq lost
       /\ valued \cap lost = {}
       /\ valued # {} => named = lost

\* At most 4 * MaxRetries judge calls, each one create(), are spent on one score,
\* and never in CI mode (judge.py: the three nested retries).
JudgeCallsAreBounded ==
    /\ calls <= 4 * MaxRetries
    /\ mode = "ci" => judged = {} /\ judge = NULL

\* Every run ends, with a verdict or an exception, however the queries, the judge
\* and RAGAS fail (run.py: main; judge.py: the three nested retries).
RunEnds == <>(pc = "done")

\* No row aborts the run ("A single row failing ... must never abort the whole
\* run", run.py).
RowFailureIsContained == [][exit' = "raised" => pc \notin {"query", "judge"}]_vars

=============================================================================
