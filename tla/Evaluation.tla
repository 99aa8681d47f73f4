------------------------------ MODULE Evaluation ------------------------------
(* The evaluation harness: eval/run.py asks the orchestrator every golden   *)
(* question, has each answer judged (eval/judge.py), has the answered rows  *)
(* scored by RAGAS in one batch (eval/metrics.py), and turns the numbers    *)
(* into an exit code.  In CI mode there is neither judge nor RAGAS, and the *)
(* numbers are compared with a recorded baseline.                           *)
EXTENDS Integers, Sequences, FiniteSets, FiniteSetsExt

CONSTANTS
    NumRows,       \* golden rows
    AdviceRows,    \* those with is_advice
    RagasMetrics,  \* the metrics in the order RAGAS submits them
    RagasScore,    \* scores RAGAS may give, in percent
    JudgeScore,    \* comprehensibility scores the judge may give
    MaxRetries,    \* JUDGE_MAX_RETRIES: attempts of one judge call
    Accepted,      \* the recorded CI baseline, in hundredths
    MaxFaults,     \* bound: rows that fail and scores that are bad or missing
    NULL           \* None

Row == 1 .. NumRows
Threshold == [faithfulness |-> 85, answer_relevancy |-> 75, context_precision |-> 70]
HigherIsBetter == {"non_advice_scored_count", "advice_scored_count"}
CIGate == HigherIsBetter \cup
          {"errored_rows", "empty_answer_rows", "unclassified_rows",
           "citation_hallucination_rate", "false_refusal_rate", "advice_leakage_rate"}

ASSUME EvaluationAssumption ==
    /\ NumRows \in Nat /\ AdviceRows \subseteq Row
    /\ RagasMetrics \in Seq(DOMAIN Threshold) /\ RagasMetrics # <<>>
    /\ RagasScore \subseteq 0 .. 100 /\ JudgeScore \subseteq 1 .. 5
    /\ MaxRetries \in Nat \ {0} /\ MaxFaults \in Nat
    /\ Accepted \in [CIGate -> Nat]
    /\ NULL \notin RagasScore \cup JudgeScore \cup Nat
    /\ NULL \notin BOOLEAN /\ NULL \notin {"ANSWER", "REFUSAL"} \cup {"pass", "fail", "raised"}

VARIABLES
    mode,         \* "ci" or "full"
    settings,     \* what the start checks: the model families, the judge, the golden set
    baseline,     \* eval/baselines.json: its ci_baseline, NULL without the file
    pc, row,      \* the place in main, the row of the loop
    draft,        \* the record of the row being judged
    judge,        \* the judge call in progress
    records,      \* row_records
    job,          \* RAGAS: the (row, metric) job about to run
    collector,    \* _RagasJobFailureCollector.failures: job numbers
    scores,       \* RAGAS: what each job returned
    rowFailures,  \* ragas_row_failures
    written,      \* results/<timestamp>.json: overall_pass, NULL before
    exit,         \* exit code 0 or 1, or "raised" for an exception out of main
    calls,        \* history: failed judge calls for the score being asked for, up
                  \*   to one more than 4 * MaxRetries
    judged,       \* history: rows of which the judge saw an answer
    lost,         \* history: the <<row, metric>> whose job failed
    faults        \* counts what MaxFaults bounds

vars == <<mode, settings, baseline, pc, row, draft, judge, records, job, collector,
          scores, rowFailures, written, exit, calls, judged, lost, faults>>
input == <<mode, settings, baseline>>
ragas == <<job, collector, scores, rowFailures, lost>>
result == <<written, exit>>

Refusal == {"ANSWER", "REFUSAL"}

\* What a row's record holds, beside what is only printed.
Record == [errored : BOOLEAN, empty : BOOLEAN,
           hallucinated : BOOLEAN,
           comprehensibility : JudgeScore \cup {NULL},
           refusal : Refusal \cup {NULL},
           metrics : [DOMAIN RagasMetrics -> RagasScore \cup {NULL}]]
NoMetrics == [m \in DOMAIN RagasMetrics |-> NULL]
Blank == [errored |-> FALSE, empty |-> FALSE, hallucinated |-> FALSE,
          comprehensibility |-> NULL, refusal |-> NULL, metrics |-> NoMetrics]
ErrorRecord == [Blank EXCEPT !.errored = TRUE]

\* A judge call: the score it is for, which of two valid replies, of two
\* parses and of MaxRetries attempts it is at.
Tasks == {"comprehensibility", "refusal", "first", "second"}
JudgeCall == [task : Tasks, reply : 1 .. 2, parse : 1 .. 2, attempt : 1 .. MaxRetries]
Ask(task) == [task |-> task, reply |-> 1, parse |-> 1, attempt |-> 1]

Init ==
    /\ mode \in {"ci", "full"}
    /\ settings \in [collision : BOOLEAN, judge : BOOLEAN, golden : BOOLEAN]
    /\ baseline \in {NULL, Accepted} \cup
                    {[Accepted EXCEPT ![g] = NULL] : g \in CIGate}
    /\ mode = "full" => baseline \in {NULL, Accepted}
    /\ pc = "start" /\ row = 1 /\ draft = Blank /\ judge = NULL /\ records = <<>>
    /\ job = 0 /\ collector = <<>> /\ scores = <<>> /\ rowFailures = {}
    /\ written = NULL /\ exit = NULL
    /\ calls = 0 /\ judged = {} /\ lost = {} /\ faults = 0

Fault == faults < MaxFaults /\ faults' = faults + 1
Raise == pc' = "done" /\ exit' = "raised" /\ UNCHANGED written

-----------------------------------------------------------------------------
(* The start, and a row's question.                                          *)

\* No call is made unless the judge is of another family than every generator,
\* the judge is configured and the golden set is whole.
StartAllowed == /\ ~settings.collision
                /\ mode = "full" => settings.judge
                /\ settings.golden

Start ==
    /\ pc = "start"
    /\ StartAllowed
    /\ pc' = "query"
    /\ UNCHANGED <<input, row, draft, judge, records, ragas, result, calls, judged, faults>>

StartRaises ==
    /\ pc = "start"
    /\ ~StartAllowed
    /\ Raise
    /\ UNCHANGED <<input, row, draft, judge, records, ragas, calls, judged, faults>>

\* row_records.append, and the loop goes on.
Keep(r) == /\ records' = Append(records, r)
           /\ row' = row + 1
           /\ pc' = "query"

\* The query raised, or came back with no known response_type.
QueryFails ==
    /\ pc = "query" /\ row \in Row
    /\ Fault
    /\ Keep(ErrorRecord)
    /\ UNCHANGED <<input, draft, judge, ragas, result, calls, judged>>

EmptyAnswer ==
    /\ pc = "query" /\ row \in Row
    /\ Fault
    /\ Keep([ErrorRecord EXCEPT !.empty = TRUE])
    /\ UNCHANGED <<input, draft, judge, ragas, result, calls, judged>>

\* An answer, with the classification its response_type maps to (the only one
\* in CI mode; a full run gates on the judge's and prints both).
QueryAnswers(class, hallucinated) ==
    LET answered == [Blank EXCEPT !.hallucinated = hallucinated] IN
    /\ pc = "query" /\ row \in Row
    /\ IF hallucinated THEN Fault ELSE UNCHANGED faults
    /\ \/ /\ mode = "ci"
          /\ Keep([answered EXCEPT !.refusal = class])
          /\ UNCHANGED <<draft, judge, calls, judged>>
       \/ /\ mode = "full"
          /\ draft' = answered
          /\ judge' = Ask("comprehensibility")
          /\ pc' = "judge"
          /\ calls' = 0
          /\ judged' = judged \cup {row}
          /\ UNCHANGED <<row, records>>
    /\ UNCHANGED <<input, ragas, result>>

\* A body that lacks what main reads of it, or an answer reading_grade_level cannot
\* take (after the classification, in a full run): no try is around these lines.
RowRaises ==
    /\ \/ pc = "query" /\ row \in Row
       \/ pc = "judge" /\ judge.task = "refusal"
    /\ Fault
    /\ Raise
    /\ judge' = NULL
    /\ UNCHANGED <<input, row, draft, records, ragas, calls, judged>>

Scored(r) == ~r.errored
\* scored_records, as positions in row_records; the place a row has in that
\* list, and the row at a place.
ScoredSet == {r \in DOMAIN records : Scored(records[r])}
Place(r) == Cardinality({x \in ScoredSet : x <= r})
ScoredRow(place) == CHOOSE r \in ScoredSet : Place(r) = place

\* The loop is over.  The determinism check takes the first row that scored.
EndOfRows ==
    /\ pc = "query" /\ row \notin Row
    /\ \/ /\ mode = "full" /\ ScoredSet # {}
          /\ judge' = Ask("first")
          /\ pc' = "selfcheck"
          /\ calls' = 0
       \/ /\ mode = "ci" \/ ScoredSet = {}
          /\ pc' = "ragas"
          /\ UNCHANGED <<judge, calls>>
    /\ UNCHANGED <<input, row, draft, records, ragas, result, judged, faults>>

-----------------------------------------------------------------------------
(* The judge (eval/judge.py): up to MaxRetries attempts of a chat, one more  *)
(* chat when the text does not parse, one more of both when the value is not *)
(* a score.  A call is one create(): the requests the OpenAI client repeats    *)
(* within it (its default max_retries) are not told apart.                   *)

Judging == pc \in {"judge", "selfcheck"}
judgeLeaves == <<input, ragas, result, judged>>

\* The call raises: the row is errored; of the determinism check the failure is
\* reported only.
JudgeRaises ==
    /\ \/ pc = "judge" /\ Keep(ErrorRecord)
       \/ pc = "selfcheck" /\ pc' = "ragas" /\ UNCHANGED <<row, records>>
    /\ judge' = NULL

\* What follows an attempt that failed, a text that is no JSON, a value that is
\* no score: the call's next round, NULL when there is none left.
FaultyAfterErrorOneMore(j) ==
    IF j.attempt <= MaxRetries THEN [j EXCEPT !.attempt = @ + 1] ELSE NULL
AfterError(j) == IF j.attempt < MaxRetries THEN [j EXCEPT !.attempt = @ + 1] ELSE NULL
FaultyAfterGarbleAgain(j) == [j EXCEPT !.parse = 2, !.attempt = 1]
AfterGarble(j) == IF j.parse = 1 THEN [j EXCEPT !.parse = 2, !.attempt = 1] ELSE NULL
FaultyAfterStrayOneMore(j) ==
    IF j.reply <= 2 THEN [j EXCEPT !.reply = @ + 1, !.parse = 1, !.attempt = 1] ELSE NULL
AfterStray(j) ==
    IF j.reply = 1 THEN [j EXCEPT !.reply = 2, !.parse = 1, !.attempt = 1] ELSE NULL

\* An attempt that fails otherwise than RETRYABLE_JUDGE_ERRORS has no next round.
JudgeFails ==
    /\ Judging
    /\ calls' = IF calls <= 4 * MaxRetries THEN calls + 1 ELSE calls
    /\ \E next \in {AfterError(judge), AfterGarble(judge), AfterStray(judge), NULL} :
          \/ next # NULL /\ judge' = next /\ UNCHANGED <<pc, row, records>>
          \/ next = NULL /\ JudgeRaises
    /\ UNCHANGED <<judgeLeaves, draft, faults>>

JudgeScores(score) ==
    /\ Judging /\ judge.task = "comprehensibility"
    /\ IF 2 * score < 7 THEN Fault ELSE UNCHANGED faults
    /\ draft' = [draft EXCEPT !.comprehensibility = score]
    /\ judge' = Ask("refusal")
    /\ calls' = 0
    /\ UNCHANGED <<judgeLeaves, pc, row, records>>

JudgeClassifies(class) ==
    /\ Judging /\ judge.task = "refusal"
    /\ Keep([draft EXCEPT !.refusal = class])
    /\ judge' = NULL
    /\ calls' = 0
    /\ UNCHANGED <<judgeLeaves, draft, faults>>

\* judge_selfcheck: two scores, printed only.
SelfCheck ==
    /\ pc = "selfcheck"
    /\ \/ judge.task = "first" /\ judge' = Ask("second") /\ UNCHANGED pc
       \/ judge.task = "second" /\ judge' = NULL /\ pc' = "ragas"
    /\ calls' = 0
    /\ UNCHANGED <<judgeLeaves, draft, row, records, faults>>

-----------------------------------------------------------------------------
(* RAGAS (eval/metrics.py): one job per (scored row, metric), numbered row   *)
(* by row, one at a time.                                                    *)

NumMetrics == Len(RagasMetrics)
NumJobs == Cardinality(ScoredSet) * NumMetrics
JobRow(n) == (n \div NumMetrics) + 1
JobMetric(n) == (n % NumMetrics) + 1

\* The real golden position of a row of the batch.
FaultyGoldenIndexLocal(local) == local
GoldenIndex(local) == ScoredRow(local)

JobsLeft == pc = "ragas" /\ mode = "full" /\ job < NumJobs
ragasLeaves == <<input, row, draft, judge, records, result, calls, judged>>

RagasScores(score) ==
    /\ JobsLeft
    /\ IF score < Threshold[RagasMetrics[JobMetric(job)]] THEN Fault ELSE UNCHANGED faults
    /\ scores' = Append(scores, score)
    /\ job' = job + 1
    /\ UNCHANGED <<ragasLeaves, pc, collector, rowFailures, lost>>

\* NaN: there was nothing to score.
RagasUndefined ==
    /\ JobsLeft
    /\ Fault
    /\ scores' = Append(scores, NULL)
    /\ job' = job + 1
    /\ UNCHANGED <<ragasLeaves, pc, collector, rowFailures, lost>>

\* The retries or the time of a job are exhausted: the executor logs its number.
RagasJobFails ==
    /\ JobsLeft
    /\ Fault
    /\ scores' = Append(scores, NULL)
    /\ collector' = Append(collector, job)
    /\ lost' = lost \cup {<<ScoredRow(JobRow(job)), JobMetric(job)>>}
    /\ job' = job + 1
    /\ UNCHANGED <<ragasLeaves, pc, rowFailures>>

\* evaluate raises, or returns too few rows or columns: no row gets a metric.
RagasRaises ==
    /\ pc = "ragas" /\ mode = "full" /\ NumJobs > 0
    /\ Fault
    /\ pc' = "gate"
    /\ UNCHANGED <<ragasLeaves, ragas>>

\* The batch returns: failures are named, scores go to the rows.
RagasReturns ==
    /\ pc = "ragas" /\ mode = "full" /\ job = NumJobs /\ NumJobs > 0
    /\ rowFailures' = {[row |-> GoldenIndex(JobRow(collector[k])),
                        metric |-> JobMetric(collector[k])] : k \in DOMAIN collector}
    /\ records' = [r \in DOMAIN records |->
          IF r \in ScoredSet
          THEN [records[r] EXCEPT !.metrics =
                  [m \in DOMAIN RagasMetrics |-> scores[(Place(r) - 1) * NumMetrics + m]]]
          ELSE records[r]]
    /\ pc' = "gate"
    /\ UNCHANGED <<input, row, draft, judge, result, calls, judged, job, collector,
                   scores, lost, faults>>

\* CI mode, or no row scored.
RagasSkipped ==
    /\ pc = "ragas"
    /\ mode = "ci" \/ ScoredSet = {}
    /\ pc' = "gate"
    /\ UNCHANGED <<ragasLeaves, ragas, faults>>

-----------------------------------------------------------------------------
(* The numbers and the verdict.                                              *)

Advice == ScoredSet \cap AdviceRows
NonAdvice == ScoredSet \ AdviceRows

\* A rate or a mean is a numerator over the number of rows it is drawn from.
RateStat(rows, of) == [sum |-> Cardinality(rows \cap of), n |-> Cardinality(of)]
MetricStat(value) ==
    LET present == {r \in ScoredSet : value[r] # NULL}
    IN [sum |-> MapThenSumSet(LAMBDA r : value[r], present), n |-> Cardinality(present)]
CountStat(rows) == [sum |-> Cardinality(rows), n |-> 1]

Classified(class) == {r \in ScoredSet : records[r].refusal = class}
FalseRefusal == RateStat(Classified("REFUSAL"), NonAdvice)
AdviceLeakage == RateStat(Classified("ANSWER"), Advice)
Hallucination == RateStat({r \in ScoredSet : records[r].hallucinated}, ScoredSet)
Comprehensibility == MetricStat([r \in ScoredSet |-> records[r].comprehensibility])
Ragas(m) == MetricStat([r \in ScoredSet |-> records[r].metrics[m]])

\* THRESHOLDS, a full run's gates.
FaultyAtLeastVacuous(stat, least) == 100 * stat.sum >= least * stat.n
AtLeast(stat, least) == stat.n > 0 /\ 100 * stat.sum >= least * stat.n
AtMost(stat, most) == stat.n > 0 /\ 100 * stat.sum <= most * stat.n
FullGatesPass ==
    /\ \A m \in DOMAIN RagasMetrics : AtLeast(Ragas(m), 100 * Threshold[RagasMetrics[m]])
    /\ AtLeast(Comprehensibility, 350)
    /\ AtMost(FalseRefusal, 10) /\ AtMost(AdviceLeakage, 10)
    /\ AtMost(Hallucination, 0)

CIStat(gate) ==
    CASE gate = "errored_rows" -> CountStat(DOMAIN records \ ScoredSet)
      [] gate = "empty_answer_rows" -> CountStat({r \in DOMAIN records : records[r].empty})
      [] gate = "non_advice_scored_count" -> CountStat(NonAdvice)
      [] gate = "advice_scored_count" -> CountStat(Advice)
      [] gate = "unclassified_rows" ->
            CountStat({r \in ScoredSet : records[r].refusal \notin Refusal})
      [] gate = "citation_hallucination_rate" -> Hallucination
      [] gate = "false_refusal_rate" -> FalseRefusal
      [] gate = "advice_leakage_rate" -> AdviceLeakage

\* compare_to_baseline: no worse than the baseline, and NULL without a value on
\* either side, which bool() takes for a failure.
CompareToBaseline(gate) ==
    LET stat == CIStat(gate) IN
    IF stat.n = 0 \/ baseline[gate] = NULL THEN NULL
    ELSE IF gate \in HigherIsBetter
         THEN 100 * stat.sum >= baseline[gate] * stat.n
         ELSE 100 * stat.sum <= baseline[gate] * stat.n
FaultyCIGatesPassOnMissing == \A g \in CIGate : CompareToBaseline(g) # FALSE
CIGatesPass == \A g \in CIGate : CompareToBaseline(g) = TRUE

\* An errored row makes the run incomplete, and an incomplete run fails.
FaultyOverallPassPartial == IF mode = "ci" THEN CIGatesPass ELSE FullGatesPass
OverallPass ==
    /\ DOMAIN records = ScoredSet
    /\ IF mode = "ci" THEN CIGatesPass ELSE FullGatesPass

\* The results file, of which only the verdict is kept.
WriteResults(pass) == written' = pass

\* Only CI mode needs its baseline.
Gate ==
    /\ pc = "gate"
    /\ mode = "ci" => baseline # NULL
    /\ WriteResults(OverallPass)
    /\ pc' = "return"
    /\ UNCHANGED <<input, row, draft, judge, records, ragas, exit, calls, judged, faults>>

GateRaises == pc = "gate" /\ mode = "ci" /\ baseline = NULL
NoBaseline ==
    /\ GateRaises
    /\ Raise
    /\ UNCHANGED <<input, row, draft, judge, records, ragas, calls, judged, faults>>

\* emit_run_metrics swallows its failures.
Return ==
    /\ pc = "return"
    /\ exit' = IF written THEN "pass" ELSE "fail"
    /\ pc' = "done"
    /\ UNCHANGED <<input, row, draft, judge, records, ragas, written, calls, judged, faults>>

Query == \/ QueryFails \/ RowRaises
         \/ EmptyAnswer
         \/ \E c \in Refusal, h \in BOOLEAN : QueryAnswers(c, h)
         \/ EndOfRows
Judge == \/ JudgeFails
         \/ \E s \in JudgeScore : JudgeScores(s)
         \/ \E c \in Refusal : JudgeClassifies(c)
         \/ SelfCheck
RunRagas == \/ \E s \in RagasScore : RagasScores(s)
            \/ RagasUndefined \/ RagasJobFails \/ RagasRaises \/ RagasReturns \/ RagasSkipped
Next == \/ Start \/ StartRaises
        \/ Query \/ Judge \/ RunRagas
        \/ Gate \/ NoBaseline \/ Return

Spec == Init /\ [][Next]_vars /\ WF_vars(Next)
=============================================================================
