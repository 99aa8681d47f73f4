--------------------------- MODULE EvaluationProofs ---------------------------
(***************************************************************************)
(* The promises of an evaluation run, for any golden set, any metrics, any *)
(* number of retries and any baseline: how often the judge is called, what *)
(* exit code 0 means, which row a failed RAGAS job is reported against,    *)
(* and the type invariant.                                                 *)
(***************************************************************************)
EXTENDS EvaluationProperties, SequenceTheorems, FiniteSetTheorems, TLAPS

-----------------------------------------------------------------------------
(* The judge's three nested retries.                                       *)

\* The attempts a judge call has behind it, at most.
Behind(j) == (IF j.reply = 2 THEN 2 * MaxRetries ELSE 0)
             + (IF j.parse = 2 THEN MaxRetries ELSE 0) + j.attempt - 1

JudgeInv ==
    /\ pc \in {"start", "query", "judge", "selfcheck", "ragas", "gate", "return", "done"}
    /\ mode \in {"ci", "full"}
    /\ calls \in Nat /\ calls <= 4 * MaxRetries
    /\ Judging => mode = "full" /\ judge \in JudgeCall /\ calls <= Behind(judge)
    /\ pc = "judge" => judge.task \in {"comprehensibility", "refusal"}
    /\ pc = "selfcheck" => judge.task \in {"first", "second"}
    /\ ~Judging => judge = NULL
    /\ mode = "ci" => judged = {}

LEMMA Constants ==
    /\ NumRows \in Nat /\ MaxRetries \in Nat \ {0} /\ MaxFaults \in Nat
    /\ NULL \notin Nat /\ NULL \notin BOOLEAN /\ NULL # "pass"
  BY EvaluationAssumption

\* What follows a failed attempt is a call with more behind it.
LEMMA NextRound ==
    ASSUME NEW j \in JudgeCall, NEW next \in {AfterError(j), AfterGarble(j), AfterStray(j)},
           next # NULL
    PROVE  next \in JudgeCall /\ Behind(next) >= Behind(j) + 1 /\ next.task = j.task
<1>1. /\ j.reply \in 1 .. 2 /\ j.parse \in 1 .. 2 /\ j.attempt \in 1 .. MaxRetries
      /\ MaxRetries \in Nat /\ 1 \in 1 .. MaxRetries
  BY Constants DEF JudgeCall
<1>2. CASE next = AfterError(j)
  <2>1. j.attempt < MaxRetries /\ next = [j EXCEPT !.attempt = @ + 1]
    BY <1>2 DEF AfterError
  <2> QED
    BY <1>1, <2>1 DEF JudgeCall, Behind
<1>3. CASE next = AfterGarble(j)
  <2>1. j.parse = 1 /\ next = [j EXCEPT !.parse = 2, !.attempt = 1]
    BY <1>3 DEF AfterGarble
  <2>2. next \in JudgeCall /\ next.task = j.task /\ next.reply = j.reply /\ next.parse = 2 /\ next.attempt = 1
    <3>1. next = [task |-> j.task, reply |-> j.reply, parse |-> 2, attempt |-> 1]
      BY <2>1 DEF JudgeCall
    <3> QED
      BY <1>1, <3>1 DEF JudgeCall
  <2>3. Behind(next) >= Behind(j) + 1
    BY <1>1, <2>1, <2>2 DEF Behind
  <2> QED
    BY <2>2, <2>3
<1>4. CASE next = AfterStray(j)
  <2>1. j.reply = 1 /\ next = [j EXCEPT !.reply = 2, !.parse = 1, !.attempt = 1]
    BY <1>4 DEF AfterStray
  <2>2. next \in JudgeCall /\ next.task = j.task /\ next.reply = 2 /\ next.parse = 1 /\ next.attempt = 1
    <3>1. next = [task |-> j.task, reply |-> 2, parse |-> 1, attempt |-> 1]
      BY <2>1 DEF JudgeCall
    <3> QED
      BY <1>1, <3>1 DEF JudgeCall
  <2>3. Behind(next) >= Behind(j) + 1
    BY <1>1, <2>1, <2>2 DEF Behind
  <2> QED
    BY <2>2, <2>3
<1> QED
  BY <1>2, <1>3, <1>4

\* No judge call has more than four times the attempts of one chat.
LEMMA BehindBound ==
    ASSUME NEW j \in JudgeCall
    PROVE  Behind(j) \in Nat /\ Behind(j) + 1 <= 4 * MaxRetries
<1>1. /\ j.reply \in 1 .. 2 /\ j.parse \in 1 .. 2 /\ j.attempt \in 1 .. MaxRetries
      /\ MaxRetries \in Nat
  BY Constants DEF JudgeCall
<1> QED
  BY <1>1 DEF Behind

LEMMA AskIsFresh ==
    ASSUME NEW task \in Tasks
    PROVE  Ask(task) \in JudgeCall /\ Behind(Ask(task)) = 0 /\ Ask(task).task = task
  BY Constants DEF Ask, JudgeCall, Behind

LEMMA JudgeInit == Init => JudgeInv
  BY Constants DEF Init, JudgeInv, Judging

LEMMA JudgeKeeps == JudgeInv /\ [Next]_vars => JudgeInv'
<1> SUFFICES ASSUME JudgeInv, [Next]_vars PROVE JudgeInv'
  OBVIOUS
<1>0. /\ pc \in {"start", "query", "judge", "selfcheck", "ragas", "gate", "return", "done"}
      /\ mode \in {"ci", "full"} /\ calls \in Nat /\ calls <= 4 * MaxRetries
      /\ Judging <=> pc \in {"judge", "selfcheck"}
  BY DEF JudgeInv, Judging
<1>1. ASSUME pc \notin {"judge", "selfcheck"}, pc' \in {"start", "query", "ragas", "gate", "return", "done"},
             UNCHANGED <<mode, judge, calls, judged>>
      PROVE  JudgeInv'
  BY <1>0, <1>1 DEF JudgeInv, Judging
<1>2. CASE Start
  BY <1>1, <1>2 DEF Start, input
<1>3. CASE StartRaises
  BY <1>1, <1>3 DEF StartRaises, input, Raise
<1>4. CASE QueryFails \/ EmptyAnswer
  BY <1>1, <1>4 DEF QueryFails, EmptyAnswer, Keep, input
<1>5. ASSUME NEW c, NEW h, QueryAnswers(c, h) PROVE JudgeInv'
  <2>1. CASE mode = "ci"
    BY <1>1, <1>5, <2>1 DEF QueryAnswers, Keep, input
  <2>2. CASE mode = "full"
    <3>1. /\ pc' = "judge" /\ calls' = 0 /\ judge' = Ask("comprehensibility") /\ mode' = mode
      BY <1>5, <2>2 DEF QueryAnswers, input
    <3>2. judge' \in JudgeCall /\ Behind(judge') = 0 /\ judge'.task = "comprehensibility"
      BY <3>1, AskIsFresh DEF Tasks
    <3> QED
      BY <2>2, <3>1, <3>2, Constants DEF JudgeInv, Judging, Behind
  <2> QED
    BY <1>0, <2>1, <2>2
<1>6. CASE EndOfRows
  <2>1. CASE mode = "full" /\ pc' = "selfcheck" /\ judge' = Ask("first") /\ calls' = 0
    <3>1. judge' \in JudgeCall /\ Behind(judge') = 0 /\ judge'.task = "first"
      BY <2>1, AskIsFresh DEF Tasks
    <3> QED
      BY <1>6, <2>1, <3>1, Constants DEF JudgeInv, Judging, Behind, EndOfRows, input
  <2>2. CASE pc' = "ragas" /\ UNCHANGED <<judge, calls>>
    BY <1>1, <1>6, <2>2 DEF EndOfRows, input
  <2> QED
    BY <1>6, <2>1, <2>2 DEF EndOfRows
<1>7. CASE JudgeFails
  <2>1. /\ mode = "full" /\ judge \in JudgeCall /\ calls <= Behind(judge) /\ Judging
        /\ mode' = mode /\ judged' = judged
    BY <1>7 DEF JudgeFails, JudgeInv, judgeLeaves, input
  <2>2. calls' = calls + 1 /\ calls' \in Nat /\ calls' <= Behind(judge) + 1 /\ calls' <= 4 * MaxRetries
    <3>1. calls' = IF calls <= 4 * MaxRetries THEN calls + 1 ELSE calls
      BY <1>7 DEF JudgeFails
    <3>2. Behind(judge) \in Nat /\ Behind(judge) + 1 <= 4 * MaxRetries
      BY <2>1, BehindBound
    <3>3. MaxRetries \in Nat /\ calls <= Behind(judge)
      BY <2>1, Constants
    <3> QED
      BY <1>0, <3>1, <3>2, <3>3
  <2>3. CASE judge' \in {AfterError(judge), AfterGarble(judge), AfterStray(judge)} /\ judge' # NULL
             /\ pc' = pc
    <3>1. judge' \in JudgeCall /\ Behind(judge') >= Behind(judge) + 1 /\ judge'.task = judge.task
      BY <2>1, <2>3, NextRound
    <3>2. Behind(judge) \in Nat /\ Behind(judge') \in Nat
      BY <2>1, <3>1, BehindBound
    <3>3. calls' <= Behind(judge')
      BY <2>2, <3>1, <3>2
    <3> QED
      BY <1>0, <2>1, <2>2, <2>3, <3>1, <3>3 DEF JudgeInv, Judging, Behind
  <2>4. CASE JudgeRaises
    <3>1. judge' = NULL /\ pc' \in {"query", "ragas"}
      BY <2>4 DEF JudgeRaises, Keep
    <3> QED
      BY <2>1, <2>2, <3>1 DEF JudgeInv, Judging
  <2> QED
    BY <1>7, <2>3, <2>4 DEF JudgeFails
<1>8. ASSUME NEW s, JudgeScores(s) PROVE JudgeInv'
  <2>1. /\ mode = "full" /\ mode' = mode /\ judged' = judged /\ calls' = 0 /\ pc' = pc
        /\ judge' = Ask("refusal")
    BY <1>8 DEF JudgeScores, JudgeInv, judgeLeaves, input
  <2>2. judge' \in JudgeCall /\ Behind(judge') = 0 /\ judge'.task = "refusal"
    BY <2>1, AskIsFresh DEF Tasks
  <2> QED
    BY <1>0, <1>8, <2>1, <2>2, Constants DEF JudgeInv, Judging, Behind, JudgeScores
<1>9. ASSUME NEW c, JudgeClassifies(c) PROVE JudgeInv'
  BY <1>9, Constants DEF JudgeClassifies, JudgeInv, Judging, Keep, judgeLeaves, input
<1>10. CASE SelfCheck
  <2>1. /\ mode = "full" /\ mode' = mode /\ judged' = judged /\ calls' = 0 /\ pc = "selfcheck"
    BY <1>10 DEF SelfCheck, JudgeInv, Judging, judgeLeaves, input
  <2>2. CASE judge' = Ask("second") /\ pc' = pc
    <3>1. judge' \in JudgeCall /\ Behind(judge') = 0 /\ judge'.task = "second"
      BY <2>2, AskIsFresh DEF Tasks
    <3> QED
      BY <2>1, <2>2, <3>1, Constants DEF JudgeInv, Judging, Behind
  <2>3. CASE judge' = NULL /\ pc' = "ragas"
    BY <2>1, <2>3, Constants DEF JudgeInv, Judging
  <2> QED
    BY <1>10, <2>2, <2>3 DEF SelfCheck
<1>11. CASE RunRagas
  BY <1>0, <1>1, <1>11 DEF RunRagas, RagasScores, RagasUndefined, RagasJobFails, RagasRaises, RagasReturns,
     RagasSkipped, JobsLeft, ragasLeaves, input
<1>12. CASE Gate \/ NoBaseline \/ Return
  BY <1>1, <1>12 DEF Gate, NoBaseline, GateRaises, Return, Raise, input
<1>13. CASE RowRaises
  BY <1>0, <1>13 DEF RowRaises, Raise, JudgeInv, Judging, input
<1>14. CASE UNCHANGED vars
  BY <1>14 DEF vars, JudgeInv, Judging, Behind
<1> QED
  BY <1>2, <1>3, <1>4, <1>5, <1>6, <1>7, <1>8, <1>9, <1>10, <1>11, <1>12, <1>13, <1>14
     DEF Next, Query, Judge

\* For any number of retries, a score costs at most four times as many calls,
\* and CI mode none (judge.py: the loops of _chat, _chat_json, judge_answer).
THEOREM JudgeCorrect == Spec => []JudgeCallsAreBounded
<1>1. JudgeInv => JudgeCallsAreBounded
  BY DEF JudgeInv, JudgeCallsAreBounded, Judging
<1> QED
  BY <1>1, JudgeInit, JudgeKeeps, PTL DEF Spec

-----------------------------------------------------------------------------
(* What a verdict is drawn from.                                           *)

Asking == pc \in {"start", "query", "judge", "selfcheck", "ragas"}

\* What a passing verdict leaves no doubt about.
Complete ==
    /\ \A r \in DOMAIN records : Scored(records[r])
    /\ mode = "full" => \A m \in DOMAIN RagasMetrics :
                          \E r \in DOMAIN records : records[r].metrics[m] # NULL
    /\ mode = "ci" => \A g \in CIGate : baseline[g] # NULL

\* One record per golden row asked so far; the gates judge as many as there are
\* golden rows, and nothing changes the records after them.
RecordsInv ==
    /\ row \in 1 .. NumRows + 1 /\ draft \in Record
    /\ Asking => records \in Seq(Record) /\ Len(records) = row - 1 /\ exit = NULL
    /\ pc = "judge" => row \in Row
    /\ pc \in {"selfcheck", "ragas"} => row = NumRows + 1
    /\ pc \in {"gate", "return"} => Len(records) = NumRows /\ exit = NULL
    /\ pc = "return" => written \in BOOLEAN /\ (written => Complete)
    /\ exit = "pass" => pc = "done" /\ Len(records) = NumRows /\ Complete
    /\ pc \in {"start", "query", "judge", "selfcheck", "ragas", "gate", "return", "done"}

LEMMA RowNext ==
    ASSUME NEW n \in 1 .. NumRows + 1, n \in Row
    PROVE  n + 1 \in 1 .. NumRows + 1
  BY Constants DEF Row

LEMMA BlankIsRecord ==
    /\ Blank \in Record /\ ErrorRecord \in Record
    /\ [ErrorRecord EXCEPT !.empty = TRUE] \in Record
    /\ \A h \in BOOLEAN : [Blank EXCEPT !.hallucinated = h] \in Record
  BY DEF Blank, ErrorRecord, Record, NoMetrics

\* A row is done: its record is kept.
LEMMA KeepKeeps ==
    ASSUME RecordsInv, Asking, row \in Row, NEW r \in Record, Keep(r), exit' = exit,
           draft' \in Record
    PROVE  RecordsInv'
<1>1. /\ records \in Seq(Record) /\ Len(records) = row - 1 /\ exit = NULL /\ row \in Nat
      /\ records' = Append(records, r) /\ row' = row + 1 /\ pc' = "query"
      /\ row' \in 1 .. NumRows + 1
  BY RowNext, Constants DEF RecordsInv, Keep, Row
<1>2. records' \in Seq(Record) /\ Len(records') = row' - 1
  BY <1>1, AppendProperties
<1> QED
  BY <1>1, <1>2, Constants DEF RecordsInv, Asking

LEMMA RecordsInit == Init => RecordsInv
<1> SUFFICES ASSUME Init PROVE RecordsInv
  OBVIOUS
<1>1. << >> \in Seq(Record) /\ Len(<< >>) = 0
  OBVIOUS
<1> QED
  BY <1>1, Constants, BlankIsRecord DEF Init, RecordsInv, Asking

\* The batch gives every record its metrics, and adds and drops none.
LEMMA ReturnsKeeps == ASSUME RecordsInv, RagasReturns PROVE RecordsInv'
<1>1. /\ records \in Seq(Record) /\ Len(records) = NumRows /\ pc = "ragas" /\ pc' = "gate"
      /\ UNCHANGED <<row, draft, exit>> /\ exit = NULL
  <2>1. /\ pc = "ragas" /\ pc' = "gate" /\ UNCHANGED <<row, draft, exit>>
    BY DEF RagasReturns, result
  <2>2. records \in Seq(Record) /\ Len(records) = row - 1 /\ row = NumRows + 1 /\ exit = NULL
    BY <2>1 DEF RecordsInv, Asking
  <2>3. Len(records) = NumRows
    BY <2>2, Constants
  <2> QED
    BY <2>1, <2>2, <2>3
<1>2. PICK f : records' = [r \in DOMAIN records |-> f[r]]
  <2>1. DOMAIN records' = DOMAIN records /\ records' = [r \in DOMAIN records |-> records'[r]]
    BY DEF RagasReturns
  <2> QED
    BY <2>1
<1>3. Len(records') = NumRows
  <2>1. DOMAIN records = 1 .. NumRows
    BY <1>1
  <2> DEFINE S == {f[r] : r \in 1 .. NumRows}
  <2>2. records' \in [1 .. NumRows -> S]
    BY <1>2, <2>1
  <2> HIDE DEF S
  <2> QED
    BY <2>2, Constants
<1> QED
  BY <1>1, <1>3, Constants DEF RecordsInv, Asking

\* An empty mean passes no gate, and neither does a gate without a baseline.
LEMMA PassIsSure ==
    ASSUME OverallPass, mode \in {"ci", "full"}
    PROVE  Complete
<1>1. ScoredSet = DOMAIN records /\ \A r \in ScoredSet : Scored(records[r])
  BY DEF OverallPass, ScoredSet
<1>2. ASSUME mode = "full", NEW m \in DOMAIN RagasMetrics
      PROVE  \E r \in DOMAIN records : records[r].metrics[m] # NULL
  <2> DEFINE value == [r \in ScoredSet |-> records[r].metrics[m]]
             present == {r \in ScoredSet : value[r] # NULL}
  <2>1. AtLeast(Ragas(m), 100 * Threshold[RagasMetrics[m]])
    BY <1>2 DEF OverallPass, FullGatesPass
  <2>2. Ragas(m).n > 0
    BY <2>1 DEF AtLeast
  <2>3. Ragas(m).n = Cardinality(present)
    BY DEF Ragas, MetricStat
  <2> HIDE DEF present, value
  <2>4. ASSUME present = {} PROVE FALSE
    <3>1. Ragas(m).n = 0
      BY <2>3, <2>4, FS_EmptySet
    <3> QED
      BY <2>2, <3>1
  <2> USE DEF present, value
  <2> QED
    BY <1>1, <2>4
<1>3. ASSUME mode = "ci", NEW g \in CIGate PROVE baseline[g] # NULL
  <2>1. CompareToBaseline(g) = TRUE
    BY <1>3 DEF OverallPass, CIGatesPass
  <2>2. baseline[g] = NULL => CompareToBaseline(g) = NULL
    BY DEF CompareToBaseline
  <2> QED
    BY <2>1, <2>2, Constants
<1> QED
  BY <1>1, <1>2, <1>3 DEF Complete

LEMMA RecordsKeep == RecordsInv /\ JudgeInv /\ [Next]_vars => RecordsInv'
<1> SUFFICES ASSUME RecordsInv, JudgeInv, [Next]_vars PROVE RecordsInv'
  OBVIOUS
<1>1. ASSUME Asking, UNCHANGED <<row, records, exit>>, draft' \in Record,
             \/ pc' = "query" /\ pc = "start"
             \/ pc' = "judge" /\ row \in Row
             \/ pc' \in {"selfcheck", "ragas", "gate"} /\ row = NumRows + 1
      PROVE  RecordsInv'
  <2>1. records \in Seq(Record) /\ Len(records) = row - 1 /\ exit = NULL
    BY <1>1 DEF RecordsInv
  <2>2. row = NumRows + 1 => row - 1 = NumRows
    BY Constants
  <2> QED
    BY <1>1, <2>1, <2>2, Constants DEF RecordsInv, Asking
<1>2. draft \in Record /\ (pc = "query" /\ row \notin Row => row = NumRows + 1)
  BY Constants DEF RecordsInv, Row
<1>3. CASE Start
  BY <1>1, <1>2, <1>3 DEF Start, result, Asking
<1>4. ASSUME Raise, UNCHANGED <<row, draft>> PROVE RecordsInv'
  BY <1>4 DEF Raise, RecordsInv, Asking
<1>5. CASE StartRaises \/ NoBaseline \/ RowRaises
  BY <1>4, <1>5 DEF StartRaises, NoBaseline, RowRaises
<1>6. CASE QueryFails \/ EmptyAnswer
  BY <1>2, <1>6, KeepKeeps, BlankIsRecord DEF QueryFails, EmptyAnswer, Asking, result
<1>7. ASSUME NEW c \in Refusal, NEW h \in BOOLEAN, QueryAnswers(c, h) PROVE RecordsInv'
  <2> DEFINE answered == [Blank EXCEPT !.hallucinated = h]
  <2>1. answered \in Record /\ [answered EXCEPT !.refusal = c] \in Record
    BY BlankIsRecord DEF Record
  <2>2. Asking /\ row \in Row /\ pc = "query" /\ exit' = exit
    BY <1>7 DEF QueryAnswers, Asking, result
  <2>3. CASE Keep([answered EXCEPT !.refusal = c]) /\ draft' = draft
    BY <1>2, <2>1, <2>2, <2>3, KeepKeeps
  <2>4. CASE draft' = answered /\ pc' = "judge" /\ UNCHANGED <<row, records>>
    BY <1>1, <2>1, <2>2, <2>4
  <2> QED
    BY <1>7, <2>3, <2>4 DEF QueryAnswers
<1>8. CASE EndOfRows
  BY <1>1, <1>2, <1>8 DEF EndOfRows, Asking, result
<1>9. CASE JudgeFails
  <2>1. Asking /\ pc \in {"judge", "selfcheck"} /\ exit' = exit /\ draft' = draft
    BY <1>9 DEF JudgeFails, Judging, Asking, judgeLeaves, result
  <2>2. pc = "judge" => row \in Row
    BY DEF RecordsInv
  <2>3. pc = "selfcheck" => row = NumRows + 1
    BY DEF RecordsInv
  <2>4. CASE UNCHANGED <<pc, row, records>>
    BY <1>1, <1>2, <2>1, <2>2, <2>3, <2>4
  <2>5. CASE JudgeRaises
    <3>1. CASE pc = "judge" /\ Keep(ErrorRecord)
      BY <1>2, <2>1, <2>2, <3>1, KeepKeeps, BlankIsRecord
    <3>2. CASE pc = "selfcheck" /\ pc' = "ragas" /\ UNCHANGED <<row, records>>
      BY <1>1, <1>2, <2>1, <2>3, <3>2
    <3> QED
      BY <2>5, <3>1, <3>2 DEF JudgeRaises
  <2> QED
    BY <1>9, <2>4, <2>5 DEF JudgeFails
<1>10. ASSUME NEW s \in JudgeScore, JudgeScores(s) PROVE RecordsInv'
  <2>1. Asking /\ pc \in {"judge", "selfcheck"} /\ UNCHANGED <<pc, row, records, exit>>
        /\ draft' = [draft EXCEPT !.comprehensibility = s]
    BY <1>10 DEF JudgeScores, Judging, Asking, judgeLeaves, result
  <2>2. draft' \in Record
    BY <1>2, <2>1 DEF Record
  <2> QED
    BY <1>1, <2>1, <2>2 DEF RecordsInv
<1>11. ASSUME NEW c \in Refusal, JudgeClassifies(c) PROVE RecordsInv'
  \* The determinism check asks for no refusal.
  <2>1. pc = "judge" /\ row \in Row /\ Asking /\ exit' = exit /\ draft' = draft
    BY <1>11 DEF JudgeClassifies, JudgeInv, RecordsInv, Judging, Asking, judgeLeaves, result
  <2>2. [draft EXCEPT !.refusal = c] \in Record /\ Keep([draft EXCEPT !.refusal = c])
    BY <1>2, <1>11 DEF JudgeClassifies, Record
  <2> QED
    BY <1>2, <2>1, <2>2, KeepKeeps
<1>12. CASE SelfCheck
  BY <1>1, <1>2, <1>12 DEF SelfCheck, RecordsInv, Asking, judgeLeaves, result
<1>13. CASE RunRagas
  <2>1. CASE RagasReturns
    BY <2>1, ReturnsKeeps
  <2>2. CASE RunRagas /\ ~RagasReturns
    <3>1. /\ pc = "ragas" /\ pc' \in {"ragas", "gate"} /\ UNCHANGED <<row, records, exit, draft>>
      BY <2>2 DEF RunRagas, RagasScores, RagasUndefined, RagasJobFails, RagasRaises,
         RagasSkipped, JobsLeft, ragasLeaves, result
    <3> QED
      BY <1>1, <1>2, <3>1 DEF RecordsInv, Asking
  <2> QED
    BY <1>13, <2>1, <2>2
<1>14. CASE Gate
  <2>1. /\ pc = "gate" /\ pc' = "return" /\ written' = OverallPass
        /\ UNCHANGED <<mode, baseline, row, draft, records, exit>>
    BY <1>14 DEF Gate, WriteResults, input
  <2>2. Complete' = Complete
    BY <2>1 DEF Complete, Scored
  <2>3. OverallPass \in BOOLEAN
    BY DEF OverallPass
  <2>4. OverallPass => Complete
    BY PassIsSure DEF JudgeInv
  <2>5. written' \in BOOLEAN /\ (written' => Complete')
    BY <2>1, <2>2, <2>3, <2>4, Zenon
  <2> QED
    BY <2>1, <2>5, Constants DEF RecordsInv, Asking
<1>15. CASE Return
  <2>1. /\ pc = "return" /\ pc' = "done" /\ exit' = IF written THEN "pass" ELSE "fail"
        /\ UNCHANGED <<mode, baseline, row, draft, records>>
    BY <1>15 DEF Return, input
  <2>2. Complete' = Complete
    BY <2>1 DEF Complete, Scored
  <2>3. exit' = "pass" => Complete'
    BY <2>1, <2>2 DEF RecordsInv
  <2> QED
    BY <2>1, <2>3 DEF RecordsInv, Asking
<1>16. CASE UNCHANGED vars
  <2>1. UNCHANGED <<mode, baseline, pc, row, draft, records, written, exit>>
    BY <1>16 DEF vars
  <2>2. Complete' = Complete
    BY <2>1 DEF Complete, Scored
  <2> QED
    BY <2>1, <2>2 DEF RecordsInv, Asking
<1> QED
  BY <1>3, <1>5, <1>6, <1>7, <1>8, <1>9, <1>10, <1>11, <1>12, <1>13, <1>14, <1>15, <1>16
     DEF Next, Query, Judge

LEMMA InvHolds == Spec => [](RecordsInv /\ JudgeInv)
  BY RecordsInit, JudgeInit, RecordsKeep, JudgeKeeps, PTL DEF Spec

\* Exit code 0 says, for any golden set and any baseline, that no row is missing
\* and that no gate passed without a value (run.py: overall_pass, incomplete).
THEOREM PassCorrect == Spec => []PassIsComplete
<1>1. RecordsInv => PassIsComplete
  BY DEF RecordsInv, Complete, PassIsComplete
<1> QED
  BY <1>1, InvHolds, PTL

-----------------------------------------------------------------------------
(* The numbering of RAGAS: rows of the batch by their place among the rows   *)
(* that scored, jobs row by row.                                             *)

LEMMA MetricsConstant ==
    /\ NumMetrics \in Nat \ {0} /\ DOMAIN RagasMetrics = 1 .. NumMetrics
    /\ RagasMetrics \in Seq(DOMAIN Threshold)
<1>1. RagasMetrics \in Seq(DOMAIN Threshold) /\ RagasMetrics # << >>
  BY EvaluationAssumption
<1> QED
  BY <1>1 DEF NumMetrics

\* A number is its quotient and its remainder.
LEMMA Division ==
    ASSUME NEW n \in Nat, NEW k \in Nat \ {0}
    PROVE  /\ n = k * (n \div k) + (n % k)
           /\ n % k \in 0 .. (k - 1) /\ n \div k \in Nat
  OBVIOUS

\* A job's number gives back the place of its row in the batch and its metric.
LEMMA JobNumbered ==
    ASSUME NEW n \in Nat, NEW rows \in Nat, n < rows * NumMetrics
    PROVE  /\ JobRow(n) \in 1 .. rows /\ JobMetric(n) \in DOMAIN RagasMetrics
           /\ (JobRow(n) - 1) * NumMetrics + JobMetric(n) = n + 1
<1> DEFINE k == NumMetrics
           q == n \div k
           rest == n % k
<1>1. k \in Nat \ {0} /\ DOMAIN RagasMetrics = 1 .. k /\ n < rows * k
  BY MetricsConstant
<1> HIDE DEF k
<1>2. n = k * q + rest /\ rest \in 0 .. (k - 1) /\ q \in Nat
  BY <1>1, Division
<1> HIDE DEF q, rest
<1>3. q < rows
  <2>1. q >= rows => k * q >= k * rows
    BY <1>1, <1>2
  <2>2. k * rows = rows * k
    BY <1>1
  <2> QED
    BY <1>1, <1>2, <2>1, <2>2
<1>4. JobRow(n) = q + 1 /\ JobMetric(n) = rest + 1
  BY DEF JobRow, JobMetric, q, rest, k
<1>5. (q + 1 - 1) * k + (rest + 1) = n + 1
  BY <1>1, <1>2
<1>6. q + 1 \in 1 .. rows /\ rest + 1 \in 1 .. k
  BY <1>1, <1>2, <1>3
<1>7. (JobRow(n) - 1) * k + JobMetric(n) = n + 1
  <2>1. \A a, b : a = q + 1 /\ b = rest + 1 => (a - 1) * k + b = n + 1
    BY <1>1, <1>2, <1>5
  <2> QED
    BY <1>4, <2>1, Zenon
<1>8. JobRow(n) \in 1 .. rows /\ JobMetric(n) \in DOMAIN RagasMetrics
  BY <1>1, <1>4, <1>6
<1> QED
  BY <1>7, <1>8 DEF k

\* Every row and metric of the batch has its score.
LEMMA ScoreIndexed ==
    ASSUME NEW rows \in Nat, NEW p \in 1 .. rows, NEW m \in 1 .. NumMetrics
    PROVE  (p - 1) * NumMetrics + m \in 1 .. rows * NumMetrics
<1> DEFINE k == NumMetrics
<1>1. k \in Nat \ {0} /\ m \in 1 .. k
  BY MetricsConstant
<1> HIDE DEF k
<1>2. PICK d \in Nat : rows = p + d
  <2>1. rows - p \in Nat /\ rows = p + (rows - p)
    OBVIOUS
  <2> QED
    BY <2>1
<1>3. rows * k = (p - 1) * k + k + d * k /\ d * k \in Nat /\ (p - 1) * k \in Nat
  BY <1>1, <1>2
<1> QED
  BY <1>1, <1>3 DEF k

\* The places of the rows that scored are the numbers from one to their count,
\* and the row at a place is the one that has it.
LEMMA PlacesAreCounted ==
    ASSUME IsFiniteSet(ScoredSet), ScoredSet \subseteq Nat
    PROVE  /\ Cardinality(ScoredSet) \in Nat
           /\ \A r \in ScoredSet : Place(r) \in 1 .. Cardinality(ScoredSet)
           /\ \A l \in 1 .. Cardinality(ScoredSet) :
                 ScoredRow(l) \in ScoredSet /\ Place(ScoredRow(l)) = l
<1> DEFINE S == ScoredSet
           n == Cardinality(S)
           UpTo(r) == {x \in S : x <= r}
<1>1. IsFiniteSet(S) /\ S \subseteq Nat /\ n \in Nat
  BY FS_CardinalityType
<1>2. \A r : Place(r) = Cardinality(UpTo(r))
  BY DEF Place
<1> HIDE DEF S
<1>3. ASSUME NEW r \in S
      PROVE  IsFiniteSet(UpTo(r)) /\ Place(r) \in 1 .. n
  <2>1. UpTo(r) \in SUBSET S /\ r \in UpTo(r)
    BY <1>1
  <2> HIDE DEF UpTo
  <2>2. IsFiniteSet(UpTo(r)) /\ Cardinality(UpTo(r)) <= n
    BY <1>1, <2>1, FS_Subset
  <2>3. Cardinality(UpTo(r)) \in Nat /\ Cardinality(UpTo(r)) # 0
    BY <2>1, <2>2, FS_CardinalityType, FS_EmptySet
  <2> QED
    BY <1>1, <1>2, <2>2, <2>3
<1>4. ASSUME NEW r \in S, NEW s \in S, r < s
      PROVE  Place(r) # Place(s)
  <2>0. r \in Nat /\ s \in Nat /\ r < s
    BY <1>1, <1>4
  <2>1. UpTo(r) \in SUBSET UpTo(s) /\ s \in UpTo(s) /\ s \notin UpTo(r)
    <3>1. ASSUME NEW x \in UpTo(r) PROVE x \in UpTo(s)
      BY <1>1, <2>0
    <3>2. s \in UpTo(s) /\ s \notin UpTo(r)
      BY <2>0
    <3> QED
      BY <3>1, <3>2
  <2>2. IsFiniteSet(UpTo(s))
    BY <1>3
  <2> HIDE DEF UpTo
  <2>3. Cardinality(UpTo(s)) # Cardinality(UpTo(r))
    BY <2>1, <2>2, FS_Subset
  <2> QED
    BY <1>2, <2>3
<1> DEFINE f == [r \in S |-> Place(r)]
<1>5. f \in Injection(S, 1 .. n)
  <2>1. f \in [S -> 1 .. n]
    BY <1>3
  <2>2. \A r, s \in S : f[r] = f[s] => r = s
    <3> SUFFICES ASSUME NEW r \in S, NEW s \in S, f[r] = f[s], r # s PROVE FALSE
      OBVIOUS
    <3>1. r < s \/ s < r
      BY <1>1
    <3>2. Place(r) = Place(s)
      OBVIOUS
    <3> HIDE DEF f
    <3> QED
      BY <1>4, <3>1, <3>2
  <2> HIDE DEF f
  <2> QED
    BY <2>1, <2>2 DEF Injection, IsInjective
<1>6. f \in Surjection(S, 1 .. n)
  <2>1. IsFiniteSet(1 .. n) /\ Cardinality(1 .. n) = n
    BY <1>1, FS_Interval
  <2> HIDE DEF f
  <2> QED
    BY <1>5, <2>1, FS_Injection
<1>7. ASSUME NEW l \in 1 .. n
      PROVE  ScoredRow(l) \in S /\ Place(ScoredRow(l)) = l
  <2>1. \E r \in S : f[r] = l
    <3> HIDE DEF f
    <3> QED
      BY <1>6, <1>7 DEF Surjection
  <2>2. \E r \in S : Place(r) = l
    BY <2>1
  <2>3. ScoredRow(l) = CHOOSE r \in S : Place(r) = l
    BY DEF ScoredRow, S
  <2> QED
    BY <2>2, <2>3
<1> QED
  BY <1>1, <1>3, <1>7 DEF S

-----------------------------------------------------------------------------
(* The batch RAGAS scores.                                                   *)

Value == RagasScore \cup {NULL}
Plain(rs) == \A r \in DOMAIN rs : rs[r].metrics = NoMetrics

\* The <<row, metric>> whose scores are not to come.
Lost == {<<ScoredRow(JobRow(collector[k])), JobMetric(collector[k])>> :
            k \in DOMAIN collector}

\* Until the batch returns no record has a metric.  A failed job left an empty
\* score at its number, and is remembered as the row and the metric that number
\* stands for.
BatchInv ==
    /\ records \in Seq(Record) /\ Len(records) <= NumRows
    /\ job \in Nat /\ scores \in Seq(Value) /\ collector \in Seq(Nat)
    /\ lost \subseteq Row \X (DOMAIN RagasMetrics)
    /\ rowFailures \subseteq [row : Row, metric : DOMAIN RagasMetrics]
    /\ draft.metrics = NoMetrics
    /\ Asking => Plain(records) /\ rowFailures = {}
    /\ pc \in {"start", "query", "judge", "selfcheck"} =>
          job = 0 /\ scores = << >> /\ collector = << >> /\ lost = {}
    /\ pc = "ragas" =>
          /\ job <= NumJobs /\ Len(scores) = job
          /\ \A k \in DOMAIN collector : collector[k] < job /\ scores[collector[k] + 1] = NULL
          /\ lost = Lost
    /\ FailureNamesItsRow

\* Without a metric and without a reported failure nothing is told wrongly.
LEMMA PlainNames == ASSUME Plain(records), rowFailures = {} PROVE FailureNamesItsRow
<1>1. ASSUME NEW r \in DOMAIN records, NEW m \in DOMAIN RagasMetrics
      PROVE  records[r].metrics[m] = NULL
  BY DEF Plain, NoMetrics
<1> QED
  BY <1>1 DEF FailureNamesItsRow

LEMMA BlankIsPlain ==
    /\ Blank.metrics = NoMetrics /\ ErrorRecord.metrics = NoMetrics
    /\ [ErrorRecord EXCEPT !.empty = TRUE].metrics = NoMetrics
    /\ \A h \in BOOLEAN : [Blank EXCEPT !.hallucinated = h].metrics = NoMetrics
  BY DEF Blank, ErrorRecord

\* The rows that scored are golden rows, and can be counted.
LEMMA ScoredRowsAreGolden ==
    ASSUME records \in Seq(Record), Len(records) <= NumRows
    PROVE  /\ ScoredSet \subseteq Row /\ ScoredSet \subseteq Nat /\ IsFiniteSet(ScoredSet)
           /\ DOMAIN records \subseteq Row
           /\ Cardinality(ScoredSet) \in Nat /\ NumJobs \in Nat
<1>1. DOMAIN records = 1 .. Len(records) /\ Len(records) \in Nat /\ NumRows \in Nat
  BY Constants
<1>2. ScoredSet \in SUBSET (1 .. Len(records))
  BY <1>1 DEF ScoredSet
<1>3. IsFiniteSet(1 .. Len(records))
  BY <1>1, FS_Interval
<1>4. IsFiniteSet(ScoredSet)
  BY <1>2, <1>3, FS_Subset
<1>5. Cardinality(ScoredSet) \in Nat
  BY <1>4, FS_CardinalityType
<1>6. NumJobs \in Nat
  BY <1>5, MetricsConstant DEF NumJobs
<1> QED
  BY <1>1, <1>2, <1>4, <1>5, <1>6 DEF Row

LEMMA KeepIsPlain ==
    ASSUME records \in Seq(Record), Plain(records), NEW r \in Record, r.metrics = NoMetrics, Keep(r)
    PROVE  Plain(records')
<1>1. records' = Append(records, r)
  BY DEF Keep
<1> DEFINE last == Len(records) + 1
<1>2. /\ DOMAIN records' = 1 .. last /\ last \in Nat /\ DOMAIN records = 1 .. last - 1
      /\ \A j \in 1 .. last - 1 : records'[j] = records[j]
      /\ records'[last] = r
  BY <1>1, AppendProperties
<1> HIDE DEF last
<1>3. records'[last].metrics = NoMetrics
  BY <1>2
<1>4. ASSUME NEW j \in 1 .. last - 1 PROVE records'[j].metrics = NoMetrics
  BY <1>2, <1>4 DEF Plain
<1>5. ASSUME NEW j \in 1 .. last PROVE records'[j].metrics = NoMetrics
  <2>1. j = last \/ j \in 1 .. last - 1
    BY <1>2
  <2> QED
    BY <1>3, <1>4, <2>1
<1> QED
  BY <1>2, <1>5 DEF Plain

LEMMA BatchInit == Init => BatchInv
<1> SUFFICES ASSUME Init PROVE BatchInv
  OBVIOUS
<1>1. records = << >> /\ rowFailures = {} /\ pc = "start" /\ draft = Blank /\ job = 0
      /\ collector = << >> /\ scores = << >> /\ lost = {}
  BY DEF Init
<1>2. << >> \in Seq(Record) /\ << >> \in Seq(Value) /\ << >> \in Seq(Nat) /\ Len(<< >>) = 0
  OBVIOUS
<1>3. Plain(records)
  BY <1>1 DEF Plain
<1>4. FailureNamesItsRow
  BY <1>1, <1>3, PlainNames
<1> QED
  BY <1>1, <1>2, <1>3, <1>4, BlankIsPlain, Constants DEF BatchInv

\* Before RAGAS a step adds at most one record, which has no metric.
Asks ==
    /\ pc \in {"start", "query", "judge", "selfcheck"}
    /\ UNCHANGED <<ragas>> /\ draft'.metrics = NoMetrics
    /\ records' \in Seq(Record) /\ Plain(records')
    /\ records' = records \/ pc' = "query"

LEMMA AsksStep ==
    ASSUME RecordsInv, JudgeInv, BatchInv, [Next]_vars,
           pc \in {"start", "query", "judge", "selfcheck"}
    PROVE  Asks
<1>1. /\ records \in Seq(Record) /\ Plain(records) /\ draft.metrics = NoMetrics
      /\ draft \in Record
  BY DEF BatchInv, Asking, RecordsInv
<1>2. ASSUME NEW r \in Record, r.metrics = NoMetrics, Keep(r)
      PROVE  records' \in Seq(Record) /\ Plain(records') /\ pc' = "query"
  <2>1. records' \in Seq(Record) /\ pc' = "query"
    BY <1>1, <1>2, AppendProperties DEF Keep
  <2> QED
    BY <1>1, <1>2, <2>1, KeepIsPlain
<1>3. records' = records => records' \in Seq(Record) /\ Plain(records')
  BY <1>1
<1>4. draft' = draft => draft'.metrics = NoMetrics
  BY <1>1
<1>5. CASE Start \/ StartRaises \/ RowRaises \/ EndOfRows \/ SelfCheck
  BY <1>3, <1>4, <1>5 DEF Start, StartRaises, RowRaises, EndOfRows, SelfCheck, judgeLeaves, Asks,
     ragas
<1>6. CASE QueryFails
  <2>1. Keep(ErrorRecord) /\ UNCHANGED <<ragas, draft>>
    BY <1>6 DEF QueryFails, ragas
  <2> QED
    BY <1>2, <1>4, <2>1, BlankIsPlain, BlankIsRecord DEF Asks
<1>7. CASE EmptyAnswer
  <2>1. Keep([ErrorRecord EXCEPT !.empty = TRUE]) /\ UNCHANGED <<ragas, draft>>
    BY <1>7 DEF EmptyAnswer, ragas
  <2>2. records' \in Seq(Record) /\ Plain(records') /\ pc' = "query"
    BY <1>2, <2>1, BlankIsPlain, BlankIsRecord
  <2> QED
    BY <1>4, <2>1, <2>2 DEF Asks
<1>8. ASSUME NEW c \in Refusal, NEW h \in BOOLEAN, QueryAnswers(c, h) PROVE Asks
  <2> DEFINE answered == [Blank EXCEPT !.hallucinated = h]
             classed == [answered EXCEPT !.refusal = c]
  <2>1. answered \in Record /\ answered.metrics = NoMetrics
    BY BlankIsRecord, BlankIsPlain
  <2>2. classed \in Record /\ classed.metrics = NoMetrics
    BY <2>1 DEF Record
  <2>3. UNCHANGED <<ragas>>
    BY <1>8 DEF QueryAnswers, ragas
  <2>4. \/ Keep(classed) /\ draft' = draft
        \/ draft' = answered /\ records' = records
    BY <1>8 DEF QueryAnswers
  <2> HIDE DEF answered, classed
  <2> QED
    BY <1>2, <1>3, <1>4, <2>1, <2>2, <2>3, <2>4 DEF Asks
<1>9. CASE JudgeFails
  <2>1. UNCHANGED <<ragas, draft>> /\ (records' = records \/ Keep(ErrorRecord))
    BY <1>9 DEF JudgeFails, JudgeRaises, judgeLeaves, ragas
  <2> QED
    BY <1>2, <1>3, <1>4, <2>1, BlankIsPlain, BlankIsRecord DEF Asks
<1>10. ASSUME NEW s \in JudgeScore, JudgeScores(s) PROVE Asks
  <2>1. UNCHANGED <<ragas, records>> /\ draft' = [draft EXCEPT !.comprehensibility = s]
    BY <1>10 DEF JudgeScores, judgeLeaves, ragas
  <2>2. draft'.metrics = NoMetrics
    BY <1>1, <2>1 DEF Record
  <2> QED
    BY <1>3, <2>1, <2>2 DEF Asks
<1>11. ASSUME NEW c \in Refusal, JudgeClassifies(c) PROVE Asks
  <2>1. UNCHANGED <<ragas, draft>> /\ Keep([draft EXCEPT !.refusal = c])
    BY <1>11 DEF JudgeClassifies, judgeLeaves, ragas
  <2>2. [draft EXCEPT !.refusal = c] \in Record /\ [draft EXCEPT !.refusal = c].metrics = NoMetrics
    BY <1>1 DEF Record
  <2>3. records' \in Seq(Record) /\ Plain(records') /\ pc' = "query"
    BY <1>2, <2>1, <2>2
  <2> QED
    BY <1>4, <2>1, <2>3 DEF Asks
<1>12. CASE RunRagas \/ Gate \/ NoBaseline \/ Return
  BY <1>12 DEF RunRagas, RagasScores, RagasUndefined, RagasJobFails, RagasRaises, RagasReturns,
     RagasSkipped, JobsLeft, Gate, NoBaseline, GateRaises, Return
<1>13. CASE UNCHANGED vars
  BY <1>3, <1>4, <1>13 DEF vars, Asks, ragas
<1> QED
  BY <1>5, <1>6, <1>7, <1>8, <1>9, <1>10, <1>11, <1>12, <1>13 DEF Next, Query, Judge

LEMMA AsksKeeps ==
    ASSUME RecordsInv', BatchInv, Asks,
           pc' \in {"start", "query", "judge", "selfcheck", "ragas", "gate", "return", "done"}
    PROVE  BatchInv'
<1>1. /\ job' = 0 /\ scores' = << >> /\ collector' = << >> /\ lost' = {} /\ rowFailures' = {}
      /\ records' \in Seq(Record) /\ Plain(records') /\ draft'.metrics = NoMetrics
  BY DEF Asks, BatchInv, Asking, ragas
<1>2. Len(records') <= NumRows
  <2>1. CASE records' = records
    BY <2>1 DEF BatchInv
  <2>2. CASE pc' = "query"
    <3>1. Len(records') = row' - 1 /\ row' \in 1 .. NumRows + 1
      BY <2>2 DEF RecordsInv, Asking
    <3> QED
      BY <3>1, Constants
  <2> QED
    BY <2>1, <2>2 DEF Asks
<1>3. FailureNamesItsRow'
  <2>1. ASSUME NEW r \in DOMAIN records', NEW m \in DOMAIN RagasMetrics
        PROVE  records'[r].metrics[m] = NULL
    BY <1>1 DEF Plain, NoMetrics
  <2> QED
    BY <1>1, <2>1 DEF FailureNamesItsRow
<1>4. NumJobs' \in Nat
  <2>1. DOMAIN records' = 1 .. Len(records') /\ Len(records') \in Nat
    BY <1>1
  <2>2. ScoredSet' \in SUBSET (1 .. Len(records'))
    BY <2>1 DEF ScoredSet
  <2>3. IsFiniteSet(1 .. Len(records'))
    BY <2>1, FS_Interval
  <2>4. IsFiniteSet(ScoredSet')
    BY <2>2, <2>3, FS_Subset
  <2>5. Cardinality(ScoredSet') \in Nat
    BY <2>4, FS_CardinalityType
  <2> QED
    BY <2>5, MetricsConstant DEF NumJobs
<1>5. Lost' = {}
  BY <1>1 DEF Lost
<1>6. /\ << >> \in Seq(Value) /\ << >> \in Seq(Nat) /\ Len(<< >>) = 0
  OBVIOUS
<1> QED
  BY <1>1, <1>2, <1>3, <1>4, <1>5, <1>6 DEF BatchInv

\* A job's score, an undefined one or a failure.
JobRuns ==
    /\ JobsLeft /\ pc' = "ragas" /\ job' = job + 1
    /\ UNCHANGED <<draft, records, rowFailures>>
    /\ \E s \in Value : scores' = Append(scores, s)
    /\ \/ UNCHANGED <<collector, lost>>
       \/ /\ scores' = Append(scores, NULL)
          /\ collector' = Append(collector, job)
          /\ lost' = lost \cup {<<ScoredRow(JobRow(job)), JobMetric(job)>>}

LEMMA JobKeeps == ASSUME BatchInv, JobRuns PROVE BatchInv'
<1>1. /\ pc = "ragas" /\ job \in Nat /\ job < NumJobs /\ Len(scores) = job /\ job' = job + 1
      /\ pc' = "ragas" /\ scores \in Seq(Value) /\ collector \in Seq(Nat) /\ lost = Lost
      /\ records \in Seq(Record) /\ Len(records) <= NumRows
      /\ \A k \in DOMAIN collector : collector[k] < job /\ scores[collector[k] + 1] = NULL
      /\ Plain(records) /\ rowFailures = {}
      /\ UNCHANGED <<draft, records, rowFailures>>
  BY DEF JobRuns, JobsLeft, BatchInv, Asking
<1>2. PICK s \in Value : scores' = Append(scores, s)
  BY DEF JobRuns
<1>3. /\ scores' \in Seq(Value) /\ Len(scores') = job + 1
      /\ \A i \in 1 .. job : scores'[i] = scores[i]
      /\ scores'[job + 1] = s
  BY <1>1, <1>2, AppendProperties
<1>4. ScoredSet' = ScoredSet /\ NumJobs' = NumJobs /\ NumJobs \in Nat
  BY <1>1, ScoredRowsAreGolden DEF ScoredSet, Scored, NumJobs
<1>5. \A k \in DOMAIN collector : collector[k] < job' /\ scores'[collector[k] + 1] = NULL
  <2> SUFFICES ASSUME NEW k \in DOMAIN collector
               PROVE  collector[k] < job' /\ scores'[collector[k] + 1] = NULL
    OBVIOUS
  <2>1. collector[k] \in Nat /\ collector[k] < job /\ scores[collector[k] + 1] = NULL
    BY <1>1
  <2>2. collector[k] + 1 \in 1 .. job
    BY <1>1, <2>1
  <2> QED
    BY <1>1, <1>3, <2>1, <2>2
<1>6. FailureNamesItsRow'
  <2>1. ASSUME NEW r \in DOMAIN records', NEW m \in DOMAIN RagasMetrics
        PROVE  records'[r].metrics[m] = NULL
    BY <1>1 DEF Plain, NoMetrics
  <2>2. rowFailures' = {}
    BY <1>1
  <2> QED
    BY <2>1, <2>2 DEF FailureNamesItsRow
<1>7. \A l : ScoredRow(l)' = ScoredRow(l)
  BY <1>1, <1>4 DEF ScoredRow, Place
<1>8. ASSUME collector' \in Seq(Nat), lost' \subseteq Row \X (DOMAIN RagasMetrics), lost' = Lost',
             \A k \in DOMAIN collector' : collector'[k] < job' /\ scores'[collector'[k] + 1] = NULL
      PROVE  BatchInv'
  BY <1>1, <1>3, <1>4, <1>6, <1>8 DEF BatchInv, Asking
<1>9. CASE UNCHANGED <<collector, lost>>
  <2>1. Lost' = Lost
    BY <1>7, <1>9 DEF Lost
  <2>2. lost \subseteq Row \X (DOMAIN RagasMetrics)
    BY DEF BatchInv
  <2> QED
    BY <1>1, <1>5, <1>8, <1>9, <2>1, <2>2
<1>10. CASE /\ scores' = Append(scores, NULL) /\ collector' = Append(collector, job)
            /\ lost' = lost \cup {<<ScoredRow(JobRow(job)), JobMetric(job)>>}
  <2>1. /\ collector' \in Seq(Nat) /\ DOMAIN collector' = 1 .. Len(collector) + 1
        /\ Len(collector) \in Nat /\ DOMAIN collector = 1 .. Len(collector)
        /\ \A k \in 1 .. Len(collector) : collector'[k] = collector[k]
        /\ collector'[Len(collector) + 1] = job
    BY <1>1, <1>10, AppendProperties
  <2>2. scores'[job + 1] = NULL
    BY <1>1, <1>10, AppendProperties
  <2>3. \A k \in DOMAIN collector' : collector'[k] < job' /\ scores'[collector'[k] + 1] = NULL
    <3> SUFFICES ASSUME NEW k \in DOMAIN collector'
                 PROVE  collector'[k] < job' /\ scores'[collector'[k] + 1] = NULL
      OBVIOUS
    <3>1. CASE k \in 1 .. Len(collector)
      <4>1. k \in DOMAIN collector /\ collector'[k] = collector[k]
        BY <2>1, <3>1
      <4> QED
        BY <1>5, <4>1
    <3>2. CASE k = Len(collector) + 1
      <4>1. collector'[k] = job
        BY <2>1, <3>2, Zenon
      <4> QED
        BY <1>1, <2>2, <4>1
    <3> QED
      BY <2>1, <3>1, <3>2
  <2>4. Lost' = Lost \cup {<<ScoredRow(JobRow(job)), JobMetric(job)>>}
    <3> DEFINE Named(n) == <<ScoredRow(JobRow(n)), JobMetric(n)>>
    <3>1. Lost' = {Named(collector'[k]) : k \in DOMAIN collector'}
      BY <1>7 DEF Lost
    <3>2. Lost = {Named(collector[k]) : k \in DOMAIN collector}
      BY DEF Lost
    <3> HIDE DEF Named
    <3>3. Lost' = Lost \cup {Named(job)}
      BY <2>1, <3>1, <3>2
    <3> QED
      BY <3>3 DEF Named
  <2>5. /\ JobRow(job) \in 1 .. Cardinality(ScoredSet) /\ JobMetric(job) \in DOMAIN RagasMetrics
    <3>1. Cardinality(ScoredSet) \in Nat /\ job < Cardinality(ScoredSet) * NumMetrics
      BY <1>1, ScoredRowsAreGolden DEF NumJobs
    <3> QED
      BY <1>1, <3>1, JobNumbered
  <2>6. ScoredRow(JobRow(job)) \in Row
    <3>1. ScoredSet \subseteq Row /\ ScoredSet \subseteq Nat /\ IsFiniteSet(ScoredSet)
      BY <1>1, ScoredRowsAreGolden
    <3>2. ScoredRow(JobRow(job)) \in ScoredSet
      BY <2>5, <3>1, PlacesAreCounted
    <3> QED
      BY <3>1, <3>2
  <2>7. lost' \subseteq Row \X (DOMAIN RagasMetrics)
    BY <1>10, <2>5, <2>6 DEF BatchInv
  <2> QED
    BY <1>1, <1>8, <1>10, <2>1, <2>3, <2>4, <2>7
<1> QED
  BY <1>9, <1>10 DEF JobRuns

\* The batch returns: every row that scored gets its scores, and every failure
\* is reported against the row whose metric stays empty.
LEMMA ReturnKeepsBatch == ASSUME BatchInv, RagasReturns PROVE BatchInv'
<1> DEFINE size == Cardinality(ScoredSet)
           at(r, m) == (Place(r) - 1) * NumMetrics + m
<1>1. /\ pc = "ragas" /\ job = NumJobs /\ Len(scores) = job /\ pc' = "gate"
      /\ scores \in Seq(Value) /\ collector \in Seq(Nat) /\ lost = Lost
      /\ records \in Seq(Record) /\ Len(records) <= NumRows
      /\ \A k \in DOMAIN collector : collector[k] < job /\ scores[collector[k] + 1] = NULL
      /\ Plain(records) /\ lost \subseteq Row \X (DOMAIN RagasMetrics)
      /\ UNCHANGED <<job, draft, collector, scores, lost>>
  BY DEF RagasReturns, BatchInv, Asking
<1>2. /\ ScoredSet \subseteq Row /\ ScoredSet \subseteq Nat /\ IsFiniteSet(ScoredSet)
      /\ size \in Nat /\ NumJobs = size * NumMetrics /\ DOMAIN records \subseteq Row
      /\ NumJobs \in Nat
  BY <1>1, ScoredRowsAreGolden DEF NumJobs
<1>3. /\ \A r \in ScoredSet : Place(r) \in 1 .. size
      /\ \A l \in 1 .. size : ScoredRow(l) \in ScoredSet /\ Place(ScoredRow(l)) = l
  BY <1>2, PlacesAreCounted
<1>4. /\ DOMAIN records' = DOMAIN records
      /\ \A r \in ScoredSet : records'[r] = [records[r] EXCEPT !.metrics =
                                 [m \in DOMAIN RagasMetrics |-> scores[at(r, m)]]]
      /\ \A r \in DOMAIN records \ ScoredSet : records'[r] = records[r]
  BY DEF RagasReturns, ScoredSet
<1>5. ASSUME NEW r \in ScoredSet, NEW m \in DOMAIN RagasMetrics
      PROVE  at(r, m) \in 1 .. Len(scores) /\ scores[at(r, m)] \in Value
  <2>1. at(r, m) \in 1 .. size * NumMetrics
    BY <1>2, <1>3, ScoreIndexed, MetricsConstant
  <2> HIDE DEF at, size
  <2>2. at(r, m) \in 1 .. Len(scores)
    BY <1>1, <1>2, <2>1
  <2> QED
    BY <1>1, <2>2
<1> HIDE DEF at
<1>6. ASSUME NEW r \in DOMAIN records
      PROVE  /\ records'[r] \in Record
             /\ \A m \in DOMAIN RagasMetrics : records'[r].metrics[m] # NULL =>
                   r \in ScoredSet /\ scores[at(r, m)] # NULL
  <2>1. records[r] \in Record /\ records[r].metrics = NoMetrics
    BY <1>1 DEF Plain
  <2>2. CASE r \in ScoredSet
    <3> DEFINE values == [m \in DOMAIN RagasMetrics |-> scores[at(r, m)]]
    <3>1. values \in [DOMAIN RagasMetrics -> Value]
      BY <1>5, <2>2
    <3>2. records'[r] = [records[r] EXCEPT !.metrics = values]
      BY <1>4, <2>2
    <3> HIDE DEF values
    <3>3. records'[r] \in Record /\ records'[r].metrics = values
      BY <2>1, <3>1, <3>2 DEF Record, Value
    <3> USE DEF values
    <3> QED
      BY <2>2, <3>3
  <2>3. CASE r \notin ScoredSet
    <3>1. records'[r] = records[r]
      BY <1>4, <2>3
    <3> QED
      BY <2>1, <3>1 DEF NoMetrics
  <2> QED
    BY <2>2, <2>3
<1>7. records' \in Seq(Record) /\ Len(records') <= NumRows
  <2>1. DOMAIN records' = 1 .. Len(records) /\ Len(records) \in Nat
    BY <1>1, <1>4
  <2>2. records' \in [1 .. Len(records) -> Record]
    <3>1. records' = [r \in DOMAIN records' |-> records'[r]]
      BY DEF RagasReturns
    <3> QED
      BY <1>4, <1>6, <2>1, <3>1
  <2>3. records' \in Seq(Record)
    BY <2>1, <2>2
  <2> QED
    BY <1>1, <2>1, <2>3
<1>8. ASSUME NEW k \in DOMAIN collector
      PROVE  LET n == collector[k] IN
             /\ ScoredRow(JobRow(n)) \in ScoredSet /\ JobMetric(n) \in DOMAIN RagasMetrics
             /\ at(ScoredRow(JobRow(n)), JobMetric(n)) = n + 1
             /\ scores[n + 1] = NULL
  <2> DEFINE n == collector[k]
  <2>1. n \in Nat /\ n < size * NumMetrics /\ scores[n + 1] = NULL
    BY <1>1, <1>2
  <2> HIDE DEF n
  <2>2. /\ JobRow(n) \in 1 .. size /\ JobMetric(n) \in DOMAIN RagasMetrics
        /\ (JobRow(n) - 1) * NumMetrics + JobMetric(n) = n + 1
    BY <1>2, <2>1, JobNumbered
  <2>3. ScoredRow(JobRow(n)) \in ScoredSet /\ Place(ScoredRow(JobRow(n))) = JobRow(n)
    BY <1>3, <2>2
  <2>4. at(ScoredRow(JobRow(n)), JobMetric(n)) = (JobRow(n) - 1) * NumMetrics + JobMetric(n)
    BY <2>3, Zenon DEF at
  <2>5. /\ ScoredRow(JobRow(n)) \in ScoredSet /\ JobMetric(n) \in DOMAIN RagasMetrics
        /\ at(ScoredRow(JobRow(n)), JobMetric(n)) = n + 1 /\ scores[n + 1] = NULL
    BY <2>1, <2>2, <2>3, <2>4, Zenon
  <2> QED
    BY <2>5 DEF n
<1>9. rowFailures' = {[row |-> ScoredRow(JobRow(collector[k])), metric |-> JobMetric(collector[k])] :
                        k \in DOMAIN collector}
  BY DEF RagasReturns, GoldenIndex
<1>10. rowFailures' \subseteq [row : Row, metric : DOMAIN RagasMetrics]
  <2>1. ASSUME NEW k \in DOMAIN collector
        PROVE  /\ ScoredRow(JobRow(collector[k])) \in Row
               /\ JobMetric(collector[k]) \in DOMAIN RagasMetrics
    BY <1>2, <1>8
  <2> QED
    BY <1>9, <2>1
<1>11. {<<f.row, f.metric>> : f \in rowFailures'} = lost'
  <2>1. \A k \in DOMAIN collector :
          LET f == [row |-> ScoredRow(JobRow(collector[k])), metric |-> JobMetric(collector[k])]
          IN <<f.row, f.metric>> = <<ScoredRow(JobRow(collector[k])), JobMetric(collector[k])>>
    OBVIOUS
  <2>2. {<<f.row, f.metric>> : f \in rowFailures'} = Lost
    BY <1>9, <2>1 DEF Lost
  <2> QED
    BY <1>1, <2>2
<1>12. ASSUME NEW r \in DOMAIN records', NEW m \in DOMAIN RagasMetrics,
              records'[r].metrics[m] # NULL, <<r, m>> \in lost'
       PROVE  FALSE
  <2>1. r \in ScoredSet /\ scores[at(r, m)] # NULL
    BY <1>4, <1>6, <1>12
  <2>2. PICK k \in DOMAIN collector :
          <<r, m>> = <<ScoredRow(JobRow(collector[k])), JobMetric(collector[k])>>
    BY <1>1, <1>12 DEF Lost
  <2>3. r = ScoredRow(JobRow(collector[k])) /\ m = JobMetric(collector[k])
    BY <2>2
  <2>4. scores[at(r, m)] = NULL
    BY <1>8, <2>3
  <2> QED
    BY <2>1, <2>4
<1>13. FailureNamesItsRow'
  <2> DEFINE valued == {rm \in (DOMAIN records') \X (DOMAIN RagasMetrics) :
                          records'[rm[1]].metrics[rm[2]] # NULL}
  <2>1. ASSUME NEW rm \in valued, rm \in lost' PROVE FALSE
    <3>1. /\ rm = <<rm[1], rm[2]>> /\ rm[1] \in DOMAIN records' /\ rm[2] \in DOMAIN RagasMetrics
          /\ records'[rm[1]].metrics[rm[2]] # NULL
      BY <2>1
    <3> QED
      BY <1>12, <2>1, <3>1
  <2>2. valued \cap lost' = {}
    BY <2>1
  <2> HIDE DEF valued
  <2>3. FailureNamesItsRow' <=>
          LET named == {<<f.row, f.metric>> : f \in rowFailures'}
          IN named \subseteq lost' /\ valued \cap lost' = {} /\ (valued # {} => named = lost')
    BY DEF FailureNamesItsRow, valued
  <2> QED
    BY <1>11, <2>2, <2>3
<1> QED
  BY <1>1, <1>2, <1>7, <1>10, <1>13 DEF BatchInv, Asking

LEMMA BatchKeeps ==
    ASSUME RecordsInv, RecordsInv', JudgeInv, JudgeInv', BatchInv, [Next]_vars
    PROVE  BatchInv'
<1>1. CASE pc \in {"start", "query", "judge", "selfcheck"}
  <2>1. pc' \in {"start", "query", "judge", "selfcheck", "ragas", "gate", "return", "done"}
    BY DEF RecordsInv
  <2> QED
    BY <1>1, <2>1, AsksStep, AsksKeeps
<1>2. ASSUME UNCHANGED <<records, draft, ragas>>, FailureNamesItsRow',
             pc' \in {"gate", "return", "done"}
      PROVE  BatchInv'
  BY <1>2 DEF BatchInv, Asking, ragas
<1>3. UNCHANGED <<records, ragas>> => FailureNamesItsRow'
  BY DEF BatchInv, FailureNamesItsRow, ragas
<1>4. CASE UNCHANGED vars
  <2>1. UNCHANGED <<pc, records, draft, ragas>>
    BY <1>4 DEF vars, ragas
  <2>2. NumJobs' = NumJobs /\ Lost' = Lost
    BY <2>1 DEF NumJobs, Lost, ScoredSet, Scored, ScoredRow, Place, ragas
  <2> QED
    BY <1>3, <2>1, <2>2 DEF BatchInv, Asking, Plain, ragas
<1>5. CASE pc = "ragas" /\ RunRagas
  <2>1. ASSUME NEW s \in RagasScore, RagasScores(s) PROVE BatchInv'
    <3>1. JobRuns
      BY <1>5, <2>1 DEF RagasScores, JobRuns, JobsLeft, ragasLeaves, Value
    <3> QED
      BY <3>1, JobKeeps
  <2>2. CASE RagasUndefined \/ RagasJobFails
    <3>1. JobRuns
      BY <1>5, <2>2 DEF RagasUndefined, RagasJobFails, JobRuns, JobsLeft, ragasLeaves, Value
    <3> QED
      BY <3>1, JobKeeps
  <2>3. CASE RagasReturns
    BY <2>3, ReturnKeepsBatch
  <2>4. CASE RagasRaises \/ RagasSkipped
    <3>1. UNCHANGED <<records, draft, ragas>> /\ pc' = "gate"
      BY <2>4 DEF RagasRaises, RagasSkipped, ragasLeaves
    <3> QED
      BY <1>2, <1>3, <3>1
  <2> QED
    BY <1>5, <2>1, <2>2, <2>3, <2>4 DEF RunRagas
<1>6. CASE Gate \/ NoBaseline \/ Return
  <2>1. UNCHANGED <<records, draft, ragas>> /\ pc' \in {"return", "done"}
    BY <1>6 DEF Gate, NoBaseline, Return, Raise
  <2> QED
    BY <1>2, <1>3, <2>1
<1>7. CASE pc \notin {"start", "query", "judge", "selfcheck"} /\ Next
  <2>1. ~(Start \/ StartRaises \/ Query \/ Judge)
    BY <1>7 DEF Start, StartRaises, Query, QueryFails, RowRaises, EmptyAnswer, QueryAnswers,
       EndOfRows, Judge, JudgeFails, JudgeScores, JudgeClassifies, SelfCheck, Judging
  <2>2. RunRagas => pc = "ragas"
    BY DEF RunRagas, RagasScores, RagasUndefined, RagasJobFails, RagasRaises, RagasReturns,
       RagasSkipped, JobsLeft
  <2> QED
    BY <1>5, <1>6, <1>7, <2>1, <2>2 DEF Next
<1> QED
  BY <1>1, <1>4, <1>7

LEMMA AllHold == Spec => [](RecordsInv /\ JudgeInv /\ BatchInv)
<1>1. Init => RecordsInv /\ JudgeInv /\ BatchInv
  BY RecordsInit, JudgeInit, BatchInit
<1>2. RecordsInv /\ JudgeInv /\ BatchInv /\ [Next]_vars => (RecordsInv /\ JudgeInv /\ BatchInv)'
  BY RecordsKeep, JudgeKeeps, BatchKeeps
<1> QED
  BY <1>1, <1>2, PTL DEF Spec

\* For any golden set, any metrics and any failures, what RAGAS could not score
\* is reported against the row and the metric that stay empty, whichever rows
\* dropped out of the batch (metrics.py: job number // metrics, golden_index).
THEOREM FailureCorrect == Spec => []FailureNamesItsRow
<1>1. BatchInv => FailureNamesItsRow
  BY DEF BatchInv
<1> QED
  BY <1>1, AllHold, PTL

-----------------------------------------------------------------------------
(* Types.                                                                    *)

\* What the other invariants leave untyped.
TypeInv ==
    /\ settings \in [collision : BOOLEAN, judge : BOOLEAN, golden : BOOLEAN]
    /\ baseline \in [CIGate -> Nat \cup {NULL}] \cup {NULL}
    /\ written \in BOOLEAN \cup {NULL} /\ exit \in {NULL, "pass", "fail", "raised"}
    /\ judged \subseteq Row /\ faults \in 0 .. MaxFaults

LEMMA TypeInit == Init => TypeInv
<1> SUFFICES ASSUME Init PROVE TypeInv
  OBVIOUS
<1>1. Accepted \in [CIGate -> Nat \cup {NULL}]
  BY EvaluationAssumption
<1>2. \A g \in CIGate : [Accepted EXCEPT ![g] = NULL] \in [CIGate -> Nat \cup {NULL}]
  BY <1>1
<1>3. baseline \in [CIGate -> Nat \cup {NULL}] \cup {NULL}
  BY <1>1, <1>2 DEF Init
<1> QED
  BY <1>3, Constants DEF Init, TypeInv

LEMMA TypeKeeps == TypeInv /\ RecordsInv /\ [Next]_vars => TypeInv'
<1> SUFFICES ASSUME TypeInv, RecordsInv, [Next]_vars PROVE TypeInv'
  OBVIOUS
<1>1. Fault => faults' \in 0 .. MaxFaults
  BY Constants DEF Fault, TypeInv
<1>2. ASSUME UNCHANGED <<settings, baseline, written, exit, judged>>, Fault \/ faults' = faults
      PROVE  TypeInv'
  BY <1>1, <1>2 DEF TypeInv
<1>3. ASSUME Raise, UNCHANGED <<settings, baseline, judged, faults>> PROVE TypeInv'
  BY <1>3 DEF TypeInv, Raise
<1>4. CASE Start \/ EndOfRows
  BY <1>2, <1>4 DEF Start, EndOfRows, input, result
<1>5. CASE StartRaises \/ NoBaseline
  BY <1>3, <1>5 DEF StartRaises, NoBaseline, input
<1>6. CASE QueryFails \/ EmptyAnswer
  BY <1>2, <1>6 DEF QueryFails, EmptyAnswer, input, result
<1>7. ASSUME NEW c \in Refusal, NEW h \in BOOLEAN, QueryAnswers(c, h) PROVE TypeInv'
  <2>1. /\ UNCHANGED <<settings, baseline, written, exit>> /\ (Fault \/ faults' = faults)
        /\ row \in Row /\ (judged' = judged \/ judged' = judged \cup {row})
    BY <1>7 DEF QueryAnswers, input, result
  <2> QED
    BY <1>1, <2>1 DEF TypeInv
<1>8. CASE Judge
  BY <1>2, <1>8 DEF Judge, JudgeFails, JudgeScores, JudgeClassifies, SelfCheck, judgeLeaves, input, result
<1>9. CASE RunRagas
  BY <1>2, <1>9 DEF RunRagas, RagasScores, RagasUndefined, RagasJobFails, RagasRaises, RagasReturns,
     RagasSkipped, ragasLeaves, input, result
<1>10. CASE Gate
  <2>1. written' = OverallPass /\ UNCHANGED <<settings, baseline, exit, judged, faults>>
    BY <1>10 DEF Gate, WriteResults, input
  <2>2. OverallPass \in BOOLEAN
    BY DEF OverallPass
  <2>3. written' \in BOOLEAN
    BY <2>1, <2>2, Zenon
  <2> QED
    BY <2>1, <2>3 DEF TypeInv
<1>11. CASE Return
  BY <1>11 DEF Return, TypeInv, input
<1>12. CASE RowRaises
  BY <1>1, <1>12 DEF RowRaises, Raise, TypeInv, input
<1>13. CASE UNCHANGED vars
  BY <1>13 DEF vars, TypeInv
<1> QED
  BY <1>4, <1>5, <1>6, <1>7, <1>8, <1>9, <1>10, <1>11, <1>12, <1>13 DEF Next, Query

\* Every variable keeps its type, for any golden set and any metrics: no judge
\* call has a round beyond its last, no failure names a row that is not golden.
THEOREM TypeCorrect == Spec => []TypeOK
<1>1. TypeInv /\ RecordsInv /\ JudgeInv /\ BatchInv => TypeOK
  <2> SUFFICES ASSUME TypeInv, RecordsInv, JudgeInv, BatchInv PROVE TypeOK
    OBVIOUS
  <2>1. judge \in JudgeCall \cup {NULL} /\ calls \in Nat /\ mode \in {"ci", "full"}
    BY DEF JudgeInv
  <2> QED
    BY <2>1 DEF TypeInv, RecordsInv, BatchInv, TypeOK, Value
<1>2. Spec => []TypeInv
  <2>1. Init => TypeInv
    BY TypeInit
  <2> QED
    BY <2>1, TypeKeeps, InvHolds, PTL DEF Spec
<1> QED
  BY <1>1, <1>2, AllHold, PTL
=============================================================================
