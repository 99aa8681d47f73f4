---------------------- MODULE AnswerPipelineProperties ----------------------
(* What a reply, the cache and the counters of AnswerPipeline promise.      *)
EXTENDS AnswerPipeline

\* Requests that were answered with generated text, their own or a cached one.
Answered == {r \in Request : req[r].reply \in Cacheable}

\* A request is never answered from a corpus older than the last re-index
\* committed before it arrived: corpus_version moves with every re-index, and
\* a row is stored under the version that was read before its retrieval
\* (app/cache.py: corpus_version, lookup, store).  With one re-index at a time.
ReindexIsServed ==
    \A r \in Answered : \A s \in Source : req[r].answer.text[s] >= req[r].start.marked[s]

\* The date written into an answer is no earlier than the day the request
\* arrived on, whoever the answer was generated for (cache.py: the date in
\* corpus_version; pipeline.py: today is taken after retrieval).
DateIsCurrent ==
    \A r \in Answered : req[r].start.day <= req[r].answer.today /\ req[r].answer.today <= day

\* A request classified as asking for advice is answered with a refusal, and
\* another one never is, from the cache or not (cache.py:
\* _required_response_type; pipeline.py: candidate_response_type).
AdviceBoundary ==
    \A r \in Answered : /\ req[r].reply = RequiredResponseType(req[r].advice)
                        /\ req[r].answer.type = req[r].reply

\* No text is served, to the request that had it generated or to a later one,
\* that a guard would have blocked (pipeline.py: steps 7 and 8 come before the
\* response is built, and the store after both).
ServedWasVerified == \A r \in Answered : req[r].answer.sound

\* A request that arrives when the day's budget is spent generates nothing on
\* that day, across restarts too, unless its check failed open (usage.py:
\* budget_exceeded).
SpentBudgetHolds ==
    \A r \in Request : req[r].start.full /\ ~req[r].open
                       => req[r].generatedOn # req[r].start.day

\* The count persisted for a day is of generations that returned on that day, each
\* once, also when the write comes after midnight: what is missing are the calls
\* in flight, those whose write failed and those a restart cut off (usage.py:
\* record_generation_call).
CountsAreGenerations ==
    \A d \in Day :
        counts[d] = Cardinality({r \in Request : req[r].generatedOn = d /\ ~req[r].unpaid})

-----------------------------------------------------------------------------
(* Disagreements with the documentation.                                    *)

\* "the corpus has not changed since it was written (that is exactly what
\* cache_version gates)", pipeline.py:593-594: what a row that lookup can
\* return was made of is what documents hold.
RowsFollowCorpus ==
    \A row \in cache : row.version = CorpusVersion(day) => row.answer.text = corpus.text

=============================================================================
