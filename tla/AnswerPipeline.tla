--------------------------- MODULE AnswerPipeline ---------------------------
(***************************************************************************)
(* answer_question (app/pipeline.py) with several requests in flight: the  *)
(* gates, the advice classifier, the semantic cache (app/cache.py), the    *)
(* daily generation budget (app/usage.py), the shared LLM object           *)
(* (app/providers/llm.py) and the verification that precedes a reply.      *)
(* The corpus changes underneath, by the writers that module Recrawl       *)
(* models in detail.  A step of a request is the code from one await on    *)
(* the database, the embedder or a provider to the next.  The cache is     *)
(* enabled and a cap is set: without them the code touches neither table.  *)
(***************************************************************************)
EXTENDS Integers, Sequences, FiniteSets, FiniteSetsExt

CONSTANTS
    Request,           \* the requests, each made once
    Question,          \* the questions they may ask
    Source,            \* the sources of the corpus
    Distance,          \* Distance[p][q]: of the embeddings of two questions
    Threshold,         \* SEMANTIC_CACHE_SIMILARITY_THRESHOLD
    AdviceByRule,      \* the questions rule_based_advice_signal finds
    Cap,               \* DAILY_GENERATION_CAP
    ChunkCount,        \* ChunkCount[v]: the chunks of version v of a source
    Writers,           \* the corpus writers at work
    RefreshJobs,       \* how many sources may be in re-index at once
    MaxDay,            \* bound on midnights
    MaxFaults          \* bound on failed calls and restarts of the orchestrator

ASSUME ConstantsAssumption ==
    /\ Question # {} /\ Source # {} /\ IsFiniteSet(Source)
    /\ Distance \in [Question -> [Question -> Nat]]
    /\ Threshold \in Nat
    /\ AdviceByRule \subseteq Question
    /\ Cap \in Nat /\ Cap > 0
    /\ ChunkCount \in Seq(Nat) /\ 1 \in DOMAIN ChunkCount
    /\ Writers \subseteq {"reindex", "other"}
    /\ {RefreshJobs, MaxDay, MaxFaults} \subseteq Nat /\ MaxDay > 0
    /\ "none" \notin Request

Version == DOMAIN ChunkCount
Day == 1..MaxDay

\* CACHEABLE_RESPONSE_TYPES: the replies that render generated text.
Cacheable == {"answer", "refusal_advice"}
Replies == Cacheable \cup
           {"none", "gated", "no_answer", "capped", "blocked", "error", "lost"}

\* corpus_version: its three parts.
CacheVersion == [changed : Nat, chunks : Nat, day : Day]
NoVersion == [changed |-> 0, chunks |-> 0, day |-> 0]

\* What an answer was made of: what documents held when it was retrieved, the
\* date written into it, the prompt it was generated with, and whether every
\* guard passes it.
Answer == [text : [Source -> Version], today : Day, type : Cacheable, sound : BOOLEAN]
NoAnswer == [text |-> [s \in Source |-> 0], today |-> 0, type |-> "none", sound |-> FALSE]

\* A row of query_cache; "by" stands for its id.
CacheRow == [by : Request, question : Question, version : CacheVersion, answer : Answer]

VARIABLES
    day,        \* the UTC date
    corpus,     \* sources.last_changed_at, and "text": the chunks of each source in
                \* documents with their annotations; "marked" is history: the text
                \* that the last re-index left
    pending,    \* pending[s]: the timestamp of a re-index of s not yet committed, or 0
    clock,      \* the last timestamp taken
    cache,      \* query_cache
    counts,     \* daily_generation_counts
    req,        \* the local state of each request's answer_question
    faults      \* failed calls and restarts so far

vars == <<day, corpus, pending, clock, cache, counts, req, faults>>
world == <<day, corpus, pending, clock>>

Steps == {"idle", "classify", "embed", "version", "lookup", "retrieve", "budget",
          "generate", "record", "verify", "store", "commit", "done"}

\* "start" (the day, the corpus and the budget at its arrival), "generatedOn",
\* "unpaid" (its generation is not in the counts) and "open" (its budget check
\* failed open) are history.
Local == [pc          : Steps,
          question    : Question,
          advice      : BOOLEAN,
          version     : CacheVersion \cup {NoVersion},
          answer      : Answer \cup {NoAnswer},
          doomed      : SUBSET CacheRow,
          reply       : Replies,
          start       : [day : Day, marked : [Source -> Version], full : BOOLEAN],
          generatedOn : Day \cup {0},
          unpaid      : BOOLEAN,
          open        : BOOLEAN]

TypeOK ==
    /\ day \in Day
    /\ corpus \in [changedAt : [Source -> Nat], text : [Source -> Version],
                   marked : [Source -> Version]]
    /\ pending \in [Source -> Nat]
    /\ clock \in Nat
    /\ cache \subseteq CacheRow
    /\ counts \in [Day -> Nat]
    /\ req \in [Request -> Local]
    /\ faults \in 0..MaxFaults
-----------------------------------------------------------------------------
\* What a request knows before it is made, and what it keeps once it is over.
Blank(r) == [pc |-> "idle", question |-> CHOOSE q \in Question : TRUE, advice |-> FALSE,
             version |-> NoVersion, answer |-> NoAnswer, doomed |-> {}, reply |-> "none",
             start |-> [day |-> 1, marked |-> [s \in Source |-> 1], full |-> FALSE],
             generatedOn |-> 0, unpaid |-> FALSE, open |-> FALSE]

Init ==
    /\ day = 1
    /\ corpus = [changedAt |-> [s \in Source |-> 0], text |-> [s \in Source |-> 1],
                 marked |-> [s \in Source |-> 1]]
    /\ pending = [s \in Source |-> 0]
    /\ clock = 0
    /\ cache = {}
    /\ counts = [d \in Day |-> 0]
    /\ req = [r \in Request |-> Blank(r)]
    /\ faults = 0

\* A call to the database, the embedder or a provider raised, or a restart.
Fault == faults < MaxFaults /\ faults' = faults + 1

At(r, step) == req[r].pc = step
Goto(r, step) == req' = [req EXCEPT ![r].pc = step]

\* answer_question returns, or raises and the endpoint answers 502.
Reply(r, kind, answer) ==
    req' = [req EXCEPT ![r] = [@ EXCEPT !.pc = "done", !.reply = kind, !.answer = answer,
                                        !.version = NoVersion, !.doomed = {}]]

-----------------------------------------------------------------------------
\* A request arrives.  Its script and vagueness are tested before any await.
Arrive(r, q) ==
    /\ At(r, "idle")
    /\ LET start == [day |-> day, marked |-> corpus.marked, full |-> counts[day] >= Cap]
       IN  \E gated \in BOOLEAN :
             req' = [req EXCEPT ![r] = [@ EXCEPT !.question = q, !.start = start,
                                                 !.pc = IF gated THEN "done" ELSE "classify",
                                                 !.reply = IF gated THEN "gated" ELSE "none"]]
    /\ UNCHANGED <<world, cache, counts, faults>>

\* classify_advice: by rule, by the classifier LLM, or "information" when that
\* LLM fails.
Classify(r) ==
    /\ At(r, "classify")
    /\ IF req[r].question \in AdviceByRule
       THEN /\ req' = [req EXCEPT ![r].pc = "embed", ![r].advice = TRUE]
            /\ UNCHANGED faults
       ELSE \/ /\ \E verdict \in BOOLEAN :
                    req' = [req EXCEPT ![r].pc = "embed", ![r].advice = verdict]
               /\ UNCHANGED faults
            \/ Fault /\ Goto(r, "embed")
    /\ UNCHANGED <<world, cache, counts>>

\* embedder.embed; corpus_version then takes today before it awaits a connection.
Embed(r) ==
    /\ At(r, "embed")
    /\ \/ /\ req' = [req EXCEPT ![r].pc = "version", ![r].version.day = day]
          /\ UNCHANGED faults
       \/ Fault /\ Reply(r, "error", NoAnswer)
    /\ UNCHANGED <<world, cache, counts>>

\* corpus_version's query.
LastChange(changedAt) == Max({changedAt[s] : s \in Source})
ChunkTotal(text) == MapThenSumSet(LAMBDA s : ChunkCount[text[s]], Source)

FaultyVersionUndated(today) ==   \* the version before it carried a date
    [changed |-> LastChange(corpus.changedAt), chunks |-> ChunkTotal(corpus.text), day |-> 1]

CorpusVersion(today) ==
    [changed |-> LastChange(corpus.changedAt), chunks |-> ChunkTotal(corpus.text), day |-> today]

ReadVersion(r) ==
    /\ At(r, "version")
    /\ \/ /\ req' = [req EXCEPT ![r].pc = "lookup", ![r].version = CorpusVersion(@.day)]
          /\ UNCHANGED faults
       \/ /\ Fault
          /\ req' = [req EXCEPT ![r].pc = "retrieve", ![r].version = NoVersion]
    /\ UNCHANGED <<world, cache, counts>>

RequiredResponseType(advice) == IF advice THEN "refusal_advice" ELSE "answer"

\* The rows lookup's query may return: the nearest of this version and type.  A
\* row close enough is parsed outside of the except.
FaultyMatchingAnyType(r) == {row \in cache : row.version = req[r].version}

Matching(r) == {row \in cache : /\ row.version = req[r].version
                                /\ row.answer.type = RequiredResponseType(req[r].advice)}
Nearest(q, rows) == {row \in rows : \A other \in rows :
                        Distance[q][row.question] <= Distance[q][other.question]}

Lookup(r) ==
    /\ At(r, "lookup")
    /\ LET q == req[r].question
           near == {row \in Nearest(q, Matching(r)) : Distance[q][row.question] <= Threshold}
       IN  \/ (\E row \in near : Reply(r, row.answer.type, row.answer)) /\ UNCHANGED faults
           \/ near = {} /\ Goto(r, "retrieve") /\ UNCHANGED faults
           \/ near # {} /\ Fault /\ Reply(r, "error", NoAnswer)
    /\ UNCHANGED <<world, cache, counts>>

LookupFails(r) ==
    /\ At(r, "lookup")
    /\ Fault
    /\ Goto(r, "retrieve")
    /\ UNCHANGED <<world, cache, counts>>

\* hybrid_search, the no-answer gate, today, and the prompt for the verdict.
Retrieve(r) ==
    /\ At(r, "retrieve")
    /\ \/ /\ req' = [req EXCEPT ![r].pc = "budget",
                                ![r].answer = [text |-> corpus.text, today |-> day, sound |-> FALSE,
                                               type |-> RequiredResponseType(req[r].advice)]]
          /\ UNCHANGED faults
       \/ Reply(r, "no_answer", NoAnswer) /\ UNCHANGED faults
       \/ Fault /\ Reply(r, "error", NoAnswer)
    /\ UNCHANGED <<world, cache, counts>>

\* budget_exceeded, which fails open.  Its day is taken before the connection is
\* awaited, and no await lies between it and the answer's own.
BudgetDay(r) == req[r].answer.today

FaultyCheckOneMore(r) ==   \* > for >=
    /\ At(r, "budget")
    /\ \/ counts[BudgetDay(r)] > Cap /\ Reply(r, "capped", NoAnswer) /\ UNCHANGED faults
       \/ counts[BudgetDay(r)] <= Cap /\ Goto(r, "generate") /\ UNCHANGED faults
    /\ UNCHANGED <<world, cache, counts>>

CheckBudget(r) ==
    /\ At(r, "budget")
    /\ \/ counts[BudgetDay(r)] >= Cap /\ Reply(r, "capped", NoAnswer) /\ UNCHANGED faults
       \/ counts[BudgetDay(r)] < Cap /\ Goto(r, "generate") /\ UNCHANGED faults
       \/ Fault /\ req' = [req EXCEPT ![r].pc = "generate", ![r].open = TRUE]
    /\ UNCHANGED <<world, cache, counts>>

\* llm.generate: a provider of the chain answers, or every one has failed.
FaultyGenerateRefunds(r) ==   \* a failed call gives back what it has not spent
    /\ At(r, "generate")
    /\ Fault
    /\ Reply(r, "error", NoAnswer)
    /\ counts' = [counts EXCEPT ![day] = @ - 1]
    /\ UNCHANGED <<world, cache>>

Generate(r) ==
    /\ At(r, "generate")
    /\ \/ /\ \E sound \in BOOLEAN :
               req' = [req EXCEPT ![r].pc = "record", ![r].answer.sound = sound,
                                  ![r].generatedOn = day, ![r].unpaid = TRUE]
          /\ UNCHANGED faults
       \/ Fault /\ Reply(r, "error", NoAnswer)
    /\ UNCHANGED <<world, cache, counts>>

\* usage.record_generation_call takes its day when the generation returns, before
\* it awaits a connection.  Its failure is swallowed, so one after the write (a
\* lost acknowledgement) goes on like a success.
FaultyRecordGenerationLate(r) ==   \* the day of the write
    /\ At(r, "record")
    /\ counts' = [counts EXCEPT ![day] = @ + 1]
    /\ req' = [req EXCEPT ![r].pc = "verify", ![r].unpaid = FALSE]
    /\ UNCHANGED <<world, cache, faults>>

RecordGeneration(r) ==
    /\ At(r, "record")
    /\ \/ /\ counts' = [counts EXCEPT ![req[r].generatedOn] = @ + 1]
          /\ req' = [req EXCEPT ![r].pc = "verify", ![r].unpaid = FALSE]
          /\ UNCHANGED faults
       \/ Fault /\ Goto(r, "verify") /\ UNCHANGED counts
    /\ UNCHANGED <<world, cache>>

\* The three verifications and the temporal guard, with no await between them.
FaultyVerifyStoresFirst(r) ==   \* the response is cached before it is verified
    /\ At(r, "verify")
    /\ Goto(r, "store")
    /\ UNCHANGED <<world, cache, counts, faults>>

Verify(r) ==
    /\ At(r, "verify")
    /\ \/ /\ ~req[r].answer.sound
          /\ Reply(r, "blocked", NoAnswer)
       \/ /\ req[r].answer.sound /\ req[r].version = NoVersion
          /\ Reply(r, req[r].answer.type, req[r].answer)
       \/ /\ req[r].answer.sound /\ req[r].version # NoVersion
          /\ Goto(r, "store")
    /\ UNCHANGED <<world, cache, counts, faults>>

\* cache.store: the rows its DELETE sees, then the INSERT and the commit; the
\* version is the one looked up under, and a failure is swallowed.
FaultyStoreVersionLate(r) == CorpusVersion(day)   \* the version of the moment of storing

StoreVersion(r) == req[r].version

StoreDelete(r) ==
    /\ At(r, "store")
    /\ \/ /\ req' = [req EXCEPT ![r].pc = "commit",
                       ![r].doomed = {row \in cache : row.version # StoreVersion(r)}]
          /\ UNCHANGED faults
       \/ Fault /\ Reply(r, req[r].answer.type, req[r].answer)
    /\ UNCHANGED <<world, cache, counts>>

StoreCommit(r) ==
    /\ At(r, "commit")
    /\ \/ /\ cache' = (cache \ req[r].doomed) \cup
                      {[by |-> r, question |-> req[r].question,
                        version |-> StoreVersion(r), answer |-> req[r].answer]}
          /\ UNCHANGED faults
       \/ Fault /\ UNCHANGED cache
    /\ Reply(r, req[r].answer.type, req[r].answer)
    /\ UNCHANGED <<world, counts>>

\* The orchestrator is killed and started again: its requests are gone,
\* its tables remain.
Restart ==
    /\ \E r \in Request : req[r].pc \notin {"idle", "done"}
    /\ Fault
    /\ req' = [r \in Request |->
                  IF req[r].pc \in {"idle", "done"} THEN req[r]
                  ELSE [req[r] EXCEPT !.pc = "done", !.reply = "lost", !.answer = NoAnswer,
                                      !.version = NoVersion, !.doomed = {}]]
    /\ UNCHANGED <<world, cache, counts>>

-----------------------------------------------------------------------------
(* The corpus writers, as far as the cache can see them.                   *)
requestState == <<cache, counts, req, faults>>

\* _reindex_node takes its timestamp before it embeds and connects...
BeginReindex(s) ==
    /\ "reindex" \in Writers
    /\ pending[s] = 0
    /\ Cardinality({x \in Source : pending[x] # 0}) < RefreshJobs
    /\ clock' = clock + 1
    /\ pending' = [pending EXCEPT ![s] = clock + 1]
    /\ UNCHANGED <<day, corpus, requestState>>

\* ... and commits the chunks and last_changed_at together.  Version bounds the
\* writes.
CommitReindex(s) ==
    /\ pending[s] # 0
    /\ corpus.text[s] + 1 \in Version
    /\ corpus' = [corpus EXCEPT !.text[s] = @ + 1, !.changedAt[s] = pending[s],
                                  !.marked[s] = corpus.text[s] + 1]
    /\ pending' = [pending EXCEPT ![s] = 0]
    /\ UNCHANGED <<day, clock, requestState>>

\* Any writer that leaves last_changed_at alone: app.ingest of a known source
\* (mark_changed unset), and the annotations of app.sync_annotations, of
\* touch_last_verified and of the manifest.  A re-index may be on its way.
WriteUnmarked(s) ==
    /\ "other" \in Writers
    /\ corpus.text[s] + 1 \in Version
    /\ corpus' = [corpus EXCEPT !.text[s] = @ + 1]
    /\ UNCHANGED <<day, pending, clock, requestState>>

NextDay ==
    /\ day < MaxDay
    /\ day' = day + 1
    /\ UNCHANGED <<corpus, pending, clock, requestState>>

Handle(r) ==
    \/ \E q \in Question : Arrive(r, q)
    \/ Classify(r) \/ Embed(r) \/ ReadVersion(r)
    \/ Lookup(r) \/ LookupFails(r) \/ Retrieve(r)
    \/ CheckBudget(r) \/ Generate(r) \/ RecordGeneration(r)
    \/ Verify(r) \/ StoreDelete(r) \/ StoreCommit(r)

Write == \E s \in Source : BeginReindex(s) \/ CommitReindex(s) \/ WriteUnmarked(s)

\* Every request is over and the world has come to its bounds.
Done ==
    /\ \A r \in Request : At(r, "done")
    /\ UNCHANGED vars

Next == (\E r \in Request : Handle(r)) \/ Write \/ NextDay \/ Restart \/ Done

Spec == Init /\ [][Next]_vars
=============================================================================
