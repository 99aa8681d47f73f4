# Office Hours: TLA+ specifications

Office Hours answers questions about the US immigration rules for international
students from a small corpus of official pages. This directory holds TLA+ models
of the parts of it where order, failure and concurrency matter, the TLC runs that
check them, and proofs, checked by TLAPS, of the properties that matter most.
Paths are relative to the repository's `src/`; `app/` stands for
`services/orchestrator/app/`, `gateway/` for `services/gateway/internal/`, and
`frontend/` for `services/frontend/`.

## The system

| Component | State it keeps | Operations | Interacts through |
|---|---|---|---|
| Refresh job `app/recrawl.py` | a LangGraph checkpoint file, snapshot files | one checkpointed thread per (run id, source): fetch, diff, chunk, embed, reindex / verify / record failure; resume; dry run | tables `sources`, `documents` |
| Manifest ingest `app/ingest.py` | snapshot files | fetch, snapshot, chunk, embed, store | the same tables |
| Annotation sync `app/sync_annotations.py` | none | write the manifest's annotations on every chunk | `documents` |
| Baseline backfill `app/backfill_source_bodies.py` | none | fill NULL baselines from snapshot files | `sources`, snapshot files |
| Change classifier `app/recrawl.py` (`classify_change`) | none | unchanged, cosmetic or meaningful | called by the refresh job |
| Rule status `app/rule_status.py` | none | validate an annotation on the day it is loaded | called by the writers, on what the guards read later |
| Source health `app/guardrails/freshness.py`, `app/main.py` | none | bands and BROKEN from clocks and counters | reads `sources` under the writers |
| Semantic cache `app/cache.py` | table `query_cache` | corpus version, lookup, store | called by the pipeline; invalidated by what the writers leave in the tables |
| Answer pipeline `app/pipeline.py` | none | gates, retrieval, cache, budget, generation, verification | cache, usage, LLM, database |
| Usage ledger `app/usage.py` | usage tables | record a query, a generation; budget check | called by concurrent requests |
| Retrieval `app/db.py`, prompts `app/prompts.py`, guardrails `app/guardrails/` | none | companions, notes in the prompt, checks on the text, temporal guard, notice | called by the pipeline, on the same rows |
| LLM providers `app/providers/llm.py` | last usage of the shared object | generate, fail over along a chain | called by concurrent requests |
| HTTP and SSE endpoints `app/main.py` | a queue and a task per stream | query, query stream, source status | gateway |
| Gateway `gateway/` | Redis token buckets, local buckets | rate limit, time to first byte, proxy of JSON and of streams, body limit, session, redaction | orchestrator, Redis |
| Frontend `frontend/` | the view, answers by question | SSE client, effect per URL, abort | gateway |
| Evaluation `eval/` | a results file | query, judge, RAGAS, gates | the orchestrator's endpoint, a judge, RAGAS |
| CI and deployment `.github/workflows/` | schedules | the daily refresh run | the CLI commands |

What makes each of them correct, and what is hard:

- *Corpus writers*: the diff baseline `last_indexed_body` is the text the chunks were
  built from; a run's report is true of the index; counters and clocks mean what
  `infra/sql/init.sql` says; a dry run writes nothing. Hard: commits and checkpoints
  are two writes, a killed run resumes with what it knew, several hosts share one
  database and not their disks, and any node may raise half way.
- *Source health*: what the header says of the corpus is so, at any moment of the
  writers. Hard: a run that raises records no failure, so that only ages can tell.
- *Semantic cache*: nothing is served that a re-index or the date has made stale, that a
  guard would block, or that is of the other side of the advice boundary. Hard: the
  version is read before retrieval and written under after the generation.
- *Budget*: once spent it stays spent; counts are of generations. Hard: it is checked,
  then awaited on, then spent.
- *Annotations to reader*: a rule that is not in force is never told as though it were.
  Hard: four statuses, dates that pass, validation on one day and reading on another,
  several provenances of one figure, a text rewritten before and after it is checked.
- *Query stream*: a page shows what belongs to its URL and stops loading; a stream ends
  with one result or error. Hard: aborts, failures after the first byte, deaths of
  either server, a provider chain.
- *Rate limiter*: no client exceeds capacity plus refill. Hard: clocks of several
  gateways, a lazily computed bucket, replies lost, Redis failing over to local
  buckets, which are kept until the process ends.
- *Evaluation*: exit code 0 means that every row was scored. Hard: three nested retries,
  jobs numbered within a batch that lacks rows, values that are missing rather than bad.

## Modules

| Module | Content |
|---|---|
| `Recrawl` | the four corpus writers over the tables they share |
| `RecrawlProperties` | what they must guarantee |
| `RecrawlProofs`, `RecrawlSafetyProofs` | proofs of types, and of the baseline, counters and dry runs for any number of hosts |
| `RecrawlOrderProofs` | extends `RecrawlSafetyProofs` and `SourceStatus`: proofs of clocks and status, of the order of what is indexed, and of what a run reports |
| `SourceStatus` | extends `Recrawl` with what `GET /sources/status` makes of the table, and what that must mean |
| `AnswerPipeline` | `answer_question` with concurrent requests: gates, classifier, cache, budget, generation, verification, over a corpus that changes |
| `AnswerPipelineProperties`, `AnswerPipelineProofs` | what replies, cache and counters must guarantee; proofs of all of it |
| `AnswerGuards` | one question's way from annotations through retrieval, prompt, checks, temporal guard and notice, while a curator edits and days pass |
| `AnswerGuardsProperties`, `AnswerGuardsProofs` | what a reader is told; proofs of all of it |
| `QueryStream` | page, gateway, event stream, task and provider chain |
| `QueryStreamProperties`, `QueryStreamProofs` | what the way of a question must guarantee; proofs of all of it but liveness |
| `RateLimiter` | Redis and local buckets of one client |
| `TokenBuckets` | the abstract specification of a rate limiter: buckets that fill by themselves |
| `RateLimiterProperties`, `RateLimiterProofs` | the refinement mapping and bounds; proofs of all of it |
| `Evaluation` | the harness in both modes |
| `EvaluationProperties`, `EvaluationProofs` | what its exit code must mean; proofs of all of it but liveness |
| `MC...` | definitions for TLC |

The modules cut the system where its parts only see each other's results. `AnswerPipeline`
keeps of the four writers what the cache can see of them: whether `last_changed_at` moves
with the text and when its timestamp is taken. `AnswerGuards` follows one question, as
`answer_question` keeps rows, text and notices in its locals, and takes of the writers what
annotations they may load. `QueryStream` takes of `answer_question` whether it
returns, raises and generates. `SourceStatus` is composed with the writers themselves: it extends
`Recrawl` and is checked over its behaviours.

Operators named `Faulty...` are seeded faults: each is the form a definition would take with
one plausible bug, used to see that a property notices it. They are in no behaviour
of `Spec`.

### `Recrawl` and the code

A `Host` is a machine that runs one command at a time and owns a disk: the
checkpoint file (`saved`) and the snapshot directory (`snapshot`). The database
(`sources`, `documents`) is shared. `page`, `manifest` and `day` are the world.

| Variable | Code |
|---|---|
| `sources[s]` | row of table `sources`: `status`, `fetched_at`, `last_verified_at`, `last_changed_at`, `change_count`, `consecutive_failures`, `last_indexed_body` |
| `documents[s]` | the chunks of `s`: the body they were built from, the curator annotations on them |
| `saved[h][r][s]` | LangGraph's checkpoint of thread `r:s`, with `next` for `snapshot.next` |
| `live[h]` | the `RefreshState` in memory of the thread being driven |
| `job[h]` | the command: the loop's place, the sources left, the run id, `dry_run`, the report |
| `now[h]` | the timestamp a write node took before it embedded and connected (at most one) |
| `found`, `failing`, `fetchDay` | history, read by properties only |

| Action | Code |
|---|---|
| `StartRun`, `EndRun` | `main`, the head and end of `run_refresh` (`--run-id`, `--dry-run`, `--only`) |
| `SkipTerminal`, `ResumeThread`, `StartThread`, `RejectEntry` | the four ways through the loop's body: terminal checkpoint, pending checkpoint, none, `validate_rule_status` raised |
| `FetchPage`, `FetchFails`, `FetchDisallowed` | `_fetch_node` with `_after_fetch` |
| `Diff`, `DiffRefuses` | `_diff_node` with `_after_diff`; the refusal when chunks exist without a baseline |
| `Chunk`, `Embed` | `_chunk_node` (writes the snapshot), `_embed_node` (passes through) |
| `TakeNow`, `Reindex`, `VerifyOnly`, `DryVerdict` | `_reindex_node`, `_verify_only_node`: the timestamp, then the transaction |
| `RecordFailure` | `_record_failure_node` |
| `Persist` | the checkpointer writing the thread's state, some time after the node |
| `FinishThread`, `NodeRaises` | a report row; the loop's `except Exception`, after the checkpointer's flush |
| `CheckpointLost` | the same `except` when the checkpointer's put fails, or when a write commits and its reply is lost: the run goes on, and the thread's last checkpoint is older than what it did |
| `Crash` | the process is killed |
| `StartIngest`, `IngestFetch`, `IngestDisallowed`, `IngestStore`, `IngestStops` | `run_ingest`, `_fetch_and_snapshot`, `_embed_and_store`; any exception stops the ingest |
| `SyncAnnotations`, `BackfillSourceBodies` | one transaction of each script |

Abstractions. A body is a version number, 0 for NULL or no chunks, and the classifier
knows of two versions whether they are equal, of one `Class` (they differ in order or
formatting only), or different. Time is the UTC day, and a run id the day it was
minted. The four annotations are one value `rule` for the three the refresh job
passes on and `evid` for the one it does not. The transaction of a script is one
step, since each holds its rows from its read to its commit; the checkpoint is
*not* part of any transaction. `NextDay` lets a command cross at most one midnight.

`SourceStatus` adds no step: `sources_freshness_state` and `source_health_state` are
operators on a row. A timestamp of d days ago is between d - 1 and d + 1 times 24 hours
old, so at a threshold either side of it may be reported, and each operator returns the set
of what may be. The endpoint reads the table with two SELECTs, which are one read here.

### `AnswerPipeline` and the code

A request is made once. A step is the code from one await on the database, the embedder
or a provider to the next; between awaits the event loop runs nothing else. The stage
events are no awaits in this sense (`asyncio.Queue.put` on an unbounded queue).

| Variable | Code |
|---|---|
| `corpus`, `pending`, `clock` | `last_changed_at` and the chunks with their annotations per source; the timestamps of re-indexes not yet committed |
| `cache` | table `query_cache` |
| `counts` | table `daily_generation_counts` |
| `req[r]` | the locals of `answer_question`: its place, the classification, `cache_version`, what was retrieved and written, the rows its `DELETE` has seen |
| `faults` | bounds the calls that raise and the restarts |
| `req[r].start`, `.generatedOn`, `.unpaid`, `.open`, `corpus.marked` | history, read by properties only |

| Action | Code |
|---|---|
| `Arrive` | the script gate and the clarifier, before any await |
| `Classify` | `classify_advice`: rule, LLM verdict, or "information" when the LLM fails |
| `Embed`, `ReadVersion` | `embedder.embed`; `corpus_version`, whose date is taken before its connection |
| `Lookup`, `LookupFails` | `cache.lookup`: the nearest row of the version and type, within the threshold, or one that no longer parses, which raises (`app/cache.py:261`) |
| `Retrieve` | `hybrid_search`, the no-answer gate, `today` |
| `CheckBudget`, `Generate`, `RecordGeneration` | `budget_exceeded`, `llm.generate`, `record_generation_call`; the first and the last take their day before they await a connection |
| `Verify` | the trace, the three verifications, the temporal guard |
| `StoreDelete`, `StoreCommit` | the transaction of `cache.store` |
| `Restart` | the process dies; the tables remain |
| `BeginReindex`, `CommitReindex`, `WriteUnmarked` | a re-index of the refresh job; an ingest, a sync, a `touch_last_verified` |

Abstractions. Whether a question is gated, relevant to the corpus, or answered in a way a
guard blocks is a choice of the step; an answer is what it was made of (the text
retrieved, the date, the prompt). Cache and cap are switched on: without them the code
skips the steps. `record_query` and the stage events are in `QueryStream`.

### `AnswerGuards` and the code

| Variable | Code |
|---|---|
| `today` | the UTC date |
| `stored[u]` | the annotations on the chunks of source `u`: `rule_status`, `rule_effective_date`, `rule_status_source`, `rule_status_source_evidences_status` |
| `edits` | bounds what is loaded |
| `asked` | the locals of `answer_question`: the verdict, the rows, `today`, the notes of the prompt, the response |

| Action or operator | Code |
|---|---|
| `Annotate`, `ValidRuleStatus` | a writer loads an entry that `validate_rule_status` accepts; the refresh job leaves `evidences` NULL, and may have validated on an earlier day |
| `Retrieve`, `Fused`, `CompanionsOf` | `hybrid_search`: the fused top k, in any order, and the nearest other chunks that share an effective date with one of them |
| `Prompt`, `PromptNotes` | `format_context`, `_rule_date_note`, with the date taken after retrieval |
| `Verified`, `BlockReason`, `BlockUnverified` | normalising native markup, `strip_source_list_block`, then the citation, authority and prompt-leak checks by precedence |
| `Asserted`, `BlockAsserted` | the temporal guard's block, with its message and sources |
| `Qualified`, `Redirected`, `Answer` | inserted sentences, the DSO redirect, and the answer with |
| `Notices`, `Line`, `Lines` | `build_freshness` and `freshness_notice_text`, one line per (date, status) |

Abstractions. A sentence is the figures, dates and citations it states and what the
regular expressions would find in it; what a text says is any of a set of such texts. A
source has one citation URL, and a date is the number of a day. `Held`, the annotations
of the first day, were valid then, and may include rows from before `rule_status` was a
column: a null status with a date, which the code reads as in force. These rows are
what `NothingIsPromoted` exempts. The wording of a message is the claim it makes;
`BlockedClaim` is the claim of the one fixed message of a blocked answer.

### `QueryStream` and the code

| Variable | Code |
|---|---|
| `url`, `view`, `pageCache`, `asks`, `question`, `aborted` | `Chat.tsx`: the URL's question, what is shown, the answers by question, the requests made and their abort signals |
| `gateway`, `cut` | per request, where `ProxyStream` is; the requests whose stream broke off after its headers |
| `stream`, `pipe` | `event_stream`; the frames from its queue to the page, or the response that stands for them |
| `stage`, `turn`, `chain` | `run_pipeline`, `FallbackLLM` and its providers |
| `recorded` | `usage_totals` |
| `failed`, `served`, `answered`, `uncounted` | history |

| Action | Code |
|---|---|
| `GoHome`, `ShowCached`, `AskFor` | the effect of a new URL, which aborts the request of the old one. One step stands for the render and its effect: React runs a pending effect before it renders another update, so what a late frame of the old request writes in between is replaced by the effect's own view; the one paint of the old view under the new URL is left out |
| `Read`, `Leave` | `streamQuery`'s loop; the connection of an aborted request closes |
| `Refuse`, `Headers`, `ReadFails`, `GatewayDies` | a status before the stream (limits, 502, the 504 of `TimeToFirstByte`), the first byte, a read error after it, the process dies |
| `StartStream`, `Abandon`, `OrchestratorDies` | `event_stream` sends its ping and starts the task; nobody listens any more, and the task is cancelled or goes on; the process dies |
| `Retrieve`, `RetrieveRaises`, `ProviderAnswers`, `ProviderFails`, `ProviderBreaks`, `RecordQuery`, `ResponseRaises` | the task: answers without a generation, exceptions, the chain, `record_query`, the result, an exception between the count and the result |

### `RateLimiter`, `TokenBuckets` and the code

| Variable | Code |
|---|---|
| `now`, `behind` | the time; how far each gateway's clock lags |
| `tokens`, `ts`, `touched` | the hash of the key in Redis and each gateway's `localBucket`; when EXPIRE was last set |
| `request` | the middleware of each request: its stamp, and whether it is on its way to Redis or to the fallback |
| `spent`, `slipped`, `hint`, `renewed` | history |

| Action | Code |
|---|---|
| `Arrive` | `RateLimitMiddleware` reads the clock |
| `RedisAnswers`, `ReplyLost`, `RedisFails` | the script runs and answers; runs and its reply is lost; does not answer, and `allowViaFallback` reads the clock again |
| `LocalAnswers` | `localBucketStore.Allow` |
| `Expire`, `LoseData`, `Restart`, `Tick` | the key expires; Redis restarts without it or evicts it; a gateway restarts; time |

One client stands for all, since clients share no state. Tokens are counted in fractions, so
that a refill per unit of time is a whole number. The local store never drops a bucket.
`TokenBuckets` is what a rate limiter is meant to be: levels that rise by `Refill` as time
passes, and requests that take `Cost` from them. `RateLimiter` implements it under
`level <- Levels`, the content plus what came in since the stamp; a level that is full before
its time is a bucket `renewed`, in both. Stamps are the gateways' clocks, so a promise of
`Retry-After` is kept at the gateway that gave it or one whose clock is not behind.

### `Evaluation` and the code

`pc` and `row` are the place in `run.py`'s `main`; `records` is `row_records`, `draft` the
record in the making, `judge` the call of `judge.py` in progress with its three counters;
`job`, `scores`, `collector` and `rowFailures` are the RAGAS batch, what it returned, the
job numbers logged and `ragas_row_failures`; `written` and `exit` are the verdict in
the results file and the exit code. `Start` and `StartRaises` are the checks at
the head, `QueryFails`, `EmptyAnswer` and `QueryAnswers` a row, `RowRaises` a row that aborts `main`, `JudgeFails`, `JudgeScores`,
`JudgeClassifies` and `SelfCheck` the judge, `Ragas...` the batch, `Gate`, `NoBaseline` and `Return`
the end. `Place` and `ScoredRow` take a row to its position in `scored_records` and back.
Numbers are percent or hundredths, and a rate is a numerator and a number of rows. A judge call
is one `create()`: what the OpenAI client itself sends again for it (its default `max_retries`,
`eval/judge.py:127`) is inside that step.

## Runs

| Run | Asks | Bounds, and why they are enough |
|---|---|---|
| `RecrawlSafety` | do clocks, counters, report, annotations and index agree in one host's runs, and is what `GET /sources/status` says of the corpus so? | 1 host, 1 source, new or indexed, 3 versions (two cosmetic variants), 3 days, 1 attempt, 2 rules, 1 process killed or checkpoint lost: every node can be interrupted once, resumed the same day, or abandoned for the next day's thread, and a thread of an earlier day would show a gap of two; thresholds in scale (current 0 days, recent 1, broken after 2 failures or 0 days), so that every band and both causes of BROKEN occur; sources do not share state, so one shows every order of a source's writes; retries are in `RecrawlLiveness` |
| `RecrawlShared` | is the baseline right, and a dry run harmless, with hosts side by side? | 2 hosts, 1 source, live and dry refresh and ingest, 2 versions, no crash: two writers with different bodies in flight is the smallest conflict; nodes may raise and threads be resumed by a dry run |
| `RecrawlBackfill` | can chunks without a baseline be re-indexed blindly? | 1 host, a source from before the column, all other writers, manifest edits, 2 days and `--run-id`, so that a day-old thread may be resumed after the backfill or an ingest |
| `RecrawlLiveness` | does a run always end with a result for every source, within the attempts allowed? | 2 sources, so that one can fail while the other waits; 2 attempts, 1 process killed or checkpoint lost |
| `AnswerPipeline` | what is served, whatever two requests, the writers, midnight and one failure do to each other? | 2 requests (one may fill the cache for the other, or both pass the budget check), near questions of different intent, 1 source of 2 versions with as many chunks, cap 1, 2 days, 1 failed call or restart, one re-index at a time; a re-index that commits after another write of its source takes a third version, and is left to `ServedCorrect` |
| `AnswerGuards` | what is a reader told of a rule that is not in force, or not any more? | 3 chunks of 2 sources, top 2 and 1 companion, so that a source may come in as a companion only; two figures, one given by both a rule in force and a contested one; every status with and without date, source and evidence; 16 texts of one sentence, 9 of two, one that cites only in its source list, and one for each other way to fail a check; 2 days, 1 edit, so that a date passes between validation and reading |
| `QueryStream` | does a page show what it asked for, and stop loading? | 2 questions, 2 requests, 3 moves (away, back, away again), 2 providers, 1 failure or death anywhere; a second provider is what failing over needs, a second request what an abort races with |
| `RateLimiter` | is the limiter a limiter? | 3 requests, 2 gateways, capacity 5 thirds of a token with 2 refilled per unit, so that content is often fractional and the cap bites; clocks 1 apart, delay of 1, time to 4 (a key may expire), 1 lost reply, restart or loss of Redis's data, Redis unreachable at will |
| `Evaluation` | what does exit code 0 mean? | 3 rows, the one in the middle of advice, so that the batch may lack a row before, between and after; 2 metrics, 2 attempts of a judge call, 2 failures; 2 of the three RAGAS metrics suffice to tell a job's row from its metric |
| `FindStaleCache`, `FindBlockedMessage`, `FindRowAborts` | disagreements with the documentation, below | the instances above, with one request and without the refresh job for the first |

`ReindexIsServed` needs one re-index at a time: with two sources re-indexed by overlapping
jobs (`RefreshJobs = 2`) the second commit may carry the earlier timestamp, the maximum in
`corpus_version` does not move, and the cache outlives the change until midnight. With
a threshold that covers both questions, every row is a candidate for every
request, which is the worst case for the cache. `IndexNeverRegresses`,
`ReindexOnlyOnChange` and `ClocksInOrder` are checked with one host and do not hold with two.

Bounds are constants: `MaxVersion`, `MaxDay`, `MaxCrashes`, `MaxFaults`, `MaxEdits`,
`MaxAsks`, `MaxVisits`, `MaxTime`, `MaxDelay`, `Skew`. `MaxAttempts`, `MaxRetries`, `TopK`,
`Companions` and `Cap` are settings of the code. Deadlock is checked except where the system really
stops: an evaluation ends (`Evaluation`), requests are answered and time is up
(`RateLimiter`), questions and moves are used up (`QueryStream`). `Done` of `AnswerPipeline` stands for
the end of an instance.

Fairness. `FairSpec` of `Recrawl` is weak fairness of `RefreshStep(h)`: a process that is
alive keeps being scheduled, and awaits on the database, the embedder and the web return
or raise (each has a time-out or an exception path). `Evaluation` is one sequential
process, fair as a whole: its calls have time-outs, and the judge and RAGAS have bounded retries. In
`QueryStream` the page reads on, the gateway answers or its `TimeToFirstByte` timer fires, and
every await of the task has a time-out or a database behind it; a stream need not start, a
user need not move, and no failure need happen. Nothing else is fair.

### What the checks found

Three runs are expected to end in a violation:

- `FindStaleCache`: a sync, a `touch_last_verified` with an edited manifest, or an ingest
  with as many chunks moves no part of `corpus_version`; until midnight the cache serves
  answers from before it, where `app/pipeline.py:593-595` says the corpus has not changed.
- `FindBlockedMessage`: an answer blocked for a figure of an enjoined or withdrawn rule is
  replaced by a message that the rule "takes effect on a future date"
  (`app/pipeline.py:219-242`), which `app/guardrails/temporal.py:502-505` says must never be
  said of an enjoined one.
- `FindRowAborts`: a 200 answer without the fields `main` reads (`eval/run.py:713-714`, `:758`),
  or one `reading_grade_level` cannot take (`:811`), raises outside the row's `try` and ends the run
  without a record or a results file, where `eval/run.py:17-22` says that one row must never
  abort the whole run.

Seen while modelling, without a run of their own:

- Refresh job. `_reindex_node` and `_verify_only_node` leave
  `rule_status_source_evidences_status` NULL (`app/recrawl.py:968-980`, `:1001-1008`), so every
  source a refresh touches loses it until the next sync; `app/sync_annotations.py:5-6` says the
  re-crawl carries the annotations. A dry run and a live run of one day share thread ids: the live run skips
  what the dry run finished and reports a change it never indexed
  (`app/recrawl.py:1437-1461`; `ReportedIsIndexed` is checked without dry runs). A thread
  resumed after a kill, or after its checkpoint or the reply to its commit was lost, counts
  its change or failure twice; `CountersBounded` says by how much. A
  `scheduled` entry whose day has passed makes every refresh of its source fail
  validation, which is counted in no table.
- Baseline. A snapshot may be newer than the index after an ingest that failed between the
  two (`app/ingest.py:617-651`, `:880-925`); the backfill takes it as the baseline of the old chunks, and the
  source is not re-indexed until its page changes again (`infra/sql/init.sql:104-106`).
- Usage. With a cap set, the trace's usage is read off the shared LLM object after an
  await (`app/pipeline.py:786`, `:804`) and may be that of another request, which
  `app/pipeline.py:131-133` excludes. Requests that pass the budget check together
  overshoot the cap by as many as are in flight.
- Cache. A slow request stores under a superseded version and deletes the rows of the
  current one (`app/cache.py:30-32` says only superseded rows go).
- Notice. The evidence flag of a group of sources is that of its first
  (`app/guardrails/freshness.py:369`), so one caption may stand over documents of both kinds.
- Rate limiter. A stamp older than the last one brings nothing but is stored, so the
  time between is paid for twice by the next (`gateway/middleware/ratelimit.lua:41`, and the
  fallback likewise); `AdmissionBound` says what that may amount to. The fallback's buckets are never
  dropped, so its memory grows with the number of clients seen.
- Stream. A stream whose upstream dies after the headers ends like a complete one
  (`gateway/proxy/proxy.go:154-156`); the page then loads forever
  (`frontend/lib/api.ts:170`), which is the exception in `LoadingEnds`. An exception in the
  `else` branch of `run_pipeline` (`app/main.py:265-271`) comes to the same: the sentinel is put
  without an error event, although the docstring promises one (`app/main.py:237-240`). A connection that breaks after
  the result turns a shown answer into an error. Asking the same question again
  after an error does nothing, as the URL does not change.
- Evaluation. In CI mode a missing baseline raises before the results are written
  (`eval/run.py:958-959`); `eval/run.py:21-22` says the run always reaches that point.

## Proofs

All proofs hold for every value of the constants that satisfies the named assumptions of
the module: any number of hosts, sources, requests, gateways, versions, days and faults,
any corpus, annotations and texts.

| Module | Theorem | States | Argument |
|---|---|---|---|
| `RecrawlProofs` | `TypeCorrect` | `TypeOK` | inductive `TypeInv`: `TypeOK`, and of every thread saved or live that a body is present from the diff on, a verdict from the chunk on, that attempts are left where a fetch is next, and of every job which source it works on |
| `RecrawlSafetyProofs` | `BaselineCorrect` | `BaselineIsIndexed`, when no source predates the column | `BaselineInv`: every source with chunks has a baseline; then the backfill finds nothing to fill, and each other writer replaces row and chunks together or neither |
| | `BlindCorrect` | `NoBlindReindex` | `BlindInv`: while chunks have no baseline, no thread past its diff is on its way to a re-index; no step takes a baseline away, and `Diff` refuses |
| | `CountersCorrect` | `CountersBounded` | `CountInv`: a counter exceeds the *ended* threads of its history by at most one per process killed or checkpoint lost; a thread's end and its count are one step, and only such a loss undoes an end that was not saved |
| | `DryRunCorrect` | `DryRunWritesNothing` | `DryInv`: a timestamp is held by a writing node of a live run only, and ingests are never dry |
| `RecrawlOrderProofs` | `FreshCorrect` | `VerificationIsFresh`, with minted run ids | `FreshInv`: a thread that holds a page is of no later day than the last fetch, a command works on its own day's threads, and a timestamp is at most a day after its start |
| | `HonestCorrect` | `StatusIsHonest`, with minted run ids | what the endpoint computes from a row, when the row's clocks are as `FreshInv` has them |
| | `ClocksCorrect` | `ClocksInOrder`, on one host | `ClockInv`: a timestamp taken and not yet written is no older than any clock |
| | `NeverRegressesCorrect`, `OnlyOnChangeCorrect` | `IndexNeverRegresses`, `ReindexOnlyOnChange`, under `OneScheduler` | `IndexInv`: the last run's thread, on disk and in memory, holds a page no older than the text indexed and no newer than the page served; one on its way to a re-index holds a text other than the one indexed, or has been indexed already; the checkpoint lags behind the memory without contradicting it; a snapshot that may be backfilled is of the text indexed |
| | `ReportedCorrect` | `ReportedIsIndexed`, under `OneScheduler`, without dry runs | `VerdictInv`: a report's verdict is that of a thread that has ended on disk, and a thread with a verdict has its text indexed |
| | `RuleCorrect` | `RuleIsCarried`, under `OneScheduler`, without dry runs, and without a sync or without edits | `RuleInv`: the chunks of a source whose thread has a verdict carry that thread's annotations |
| `RateLimiterProofs` | `TypeCorrect` | `TypeOK` | `TypeInv` adds `ClockInv`: no stamp is in the future, or older than `Skew + MaxDelay` while its request is on its way |
| | `LimitCorrect` | `LimitSpec`, the refinement | `LevelSeen`: a caller with a late stamp sees no more than the level and misses at most what came in since the stamp, which is its gift; a key expires only when its level is full, and one lost before that is a renewal |
| | `AdmissionBounded` | `AdmissionBound` | `SpendInv`: what a bucket let through, holds, and gained since its stamp is covered by what it was given: a capacity at the start and for each renewal, a refill per unit of time and per unit a stamp went back |
| | `RetryAfterCorrect` | `RetryAfterSuffices` | `HintInv`: by the stamp a refusal promised, the content will have grown to a token; a request in between takes the token and with it the promise, or is refused and renews it |
| `AnswerPipelineProofs` | `DateCorrect` | `DateIsCurrent` | `DatesOK`: an answer is no older than the version it goes under, and a version looked up under no older than the arrival; so no hit crosses midnight |
| | `AdviceCorrect`, `VerifiedCorrect` | `AdviceBoundary`, `ServedWasVerified` | `AnswerOK` of what a request holds before and after `Verify`, `RowOK` of every row of the cache |
| | `BudgetCorrect` | `SpentBudgetHolds` | `BudgetOK`: counts never fall, so who found the day's budget spent at arrival finds it spent at the check, unless the day has gone by |
| | `TypeCorrect` | `TypeOK` | `TypeInv`: a version read or stored under is a last change and a chunk total that some corpus has |
| | `CountsCorrect` | `CountsAreGenerations` | `CountInv`: the counter of each day is the number of generations recorded under that day, which `RecordGeneration` took before its connection; it adds one to both, and no other step moves either |
| | `ServedCorrect` | `ReindexIsServed`, when `RefreshJobs <= 1` | `ServedInv`: what is cached, or may yet be stored, under the last change that is current has all that was committed by re-index (`HeldInv`), since every commit carries a timestamp after all others (`MarkInv`) |
| `AnswerGuardsProofs` | `TypeCorrect` | `TypeOK` | `Types`, of rows, sentences and positions; `CompanionsOf` and `Fused` are sequences of chunks |
| | `ForceCorrect` | `ForceIsTold` | `Qualifies`: what `Qualified` inserts after a firing sentence is one of its own rules; `LinesOK`: what a line claims follows from its status and date |
| | `ShownCorrect` | `ShownIsVerified` | `Shown`: the checks read the normalised, stripped text, and everything added after them cites nothing and bears no mark they look for |
| | `NoticesCorrect` | `EverySourceIsNoticed` | `Told`: the first row of a source carries its annotation, since all rows were read at once (`RowsOK`), and the group of its line holds it |
| | `PromotionCorrect` | `NothingIsPromoted` | `NoteOK`: a stored annotation was valid on a day that has come, so a rule stated to be in force has a date that has passed; `PromptNotes` and `LinesOK` say no more |
| `QueryStreamProofs` | `TypeCorrect` | `TypeOK` | every put is a known frame, and a turn is raised only before the last of the chain |
| | `AskedCorrect` | `ShownIsAsked` | `AskOK`: a request that is not aborted is of the URL's question, since each move aborts all requests made before |
| | `CountedCorrect` | `CountedOnSuccess` | `PipeOK`: a request whose result is out has been answered, and its count tried; `AskOK`: only answered requests reach `record_query` |
| | `TerminalCorrect` | `TerminalIsLast` | `PipeOK`: while the task is at work and the gateway listens, no terminal frame is out; the task puts its terminal frame and the end as it stops |
| | `ServesCorrect` | `FirstThatAnswersServes` | `ChainOK`: while the task is at work, the providers before the turn of its request, and they only, have failed |
| `EvaluationProofs` | `JudgeCorrect` | `JudgeCallsAreBounded` | `JudgeInv`: the calls made for a score are no more than its place in the three loops has behind it (`Behind`), and each failure moves that place on |
| | `PassCorrect` | `PassIsComplete` | `RecordsInv`: one record per row asked, none lost by the batch, and none changed after the gates, of which none passes on an empty set of rows |
| | `FailureCorrect` | `FailureNamesItsRow` | `BatchInv`: a job that failed left an empty score at its number; the places of the rows that scored are exactly the numbers up to their count (`PlacesAreCounted`), so a job's number gives back its row and metric, and the score they are given is the empty one |
| | `TypeCorrect` | `TypeOK` | the invariants above, and `TypeInv` of what they leave untyped |

The invariants (`IInv` where the table names none of its own) are needed because the properties are
not inductive: what a step does depends on what its request or thread remembers from earlier
ones, and what is served from the cache on what any earlier request stored. Each was
checked by TLC before it was proved.

Hypotheses. A theorem about the refresh job assumes no more than the deployment gives or the
property needs, and admits at least what the run that checks it on an instance does. Without each of
these TLC finds the property violated:

- *Minted run ids* (`~ExplicitRunId`): the scheduled run passes no `--run-id`
  (`.github/workflows/recrawl.yml`). With one, a thread of an earlier day is
  resumed and its page is verified today, however old it is.
- *One host*: two runs side by side share the tables and not their threads. A timestamp taken
  first may be written last (`app/recrawl.py:990`), and an older page indexed over a newer.
- `OneScheduler`: one host, minted run ids, no ingest beside the refresh job. An ingest on the day
  of a killed refresh indexes a newer page than the one in the checkpoint that
  the next refresh of the day resumes, and replaces text that differs in nothing but order.
- *No dry run*: the live run skips, as ended, a thread that a dry run of the day ended without
  writing. *No sync or no edits*: a sync after an edit writes annotations newer than the thread's.
- `RefreshJobs <= 1`: two re-indexes in flight may commit out of the order of their timestamps
  with as many chunks as before, and move no part of `corpus_version`.

Sums and maxima over the sources, which the code computes with SQL aggregates, are
sets' folds in the model. What they return for every finite set is proved by taking a smallest set
for which it fails (`SmallestSubset`, `LeastNat`), not by induction over the set, for
which the library's theorems take an operator as parameter; so with the positions of the
rows that RAGAS scores, which are counted instead of filtered out of a sequence.

Only model-checked: liveness (`RunReportsEverySource`, `LoadingEnds`, `RunEnds`), which is out of
the prover's reach. What the three runs of disagreements check is violated. Every other property of a
run is stated by a theorem above.

## Not modelled

- `_ingest_from_snapshots` (the fixture path of CI: sequential, without a fetch),
  HTML conversion, chunking, embeddings, and `classify_change`'s line normalisation: pure
  computation over text, with unit tests.
- What the guards' regular expressions match in a sentence; the word tables of the clarifier and
  of the advice rule; wording of prompts and messages beyond what they claim.
- The HTTP exchange inside each provider, `last_usage`, telemetry, tracing, redaction, body
  limit, session cookies, configuration, `check_schema`: each looks at one call
  and keeps nothing between calls that a model would interleave.
- `ProxyJSON` and `POST /query`: the same task and gateway without a stream; `/usage` and
  `/health` read only.
- The frontend's rendering, prose and citation formatting.
- Two overlapping refresh jobs beyond the baseline, the dry run and the counters: the code claims
  nothing for them, and what does not hold is said under Runs.

What would come next: `SourceStatus` with its two reads as two steps; an abstract
corpus, index and baseline changing together, that `Recrawl` implements; what of the order of the
index holds with two hosts.
