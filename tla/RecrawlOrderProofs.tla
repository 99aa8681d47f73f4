------------------------- MODULE RecrawlOrderProofs -------------------------
(***************************************************************************)
(* Proofs about the order of what the corpus writers do: the days a run    *)
(* may span, the freshness clocks, and the text that is indexed.           *)
(***************************************************************************)
EXTENDS RecrawlSafetyProofs, SourceStatus

(* What a step may do to a job, a timestamp and the day.                   *)

\* The command is the one started: its arguments and manifest stay.
SameRun(h) ==
    /\ job'[h].run = job[h].run /\ job'[h].started = job[h].started
    /\ job'[h].dry = job[h].dry /\ job'[h].scope = job[h].scope
    /\ job'[h].entries = job[h].entries

\* What is new in a report is an error, or the status of a thread that ended on disk.
Reports(h) ==
    \A s \in Source :
        \/ job'[h].report[s] \in {job[h].report[s], "unhandled_error"}
        \/ LET thread == saved[h][job[h].run][s]
           IN  thread.next = "end" /\ job'[h].report[s] = thread.status

\* A job stays as it is, stops, moves within its refresh or its ingest, or starts.
JobMoves(h) ==
    \/ job'[h] = job[h]
    \/ SameRun(h) /\ job'[h].report = job[h].report /\ job'[h].pc = "idle"
    \/ /\ SameRun(h) /\ Reports(h)
       /\ job[h].pc \in {"next", "run"} /\ job'[h].pc \in {"next", "run", "done"}
    \/ /\ SameRun(h) /\ job'[h].report = job[h].report
       /\ job[h].pc \in {"ingest", "store"} /\ job'[h].pc \in {"ingest", "store"}
       /\ job'[h].pc = "store" => IngestFetch(h, job'[h].cur)
    \/ /\ job[h].pc \in {"idle", "done"} /\ job'[h].started = day /\ day' = day
       /\ job'[h].entries = manifest /\ job'[h].report = NoReport
       /\ \/ /\ job'[h].pc = "next" /\ job'[h].run \in RunIds
             /\ (IF job'[h].dry THEN "dry_run" ELSE "recrawl") \in Commands
          \/ /\ job'[h].pc = "ingest" /\ job'[h].run = day /\ ~job'[h].dry
             /\ "ingest" \in Commands

\* The loop's bookkeeping keeps the run, and reports what it is given.
LEMMA ReportedMoves ==
    ASSUME TypeInv, NEW h \in Host, NEW s \in Source, NEW result, Reported(h, s, result),
           job[h].pc \in {"next", "run"},
           \/ result = "unhandled_error"
           \/ LET thread == saved[h][job[h].run][s]
              IN  thread.next = "end" /\ result = thread.status
    PROVE  JobMoves(h)
<1>1. job \in [Host -> Job] /\ job[h] \in Job
  BY HostType DEF TypeInv, TypeOK
<1> DEFINE report == [job[h].report EXCEPT ![s] = result]
           j == [job[h] EXCEPT !.pc = "next", !.cur = NoSource,
                               !.todo = job[h].todo \ {s}, !.report = report]
<1>2. job' = [job EXCEPT ![h] = j]
  BY DEF Reported
<1>3. \A u \in Source : report[u] = IF u = s THEN result ELSE job[h].report[u]
  <2>1. job[h].report \in [Source -> Terminal \cup {"none", "unhandled_error"}]
    BY <1>1 DEF Job
  <2> QED
    BY <2>1
<1> HIDE DEF report
<1>4. /\ j.pc = "next" /\ j.report = report /\ j.run = job[h].run
      /\ j.started = job[h].started /\ j.dry = job[h].dry /\ j.scope = job[h].scope
      /\ j.entries = job[h].entries
  BY <1>1 DEF Job
<1> HIDE DEF j
<1>5. job'[h] = j
  BY <1>1, <1>2
<1>6. SameRun(h)
  BY <1>4, <1>5 DEF SameRun
<1>7. Reports(h)
  BY <1>3, <1>4, <1>5 DEF Reports
<1> QED
  BY <1>4, <1>5, <1>6, <1>7 DEF JobMoves

\* The steps of a host move its own job as JobMoves says.
LEMMA OwnJobMoves ==
    ASSUME TypeInv, NEW h \in Host, HostStep(h)
    PROVE  JobMoves(h)
<1>0. /\ job \in [Host -> Job] /\ job[h] \in Job /\ live[h] \in Thread
  BY HostType DEF TypeInv, TypeOK
<1>1. ASSUME NEW s \in Source, LoopStep(h, s)
      PROVE  JobMoves(h)
  <2>1. CASE SkipTerminal(h, s)
    BY <2>1, ReportedMoves DEF SkipTerminal
  <2>2. CASE RejectEntry(h, s)
    BY <2>2, ReportedMoves DEF RejectEntry
  <2>3. CASE ResumeThread(h, s) \/ StartThread(h, s)
    <3>1. job'[h] = [job[h] EXCEPT !.pc = "run", !.cur = s] /\ job[h].pc = "next"
      BY <1>0, <2>3 DEF ResumeThread, StartThread
    <3>2. SameRun(h) /\ job'[h].report = job[h].report /\ job'[h].pc = "run"
      BY <1>0, <3>1 DEF SameRun, Job
    <3> QED
      BY <3>1, <3>2 DEF JobMoves, Reports
  <2> QED
    BY <1>1, <2>1, <2>2, <2>3 DEF LoopStep
<1>2. ASSUME NEW s \in Source, DiffRefuses(h, s) \/ NodeRaises(h, s) \/ CheckpointLost(h, s)
      PROVE  JobMoves(h)
  <2>1. Reported(h, s, "unhandled_error") /\ job[h].pc = "run"
    BY <1>2 DEF DiffRefuses, NodeRaises, Raises, CheckpointLost, AtNode
  <2> QED
    BY <2>1, ReportedMoves
<1>3. ASSUME NEW s \in Source, NodeStep(h, s)
      PROVE  JobMoves(h)
  <2>1. CASE FinishThread(h, s)
    <3>1. /\ Reported(h, s, live[h].status) /\ job[h].pc = "run" /\ live[h].next = "end"
          /\ saved[h][job[h].run][s] = live[h]
      BY <2>1 DEF FinishThread, AtNode
    <3> QED
      BY <3>1, ReportedMoves
  <2>2. CASE DiffRefuses(h, s)
    BY <1>2, <2>2
  <2>3. CASE ~FinishThread(h, s) /\ ~DiffRefuses(h, s)
    <3>1. job' = job
      BY <1>3, <2>3 DEF NodeStep, FetchPage, FetchFails, FetchDisallowed, Diff, Chunk, Embed,
         TakeNow, DryVerdict, Reindex, VerifyOnly, RecordFailure, Persist
    <3> QED
      BY <3>1 DEF JobMoves
  <2> QED
    BY <2>1, <2>2, <2>3
<1>4. CASE EndRun(h)
  <2>1. job'[h] = [job[h] EXCEPT !.pc = "done"] /\ job[h].pc = "next"
    BY <1>0, <1>4 DEF EndRun
  <2>2. SameRun(h) /\ job'[h].report = job[h].report /\ job'[h].pc = "done"
    BY <1>0, <2>1 DEF SameRun, Job
  <2> QED
    BY <2>1, <2>2 DEF JobMoves, Reports
<1>5. ASSUME NEW r \in RunIds, NEW dry \in BOOLEAN, NEW only \in SUBSET Source,
             StartRun(h, r, dry, only)
      PROVE  JobMoves(h)
  <2>1. job'[h] = [pc |-> "next", cur |-> NoSource, todo |-> only, scope |-> only, run |-> r,
                   dry |-> dry, started |-> day, entries |-> manifest, report |-> NoReport]
    BY <1>0, <1>5 DEF StartRun
  <2>2. /\ job[h].pc \in {"idle", "done"} /\ day' = day
        /\ (IF dry THEN "dry_run" ELSE "recrawl") \in Commands
    BY <1>5 DEF StartRun, world
  <2> QED
    BY <2>1, <2>2 DEF JobMoves
<1>6. CASE StartIngest(h)
  <2>1. job'[h] = [pc |-> "ingest", cur |-> NoSource, todo |-> Source, scope |-> Source,
                   run |-> day, dry |-> FALSE, started |-> day, entries |-> manifest,
                   report |-> NoReport]
    BY <1>0, <1>6 DEF StartIngest
  <2>2. job[h].pc \in {"idle", "done"} /\ day' = day /\ "ingest" \in Commands
    BY <1>6 DEF StartIngest, world
  <2> QED
    BY <2>1, <2>2 DEF JobMoves
<1>7. CASE IngestStops(h) \/ Crash(h)
  <2>1. job'[h] = [job[h] EXCEPT !.pc = "idle", !.cur = NoSource]
    BY <1>0, <1>7 DEF IngestStops, Crash
  <2>2. SameRun(h) /\ job'[h].report = job[h].report /\ job'[h].pc = "idle"
    BY <1>0, <2>1 DEF SameRun, Job
  <2> QED
    BY <2>2 DEF JobMoves
<1>8. ASSUME NEW s \in Source, IngestFetch(h, s)
      PROVE  JobMoves(h)
  <2>1. job'[h] = [job[h] EXCEPT !.pc = "store", !.cur = s] /\ job[h].pc = "ingest"
    BY <1>0, <1>8 DEF IngestFetch
  <2>2. /\ SameRun(h) /\ job'[h].report = job[h].report
        /\ job'[h].pc = "store" /\ job'[h].cur = s
    BY <1>0, <2>1 DEF SameRun, Job
  <2> QED
    BY <1>8, <2>1, <2>2 DEF JobMoves
<1>9. ASSUME NEW s \in Source, IngestDisallowed(h, s) \/ IngestStore(h, s)
      PROVE  JobMoves(h)
  <2> DEFINE rest == job[h].todo \ {s}
  <2>1. job[h].pc \in {"ingest", "store"}
    BY <1>9 DEF IngestDisallowed, IngestStore
  <2>2. \E cur : job'[h] = [job[h] EXCEPT !.pc = "ingest", !.cur = cur, !.todo = rest]
    <3>1. CASE IngestDisallowed(h, s)
      <4>1. job'[h] = [job[h] EXCEPT !.todo = rest] /\ job[h].pc = "ingest"
        BY <1>0, <3>1 DEF IngestDisallowed
      <4>2. [job[h] EXCEPT !.todo = rest]
              = [job[h] EXCEPT !.pc = "ingest", !.cur = job[h].cur, !.todo = rest]
        BY <1>0, <4>1 DEF Job
      <4> QED
        BY <4>1, <4>2
    <3>2. CASE IngestStore(h, s)
      BY <1>0, <3>2 DEF IngestStore
    <3> QED
      BY <1>9, <3>1, <3>2
  <2> HIDE DEF rest
  <2>3. SameRun(h) /\ job'[h].report = job[h].report /\ job'[h].pc = "ingest"
    BY <1>0, <2>2 DEF SameRun, Job
  <2> QED
    BY <2>1, <2>3 DEF JobMoves
<1>10. ASSUME NEW s \in Source, BackfillSourceBodies(h, s)
       PROVE  JobMoves(h)
  BY <1>10 DEF BackfillSourceBodies, JobMoves
<1> QED
  BY <1>1, <1>2, <1>3, <1>4, <1>5, <1>6, <1>7, <1>8, <1>9, <1>10
  DEF HostStep, RefreshStep, IngestStep

\* Every step of the system moves every job as JobMoves says.
LEMMA AllJobMoves ==
    ASSUME TypeInv, [Next]_vars, NEW h \in Host
    PROVE  JobMoves(h)
<1>1. ASSUME NEW g \in Host, HostStep(g)
      PROVE  JobMoves(h)
  BY <1>1, OwnJobMoves, HostIsLocal DEF JobMoves
<1>2. CASE WorldStep
  BY <1>2 DEF WorldStep, PageChanges, SyncAnnotations, EditManifest, NextDay, JobMoves
<1>3. CASE UNCHANGED vars
  BY <1>3 DEF vars, JobMoves
<1> QED
  BY <1>1, <1>2, <1>3 DEF Next

\* What a step may do to the day, to the days of the last fetches and to a timestamp.
LEMMA DaysMove ==
    ASSUME TypeInv, [Next]_vars
    PROVE  /\ day' = day \/ NextDay
           /\ \A s \in Source :
                  fetchDay'[s] = fetchDay[s] \/ (fetchDay'[s] = day /\ day' = day)
           /\ \A h \in Host :
                  \/ now'[h] \subseteq now[h]
                  \/ /\ now'[h] = {day} /\ job[h].pc = "run"
                     /\ UNCHANGED <<job, sources, documents, day>>
<1> DEFINE A == /\ UNCHANGED day
                /\ \A s \in Source : fetchDay'[s] = fetchDay[s] \/ fetchDay'[s] = day
           B(h) == \/ now'[h] \subseteq now[h]
                   \/ /\ now'[h] = {day} /\ job[h].pc = "run"
                      /\ UNCHANGED <<job, sources, documents, day>>
<1>0. now \in [Host -> SUBSET Day] /\ fetchDay \in [Source -> Day]
  BY DEF TypeInv, TypeOK
<1>1. ASSUME NEW h \in Host, HostStep(h)
      PROVE  A /\ B(h)
  <2>1. ASSUME NEW s \in Source, LoopStep(h, s) PROVE A /\ B(h)
    BY <2>1 DEF LoopStep, SkipTerminal, ResumeThread, StartThread, RejectEntry, world, hist
  <2>2. ASSUME NEW s \in Source, DiffRefuses(h, s) \/ NodeRaises(h, s) \/ CheckpointLost(h, s)
        PROVE  A /\ B(h)
    BY <1>0, <2>2 DEF DiffRefuses, NodeRaises, Raises, CheckpointLost, world, hist
  <2>3. ASSUME NEW s \in Source, NodeStep(h, s) PROVE A /\ B(h)
    <3>1. CASE FetchPage(h, s)
      BY <1>0, <3>1 DEF FetchPage, world
    <3>2. CASE TakeNow(h, s)
      BY <1>0, <3>2 DEF TakeNow, AtNode, world, hist, db
    <3>3. CASE Reindex(h, s) \/ VerifyOnly(h, s)
      BY <1>0, <3>3 DEF Reindex, VerifyOnly, world
    <3>4. CASE \/ FetchFails(h, s) \/ FetchDisallowed(h, s) \/ Diff(h, s) \/ Chunk(h, s)
               \/ Embed(h, s) \/ DryVerdict(h, s) \/ RecordFailure(h, s) \/ Persist(h, s)
               \/ FinishThread(h, s)
      BY <3>4 DEF FetchFails, FetchDisallowed, Diff, Chunk, Embed, DryVerdict, RecordFailure,
         Persist, FinishThread, world, hist
    <3> QED
      BY <2>2, <2>3, <3>1, <3>2, <3>3, <3>4 DEF NodeStep
  <2>4. CASE \E r \in RunIds, dry \in BOOLEAN, only \in (SUBSET Source) \ {{}} :
                 StartRun(h, r, dry, only)
    BY <2>4 DEF StartRun, world, hist
  <2>5. CASE StartIngest(h) \/ IngestStops(h) \/ EndRun(h) \/ Crash(h)
    BY <1>0, <2>5 DEF StartIngest, IngestStops, EndRun, Crash, world, hist
  <2>6. ASSUME NEW s \in Source, IngestStep(h, s) \/ BackfillSourceBodies(h, s)
        PROVE  A /\ B(h)
    BY <1>0, <2>6 DEF IngestStep, IngestFetch, IngestDisallowed, IngestStore,
       BackfillSourceBodies, world, hist
  <2> QED
    BY <1>1, <2>1, <2>2, <2>3, <2>4, <2>5, <2>6 DEF HostStep, RefreshStep
<1>2. ASSUME NEW h \in Host, HostStep(h), NEW g \in Host
      PROVE  A /\ B(g)
  BY <1>1, <1>2, NowIsLocal
<1>3. CASE \E h \in Host : HostStep(h)
  BY <1>2, <1>3
<1>4. CASE WorldStep
  <2>1. UNCHANGED <<fetchDay, now>>
    BY <1>4 DEF WorldStep, PageChanges, SyncAnnotations, EditManifest, NextDay, hist
  <2>2. day' = day \/ NextDay
    BY <1>4 DEF WorldStep, PageChanges, SyncAnnotations, EditManifest, world
  <2> QED
    BY <2>1, <2>2
<1>5. CASE UNCHANGED vars
  BY <1>5 DEF vars
<1> QED
  BY <1>3, <1>4, <1>5 DEF Next

-----------------------------------------------------------------------------
(* What a node makes of its thread.                                        *)

\* A thread that has fetched its page and not answered yet, and one that has given
\* a verdict on its page.
Holds(thread)  == thread.next \in {"diff", "chunk", "embed", "reindex", "verify_only"}
Judged(thread) == thread.next = "end" /\ thread.status \in Verdicts

\* The verdict of Diff.
Verdict(s, thread) ==
    IF sources[s].body = 0 THEN "meaningful" ELSE Classify(sources[s].body, thread.body)

\* From a thread before a node to the thread after it.
Becoming(h, s, before, after) ==
    \/ /\ FetchPage(h, s) /\ before.next = "fetch"
       /\ after.next = "diff" /\ after.body = page[s]
    \/ before.next = "fetch" /\ after.next \in {"fetch", "record_failure"}
    \/ /\ Diff(h, s) /\ before.next = "diff" /\ ~Unbacked(s)
       /\ after.body = before.body /\ after.verdict = Verdict(s, before)
       /\ after.next = IF after.verdict = "meaningful" THEN "chunk" ELSE "verify_only"
    \/ /\ before.next \in {"chunk", "embed"} /\ after.next \in {"embed", "reindex"}
       /\ after.body = before.body
    \/ /\ before.next \in {"reindex", "verify_only"} /\ after.next = "end"
       /\ after.body = before.body /\ after.status = before.verdict
       /\ \/ job[h].dry
          \/ before.next = "reindex" /\ Reindex(h, s)
          \/ before.next = "verify_only" /\ VerifyOnly(h, s)
    \/ before.next = "record_failure" /\ after.next = "end" /\ after.status \notin Verdicts

\* A node moves its thread as Becoming says, and keeps its annotations.
LEMMA WorkLive ==
    ASSUME TypeInv, NEW h \in Host, NEW s \in Source, Works(h, s)
    PROVE  Becoming(h, s, live[h], live'[h]) /\ live'[h].note = live[h].note
<1>0. live \in [Host -> Thread] /\ live[h] \in Thread /\ ThreadOK(live[h])
  BY HostType DEF TypeInv, TypeOK
<1>1. CASE FetchPage(h, s)
  <2>1. live'[h] = [live[h] EXCEPT !.attempts = live[h].attempts + 1, !.robots = FALSE,
                                   !.body = page[s], !.next = "diff"]
    BY <1>0, <1>1 DEF FetchPage, Becomes
  <2>2. live'[h].next = "diff" /\ live'[h].body = page[s] /\ live'[h].note = live[h].note
    BY <1>0, <2>1 DEF Thread
  <2>3. live[h].next = "fetch"
    BY <1>1 DEF FetchPage, AtNode
  <2> QED
    BY <1>1, <2>2, <2>3 DEF Becoming
<1>2. CASE FetchFails(h, s)
  <2> DEFINE n == live[h].attempts + 1
             next == IF n < MaxAttempts THEN "fetch" ELSE "record_failure"
  <2>1. /\ live'[h] = [live[h] EXCEPT !.attempts = n, !.robots = FALSE, !.body = 0,
                                      !.next = next]
        /\ live[h].next = "fetch"
    BY <1>0, <1>2 DEF FetchFails, Becomes, AtNode
  <2>2. next \in {"fetch", "record_failure"}
    OBVIOUS
  <2> HIDE DEF n, next
  <2>3. live'[h].next = next /\ live'[h].note = live[h].note
    BY <1>0, <2>1 DEF Thread
  <2> QED
    BY <2>1, <2>2, <2>3 DEF Becoming
<1>3. CASE FetchDisallowed(h, s)
  <2>1. /\ live'[h] = [live[h] EXCEPT !.attempts = live[h].attempts + 1, !.robots = TRUE,
                                      !.body = 0, !.next = "record_failure"]
        /\ live[h].next = "fetch"
    BY <1>0, <1>3 DEF FetchDisallowed, Becomes, AtNode
  <2>2. live'[h].next = "record_failure" /\ live'[h].note = live[h].note
    BY <1>0, <2>1 DEF Thread
  <2> QED
    BY <2>1, <2>2 DEF Becoming
<1>4. CASE Diff(h, s)
  <2> DEFINE verdict == Verdict(s, live[h])
             next == IF verdict = "meaningful" THEN "chunk" ELSE "verify_only"
  <2>1. /\ live'[h] = [live[h] EXCEPT !.verdict = verdict, !.next = next]
        /\ live[h].next = "diff" /\ ~Unbacked(s)
    BY <1>0, <1>4 DEF Diff, Becomes, AtNode, Verdict
  <2>2. next = IF verdict = "meaningful" THEN "chunk" ELSE "verify_only"
    OBVIOUS
  <2> HIDE DEF verdict, next
  <2>3. /\ live'[h].verdict = verdict /\ live'[h].next = next
        /\ live'[h].body = live[h].body /\ live'[h].note = live[h].note
    BY <1>0, <2>1 DEF Thread
  <2> QED
    BY <1>4, <2>1, <2>2, <2>3 DEF Becoming, verdict
<1>5. CASE Chunk(h, s) \/ Embed(h, s)
  <2>1. \E next \in {"embed", "reindex"} : live'[h] = [live[h] EXCEPT !.next = next]
    BY <1>0, <1>5 DEF Chunk, Embed, Becomes
  <2>2. live[h].next \in {"chunk", "embed"}
    BY <1>5 DEF Chunk, Embed, AtNode
  <2>3. /\ live'[h].next \in {"embed", "reindex"}
        /\ live'[h].body = live[h].body /\ live'[h].note = live[h].note
    BY <1>0, <2>1 DEF Thread
  <2> QED
    BY <2>2, <2>3 DEF Becoming
<1>6. CASE DryVerdict(h, s) \/ Reindex(h, s) \/ VerifyOnly(h, s)
  <2>1. /\ live'[h] = [live[h] EXCEPT !.next = "end", !.status = live[h].verdict]
        /\ live[h].next \in {"reindex", "verify_only"}
        /\ \/ job[h].dry
           \/ live[h].next = "reindex" /\ Reindex(h, s)
           \/ live[h].next = "verify_only" /\ VerifyOnly(h, s)
    BY <1>0, <1>6 DEF DryVerdict, Reindex, VerifyOnly, Ends, Becomes, AtNode
  <2>2. /\ live'[h].next = "end" /\ live'[h].status = live[h].verdict
        /\ live'[h].body = live[h].body /\ live'[h].note = live[h].note
    BY <1>0, <2>1 DEF Thread
  <2> QED
    BY <2>1, <2>2 DEF Becoming
<1>7. CASE RecordFailure(h, s)
  <2>1. \E status \in {"robots_disallowed", "fetch_failed"} :
            live'[h] = [live[h] EXCEPT !.next = "end", !.status = status]
    BY <1>0, <1>7 DEF RecordFailure, Ends, Becomes
  <2>2. live[h].next = "record_failure"
    BY <1>7 DEF RecordFailure, AtNode
  <2>3. /\ live'[h].next = "end" /\ live'[h].status \notin Verdicts
        /\ live'[h].note = live[h].note
    BY <1>0, <2>1 DEF Thread, Verdicts
  <2> QED
    BY <2>2, <2>3 DEF Becoming
<1> QED
  BY <1>1, <1>2, <1>3, <1>4, <1>5, <1>6, <1>7 DEF Works

-----------------------------------------------------------------------------
(* What a step may do to the clocks of a row.                              *)

SameClocks(s) ==
    /\ sources'[s].verified = sources[s].verified
    /\ sources'[s].fetched = sources[s].fetched /\ sources'[s].changed = sources[s].changed

\* The clocks stay, or are set to the timestamp of the node that writes, or to the
\* day of the ingest that stores.
ClocksMove(s) ==
    \/ SameClocks(s)
    \/ \E h \in Host : \E when \in now[h] :
           /\ VerifyOnly(h, s) /\ sources'[s].verified = when
           /\ sources'[s].fetched = sources[s].fetched
           /\ sources'[s].changed = sources[s].changed
    \/ \E h \in Host, when \in Day :
           /\ \/ Reindex(h, s) /\ when \in now[h]
              \/ IngestStore(h, s) /\ when = day
           /\ sources'[s].verified = when /\ sources'[s].fetched = when
           /\ sources'[s].changed \in {when, sources[s].changed}

LEMMA AllClocksMove ==
    ASSUME TypeInv, [Next]_vars, NEW s \in Source
    PROVE  ClocksMove(s)
<1>0. sources \in [Source -> Row] /\ sources[s] \in Row
  BY DEF TypeInv, TypeOK
<1>1. ASSUME NEW h \in Host, NEW u \in Source, u # s, DbWrite(h, u)
      PROVE  sources'[s] = sources[s]
  BY <1>0, <1>1 DEF DbWrite, Reindex, VerifyOnly, RecordFailure, IngestStore,
     BackfillSourceBodies, EmbedAndStore, TouchLastVerified, RecordSourceFailure, db
<1>2. ASSUME NEW body, NEW note, NEW when, NEW markChanged,
             EmbedAndStore(s, body, note, when, markChanged)
      PROVE  /\ sources'[s].verified = when /\ sources'[s].fetched = when
             /\ sources'[s].changed \in {when, sources[s].changed}
  <2>1. sources'[s] = Upsert(sources[s], body, when, markChanged)
    BY <1>0, <1>2 DEF EmbedAndStore
  <2> QED
    BY <2>1 DEF Upsert
<1>3. ASSUME NEW h \in Host, Reindex(h, s)
      PROVE  ClocksMove(s)
  <2>1. PICK when \in now[h] :
            EmbedAndStore(s, live[h].body, PassedNote(live[h].note), when, TRUE)
    BY <1>3 DEF Reindex
  <2>2. when \in Day
    BY HostType
  <2>3. /\ sources'[s].verified = when /\ sources'[s].fetched = when
        /\ sources'[s].changed \in {when, sources[s].changed}
    BY <1>2, <2>1
  <2> QED
    BY <1>3, <2>2, <2>3 DEF ClocksMove
<1>4. ASSUME NEW h \in Host, IngestStore(h, s)
      PROVE  ClocksMove(s)
  <2>1. EmbedAndStore(s, snapshot[h][s], job[h].entries[s], day, FALSE) /\ day \in Day
    BY <1>4 DEF IngestStore, TypeInv, TypeOK
  <2> QED
    BY <1>2, <1>4, <2>1 DEF ClocksMove
<1>5. ASSUME NEW h \in Host, VerifyOnly(h, s)
      PROVE  ClocksMove(s)
  <2>1. PICK when \in now[h] : TouchLastVerified(s, PassedNote(live[h].note), when)
    BY <1>5 DEF VerifyOnly
  <2>2. CASE sources[s].status = "absent"
    <3>1. sources'[s] = sources[s]
      BY <1>0, <2>1, <2>2 DEF TouchLastVerified
    <3> QED
      BY <3>1 DEF ClocksMove, SameClocks
  <2>3. CASE sources[s].status # "absent"
    <3>1. sources'[s] = [sources[s] EXCEPT !.status = "ok", !.verified = when, !.failures = 0]
      BY <1>0, <2>1, <2>3 DEF TouchLastVerified
    <3>2. /\ sources'[s].verified = when /\ sources'[s].fetched = sources[s].fetched
          /\ sources'[s].changed = sources[s].changed
      BY <1>0, <3>1 DEF Row
    <3> QED
      BY <1>5, <3>2 DEF ClocksMove
  <2> QED
    BY <2>2, <2>3
<1>6. ASSUME NEW h \in Host, RecordFailure(h, s)
      PROVE  ClocksMove(s)
  <2>1. \/ sources'[s] = sources[s]
        \/ sources'[s] = [sources[s] EXCEPT !.status = "robots_disallowed"]
        \/ sources'[s] = [sources[s] EXCEPT !.status = "fetch_failed",
                                            !.failures = sources[s].failures + 1]
    BY <1>0, <1>6 DEF RecordFailure, RecordSourceFailure, db
  <2>2. SameClocks(s)
    BY <1>0, <2>1 DEF SameClocks, Row
  <2> QED
    BY <2>2 DEF ClocksMove
<1>7. ASSUME NEW h \in Host, BackfillSourceBodies(h, s)
      PROVE  ClocksMove(s)
  <2>1. sources'[s] = [sources[s] EXCEPT !.body = snapshot[h][s]]
    BY <1>0, <1>7 DEF BackfillSourceBodies
  <2>2. SameClocks(s)
    BY <1>0, <2>1 DEF SameClocks, Row
  <2> QED
    BY <2>2 DEF ClocksMove
<1>8. CASE sources'[s] = sources[s]
  BY <1>8 DEF ClocksMove, SameClocks
<1>9. ASSUME NEW h \in Host, NEW u \in Source, DbWrite(h, u)
      PROVE  ClocksMove(s)
  BY <1>1, <1>3, <1>4, <1>5, <1>6, <1>7, <1>8, <1>9 DEF DbWrite
<1>10. ASSUME NEW u \in Source, SyncAnnotations(u)
       PROVE  sources'[s] = sources[s]
  BY <1>10 DEF SyncAnnotations
<1> QED
  BY <1>8, <1>9, <1>10, OnlyDbWrites DEF db

-----------------------------------------------------------------------------
(* Freshness.                                                              *)

\* The days a command spans: it ends within a day of its start, a refresh has the id
\* of the day it was started on, and an ingest stores what it fetched itself.
Span(h) ==
    /\ Active(h) => job[h].started <= day /\ day <= job[h].started + 1
    /\ job[h].pc \in {"next", "run"} => job[h].run = job[h].started
    /\ \A when \in now[h] : when <= job[h].started + 1
    /\ job[h].pc = "store" => job[h].started <= fetchDay[job[h].cur]

\* No thread holds a page fetched before the day its run is named for, and no source
\* is verified more than a day after its last fetch.
FreshInv ==
    /\ \A h \in Host : Span(h)
    /\ \A s \in Source : fetchDay[s] <= day /\ sources[s].verified <= fetchDay[s] + 1
    /\ \A h \in Host, r \in Day, s \in Source :
           Holds(Current(h, r, s)) \/ Holds(saved[h][r][s]) => r <= fetchDay[s]

\* The initial states satisfy FreshInv.
LEMMA FreshInit == Init => FreshInv
<1> SUFFICES ASSUME Init PROVE FreshInv
  OBVIOUS
<1>1. /\ day = 0 /\ fetchDay = [s \in Source |-> 0] /\ now = [h \in Host |-> {}]
      /\ \A h \in Host : job[h].pc = "idle"
  BY DEF Init
<1>2. \A s \in Source : sources[s].verified = 0
  <2>1. PICK kind \in [Source -> InitKinds] :
          sources = [s \in Source |->
                IF kind[s] = "new" THEN NoRow
                ELSE [NoRow EXCEPT !.status = "ok",
                                   !.body = IF kind[s] = "legacy" THEN 0 ELSE 1]]
    BY DEF Init
  <2> QED
    BY <2>1 DEF NoRow
<1>3. ASSUME NEW h \in Host, NEW r \in Day, NEW s \in Source
      PROVE  ~Holds(Current(h, r, s)) /\ ~Holds(saved[h][r][s])
  <2>1. NoThread.next = "none"
    BY DEF NoThread, InitialThread
  <2>2. Current(h, r, s) = NoThread /\ saved[h][r][s] = NoThread
    BY <1>1, <1>3 DEF Init, Current, Drives
  <2> QED
    BY <2>1, <2>2 DEF Holds
<1> QED
  BY <1>1, <1>2, <1>3 DEF FreshInv, Span, Active

\* The last fetch of a source moves forward, up to today.
LEMMA FetchDayGrows ==
    ASSUME TypeInv, FreshInv, [Next]_vars, NEW s \in Source
    PROVE  fetchDay[s] <= fetchDay'[s] /\ fetchDay'[s] <= day' /\ day <= day'
<1>1. /\ fetchDay[s] \in Nat /\ day \in Nat /\ fetchDay[s] <= day
  BY ConstantsAssumption DEF TypeInv, TypeOK, Day, FreshInv
<1>2. /\ day' = day \/ NextDay
      /\ fetchDay'[s] = fetchDay[s] \/ (fetchDay'[s] = day /\ day' = day)
  BY DaysMove
<1>3. NextDay => day' = day + 1
  BY DEF NextDay
<1> QED
  BY <1>1, <1>2, <1>3

\* A thread comes to hold a page by fetching it, on the day of its run or the next.
LEMMA HoldsStep ==
    ASSUME TypeInv, FreshInv, [Next]_vars, NEW h \in Host, NEW r \in Day, NEW s \in Source,
           (Holds(Current(h, r, s)) \/ Holds(saved[h][r][s]))'
    PROVE  r <= fetchDay'[s]
<1>0. /\ fetchDay[s] <= fetchDay'[s] /\ fetchDay[s] \in Nat /\ r \in Nat
      /\ fetchDay'[s] \in Nat
  <2>1. TypeInv'
    BY NextTypeInv
  <2> QED
    BY <2>1, FetchDayGrows, ConstantsAssumption DEF TypeInv, TypeOK, Day
<1>1. CASE Holds(Current(h, r, s)) \/ Holds(saved[h][r][s])
  <2>1. r <= fetchDay[s]
    BY <1>1 DEF FreshInv
  <2> QED
    BY <1>0, <2>1
<1>2. CASE FetchPage(h, s) /\ Drives(h, r, s)
  <2>1. fetchDay'[s] = day
    BY <1>2 DEF FetchPage, TypeInv, TypeOK
  <2>2. job[h].run = r /\ job[h].pc = "run"
    BY <1>2 DEF Drives
  <2>3. job[h].run = job[h].started /\ job[h].started <= day
    BY <2>2 DEF FreshInv, Span, Active
  <2> QED
    BY <2>1, <2>2, <2>3
<1>3. CASE Drives(h, r, s) /\ Works(h, s) /\ Holds(live'[h])
  <2>1. Becoming(h, s, live[h], live'[h])
    BY <1>3, WorkLive
  <2>2. FetchPage(h, s) \/ Holds(live[h])
    BY <1>3, <2>1 DEF Becoming, Holds
  <2> QED
    BY <1>1, <1>2, <1>3, <2>2 DEF Current
<1>4. Moves(h, r, s)
  BY AllMoves
<1>5. Holds(Current(h, r, s)') \/ Holds(saved'[h][r][s])
  BY DEF Current
<1> QED
  BY <1>1, <1>3, <1>4, <1>5 DEF Moves, Holds

\* A step keeps the span of every command.
LEMMA SpanStep ==
    ASSUME ~ExplicitRunId, TypeInv, DryInv, FreshInv, [Next]_vars, NEW h \in Host
    PROVE  Span(h)'
<1>0. /\ TypeInv' /\ DryInv' /\ JobMoves(h) /\ Span(h) /\ Dry(h) /\ Dry(h)'
      /\ day \in Nat /\ day' \in Nat /\ job[h].started \in Nat /\ job'[h].started \in Nat
  <2>1. TypeInv' /\ DryInv'
    BY NextTypeInv, DryNext
  <2>2. job[h] \in Job /\ job'[h] \in Job /\ day \in Day /\ day' \in Day
    BY <2>1 DEF TypeInv, TypeOK
  <2>3. \A d \in Day : d \in Nat
    BY ConstantsAssumption DEF Day
  <2>4. job[h].started \in Day /\ job'[h].started \in Day
    BY <2>2 DEF Job
  <2>5. Span(h) /\ Dry(h) /\ Dry(h)'
    BY <2>1 DEF FreshInv, DryInv
  <2> QED
    BY <2>1, <2>2, <2>3, <2>4, <2>5, AllJobMoves
<1>1. /\ day' = day \/ NextDay
      /\ \/ now'[h] \subseteq now[h]
         \/ now'[h] = {day} /\ job[h].pc = "run" /\ UNCHANGED <<job, sources, documents, day>>
  BY DaysMove
<1>2. (Active(h) => job[h].started <= day /\ day <= job[h].started + 1)'
  <2>1. CASE NextDay
    <3>1. job' = job /\ day' = day + 1 /\ (Active(h) => job[h].started = day)
      BY <2>1 DEF NextDay
    <3> QED
      BY <1>0, <3>1 DEF Active
  <2>2. CASE day' = day
    BY <1>0, <2>2 DEF JobMoves, SameRun, Span, Active
  <2> QED
    BY <1>1, <2>1, <2>2
<1>3. (job[h].pc \in {"next", "run"} => job[h].run = job[h].started)'
  BY <1>0 DEF JobMoves, SameRun, Span, RunIds
<1>4. (\A when \in now[h] : when <= job[h].started + 1)'
  <2> SUFFICES ASSUME NEW when \in now'[h] PROVE when <= job'[h].started + 1
    OBVIOUS
  <2>1. CASE when \in now[h]
    <3>1. job[h].pc = "run" /\ job'[h].pc = "run"
      BY <1>0, <2>1 DEF Dry
    <3>2. job'[h].started = job[h].started
      BY <1>0, <3>1 DEF JobMoves, SameRun
    <3> QED
      BY <1>0, <2>1, <3>2 DEF Span
  <2>2. CASE when = day /\ job[h].pc = "run" /\ job' = job
    BY <1>0, <2>2 DEF Span, Active
  <2> QED
    BY <1>1, <2>1, <2>2
<1>5. (job[h].pc = "store" => job[h].started <= fetchDay[job[h].cur])'
  <2> SUFFICES ASSUME job'[h].pc = "store"
               PROVE  job'[h].started <= fetchDay'[job'[h].cur]
    OBVIOUS
  <2>0. job'[h].cur \in Source
    BY <1>0 DEF TypeInv, StoreOK
  <2>1. CASE job'[h] = job[h]
    <3>1. job[h].started <= fetchDay[job[h].cur] /\ job[h].cur \in Source
      BY <1>0, <2>0, <2>1 DEF Span
    <3>2. fetchDay[job[h].cur] <= fetchDay'[job[h].cur]
          /\ fetchDay[job[h].cur] \in Nat /\ fetchDay'[job[h].cur] \in Nat
      BY <1>0, <3>1, FetchDayGrows, ConstantsAssumption DEF TypeInv, TypeOK, Day
    <3> QED
      BY <1>0, <2>1, <3>1, <3>2
  <2>2. CASE SameRun(h) /\ job[h].pc \in {"ingest", "store"} /\ IngestFetch(h, job'[h].cur)
    <3>1. fetchDay'[job'[h].cur] = day
      BY <2>0, <2>2 DEF IngestFetch, TypeInv, TypeOK
    <3>2. job'[h].started = job[h].started /\ job[h].started <= day
      BY <1>0, <2>2 DEF SameRun, Span, Active
    <3> QED
      BY <3>1, <3>2
  <2> QED
    BY <1>0, <2>1, <2>2 DEF JobMoves
<1> QED
  BY <1>2, <1>3, <1>4, <1>5 DEF Span

\* Every step keeps FreshInv.
LEMMA FreshStep ==
    ASSUME ~ExplicitRunId, TypeInv, DryInv, FreshInv, [Next]_vars
    PROVE  FreshInv'
<1>1. ASSUME NEW s \in Source
      PROVE  sources'[s].verified <= fetchDay'[s] + 1
  <2>0. /\ fetchDay[s] <= fetchDay'[s] /\ fetchDay[s] \in Nat /\ fetchDay'[s] \in Nat
        /\ sources[s].verified \in Nat /\ sources[s].verified <= fetchDay[s] + 1 /\ day \in Nat
    <3>1. TypeInv'
      BY NextTypeInv
    <3>2. fetchDay[s] \in Day /\ fetchDay'[s] \in Day /\ day \in Day /\ sources[s] \in Row
      BY <3>1 DEF TypeInv, TypeOK
    <3>3. sources[s].verified \in Day
      BY <3>2 DEF Row
    <3>4. \A d \in Day : d \in Nat
      BY ConstantsAssumption DEF Day
    <3> QED
      BY <3>2, <3>3, <3>4, FetchDayGrows DEF FreshInv
  <2>1. CASE SameClocks(s)
    BY <2>0, <2>1 DEF SameClocks
  <2>2. ASSUME NEW h \in Host, NEW when \in now[h], VerifyOnly(h, s) \/ Reindex(h, s),
               sources'[s].verified = when
        PROVE  sources'[s].verified <= fetchDay'[s] + 1
    <3>1. /\ job[h].pc = "run" /\ Current(h, job[h].run, s) = live[h] /\ Holds(live[h])
          /\ job[h].run \in Day
      BY <2>2, HostType DEF VerifyOnly, Reindex, AtNode, Current, Drives, Holds
    <3>2. job[h].run <= fetchDay[s] /\ job[h].run = job[h].started
          /\ when <= job[h].started + 1
      BY <3>1 DEF FreshInv, Span
    <3>3. when \in Nat /\ job[h].started \in Nat
      BY HostType, ConstantsAssumption DEF Day, Job
    <3> QED
      BY <2>0, <2>2, <3>2, <3>3
  <2>3. ASSUME NEW h \in Host, IngestStore(h, s), sources'[s].verified = day
        PROVE  sources'[s].verified <= fetchDay'[s] + 1
    <3>1. job[h].pc = "store" /\ job[h].cur = s
      BY <2>3 DEF IngestStore
    <3>2. job[h].started <= fetchDay[s] /\ day <= job[h].started + 1
      BY <3>1 DEF FreshInv, Span, Active
    <3>3. job[h].started \in Nat
      BY HostType, ConstantsAssumption DEF Day, Job
    <3> QED
      BY <2>0, <2>3, <3>2, <3>3
  <2> QED
    BY <2>1, <2>2, <2>3, AllClocksMove DEF ClocksMove
<1> QED
  BY <1>1, FetchDayGrows, HoldsStep, SpanStep DEF FreshInv

\* FreshInv is an invariant, when run ids are minted and not passed.
LEMMA FreshInvariant ==
    ASSUME ~ExplicitRunId
    PROVE  Spec => []FreshInv
<1>1. TypeInv /\ DryInv /\ FreshInv /\ [Next]_vars => FreshInv'
  BY FreshStep
<1> QED
  BY <1>1, FreshInit, TypeInvariant, DryInvariant, PTL DEF Spec

\* VerificationIsFresh: when no operator passes --run-id, last_verified_at is at most
\* a day ahead of the last fetch that succeeded, for any number of hosts running any
\* commands, killed and resumed any number of times.
THEOREM FreshCorrect ==
    ASSUME ~ExplicitRunId
    PROVE  Spec => []VerificationIsFresh
<1>1. FreshInv => VerificationIsFresh
  BY DEF FreshInv, VerificationIsFresh
<1> QED
  BY <1>1, FreshInvariant, PTL

-----------------------------------------------------------------------------
(* What GET /sources/status claims.                                        *)

\* A nonempty set of naturals has a least element.
LEMMA NatLeast ==
    ASSUME NEW S \in SUBSET Nat, S # {}
    PROVE  Min(S) \in S /\ \A k \in S : Min(S) <= k
<1> DEFINE R == OpToRel(<, Nat)
<1>1. IsWellFoundedOn(R, Nat)
  BY NatLessThanWellFounded
<1>2. \A x, y \in Nat : y < x => <<y, x>> \in R
  BY DEF OpToRel
<1> HIDE DEF R
<1>3. PICK m \in S : \A y \in S : ~ (<<y, m>> \in R)
  BY <1>1, WFMin
<1>4. \A k \in S : m <= k
  <2> TAKE k \in S
  <2>1. m \in Nat /\ k \in Nat /\ ~(k < m)
    BY <1>2, <1>3
  <2> QED
    BY <2>1
<1> QED
  BY <1>4 DEF Min

\* StatusIsHonest: when no operator passes --run-id, the header says "current" only
\* when every source was fetched within the threshold and the one midnight a run may
\* cross, and calls no source sound that the job may not fetch or has not fetched within
\* its threshold; for any number of hosts, commands, crashes and thresholds.
THEOREM HonestCorrect ==
    ASSUME ~ExplicitRunId
    PROVE  Spec => []StatusIsHonest
<1>1. TypeInv /\ FreshInv => StatusIsHonest
  <2> SUFFICES ASSUME TypeInv, FreshInv PROVE StatusIsHonest
    OBVIOUS
  <2>0. /\ CurrentDays \in Nat /\ BrokenAfterDays \in Nat /\ day \in Nat
        /\ \A s \in Source : /\ sources[s].verified \in Nat /\ fetchDay[s] \in Nat
                             /\ sources[s].verified <= fetchDay[s] + 1
    <3>1. day \in Day /\ \A s \in Source : fetchDay[s] \in Day /\ sources[s] \in Row
      BY DEF TypeInv, TypeOK
    <3>2. \A s \in Source : sources[s].verified \in Day
      BY <3>1 DEF Row
    <3>3. \A d \in Day : d \in Nat
      BY ConstantsAssumption DEF Day
    <3> QED
      BY <3>1, <3>2, <3>3, StatusAssumption DEF FreshInv
  <2>1. ASSUME "current" \in Bands, NEW s \in Present
        PROVE  day <= fetchDay[s] + CurrentDays + 1
    <3> DEFINE S == {sources[u].verified : u \in Present}
    <3>1. s \in Source /\ S \in SUBSET Nat /\ sources[s].verified \in S
      BY <2>0 DEF Present
    <3>2. Min(S) \in Nat /\ Min(S) <= sources[s].verified
      BY <3>1, NatLeast
    <3>3. Bands = sources_freshness_state(day - Min(S))
      BY DEF Bands
    <3> HIDE DEF S
    <3>4. day - Min(S) <= CurrentDays
      BY <2>1, <3>3 DEF sources_freshness_state
    <3> QED
      BY <2>0, <3>1, <3>2, <3>4
  <2>2. ASSUME NEW s \in Unlisted
        PROVE  sources[s].status # "robots_disallowed" /\ day <= fetchDay[s] + BrokenAfterDays + 1
    <3>1. s \in Source /\ "ok" \in source_health_state(sources[s])
      BY DEF Unlisted, Present
    <3>2. sources[s].status # "robots_disallowed" /\ day - sources[s].verified <= BrokenAfterDays
      BY <3>1 DEF source_health_state
    <3> QED
      BY <2>0, <3>1, <3>2
  <2> QED
    BY <2>1, <2>2 DEF StatusIsHonest
<1> QED
  BY <1>1, FreshInvariant, TypeInvariant, PTL

-----------------------------------------------------------------------------
(* The order of the clocks.                                                *)

\* A timestamp taken and not yet written is no older than any clock.
ClockInv ==
    /\ ClocksInOrder
    /\ \A h \in Host : \A when \in now[h] :
           when <= day /\ \A s \in Source : sources[s].verified <= when

\* Every step keeps ClockInv: nothing else is written between the taking of a
\* timestamp and its use, because the host that took it is the only one.
LEMMA ClockStep ==
    ASSUME \A g, h \in Host : g = h, TypeInv, DryInv, ClockInv, [Next]_vars
    PROVE  ClockInv'
<1>0. /\ day \in Nat /\ day' \in Nat /\ day <= day'
      /\ \A s \in Source : /\ sources[s].verified \in Nat /\ sources[s].fetched \in Nat
                           /\ sources[s].changed \in Nat
      /\ \A h \in Host : now[h] \subseteq Nat
  <2>1. TypeInv'
    BY NextTypeInv
  <2>2. \A d \in Day : d \in Nat
    BY ConstantsAssumption DEF Day
  <2>3. /\ day \in Day /\ day' \in Day /\ \A s \in Source : sources[s] \in Row
        /\ \A h \in Host : now[h] \subseteq Day
    BY <2>1 DEF TypeInv, TypeOK
  <2>4. \A s \in Source : /\ sources[s].verified \in Day /\ sources[s].fetched \in Day
                          /\ sources[s].changed \in Day
    BY <2>3 DEF Row
  <2>5. day' = day \/ day' = day + 1
    BY DaysMove DEF NextDay
  <2> QED
    BY <2>2, <2>3, <2>4, <2>5
<1>1. ASSUME NEW s \in Source
      PROVE  /\ sources'[s].changed <= sources'[s].fetched
             /\ sources'[s].fetched <= sources'[s].verified
             /\ sources'[s].verified <= day'
  <2>0. /\ sources[s].changed <= sources[s].fetched
        /\ sources[s].fetched <= sources[s].verified /\ sources[s].verified <= day
    BY DEF ClockInv, ClocksInOrder
  <2>1. CASE SameClocks(s)
    BY <1>0, <2>0, <2>1 DEF SameClocks
  <2>2. ASSUME NEW h \in Host, NEW when \in now[h]
        PROVE  when \in Nat /\ sources[s].verified <= when /\ when <= day
    BY <1>0 DEF ClockInv
  <2>3. CASE \E h \in Host : \E when \in now[h] :
                 /\ sources'[s].verified = when
                 /\ sources'[s].fetched = sources[s].fetched
                 /\ sources'[s].changed = sources[s].changed
    BY <1>0, <2>0, <2>2, <2>3
  <2>4. ASSUME NEW when \in Nat, sources[s].verified <= when, when <= day,
               sources'[s].verified = when, sources'[s].fetched = when,
               sources'[s].changed \in {when, sources[s].changed}
        PROVE  /\ sources'[s].changed <= sources'[s].fetched
               /\ sources'[s].fetched <= sources'[s].verified
               /\ sources'[s].verified <= day'
    BY <1>0, <2>0, <2>4
  <2> QED
    BY <1>0, <2>0, <2>1, <2>2, <2>3, <2>4, AllClocksMove DEF ClocksMove
<1>2. ASSUME NEW h \in Host, NEW when \in now'[h], NEW s \in Source
      PROVE  when <= day' /\ sources'[s].verified <= when
  <2>1. CASE now'[h] = {day} /\ UNCHANGED <<sources, day>>
    BY <1>0, <2>1 DEF ClockInv, ClocksInOrder
  <2>2. CASE when \in now[h]
    <3>0. when \in Nat /\ when <= day /\ sources[s].verified <= when
      BY <1>0, <2>2 DEF ClockInv
    <3>1. job[h].pc = "run"
      BY <2>2 DEF DryInv, Dry
    <3>2. ASSUME NEW g \in Host, Reindex(g, s) \/ VerifyOnly(g, s) \/ IngestStore(g, s)
          PROVE  FALSE
      <4>1. g = h
        OBVIOUS
      <4>2. now'[h] = {} \/ job[h].pc = "store"
        BY <3>2, <4>1 DEF Reindex, VerifyOnly, IngestStore, TypeInv, TypeOK
      <4> QED
        BY <1>2, <3>1, <4>2
    <3>3. SameClocks(s)
      BY <3>2, AllClocksMove DEF ClocksMove
    <3> QED
      BY <1>0, <3>0, <3>3 DEF SameClocks
  <2> QED
    BY <1>2, <2>1, <2>2, DaysMove
<1>3. ASSUME NEW h \in Host, NEW when \in now'[h]
      PROVE  when <= day'
  <2>1. CASE when = day
    BY <1>0, <2>1
  <2>2. CASE when \in now[h]
    BY <1>0, <2>2 DEF ClockInv
  <2> QED
    BY <1>3, <2>1, <2>2, DaysMove
<1> QED
  BY <1>1, <1>2, <1>3 DEF ClockInv, ClocksInOrder

\* ClocksInOrder: with one host running commands, killed at any moment, a source
\* changed no later than it was fetched and was fetched no later than it was verified.
THEOREM ClocksCorrect ==
    ASSUME \A g, h \in Host : g = h
    PROVE  Spec => []ClocksInOrder
<1>1. Init => ClockInv
  <2> SUFFICES ASSUME Init PROVE ClockInv
    OBVIOUS
  <2>1. PICK kind \in [Source -> InitKinds] :
          sources = [s \in Source |->
                IF kind[s] = "new" THEN NoRow
                ELSE [NoRow EXCEPT !.status = "ok",
                                   !.body = IF kind[s] = "legacy" THEN 0 ELSE 1]]
    BY DEF Init
  <2>2. \A s \in Source : /\ sources[s].verified = 0 /\ sources[s].fetched = 0
                          /\ sources[s].changed = 0
    BY <2>1 DEF NoRow
  <2>3. day = 0 /\ \A h \in Host : now[h] = {}
    BY DEF Init
  <2> QED
    BY <2>2, <2>3 DEF ClockInv, ClocksInOrder
<1>2. TypeInv /\ DryInv /\ ClockInv /\ [Next]_vars => ClockInv'
  BY ClockStep
<1>3. ClockInv => ClocksInOrder
  BY DEF ClockInv
<1> QED
  BY <1>1, <1>2, <1>3, TypeInvariant, DryInvariant, PTL DEF Spec

-----------------------------------------------------------------------------
(* The text that is indexed, when one host runs the scheduled refresh.     *)

\* One host with minted run ids, and no ingest beside the refresh job.  Dry runs, syncs,
\* edits of the manifest and backfills may be run.
OneScheduler ==
    /\ \A g, h \in Host : g = h
    /\ ~ExplicitRunId
    /\ "ingest" \notin Commands

\* A thread that has its page, whether it has answered or not.
HasPage(thread) == Holds(thread) \/ Judged(thread)

\* What a thread's position says of its page, the text indexed and the page served.
TextOK(text, served, thread) ==
    /\ HasPage(thread) =>
           thread.body # 0 /\ text <= thread.body /\ thread.body <= served
    /\ Reindexing(thread) => text \in {0, thread.body} \/ Class[text] # Class[thread.body]
    /\ thread.next = "verify_only" => text # 0 /\ Class[text] = Class[thread.body]

\* A thread as it was before, and after: a page once fetched is kept, and the end is final.
Lag(before, after) ==
    /\ HasPage(before) => HasPage(after) /\ after.body = before.body
    /\ before.next = "end" => after = before

\* A row is there when chunks are, and its baseline is theirs or missing.
RowOK(s) ==
    /\ documents[s].body <= page[s]
    /\ sources[s].body \in {0, documents[s].body}
    /\ sources[s].status = "absent" <=> documents[s].body = 0

\* The thread of the host's last run, in memory and on disk.
PageOK(h, s) ==
    LET disc == saved[h][job[h].run][s]
        mem  == Current(h, job[h].run, s)
    IN  /\ TextOK(documents[s].body, page[s], disc) /\ TextOK(documents[s].body, page[s], mem)
        /\ Lag(disc, mem)

\* A snapshot that may become a baseline is of the text indexed; runs are of no later
\* day than today, and leave no threads for a later day.
IndexInv ==
    /\ \A s \in Source : RowOK(s)
    /\ \A h \in Host : job[h].pc \notin {"ingest", "store"} /\ job[h].run <= day
    /\ \A h \in Host, s \in Source :
           /\ Unbacked(s) => snapshot[h][s] \in {0, documents[s].body}
           /\ \A r \in Day : r > job[h].run => saved[h][r][s].next = "none"
           /\ PageOK(h, s)

\* A page served stays or is followed by a newer one.
LEMMA PageGrows ==
    ASSUME TypeInv, [Next]_vars, NEW s \in Source
    PROVE  page[s] \in Nat /\ page'[s] \in Nat /\ page[s] <= page'[s]
<1>1. page \in [Source -> Version] /\ page[s] \in Nat
  BY ConstantsAssumption DEF TypeInv, TypeOK, Version
<1>2. ASSUME NEW u \in Source, PageChanges(u)
      PROVE  page'[s] \in Nat /\ page[s] <= page'[s]
  BY <1>1, <1>2 DEF PageChanges
<1>3. ASSUME page' # page
      PROVE  \E u \in Source : PageChanges(u)
  <2>1. ASSUME NEW h \in Host, HostStep(h) PROVE page' = page
    <3>1. ASSUME NEW u \in Source, LoopStep(h, u) \/ NodeStep(h, u) \/ NodeRaises(h, u)
                   \/ CheckpointLost(h, u) \/ IngestStep(h, u) \/ BackfillSourceBodies(h, u)
          PROVE  page' = page
      BY <3>1 DEF LoopStep, NodeStep, NodeRaises, CheckpointLost, IngestStep, SkipTerminal, ResumeThread,
         StartThread, RejectEntry, FetchPage, FetchFails, FetchDisallowed, Diff, DiffRefuses,
         Raises, Chunk, Embed, TakeNow, DryVerdict, Reindex, VerifyOnly, RecordFailure, Persist,
         FinishThread, IngestFetch, IngestDisallowed, IngestStore, BackfillSourceBodies, world
    <3> QED
      BY <2>1, <3>1 DEF HostStep, RefreshStep, EndRun, StartRun, StartIngest, IngestStops,
         Crash, world
  <2> QED
    BY <1>3, <2>1 DEF Next, WorldStep, SyncAnnotations, EditManifest, NextDay, world, vars
<1> QED
  BY <1>1, <1>2, <1>3

\* A snapshot file is written by a chunk node and by an ingest's fetch only.
LEMMA SnapshotMoves ==
    ASSUME TypeInv, [Next]_vars, NEW h \in Host, NEW s \in Source
    PROVE  snapshot'[h][s] = snapshot[h][s] \/ Chunk(h, s) \/ IngestFetch(h, s)
<1>0. snapshot \in [Host -> [Source -> Body]]
  BY DEF TypeInv, TypeOK
<1>1. ASSUME NEW g \in Host, NEW u \in Source, Chunk(g, u) \/ IngestFetch(g, u)
      PROVE  snapshot'[h][s] = snapshot[h][s] \/ Chunk(h, s) \/ IngestFetch(h, s)
  <2>1. \E body : snapshot' = [snapshot EXCEPT ![g][u] = body] \/ snapshot' = snapshot
    BY <1>1 DEF Chunk, IngestFetch
  <2>2. g # h \/ u # s => snapshot'[h][s] = snapshot[h][s]
    BY <1>0, <2>1
  <2> QED
    BY <1>1, <2>2
<1>2. ASSUME snapshot' # snapshot
      PROVE  \E g \in Host, u \in Source : Chunk(g, u) \/ IngestFetch(g, u)
  <2>1. ASSUME NEW g \in Host, HostStep(g),
               ~ \E u \in Source : Chunk(g, u) \/ IngestFetch(g, u)
        PROVE  snapshot' = snapshot
    <3>1. ASSUME NEW u \in Source, LoopStep(g, u) \/ NodeStep(g, u) \/ NodeRaises(g, u)
                   \/ CheckpointLost(g, u) \/ IngestStep(g, u) \/ BackfillSourceBodies(g, u)
          PROVE  snapshot' = snapshot
      BY <2>1, <3>1 DEF LoopStep, NodeStep, NodeRaises, CheckpointLost, IngestStep, SkipTerminal, ResumeThread,
         StartThread, RejectEntry, FetchPage, FetchFails, FetchDisallowed, Diff, DiffRefuses,
         Raises, Embed, TakeNow, DryVerdict, Reindex, VerifyOnly, RecordFailure, Persist,
         FinishThread, IngestDisallowed, IngestStore, BackfillSourceBodies, disk
    <3> QED
      BY <2>1, <3>1 DEF HostStep, RefreshStep, EndRun, StartRun, StartIngest, IngestStops,
         Crash, disk
  <2> QED
    BY <1>2, <2>1 DEF Next, WorldStep, PageChanges, SyncAnnotations, EditManifest, NextDay,
       disk, vars
<1> QED
  BY <1>1, <1>2

\* The body of a source's chunks, and of its row, and whether it has a row: they stay, or
\* become those of a re-index, of an ingest, or of a backfill, which moves the row only.
BodiesMove(s) ==
    \/ /\ documents'[s].body = documents[s].body /\ sources'[s].body = sources[s].body
       /\ sources'[s].status = "absent" <=> sources[s].status = "absent"
    \/ \E h \in Host : /\ Reindex(h, s) /\ documents'[s].body = live[h].body
                       /\ sources'[s].body = live[h].body /\ sources'[s].status # "absent"
    \/ \E h \in Host : IngestStore(h, s)
    \/ \E h \in Host : /\ BackfillSourceBodies(h, s) /\ documents'[s].body = documents[s].body
                       /\ sources'[s].body = snapshot[h][s]
                       /\ sources'[s].status = sources[s].status

LEMMA AllBodiesMove ==
    ASSUME TypeInv, [Next]_vars, NEW s \in Source
    PROVE  BodiesMove(s)
<1>0. /\ sources \in [Source -> Row] /\ documents \in [Source -> Chunks]
      /\ sources[s] \in Row /\ documents[s] \in Chunks
  BY DEF TypeInv, TypeOK
<1>1. CASE sources'[s] = sources[s] /\ documents'[s].body = documents[s].body
  BY <1>1 DEF BodiesMove
<1>2. ASSUME NEW h \in Host, NEW u \in Source, u # s,
             Reindex(h, u) \/ IngestStore(h, u) \/ BackfillSourceBodies(h, u)
      PROVE  sources'[s] = sources[s] /\ documents'[s] = documents[s]
  BY <1>0, <1>2 DEF Reindex, IngestStore, BackfillSourceBodies, EmbedAndStore
<1>3. ASSUME NEW h \in Host, Reindex(h, s)
      PROVE  BodiesMove(s)
  <2>1. PICK when : EmbedAndStore(s, live[h].body, PassedNote(live[h].note), when, TRUE)
    BY <1>3 DEF Reindex
  <2>2. /\ sources'[s] = Upsert(sources[s], live[h].body, when, TRUE)
        /\ documents'[s] = [body |-> live[h].body, note |-> PassedNote(live[h].note)]
    BY <1>0, <2>1 DEF EmbedAndStore
  <2>3. /\ documents'[s].body = live[h].body /\ sources'[s].body = live[h].body
        /\ sources'[s].status # "absent"
    BY <2>2 DEF Upsert
  <2> QED
    BY <1>3, <2>3 DEF BodiesMove
<1>4. ASSUME NEW h \in Host, BackfillSourceBodies(h, s)
      PROVE  BodiesMove(s)
  <2>1. sources'[s] = [sources[s] EXCEPT !.body = snapshot[h][s]] /\ documents' = documents
    BY <1>0, <1>4 DEF BackfillSourceBodies
  <2>2. sources'[s].body = snapshot[h][s] /\ sources'[s].status = sources[s].status
    BY <1>0, <2>1 DEF Row
  <2> QED
    BY <1>4, <2>1, <2>2 DEF BodiesMove
<1>5. ASSUME NEW h \in Host, NEW u \in Source, VerifyOnly(h, u) \/ RecordFailure(h, u)
      PROVE  BodiesMove(s)
  BY <1>5, KeepsBodies DEF BodiesMove
<1>6. ASSUME NEW u \in Source, SyncAnnotations(u)
      PROVE  sources'[s] = sources[s] /\ documents'[s].body = documents[s].body
  BY <1>0, <1>6 DEF SyncAnnotations, Chunks
<1>7. ASSUME NEW h \in Host, NEW u \in Source, DbWrite(h, u)
      PROVE  BodiesMove(s)
  <2>1. CASE u = s
    BY <1>3, <1>4, <1>5, <1>7, <2>1 DEF DbWrite, BodiesMove
  <2>2. CASE u # s
    BY <1>1, <1>2, <1>5, <1>7, <2>2 DEF DbWrite
  <2> QED
    BY <2>1, <2>2
<1> QED
  BY <1>1, <1>6, <1>7, OnlyDbWrites DEF db

\* A driven thread past its fetch is the last run's thread in memory.
LEMMA Driven ==
    ASSUME TypeInv, NEW h \in Host, NEW s \in Source, job[h].pc = "run", job[h].cur = s
    PROVE  job[h].run \in Day /\ Drives(h, job[h].run, s) /\ Current(h, job[h].run, s) = live[h]
BY HostType DEF Drives, Current

\* What IndexInv says of the thread that is about to re-index a source.
LEMMA AboutToIndex ==
    ASSUME TypeInv, IndexInv, NEW h \in Host, NEW s \in Source, Reindex(h, s)
    PROVE  /\ live[h].body # 0 /\ documents[s].body <= live[h].body
           /\ live[h].body <= page[s]
           /\ documents[s].body \in {0, live[h].body}
              \/ Class[documents[s].body] # Class[live[h].body]
<1>1. job[h].pc = "run" /\ job[h].cur = s /\ live[h].next = "reindex"
  BY DEF Reindex, AtNode
<1>2. TextOK(documents[s].body, page[s], live[h])
  BY <1>1, Driven DEF IndexInv, PageOK
<1>3. Reindexing(live[h]) /\ HasPage(live[h])
  BY <1>1 DEF Reindexing, HasPage, Holds
<1> QED
  BY <1>2, <1>3 DEF TextOK

\* A step keeps every row in order.
LEMMA RowStep ==
    ASSUME OneScheduler, TypeInv, IndexInv, [Next]_vars, NEW s \in Source
    PROVE  RowOK(s)'
<1>0. /\ RowOK(s) /\ documents[s].body \in Nat
      /\ page[s] \in Nat /\ page'[s] \in Nat /\ page[s] <= page'[s]
  <2>1. documents[s] \in Chunks /\ documents[s].body \in Body
    BY DEF TypeInv, TypeOK, Chunks
  <2> QED
    BY <2>1, PageGrows, ConstantsAssumption DEF Body, IndexInv
<1>1. CASE /\ documents'[s].body = documents[s].body /\ sources'[s].body = sources[s].body
           /\ sources'[s].status = "absent" <=> sources[s].status = "absent"
  BY <1>0, <1>1 DEF RowOK
<1>2. ASSUME NEW h \in Host, Reindex(h, s), documents'[s].body = live[h].body,
             sources'[s].body = live[h].body, sources'[s].status # "absent"
      PROVE  RowOK(s)'
  <2>1. live[h].body # 0 /\ live[h].body <= page[s]
    BY <1>2, AboutToIndex
  <2>2. live[h].body \in Nat
    BY HostType, ConstantsAssumption DEF Thread, Body
  <2> QED
    BY <1>0, <1>2, <2>1, <2>2 DEF RowOK
<1>3. ASSUME NEW h \in Host, IngestStore(h, s)
      PROVE  FALSE
  BY <1>3 DEF IngestStore, IndexInv
<1>4. ASSUME NEW h \in Host, BackfillSourceBodies(h, s), documents'[s].body = documents[s].body,
             sources'[s].body = snapshot[h][s], sources'[s].status = sources[s].status
      PROVE  RowOK(s)'
  <2>1. Unbacked(s)
    BY <1>0, <1>4 DEF BackfillSourceBodies, RowOK, Unbacked
  <2>2. snapshot[h][s] \in {0, documents[s].body}
    BY <2>1 DEF IndexInv
  <2> QED
    BY <1>0, <1>4, <2>2 DEF RowOK
<1> QED
  BY <1>1, <1>2, <1>3, <1>4, AllBodiesMove DEF BodiesMove

\* A step keeps the snapshots of unbacked sources: a chunk node is never at one.
LEMMA SnapshotStep ==
    ASSUME OneScheduler, TypeInv, BlindInv, IndexInv, [Next]_vars, NEW h \in Host, NEW s \in Source,
           Unbacked(s)'
    PROVE  snapshot'[h][s] \in {0, documents'[s].body}
<1>1. Unbacked(s)
  BY BackedStays
<1>2. ASSUME NEW g \in Host, Chunk(g, s) \/ Reindex(g, s)
      PROVE  FALSE
  <2>1. job[g].pc = "run" /\ job[g].cur = s /\ Reindexing(live[g])
    BY <1>2 DEF Chunk, Reindex, AtNode, Reindexing
  <2>2. Reindexing(Current(g, job[g].run, s)) /\ job[g].run \in Day
    BY <2>1, Driven
  <2> QED
    BY <1>1, <2>2 DEF BlindInv
<1>3. ASSUME NEW g \in Host, IngestStore(g, s) \/ IngestFetch(g, s)
      PROVE  FALSE
  BY <1>3 DEF IngestStore, IngestFetch, IndexInv
<1>4. snapshot'[h][s] = snapshot[h][s]
  BY <1>2, <1>3, SnapshotMoves
<1>5. documents'[s].body = documents[s].body
  BY <1>2, <1>3, AllBodiesMove DEF BodiesMove
<1> QED
  BY <1>1, <1>4, <1>5 DEF IndexInv

\* A newer page served changes nothing of what TextOK says.
LEMMA TextStays ==
    ASSUME NEW text, NEW served \in Nat, NEW later \in Nat, served <= later, NEW thread \in Thread,
           TextOK(text, served, thread)
    PROVE  TextOK(text, later, thread)
<1>1. thread.body \in Nat
  BY ConstantsAssumption DEF Thread, Body
<1> QED
  BY <1>1 DEF TextOK

\* Nor does a re-index with the thread's own page.
LEMMA TextReindexed ==
    ASSUME NEW text \in Nat, text # 0, NEW served \in Nat, text <= served, NEW thread,
           HasPage(thread) => thread.body = text
    PROVE  TextOK(text, served, thread)
<1>1. Reindexing(thread) \/ thread.next = "verify_only" => HasPage(thread)
  BY DEF Reindexing, HasPage, Holds
<1> QED
  BY <1>1 DEF TextOK

\* A node keeps the page its thread has, and does not touch one that has ended.
LEMMA WorkLag ==
    ASSUME TypeInv, NEW h \in Host, NEW s \in Source, Works(h, s), live[h].next \in Nodes
    PROVE  Lag(live[h], live'[h])
<1>1. Becoming(h, s, live[h], live'[h]) /\ ThreadOK(live[h])
  BY WorkLive, HostType
<1>2. ~Judged(live[h]) /\ live[h].next # "end"
  BY DEF Judged, Nodes
<1>3. ASSUME Holds(live[h])
      PROVE  HasPage(live'[h]) /\ live'[h].body = live[h].body
  <2>1. CASE live'[h].next = "end"
    <3>1. live[h].next \in {"reindex", "verify_only"} /\ live'[h].status = live[h].verdict
          /\ live'[h].body = live[h].body
      BY <1>1, <1>3, <2>1 DEF Becoming, Holds
    <3>2. live[h].verdict \in Verdicts
      BY <1>1, <3>1 DEF ThreadOK
    <3> QED
      BY <2>1, <3>1, <3>2 DEF HasPage, Judged
  <2>2. CASE live'[h].next # "end"
    BY <1>1, <1>3, <2>2 DEF Becoming, Holds, HasPage
  <2> QED
    BY <2>1, <2>2
<1> QED
  BY <1>2, <1>3 DEF Lag, HasPage

\* From one step of a thread to the next, unless what it did is lost.
LEMMA MovesLag ==
    ASSUME TypeInv, [Next]_vars, NEW h \in Host, NEW r \in Day, NEW s \in Source
    PROVE  \/ Lag(Current(h, r, s), Current(h, r, s)')
           \/ saved'[h][r][s] = saved[h][r][s] /\ Current(h, r, s)' = saved[h][r][s]
<1>1. Moves(h, r, s)
  BY AllMoves
<1>2. CASE Current(h, r, s)' = Current(h, r, s)
  BY <1>2 DEF Lag
<1>3. CASE Loses(h) /\ Drives(h, r, s) /\ Current(h, r, s)' = saved[h][r][s]
  BY <1>3 DEF Loses, Crash, CheckpointLost, disk
<1>4. CASE Current(h, r, s).next = "none"
  BY <1>4 DEF Lag, HasPage, Holds, Judged
<1>5. CASE Drives(h, r, s) /\ live[h].next \in Nodes /\ Works(h, s) /\ Current(h, r, s)' = live'[h]
  BY <1>5, WorkLag DEF Current
<1> QED
  BY <1>1, <1>2, <1>3, <1>4, <1>5 DEF Moves

\* The thread on disk lags the thread in memory, before and after every step.
LEMMA LagStep ==
    ASSUME TypeInv, [Next]_vars, NEW h \in Host, NEW r \in Day, NEW s \in Source,
           Lag(saved[h][r][s], Current(h, r, s))
    PROVE  Lag(saved'[h][r][s], Current(h, r, s)')
<1>1. \A t : Lag(t, t)
  BY DEF Lag
<1>2. \A t, u, v : Lag(t, u) /\ Lag(u, v) => Lag(t, v)
  BY DEF Lag, HasPage, Holds, Judged
<1>3. saved'[h][r][s] \in {saved[h][r][s], Current(h, r, s)}
  BY AllMoves DEF Moves
<1> QED
  BY <1>1, <1>2, <1>3, MovesLag

\* A node that leaves the text of its source alone leaves TextOK to its thread.
LEMMA WorkText ==
    ASSUME TypeInv, [Next]_vars, IndexInv, NEW h \in Host, NEW s \in Source, Works(h, s),
           live[h].next \in Nodes, TextOK(documents[s].body, page[s], live[h]),
           documents'[s].body = documents[s].body
    PROVE  TextOK(documents[s].body, page[s], live'[h])
<1>0. /\ Becoming(h, s, live[h], live'[h]) /\ RowOK(s)
      /\ documents[s].body \in Nat /\ page[s] \in Nat /\ page[s] # 0
  <2>1. documents[s] \in Chunks /\ documents[s].body \in Body /\ page[s] \in Version
    BY DEF TypeInv, TypeOK, Chunks
  <2> QED
    BY <2>1, WorkLive, ConstantsAssumption DEF Body, Version, IndexInv
<1>1. CASE live[h].next = "fetch"
  <2>1. CASE live'[h].next = "diff" /\ live'[h].body = page[s]
    BY <1>0, <2>1 DEF TextOK, RowOK, HasPage, Holds, Judged, Reindexing
  <2>2. CASE live'[h].next \in {"fetch", "record_failure"}
    BY <2>2 DEF TextOK, HasPage, Holds, Judged, Reindexing
  <2> QED
    BY <1>0, <1>1, <2>1, <2>2 DEF Becoming
<1>2. CASE live[h].next = "diff"
  <2>1. /\ ~Unbacked(s) /\ live'[h].body = live[h].body
        /\ live'[h].verdict = Verdict(s, live[h])
        /\ live'[h].next = IF live'[h].verdict = "meaningful" THEN "chunk" ELSE "verify_only"
    BY <1>0, <1>2 DEF Becoming
  <2>2. /\ live[h].body # 0 /\ documents[s].body <= live[h].body /\ live[h].body <= page[s]
    BY <1>2 DEF TextOK, HasPage, Holds
  <2>3. sources[s].body = documents[s].body
    BY <1>0, <2>1 DEF RowOK, Unbacked
  <2>4. CASE live'[h].next = "chunk"
    <3>1. documents[s].body \in {0, live[h].body} \/ Class[documents[s].body] # Class[live[h].body]
      BY <2>1, <2>3, <2>4 DEF Verdict, Classify
    <3> QED
      BY <2>1, <2>2, <2>4, <3>1 DEF TextOK
  <2>5. CASE live'[h].next = "verify_only"
    <3>1. documents[s].body # 0 /\ Class[documents[s].body] = Class[live[h].body]
      BY <2>1, <2>3, <2>5 DEF Verdict, Classify
    <3> QED
      BY <2>1, <2>2, <2>5, <3>1 DEF TextOK, Reindexing
  <2> QED
    BY <2>1, <2>4, <2>5
<1>3. CASE live[h].next \in {"chunk", "embed"}
  <2>1. live'[h].next \in {"embed", "reindex"} /\ live'[h].body = live[h].body
    BY <1>0, <1>3 DEF Becoming
  <2> QED
    BY <1>3, <2>1 DEF TextOK, HasPage, Holds, Judged, Reindexing
<1>4. CASE live[h].next \in {"reindex", "verify_only"}
  <2>1. live'[h].next = "end" /\ live'[h].body = live[h].body
    BY <1>0, <1>4 DEF Becoming
  <2> QED
    BY <1>4, <2>1 DEF TextOK, HasPage, Holds, Judged, Reindexing
<1>5. CASE live[h].next = "record_failure"
  <2>1. live'[h].next = "end" /\ live'[h].status \notin Verdicts
    BY <1>0, <1>5 DEF Becoming
  <2> QED
    BY <2>1 DEF TextOK, HasPage, Holds, Judged, Reindexing
<1> QED
  BY <1>1, <1>2, <1>3, <1>4, <1>5 DEF Nodes

\* A step of the same run keeps what its threads say of their pages.
LEMMA SameRunPage ==
    ASSUME OneScheduler, TypeInv, IndexInv, [Next]_vars, NEW h \in Host, NEW s \in Source,
           job'[h].run = job[h].run
    PROVE  PageOK(h, s)'
<1> DEFINE r == job[h].run
           text == documents[s].body
           disc == saved[h][r][s]
           mem  == Current(h, r, s)
<1>0. /\ r \in Day /\ text \in Nat /\ text' \in Nat
      /\ page[s] \in Nat /\ page'[s] \in Nat /\ page[s] <= page'[s]
  <2>1. TypeInv'
    BY NextTypeInv
  <2>2. documents[s] \in Chunks /\ documents'[s] \in Chunks
    BY <2>1 DEF TypeInv, TypeOK
  <2> QED
    BY <2>2, HostType, PageGrows, ConstantsAssumption DEF Chunks, Body
<1>1. /\ TextOK(text, page[s], disc) /\ TextOK(text, page[s], mem) /\ Lag(disc, mem)
  BY DEF IndexInv, PageOK
<1>2. Lag(disc', mem') /\ disc' \in {disc, mem}
  <2>1. Lag(saved'[h][r][s], Current(h, r, s)') /\ saved'[h][r][s] \in {disc, mem}
    BY <1>0, <1>1, LagStep, AllMoves DEF Moves
  <2>2. disc' = saved'[h][r][s] /\ mem' = Current(h, r, s)'
    BY DEF Current, Drives
  <2> QED
    BY <2>1, <2>2
<1>3. disc \in Thread /\ mem \in Thread /\ mem' \in Thread
  <2>1. TypeInv'
    BY NextTypeInv
  <2> QED
    BY <1>0, <2>1 DEF TypeInv, TypeOK, Current
<1>4. TextOK(text', page'[s], disc') /\ TextOK(text', page'[s], mem')
  <2>1. ASSUME NEW g \in Host, Reindex(g, s), text' = live[g].body
        PROVE  TextOK(text', page'[s], disc') /\ TextOK(text', page'[s], mem')
    <3>1. g = h /\ mem = live[h]
      BY <2>1, Driven DEF OneScheduler, Reindex, AtNode
    <3>2. text' # 0 /\ text' <= page'[s]
      BY <1>0, <2>1, AboutToIndex
    <3>3. Holds(mem) /\ mem.next # "none"
      BY <2>1, <3>1 DEF Reindex, AtNode, Holds
    <3>4. (HasPage(disc) => disc.body = text') /\ (HasPage(mem) => mem.body = text')
      BY <1>1, <2>1, <3>1 DEF Lag
    <3>5. HasPage(mem') => mem'.body = text'
      <4>1. Lag(mem, mem') \/ mem' = disc
        <5>1. Lag(mem, Current(h, r, s)') \/ Current(h, r, s)' = disc
          BY <1>0, MovesLag
        <5> QED
          BY <5>1 DEF Current, Drives
      <4> QED
        BY <2>1, <3>1, <3>3, <3>4, <4>1 DEF Lag, HasPage
    <3>6. HasPage(disc') => disc'.body = text'
      BY <1>2, <3>4
    <3> HIDE DEF text, disc, mem
    <3> QED
      BY <1>0, <3>2, <3>5, <3>6, TextReindexed
  <2>2. CASE text' = text
    <3>1. TextOK(text, page[s], mem')
      <4>1. Moves(h, r, s)
        BY <1>0, AllMoves
      <4>2. CASE mem' = mem \/ mem' = disc
        BY <1>1, <4>2
      <4>3. CASE mem'.next = "fetch"
        BY <4>3 DEF TextOK, HasPage, Holds, Judged, Reindexing
      <4>4. CASE Works(h, s) /\ live[h].next \in Nodes /\ mem' = live'[h] /\ mem = live[h]
        <5>1. TextOK(text, page[s], live[h])
          BY <1>1, <4>4
        <5> QED
          BY <2>2, <4>4, <5>1, WorkText
      <4>5. mem' = Current(h, r, s)'
        BY DEF Current, Drives
      <4> QED
        BY <4>1, <4>2, <4>3, <4>4, <4>5 DEF Moves, Current
    <3>2. TextOK(text, page[s], disc')
      BY <1>1, <1>2
    <3>3. disc' \in Thread
      BY <1>2, <1>3
    <3> HIDE DEF text, disc, mem
    <3> QED
      BY <1>0, <1>3, <2>2, <3>1, <3>2, <3>3, TextStays
  <2>3. ASSUME NEW g \in Host, IngestStore(g, s)
        PROVE  FALSE
    BY <2>3 DEF IngestStore, IndexInv
  <2> QED
    BY <2>1, <2>2, <2>3, AllBodiesMove DEF BodiesMove
<1> QED
  BY <1>2, <1>4 DEF PageOK

\* Where the run of a host goes: it is the same, or a later one than any with a thread.
LEMMA RunMoves ==
    ASSUME OneScheduler, TypeInv, IndexInv, [Next]_vars, NEW h \in Host
    PROVE  /\ job'[h].pc \notin {"ingest", "store"}
           /\ job[h].run \in Nat /\ job'[h].run \in Nat
           /\ job[h].run <= job'[h].run /\ job'[h].run <= day'
           /\ job'[h].run # job[h].run => ~ (job[h].pc = "run") /\ ~ (job'[h].pc = "run")
<1>1. /\ day \in Nat /\ day' \in Nat /\ day <= day' /\ job'[h].run \in Nat
      /\ job[h].run \in Nat /\ job[h].run <= day /\ job[h].pc \notin {"ingest", "store"}
  <2>1. TypeInv'
    BY NextTypeInv
  <2>2. /\ day \in Day /\ day' \in Day /\ job[h].run \in Day /\ job'[h].run \in Day
    BY <2>1 DEF TypeInv, TypeOK, Job
  <2>3. \A d \in Day : d \in Nat
    BY ConstantsAssumption DEF Day
  <2>4. day' = day \/ day' = day + 1
    BY DaysMove DEF NextDay
  <2> QED
    BY <2>2, <2>3, <2>4 DEF IndexInv
<1>2. JobMoves(h)
  BY AllJobMoves
<1>3. CASE SameRun(h) /\ job'[h].pc \notin {"ingest", "store"}
  BY <1>1, <1>3 DEF SameRun
<1>4. CASE job'[h] = job[h]
  BY <1>1, <1>4
<1>5. CASE job[h].pc \in {"idle", "done"} /\ job'[h].pc = "next" /\ job'[h].run \in RunIds
           /\ day' = day
  BY <1>1, <1>5 DEF OneScheduler, RunIds
<1> QED
  BY <1>1, <1>2, <1>3, <1>4, <1>5 DEF JobMoves, OneScheduler

\* Every step keeps IndexInv.
LEMMA IndexStep ==
    ASSUME OneScheduler, TypeInv, BlindInv, IndexInv, [Next]_vars
    PROVE  IndexInv'
<1>1. ASSUME NEW h \in Host, NEW s \in Source, NEW r \in Day, r > job'[h].run
      PROVE  saved'[h][r][s] = saved[h][r][s] /\ saved[h][r][s].next = "none"
  <2>1. r \in Nat
    BY ConstantsAssumption DEF Day
  <2>2. r > job[h].run /\ r # job[h].run
    BY <1>1, <2>1, RunMoves
  <2>3. saved'[h][r][s] \in {saved[h][r][s], Current(h, r, s)} /\ ~Drives(h, r, s)
    BY <2>2, AllMoves DEF Moves, Drives
  <2> QED
    BY <2>2, <2>3 DEF Current, IndexInv
<1>2. ASSUME NEW h \in Host, NEW s \in Source
      PROVE  PageOK(h, s)'
  <2>1. CASE job'[h].run = job[h].run
    BY <2>1, SameRunPage
  <2>2. CASE job'[h].run # job[h].run
    <3> DEFINE r == job'[h].run
    <3>1. job[h].run < r /\ job[h].pc # "run" /\ job'[h].pc # "run" /\ r \in Day
      <4>1. TypeInv'
        BY NextTypeInv
      <4>2. r \in Day
        BY <4>1 DEF TypeInv, TypeOK, Job
      <4>3. /\ job[h].run \in Nat /\ r \in Nat /\ job[h].run <= r
            /\ job[h].pc # "run" /\ job'[h].pc # "run"
        BY <2>2, RunMoves
      <4> QED
        BY <2>2, <4>2, <4>3
    <3>2. saved[h][r][s].next = "none"
      BY <3>1, RunMoves DEF IndexInv
    <3>3. saved'[h][r][s] \in {saved[h][r][s], Current(h, r, s)}
      BY <3>1, AllMoves DEF Moves
    <3>4. Current(h, r, s) = saved[h][r][s]
      BY <3>1 DEF Current, Drives
    <3>5. Current(h, job[h].run, s)' = saved'[h][r][s] /\ saved'[h][r][s].next = "none"
      BY <3>1, <3>2, <3>3, <3>4 DEF Current, Drives
    <3> HIDE DEF r
    <3>6. \A t : t.next = "none" => /\ \A text, served : TextOK(text, served, t)
                                    /\ Lag(t, t)
      BY DEF TextOK, Lag, HasPage, Holds, Judged, Reindexing
    <3> QED
      BY <3>5, <3>6 DEF PageOK, r
  <2> QED
    BY <2>1, <2>2
<1>3. ASSUME NEW h \in Host
      PROVE  job'[h].pc \notin {"ingest", "store"} /\ job'[h].run <= day'
  BY RunMoves
<1> QED
  BY <1>1, <1>2, <1>3, RowStep, SnapshotStep DEF IndexInv

\* The initial states satisfy IndexInv.
LEMMA IndexInit == Init => IndexInv
<1> SUFFICES ASSUME Init PROVE IndexInv
  OBVIOUS
<1>1. PICK kind \in [Source -> InitKinds] :
        /\ sources = [s \in Source |->
                IF kind[s] = "new" THEN NoRow
                ELSE [NoRow EXCEPT !.status = "ok",
                                   !.body = IF kind[s] = "legacy" THEN 0 ELSE 1]]
        /\ documents = [s \in Source |->
                [body |-> IF kind[s] = "new" THEN 0 ELSE 1, note |-> InitialNote]]
        /\ \E owner \in SUBSET Host :
                snapshot = [h \in Host |-> [s \in Source |->
                    IF h \in owner /\ kind[s] # "new" THEN 1 ELSE 0]]
  BY DEF Init
<1>2. \A s \in Source : documents[s].body = IF kind[s] = "new" THEN 0 ELSE 1
  BY <1>1
<1>3. ASSUME NEW s \in Source PROVE RowOK(s)
  <2>1. page[s] = 1
    BY DEF Init
  <2>2. CASE kind[s] = "new"
    <3>1. sources[s] = NoRow
      BY <1>1, <2>2
    <3> QED
      BY <1>2, <2>1, <2>2, <3>1 DEF RowOK, NoRow
  <2>3. CASE kind[s] # "new"
    <3>1. sources[s].status = "ok" /\ sources[s].body \in {0, 1}
      BY <1>1, <2>3 DEF NoRow
    <3> QED
      BY <1>2, <2>1, <2>3, <3>1 DEF RowOK
  <2> QED
    BY <2>2, <2>3
<1>4. ASSUME NEW h \in Host, NEW s \in Source PROVE snapshot[h][s] \in {0, documents[s].body}
  <2>1. PICK owner \in SUBSET Host :
                snapshot = [g \in Host |-> [u \in Source |->
                    IF g \in owner /\ kind[u] # "new" THEN 1 ELSE 0]]
    BY <1>1
  <2>2. snapshot[h][s] = IF h \in owner /\ kind[s] # "new" THEN 1 ELSE 0
    BY <2>1
  <2> QED
    BY <1>2, <2>2
<1>5. \A h \in Host : job[h].pc = "idle" /\ job[h].run = 0 /\ day = 0
  BY DEF Init
<1>6. ASSUME NEW h \in Host, NEW r \in Day, NEW s \in Source
      PROVE  Current(h, r, s) = NoThread /\ saved[h][r][s] = NoThread
  BY <1>5 DEF Init, Current, Drives
<1>7. NoThread.next = "none"
  BY DEF NoThread, InitialThread
<1>8. 0 \in Day
  BY ConstantsAssumption DEF Day
<1>9. ASSUME NEW h \in Host, NEW s \in Source PROVE PageOK(h, s)
  <2>1. Current(h, job[h].run, s) = NoThread /\ saved[h][job[h].run][s] = NoThread
    BY <1>5, <1>6, <1>8
  <2>2. TextOK(documents[s].body, page[s], NoThread) /\ Lag(NoThread, NoThread)
    BY <1>7 DEF TextOK, Lag, HasPage, Holds, Judged, Reindexing
  <2> QED
    BY <2>1, <2>2 DEF PageOK
<1> QED
  BY <1>3, <1>4, <1>5, <1>6, <1>7, <1>9 DEF IndexInv

\* IndexInv is an invariant of the scheduled refresh.
LEMMA IndexInvariant ==
    ASSUME OneScheduler
    PROVE  Spec => []IndexInv
<1>1. TypeInv /\ BlindInv /\ IndexInv /\ [Next]_vars => IndexInv'
  BY IndexStep
<1> QED
  BY <1>1, IndexInit, TypeInvariant, BlindInvariant, PTL DEF Spec

\* IndexNeverRegresses: under one scheduler, a body resumed from a checkpoint is never
\* indexed over a newer one, whatever was killed, backfilled, synced or run dry.
THEOREM NeverRegressesCorrect ==
    ASSUME OneScheduler
    PROVE  Spec => IndexNeverRegresses
<1> DEFINE A == \A s \in Source : documents'[s].body >= documents[s].body
<1>1. TypeInv /\ IndexInv /\ [Next]_vars => A
  <2> SUFFICES ASSUME TypeInv, IndexInv, [Next]_vars, NEW s \in Source
               PROVE  documents'[s].body >= documents[s].body
    OBVIOUS
  <2>1. documents[s].body \in Nat /\ documents'[s].body \in Nat
    <3>1. TypeInv'
      BY NextTypeInv
    <3>2. documents[s] \in Chunks /\ documents'[s] \in Chunks
      BY <3>1 DEF TypeInv, TypeOK
    <3> QED
      BY <3>2, ConstantsAssumption DEF Chunks, Body
  <2>2. ASSUME NEW h \in Host, IngestStore(h, s) PROVE FALSE
    BY <2>2 DEF IngestStore, IndexInv
  <2>3. documents'[s].body = documents[s].body
        \/ \E h \in Host : Reindex(h, s) /\ documents'[s].body = live[h].body
    BY <2>2, AllBodiesMove DEF BodiesMove
  <2> QED
    BY <2>1, <2>3, AboutToIndex
<1>2. A => [A]_vars
  OBVIOUS
<1> HIDE DEF A
<1>3. Spec => [][A]_vars
  BY <1>1, <1>2, TypeInvariant, IndexInvariant, PTL DEF Spec
<1> QED
  BY <1>3 DEF A, IndexNeverRegresses

\* ReindexOnlyOnChange: under one scheduler, text indexed is replaced only by text that
\* differs from it, at the moment of the write, in more than order and formatting.
THEOREM OnlyOnChangeCorrect ==
    ASSUME OneScheduler
    PROVE  Spec => ReindexOnlyOnChange
<1> DEFINE A == \A s \in Source :
           documents[s].body # 0 /\ documents'[s].body # documents[s].body
               => Class[documents'[s].body] # Class[documents[s].body]
<1>1. TypeInv /\ IndexInv /\ [Next]_vars => A
  <2> SUFFICES ASSUME TypeInv, IndexInv, [Next]_vars, NEW s \in Source,
                      documents[s].body # 0, documents'[s].body # documents[s].body
               PROVE  Class[documents'[s].body] # Class[documents[s].body]
    OBVIOUS
  <2>1. ASSUME NEW h \in Host, IngestStore(h, s) PROVE FALSE
    BY <2>1 DEF IngestStore, IndexInv
  <2>2. \E h \in Host : Reindex(h, s) /\ documents'[s].body = live[h].body
    BY <2>1, AllBodiesMove DEF BodiesMove
  <2> QED
    BY <2>2, AboutToIndex
<1>2. A => [A]_vars
  OBVIOUS
<1> HIDE DEF A
<1>3. Spec => [][A]_vars
  BY <1>1, <1>2, TypeInvariant, IndexInvariant, PTL DEF Spec
<1> QED
  BY <1>3 DEF A, ReindexOnlyOnChange

-----------------------------------------------------------------------------
(* What a run reports, when no dry run shares its threads.                 *)

\* The last run's thread of a source, in memory and on disk.
InMemory(h, s) == Current(h, job[h].run, s)
OnDisk(h, s)   == saved[h][job[h].run][s]

\* A verdict reported is the status of a thread that has ended on disk, and a source with
\* a verdict has the text of its thread indexed, up to order and formatting.
VerdictInv ==
    \A h \in Host, s \in Source :
        /\ ~job[h].dry
        /\ job[h].report[s] \in Verdicts =>
               OnDisk(h, s).next = "end" /\ OnDisk(h, s).status = job[h].report[s]
        /\ Judged(InMemory(h, s)) =>
               /\ documents[s].body # 0
               /\ Class[documents[s].body] = Class[InMemory(h, s).body]

\* The threads of a new run are yet to be made.
LEMMA NewRun ==
    ASSUME OneScheduler, TypeInv, IndexInv, [Next]_vars, NEW h \in Host, NEW s \in Source,
           job'[h].run # job[h].run
    PROVE  InMemory(h, s)'.next = "none" /\ OnDisk(h, s)'.next = "none"
<1> DEFINE r == job'[h].run
<1>1. job[h].run < r /\ job[h].pc # "run" /\ job'[h].pc # "run" /\ r \in Day
  <2>1. TypeInv'
    BY NextTypeInv
  <2>2. r \in Day
    BY <2>1 DEF TypeInv, TypeOK, Job
  <2>3. /\ job[h].run \in Nat /\ r \in Nat /\ job[h].run <= r
        /\ job[h].pc # "run" /\ job'[h].pc # "run"
    BY RunMoves
  <2> QED
    BY <2>2, <2>3
<1>2. saved[h][r][s].next = "none"
  BY <1>1, RunMoves DEF IndexInv
<1>3. /\ saved'[h][r][s] \in {saved[h][r][s], Current(h, r, s)}
      /\ Current(h, r, s) = saved[h][r][s]
  BY <1>1, AllMoves DEF Moves, Current, Drives
<1> QED
  BY <1>1, <1>2, <1>3 DEF InMemory, OnDisk, Current, Drives

\* A thread comes to a verdict by a write of a live run, and is then left alone.
LEMMA JudgedStep ==
    ASSUME OneScheduler, TypeInv, IndexInv, VerdictInv, [Next]_vars,
           NEW h \in Host, NEW s \in Source, Judged(InMemory(h, s)')
    PROVE  \/ /\ Judged(InMemory(h, s)) /\ InMemory(h, s)' = InMemory(h, s)
              /\ \A g \in Host : ~Reindex(g, s) /\ ~VerifyOnly(g, s)
           \/ /\ Reindex(h, s) \/ VerifyOnly(h, s)
              /\ InMemory(h, s) = live[h] /\ InMemory(h, s)' = live'[h]
              /\ live'[h].body = live[h].body /\ live'[h].note = live[h].note
<1> DEFINE r == job[h].run
<1>1. job'[h].run = r
  BY NewRun DEF Judged
<1>2. r \in Day /\ Moves(h, r, s) /\ InMemory(h, s)' = Current(h, r, s)'
      /\ InMemory(h, s) = Current(h, r, s)
  <2>1. r \in Day /\ Moves(h, r, s)
    BY HostType, AllMoves
  <2>2. InMemory(h, s)' = Current(h, r, s)'
    BY <1>1 DEF InMemory, Current, Drives
  <2> QED
    BY <2>1, <2>2 DEF InMemory
<1>3. CASE Judged(InMemory(h, s)) /\ InMemory(h, s)' = InMemory(h, s)
  <2>1. ASSUME NEW g \in Host, Reindex(g, s) \/ VerifyOnly(g, s)
        PROVE  FALSE
    <3>1. g = h /\ job[h].pc = "run" /\ job[h].cur = s
          /\ live[h].next \in {"reindex", "verify_only"}
      BY <2>1 DEF OneScheduler, Reindex, VerifyOnly, AtNode
    <3>2. InMemory(h, s) = live[h]
      BY <3>1, Driven DEF InMemory
    <3> QED
      BY <1>3, <3>1, <3>2 DEF Judged
  <2> QED
    BY <1>3, <2>1
<1>4. CASE InMemory(h, s)' = saved[h][r][s]
  <2>1. Lag(saved[h][r][s], InMemory(h, s))
    BY DEF IndexInv, PageOK, InMemory
  <2>2. saved[h][r][s] = InMemory(h, s)
    BY <1>4, <2>1 DEF Lag, Judged
  <2> QED
    BY <1>3, <1>4, <2>2
<1>5. CASE Works(h, s) /\ live[h].next \in Nodes /\ InMemory(h, s) = live[h]
           /\ InMemory(h, s)' = live'[h]
  <2>1. /\ Becoming(h, s, live[h], live'[h]) /\ live'[h].note = live[h].note
        /\ ~job[h].dry
    BY <1>5, WorkLive DEF VerdictInv
  <2>2. live'[h].next = "end" /\ live'[h].status \in Verdicts
    BY <1>5 DEF Judged
  <2> QED
    BY <1>5, <2>1, <2>2 DEF Becoming
<1>6. CASE InMemory(h, s)'.next = "fetch"
  BY <1>6 DEF Judged
<1> QED
  BY <1>2, <1>3, <1>4, <1>5, <1>6 DEF Moves, Current

\* A thread that has ended on disk stays.
LEMMA EndStays ==
    ASSUME TypeInv, IndexInv, [Next]_vars, NEW h \in Host, NEW s \in Source,
           OnDisk(h, s).next = "end", job'[h].run = job[h].run
    PROVE  OnDisk(h, s)' = OnDisk(h, s)
<1>1. Lag(OnDisk(h, s), Current(h, job[h].run, s)) /\ job[h].run \in Day
  BY HostType DEF IndexInv, PageOK, OnDisk
<1>2. Current(h, job[h].run, s) = OnDisk(h, s)
  BY <1>1 DEF Lag
<1>3. saved'[h][job[h].run][s] \in {OnDisk(h, s), Current(h, job[h].run, s)}
  BY <1>1, AllMoves DEF Moves, OnDisk
<1> QED
  BY <1>2, <1>3 DEF OnDisk

\* Every step keeps VerdictInv.
LEMMA VerdictStep ==
    ASSUME OneScheduler, "dry_run" \notin Commands, TypeInv, IndexInv, VerdictInv, [Next]_vars
    PROVE  VerdictInv'
<1> SUFFICES ASSUME NEW h \in Host, NEW s \in Source
             PROVE  /\ ~job'[h].dry
                    /\ job'[h].report[s] \in Verdicts =>
                           /\ OnDisk(h, s)'.next = "end"
                           /\ OnDisk(h, s)'.status = job'[h].report[s]
                    /\ Judged(InMemory(h, s)') =>
                           /\ documents'[s].body # 0
                           /\ Class[documents'[s].body] = Class[InMemory(h, s)'.body]
  BY DEF VerdictInv, Judged
<1>0. JobMoves(h) /\ ~job[h].dry
  BY AllJobMoves DEF VerdictInv
<1>1. ~job'[h].dry
  BY <1>0 DEF JobMoves, SameRun
<1>2. ASSUME job'[h].report[s] \in Verdicts
      PROVE  OnDisk(h, s)'.next = "end" /\ OnDisk(h, s)'.status = job'[h].report[s]
  <2>1. job'[h].report # NoReport /\ job'[h].report[s] # "unhandled_error"
    BY <1>2 DEF Verdicts, NoReport
  <2>2. /\ job'[h].run = job[h].run
        /\ \/ job'[h].report[s] = job[h].report[s]
           \/ OnDisk(h, s).next = "end" /\ job'[h].report[s] = OnDisk(h, s).status
    BY <1>0, <2>1 DEF JobMoves, SameRun, Reports, OnDisk
  <2>3. OnDisk(h, s).next = "end" /\ OnDisk(h, s).status = job'[h].report[s]
    BY <1>2, <2>2 DEF VerdictInv
  <2> QED
    BY <2>2, <2>3, EndStays
<1>3. ASSUME Judged(InMemory(h, s)')
      PROVE  /\ documents'[s].body # 0
             /\ Class[documents'[s].body] = Class[InMemory(h, s)'.body]
  <2>1. ASSUME NEW g \in Host, IngestStore(g, s)
        PROVE  FALSE
    BY <2>1 DEF IngestStore, IndexInv
  <2>2. CASE /\ Judged(InMemory(h, s)) /\ InMemory(h, s)' = InMemory(h, s)
             /\ \A g \in Host : ~Reindex(g, s) /\ ~VerifyOnly(g, s)
    <3>1. documents'[s].body = documents[s].body
      BY <2>1, <2>2, AllBodiesMove DEF BodiesMove
    <3> QED
      BY <2>2, <3>1 DEF VerdictInv
  <2>3. CASE Reindex(h, s) /\ InMemory(h, s)' = live'[h] /\ live'[h].body = live[h].body
    <3>1. documents'[s].body = live[h].body
      <4>1. documents[s] \in Chunks /\ documents \in [Source -> Chunks]
        BY DEF TypeInv, TypeOK
      <4> QED
        BY <2>3, <4>1 DEF Reindex, EmbedAndStore
    <3> QED
      BY <2>3, <3>1, AboutToIndex
  <2>4. CASE VerifyOnly(h, s) /\ InMemory(h, s)' = live'[h] /\ live'[h].body = live[h].body
    <3>1. TextOK(documents[s].body, page[s], live[h]) /\ live[h].next = "verify_only"
      BY <2>4, Driven DEF VerifyOnly, AtNode, IndexInv, PageOK
    <3>2. documents'[s].body = documents[s].body
      BY <2>4, KeepsBodies
    <3> QED
      BY <2>4, <3>1, <3>2 DEF TextOK
  <2> QED
    BY <1>3, <2>2, <2>3, <2>4, JudgedStep
<1> QED
  BY <1>1, <1>2, <1>3

\* VerdictInv is an invariant of the scheduled refresh.
LEMMA VerdictInvariant ==
    ASSUME OneScheduler, "dry_run" \notin Commands
    PROVE  Spec => []VerdictInv
<1>1. Init => VerdictInv
  <2> SUFFICES ASSUME Init, NEW h \in Host, NEW s \in Source
               PROVE  /\ ~job[h].dry /\ job[h].report[s] \notin Verdicts
                      /\ ~Judged(InMemory(h, s))
    BY DEF VerdictInv
  <2>1. ~job[h].dry /\ job[h].report[s] = "none" /\ job[h].run = 0 /\ job[h].pc = "idle"
    BY DEF Init, NoReport
  <2>2. InMemory(h, s) = NoThread
    <3>1. 0 \in Day
      BY ConstantsAssumption DEF Day
    <3> QED
      BY <2>1, <3>1 DEF Init, InMemory, Current, Drives
  <2>3. NoThread.next = "none"
    BY DEF NoThread, InitialThread
  <2> QED
    BY <2>1, <2>2, <2>3 DEF Judged, Verdicts
<1>2. TypeInv /\ IndexInv /\ VerdictInv /\ [Next]_vars => VerdictInv'
  BY VerdictStep
<1> QED
  BY <1>1, <1>2, TypeInvariant, IndexInvariant, PTL DEF Spec

\* A verdict reported is that of the run's thread.
LEMMA ReportedJudged ==
    ASSUME IndexInv, VerdictInv, NEW h \in Host, NEW s \in Source, job[h].report[s] \in Verdicts
    PROVE  Judged(InMemory(h, s)) /\ InMemory(h, s) = OnDisk(h, s)
<1>1. OnDisk(h, s).next = "end" /\ OnDisk(h, s).status \in Verdicts
  BY DEF VerdictInv
<1>2. Lag(OnDisk(h, s), InMemory(h, s))
  BY DEF IndexInv, PageOK, OnDisk, InMemory
<1> QED
  BY <1>1, <1>2 DEF Lag, Judged

\* ReportedIsIndexed: under one scheduler, a source that a live run reports with a verdict
\* is indexed with the text that run fetched, up to order and formatting, when no dry run
\* of the same day can leave it a thread that ended without writing.
THEOREM ReportedCorrect ==
    ASSUME OneScheduler, "dry_run" \notin Commands
    PROVE  Spec => []ReportedIsIndexed
<1>1. TypeInv /\ IndexInv /\ VerdictInv => ReportedIsIndexed
  <2> SUFFICES ASSUME TypeInv, IndexInv, VerdictInv, NEW h \in Host, NEW s \in job[h].scope,
                      job[h].report[s] \in Verdicts
               PROVE  /\ documents[s].body # 0
                      /\ Class[documents[s].body] = Class[saved[h][job[h].run][s].body]
    BY DEF ReportedIsIndexed
  <2>1. s \in Source
    BY HostType DEF Job
  <2>2. Judged(InMemory(h, s)) /\ InMemory(h, s) = OnDisk(h, s)
    BY <2>1, ReportedJudged
  <2> QED
    BY <2>1, <2>2 DEF VerdictInv, OnDisk
<1> QED
  BY <1>1, TypeInvariant, IndexInvariant, VerdictInvariant, PTL

-----------------------------------------------------------------------------
(* The annotations a run carries.                                          *)

\* No step of the refresh job changes an annotation of a judged source, unless both a
\* sync may run and the manifest may be edited: without edits every thread carries the
\* annotations that a sync writes.
RuleInv ==
    /\ \A h \in Host, s \in Source : Judged(InMemory(h, s)) =>
           documents[s].note.rule = InMemory(h, s).note.rule
    /\ "edit" \notin Commands => \A h \in Host :
           /\ job[h].entries = manifest
           /\ \A s \in Source : \A thread \in {InMemory(h, s), OnDisk(h, s)} :
                  thread.next # "none" => thread.note = manifest[s]

\* The annotations of a source's chunks stay, or are set by the node that writes, by an
\* ingest or by a sync.
NotesMove(s) ==
    \/ documents'[s].note = documents[s].note
    \/ \E h \in Host : /\ Reindex(h, s) \/ VerifyOnly(h, s)
                       /\ documents'[s].note = PassedNote(live[h].note)
    \/ \E h \in Host : IngestStore(h, s)
    \/ SyncAnnotations(s) /\ documents'[s].note = manifest[s]

LEMMA AllNotesMove ==
    ASSUME TypeInv, [Next]_vars, NEW s \in Source
    PROVE  /\ NotesMove(s)
           /\ \A h \in Host :
                  Reindex(h, s) \/ (VerifyOnly(h, s) /\ documents[s].body # 0)
                      => documents'[s].note = PassedNote(live[h].note)
<1>0. documents \in [Source -> Chunks] /\ documents[s] \in Chunks
  BY DEF TypeInv, TypeOK
<1>1. ASSUME NEW h \in Host, NEW u \in Source, u # s, DbWrite(h, u)
      PROVE  documents'[s] = documents[s]
  BY <1>0, <1>1 DEF DbWrite, Reindex, VerifyOnly, RecordFailure, IngestStore,
     BackfillSourceBodies, EmbedAndStore, TouchLastVerified, RecordSourceFailure, db
<1>2. ASSUME NEW h \in Host, Reindex(h, s)
      PROVE  documents'[s].note = PassedNote(live[h].note)
  BY <1>0, <1>2 DEF Reindex, EmbedAndStore
<1>3. ASSUME NEW h \in Host, VerifyOnly(h, s)
      PROVE  documents'[s].note = IF documents[s].body = 0 THEN documents[s].note
                                  ELSE PassedNote(live[h].note)
  <2>1. documents' = [documents EXCEPT ![s] = [documents[s] EXCEPT !.note =
            IF documents[s].body = 0 THEN documents[s].note ELSE PassedNote(live[h].note)]]
    BY <1>3 DEF VerifyOnly, TouchLastVerified
  <2> QED
    BY <1>0, <2>1 DEF Chunks
<1>4. ASSUME NEW h \in Host, RecordFailure(h, s) \/ BackfillSourceBodies(h, s)
      PROVE  documents'[s] = documents[s]
  BY <1>4 DEF RecordFailure, BackfillSourceBodies, RecordSourceFailure, db
<1>5. ASSUME NEW u \in Source, SyncAnnotations(u)
      PROVE  \/ documents'[s].note = documents[s].note
             \/ SyncAnnotations(s) /\ documents'[s].note = manifest[s]
  BY <1>0, <1>5 DEF SyncAnnotations, Chunks
<1>6. ASSUME NEW h \in Host, NEW u \in Source, DbWrite(h, u)
      PROVE  NotesMove(s)
  BY <1>1, <1>2, <1>3, <1>4, <1>6 DEF DbWrite, NotesMove
<1>7. NotesMove(s)
  BY <1>5, <1>6, OnlyDbWrites DEF NotesMove, db
<1> QED
  BY <1>2, <1>3, <1>7

\* Nobody edits the manifest but a curator.
LEMMA ManifestStays ==
    ASSUME "edit" \notin Commands, [Next]_vars
    PROVE  manifest' = manifest
<1>1. ASSUME NEW h \in Host, HostStep(h) PROVE manifest' = manifest
  <2>1. ASSUME NEW u \in Source, LoopStep(h, u) \/ NodeStep(h, u) \/ NodeRaises(h, u)
                 \/ CheckpointLost(h, u) \/ IngestStep(h, u) \/ BackfillSourceBodies(h, u)
        PROVE  manifest' = manifest
    BY <2>1 DEF LoopStep, NodeStep, NodeRaises, CheckpointLost, IngestStep, SkipTerminal, ResumeThread,
       StartThread, RejectEntry, FetchPage, FetchFails, FetchDisallowed, Diff, DiffRefuses,
       Raises, Chunk, Embed, TakeNow, DryVerdict, Reindex, VerifyOnly, RecordFailure, Persist,
       FinishThread, IngestFetch, IngestDisallowed, IngestStore, BackfillSourceBodies, world
  <2> QED
    BY <1>1, <2>1 DEF HostStep, RefreshStep, EndRun, StartRun, StartIngest, IngestStops,
       Crash, world
<1> QED
  BY <1>1 DEF Next, WorldStep, PageChanges, SyncAnnotations, EditManifest, NextDay, world, vars

\* A step keeps a run's threads and entries on the manifest that nobody edits.
LEMMA NotesStep ==
    ASSUME OneScheduler, "edit" \notin Commands, TypeInv, IndexInv, RuleInv, [Next]_vars,
           NEW h \in Host
    PROVE  /\ job'[h].entries = manifest'
           /\ \A s \in Source : \A thread \in {InMemory(h, s)', OnDisk(h, s)'} :
                  thread.next # "none" => thread.note = manifest'[s]
<1>0. manifest' = manifest /\ job[h].entries = manifest
  BY ManifestStays DEF RuleInv
<1>1. job'[h].entries = manifest'
  BY <1>0, AllJobMoves DEF JobMoves, SameRun
<1>2. ASSUME NEW s \in Source, NEW thread \in {InMemory(h, s)', OnDisk(h, s)'},
             thread.next # "none"
      PROVE  thread.note = manifest[s]
  <2> DEFINE r == job[h].run
  <2>1. job'[h].run = r
    BY <1>2, NewRun
  <2>2. r \in Day /\ Moves(h, r, s)
    BY HostType, AllMoves
  <2>3. InMemory(h, s)' = Current(h, r, s)' /\ OnDisk(h, s)' = saved'[h][r][s]
    BY <2>1 DEF InMemory, OnDisk, Current, Drives
  <2>4. \A t \in {Current(h, r, s), saved[h][r][s]} : t.next # "none" => t.note = manifest[s]
    BY DEF RuleInv, InMemory, OnDisk
  <2>5. saved'[h][r][s] \in {saved[h][r][s], Current(h, r, s)}
    BY <2>2 DEF Moves
  <2>6. CASE Current(h, r, s)' \in {saved[h][r][s], Current(h, r, s)}
    BY <1>2, <2>3, <2>4, <2>5, <2>6
  <2>7. CASE Current(h, r, s)' = InitialThread(job[h].entries[s])
    <3>1. Current(h, r, s)'.note = manifest[s]
      BY <1>0, <2>7 DEF InitialThread
    <3> QED
      BY <1>2, <2>3, <2>4, <2>5, <3>1
  <2>8. CASE /\ Drives(h, r, s) /\ live[h].next \in Nodes
             /\ Works(h, s) /\ Current(h, r, s)' = live'[h]
    <3>1. Current(h, r, s) = live[h] /\ live[h].next # "none" /\ live'[h].note = live[h].note
      BY <2>8, WorkLive DEF Current, Nodes
    <3> QED
      BY <1>2, <2>3, <2>4, <2>5, <2>8, <3>1
  <2> QED
    BY <2>2, <2>6, <2>7, <2>8 DEF Moves
<1> QED
  BY <1>0, <1>1, <1>2

\* Every step keeps RuleInv.
LEMMA RuleStep ==
    ASSUME OneScheduler, "dry_run" \notin Commands, "sync" \notin Commands \/ "edit" \notin Commands,
           TypeInv, IndexInv, VerdictInv, RuleInv, [Next]_vars
    PROVE  RuleInv'
<1>1. ASSUME NEW h \in Host, NEW s \in Source, Judged(InMemory(h, s)')
      PROVE  documents'[s].note.rule = InMemory(h, s)'.note.rule
  <2>0. documents[s] \in Chunks /\ live[h] \in Thread
    BY HostType DEF TypeInv, TypeOK
  <2>1. CASE /\ Judged(InMemory(h, s)) /\ InMemory(h, s)' = InMemory(h, s)
             /\ \A g \in Host : ~Reindex(g, s) /\ ~VerifyOnly(g, s)
    <3>1. documents[s].note.rule = InMemory(h, s).note.rule
      BY <2>1 DEF RuleInv
    <3>2. ASSUME NEW g \in Host, IngestStore(g, s)
          PROVE  FALSE
      BY <3>2 DEF IngestStore, IndexInv
    <3>3. CASE documents'[s].note = documents[s].note
      BY <2>1, <3>1, <3>3
    <3>4. CASE SyncAnnotations(s) /\ documents'[s].note = manifest[s]
      <4>1. "edit" \notin Commands
        BY <3>4 DEF SyncAnnotations
      <4>2. InMemory(h, s).next # "none"
        BY <2>1 DEF Judged
      <4>3. InMemory(h, s).note = manifest[s]
        BY <4>1, <4>2 DEF RuleInv
      <4> QED
        BY <2>1, <3>4, <4>3
    <3> QED
      BY <2>1, <3>2, <3>3, <3>4, AllNotesMove DEF NotesMove
  <2>2. CASE /\ Reindex(h, s) \/ VerifyOnly(h, s)
             /\ InMemory(h, s)' = live'[h] /\ live'[h].note = live[h].note
    <3>1. Reindex(h, s) \/ documents[s].body # 0
      <4>1. CASE VerifyOnly(h, s)
        <5>1. TextOK(documents[s].body, page[s], live[h]) /\ live[h].next = "verify_only"
          BY <4>1, Driven DEF VerifyOnly, AtNode, IndexInv, PageOK
        <5> QED
          BY <5>1 DEF TextOK
      <4> QED
        BY <2>2, <4>1
    <3>2. documents'[s].note = PassedNote(live[h].note)
      BY <2>2, <3>1, AllNotesMove
    <3>3. PassedNote(live[h].note).rule = live[h].note.rule
      BY <2>0 DEF PassedNote, Thread, Note
    <3> QED
      BY <2>2, <3>2, <3>3
  <2> QED
    BY <1>1, <2>1, <2>2, JudgedStep
<1>2. ASSUME "edit" \notin Commands, NEW h \in Host
      PROVE  /\ job'[h].entries = manifest'
             /\ \A s \in Source : \A thread \in {InMemory(h, s)', OnDisk(h, s)'} :
                    thread.next # "none" => thread.note = manifest'[s]
  BY <1>2, NotesStep
<1>3. \A h \in Host, s \in Source : Judged(InMemory(h, s))' <=> Judged(InMemory(h, s)')
  BY DEF Judged
<1> QED
  BY <1>1, <1>2, <1>3 DEF RuleInv

\* RuleIsCarried: under one scheduler, the chunks of a source that a live run reports with
\* a verdict carry the annotations of that run's manifest, when no dry run shares the day
\* and no sync brings the annotations of an edit made since.
THEOREM RuleCorrect ==
    ASSUME OneScheduler, "dry_run" \notin Commands, "sync" \notin Commands \/ "edit" \notin Commands
    PROVE  Spec => []RuleIsCarried
<1>1. Init => RuleInv
  <2> SUFFICES ASSUME Init, NEW h \in Host
               PROVE  /\ job[h].entries = manifest
                      /\ \A s \in Source : /\ InMemory(h, s).next = "none"
                                           /\ OnDisk(h, s).next = "none"
    BY DEF RuleInv, Judged
  <2>1. job[h].entries = manifest /\ job[h].run = 0 /\ job[h].pc = "idle"
    BY DEF Init
  <2>2. ASSUME NEW s \in Source
        PROVE  InMemory(h, s) = NoThread /\ OnDisk(h, s) = NoThread
    <3>1. 0 \in Day
      BY ConstantsAssumption DEF Day
    <3> QED
      BY <2>1, <3>1 DEF Init, InMemory, OnDisk, Current, Drives
  <2>3. NoThread.next = "none"
    BY DEF NoThread, InitialThread
  <2> QED
    BY <2>1, <2>2, <2>3
<1>2. TypeInv /\ IndexInv /\ VerdictInv /\ RuleInv /\ [Next]_vars => RuleInv'
  BY RuleStep
<1>3. TypeInv /\ IndexInv /\ VerdictInv /\ RuleInv => RuleIsCarried
  <2> SUFFICES ASSUME TypeInv, IndexInv, VerdictInv, RuleInv, NEW h \in Host,
                      NEW s \in job[h].scope, job[h].report[s] \in Verdicts
               PROVE  documents[s].note.rule = saved[h][job[h].run][s].note.rule
    BY DEF RuleIsCarried
  <2>1. s \in Source
    BY HostType DEF Job
  <2>2. Judged(InMemory(h, s)) /\ InMemory(h, s) = OnDisk(h, s)
    BY <2>1, ReportedJudged
  <2> QED
    BY <2>1, <2>2 DEF RuleInv, OnDisk
<1> QED
  BY <1>1, <1>2, <1>3, TypeInvariant, IndexInvariant, VerdictInvariant, PTL DEF Spec
=============================================================================
