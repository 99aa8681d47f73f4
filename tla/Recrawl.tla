------------------------------ MODULE Recrawl ------------------------------
(***************************************************************************)
(* The corpus writers of Office Hours: the scheduled refresh job           *)
(* (app/recrawl.py), the manifest ingest (app/ingest.py), the annotation   *)
(* sync (app/sync_annotations.py) and the baseline backfill                *)
(* (app/backfill_source_bodies.py), over the tables `sources` and          *)
(* `documents` they share.                                                 *)
(*                                                                         *)
(* A Host is a machine that runs one command at a time and owns a local    *)
(* disk: the LangGraph checkpoint file and the snapshot directory.  The    *)
(* database is shared by all hosts.  The refresh job drives one checkpointed *)
(* thread per (run id, source); the checkpoint on disk (`saved`) lags the  *)
(* thread in memory (`live`), and a crash loses what was not saved.        *)
(*                                                                         *)
(* Abstractions: a page body is a version number, 0 standing for NULL or   *)
(* no chunks; time is the UTC day; a run id is the day it was minted.      *)
(***************************************************************************)
EXTENDS Naturals, FiniteSets

CONSTANTS
    Host,           \* machines that run commands
    Source,         \* manifest entries
    NoSource,       \* no source is being worked on
    Class,          \* Class[v]: versions of one class differ only cosmetically
    Rule,           \* curator annotations: rule_effective_date, rule_status, rule_status_source
    MaxAttempts,    \* REFRESH_MAX_FETCH_ATTEMPTS
    InitKinds,      \* what a source may be at the start: "new", "indexed", "legacy"
    Commands,       \* what may be run: "recrawl", "dry_run", "ingest", "sync", "backfill",
                    \* and "edit", a curator editing the manifest
    ExplicitRunId,  \* may an operator pass --run-id?
    MaxVersion,     \* bound: page versions
    MaxDay,         \* bound: days
    MaxCrashes      \* bound: processes killed and checkpoints lost

Version == 1..MaxVersion
Body    == 0..MaxVersion        \* 0: no body
Day     == 0..MaxDay
Evid    == {"null", "true"}     \* rule_status_source_evidences_status
Note    == [rule : Rule, evid : Evid]

ASSUME ConstantsAssumption ==
    /\ NoSource \notin Source
    /\ Rule # {}
    /\ MaxAttempts \in Nat \ {0}
    /\ MaxVersion \in Nat \ {0}
    /\ MaxDay \in Nat
    /\ MaxCrashes \in Nat
    /\ ExplicitRunId \in BOOLEAN
    /\ InitKinds \subseteq {"new", "indexed", "legacy"}

Verdicts == {"unchanged", "cosmetic", "meaningful"}
Terminal == Verdicts \cup {"fetch_failed", "robots_disallowed"}
Nodes    == {"fetch", "diff", "chunk", "embed", "reindex", "verify_only", "record_failure"}

VARIABLES
    page,       \* page[s]: the version the web serves
    manifest,   \* manifest[s]: the curator's annotations in sources.yaml
    day,        \* today, UTC
    sources,    \* sources[s]: the row of table `sources`
    documents,  \* documents[s]: what this source's chunks were built from
    snapshot,   \* snapshot[h][s]: the snapshot file on h's disk
    saved,      \* saved[h][r][s]: h's checkpoint of thread r:s
    live,       \* live[h]: the thread h is driving
    job,        \* job[h]: the command h is running
    now,        \* now[h]: the timestamp a node took before its write
    crashes,    \* processes killed and checkpoints lost so far
    found,      \* history: found[s], the threads that diffed s as meaningful
    failing,    \* history: failing[s], the threads that failed s since its last success
    fetchDay    \* history: fetchDay[s], day of the last successful fetch of s

db    == <<sources, documents>>
disk  == <<snapshot, saved>>
world == <<page, manifest, day>>
hist  == <<found, failing, fetchDay>>
vars  == <<page, manifest, day, sources, documents, snapshot, saved, live, job, now,
           crashes, found, failing, fetchDay>>

-----------------------------------------------------------------------------
(* Records.                                                                *)

Row == [status : {"absent", "ok", "fetch_failed", "robots_disallowed"},
        fetched : Day, verified : Day, changed : Day,
        changeCount : Nat, failures : Nat, body : Body]

NoRow == [status |-> "absent", fetched |-> 0, verified |-> 0, changed |-> 0,
          changeCount |-> 0, failures |-> 0, body |-> 0]

Chunks == [body : Body, note : Note]

Thread == [next : Nodes \cup {"none", "end"}, status : Terminal \cup {"pending"},
           attempts : 0..MaxAttempts, robots : BOOLEAN, body : Body,
           verdict : Verdicts \cup {"none"}, note : Note]

\* _initial_state: every field of a thread before its first node.
InitialThread(note) ==
    [next |-> "fetch", status |-> "pending", attempts |-> 0, robots |-> FALSE, body |-> 0,
     verdict |-> "none", note |-> note]

SomeRule == CHOOSE r \in Rule : TRUE

\* No checkpoint, or no thread driven.
NoThread == [InitialThread([rule |-> SomeRule, evid |-> "null"]) EXCEPT !.next = "none"]

Job == [pc : {"idle", "next", "run", "done", "ingest", "store"},
        cur : Source \cup {NoSource}, todo : SUBSET Source, scope : SUBSET Source,
        run : Day, dry : BOOLEAN, started : Day, entries : [Source -> Note],
        report : [Source -> Terminal \cup {"none", "unhandled_error"}]]

NoReport == [s \in Source |-> "none"]

Active(h) == job[h].pc \in {"next", "run", "ingest", "store"}

-----------------------------------------------------------------------------
(* The writes, each one database transaction.                              *)

\* Seeded fault: reordered and reformatted text counts as new text.
FaultyClassify(base, body) == IF base = body THEN "unchanged" ELSE "meaningful"

\* classify_change: equal after normalisation, equal up to order and
\* formatting, or different.
Classify(base, body) ==
    IF base = body THEN "unchanged"
    ELSE IF Class[base] = Class[body] THEN "cosmetic" ELSE "meaningful"

\* Seeded fault: a re-index leaves last_verified_at where it was.
FaultyUpsertVerified(row, body, when, markChanged) ==
    [status |-> "ok", fetched |-> when,
     verified |-> IF row.status = "absent" THEN when ELSE row.verified, changed |-> when,
     changeCount |-> row.changeCount + 1, failures |-> 0, body |-> body]

\* Seeded fault: a re-index keeps the count of failures.
FaultyUpsertFailures(row, body, when, markChanged) ==
    [status |-> "ok", fetched |-> when, verified |-> when, changed |-> when,
     changeCount |-> row.changeCount + 1, failures |-> row.failures, body |-> body]

\* The upsert of _embed_and_store.
Upsert(row, body, when, markChanged) ==
    [status |-> "ok", fetched |-> when, verified |-> when,
     changed |-> IF row.status = "absent" \/ markChanged THEN when ELSE row.changed,
     changeCount |-> IF row.status # "absent" /\ markChanged
                     THEN row.changeCount + 1 ELSE row.changeCount,
     failures |-> 0, body |-> body]

\* _embed_and_store: the row and all chunks of s, replaced together.
EmbedAndStore(s, body, note, when, markChanged) ==
    /\ sources' = [sources EXCEPT ![s] = Upsert(@, body, when, markChanged)]
    /\ documents' = [documents EXCEPT ![s] = [body |-> body, note |-> note]]

\* Seeded fault: verifying a page does not reset its failures.
FaultyTouchKeepsFailures(s, note, when) ==
    /\ sources' = [sources EXCEPT ![s].status = "ok", ![s].verified = when]
    /\ documents' = [documents EXCEPT ![s].note = note]

\* Seeded fault: the annotations are carried on re-index only.
FaultyTouchNoNotes(s, note, when) ==
    /\ sources' = [sources EXCEPT ![s].status = "ok", ![s].verified = when, ![s].failures = 0]
    /\ UNCHANGED documents

\* touch_last_verified: the row's clocks and health, the chunks' annotations.
TouchLastVerified(s, note, when) ==
    /\ sources' = [sources EXCEPT ![s] =
           IF @.status = "absent" THEN @
           ELSE [@ EXCEPT !.status = "ok", !.verified = when, !.failures = 0]]
    /\ documents' = [documents EXCEPT ![s].note = IF documents[s].body = 0 THEN @ ELSE note]

\* record_source_failure: an UPDATE, so nothing when s has no row.
RecordSourceFailure(s, robots) ==
    /\ sources' = [sources EXCEPT ![s] =
           IF @.status = "absent" THEN @
           ELSE IF robots THEN [@ EXCEPT !.status = "robots_disallowed"]
           ELSE [@ EXCEPT !.status = "fetch_failed", !.failures = sources[s].failures + 1]]
    /\ UNCHANGED documents

\* What the refresh job hands to the two writers: the calls in _reindex_node
\* and _verify_only_node leave rule_status_source_evidences_status at its
\* default, None.
PassedNote(note) == [note EXCEPT !.evid = "null"]

-----------------------------------------------------------------------------
(* One command at a time: starting and ending the refresh job.             *)

\* Seeded fault: a run may take the id of an earlier day.
FaultyRunIds == 0..day

\* Seeded fault: an id comes round again, as that of a weekday would.
FaultyRunIdRecurs == {day % 2}

\* run_id: today's UTC date, or the operator's choice of an earlier one.
RunIds == IF ExplicitRunId THEN 0..day ELSE {day}

\* main and the head of run_refresh: read the manifest, keep --only.
StartRun(h, r, dry, only) ==
    /\ job[h].pc \in {"idle", "done"}
    /\ (IF dry THEN "dry_run" ELSE "recrawl") \in Commands
    /\ job' = [job EXCEPT ![h] =
           [pc |-> "next", cur |-> NoSource, todo |-> only, scope |-> only, run |-> r,
            dry |-> dry, started |-> day, entries |-> manifest, report |-> NoReport]]
    /\ UNCHANGED <<db, disk, world, hist, live, now, crashes>>

\* The loop's bookkeeping: s is reported and the loop moves on.
Reported(h, s, result) ==
    job' = [job EXCEPT ![h].pc = "next", ![h].cur = NoSource, ![h].todo = @ \ {s},
                       ![h].report[s] = result]

\* already_terminal: the thread ended in an earlier invocation, so it is skipped.
SkipTerminal(h, s) ==
    /\ job[h].pc = "next" /\ s \in job[h].todo
    /\ saved[h][job[h].run][s].next = "end"
    /\ Reported(h, s, saved[h][job[h].run][s].status)
    /\ UNCHANGED <<db, disk, world, hist, live, now, crashes>>

\* ainvoke(None): the thread goes on from its checkpoint.
ResumeThread(h, s) ==
    /\ job[h].pc = "next" /\ s \in job[h].todo
    /\ saved[h][job[h].run][s].next \in Nodes
    /\ live' = [live EXCEPT ![h] = saved[h][job[h].run][s]]
    /\ job' = [job EXCEPT ![h].pc = "run", ![h].cur = s]
    /\ UNCHANGED <<db, disk, world, hist, now, crashes>>

\* ainvoke(_initial_state(...)): a new thread.
StartThread(h, s) ==
    /\ job[h].pc = "next" /\ s \in job[h].todo
    /\ saved[h][job[h].run][s].next = "none"
    /\ live' = [live EXCEPT ![h] = InitialThread(job[h].entries[s])]
    /\ job' = [job EXCEPT ![h].pc = "run", ![h].cur = s]
    /\ UNCHANGED <<db, disk, world, hist, now, crashes>>

\* validate_rule_status raises in _initial_state: no thread is made.
RejectEntry(h, s) ==
    /\ job[h].pc = "next" /\ s \in job[h].todo
    /\ saved[h][job[h].run][s].next = "none"
    /\ Reported(h, s, "unhandled_error")
    /\ UNCHANGED <<db, disk, world, hist, live, now, crashes>>

EndRun(h) ==
    /\ job[h].pc = "next" /\ job[h].todo = {}
    /\ job' = [job EXCEPT ![h].pc = "done"]
    /\ UNCHANGED <<db, disk, world, hist, live, now, crashes>>

-----------------------------------------------------------------------------
(* The nodes of the refresh graph.                                         *)

AtNode(h, s, node) == job[h].pc = "run" /\ job[h].cur = s /\ live[h].next = node

\* What a node returns, merged into the thread's state by LangGraph.
Becomes(h, thread) == live' = [live EXCEPT ![h] = thread]

\* _fetch_node with a page; _after_fetch routes to diff.
FetchPage(h, s) ==
    /\ AtNode(h, s, "fetch")
    /\ Becomes(h, [live[h] EXCEPT !.attempts = @ + 1, !.robots = FALSE, !.body = page[s],
                                  !.next = "diff"])
    /\ fetchDay' = [fetchDay EXCEPT ![s] = day]
    /\ UNCHANGED <<db, disk, world, job, now, crashes, found, failing>>

\* Seeded fault: one attempt too many.
FaultyFetchOneMore(h, s) ==
    /\ AtNode(h, s, "fetch")
    /\ LET attempts == live[h].attempts + 1
       IN  Becomes(h, [live[h] EXCEPT !.attempts = attempts, !.robots = FALSE, !.body = 0,
                           !.next = IF attempts <= MaxAttempts THEN "fetch"
                                    ELSE "record_failure"])
    /\ UNCHANGED <<db, disk, world, hist, job, now, crashes>>

\* Seeded fault: a failing fetch is retried for ever.
FaultyFetchForever(h, s) ==
    /\ AtNode(h, s, "fetch")
    /\ Becomes(h, [live[h] EXCEPT !.attempts = IF @ < MaxAttempts THEN @ + 1 ELSE 0,
                                  !.body = 0])
    /\ UNCHANGED <<db, disk, world, hist, job, now, crashes>>

\* _fetch_node with an exception: _after_fetch retries while attempts are left.
FetchFails(h, s) ==
    /\ AtNode(h, s, "fetch")
    /\ LET attempts == live[h].attempts + 1
       IN  Becomes(h, [live[h] EXCEPT !.attempts = attempts, !.robots = FALSE, !.body = 0,
                           !.next = IF attempts < MaxAttempts THEN "fetch"
                                    ELSE "record_failure"])
    /\ UNCHANGED <<db, disk, world, hist, job, now, crashes>>

\* _fetch_node with None: robots.txt disallows the page, and nothing retries it.
FetchDisallowed(h, s) ==
    /\ AtNode(h, s, "fetch")
    /\ Becomes(h, [live[h] EXCEPT !.attempts = @ + 1, !.robots = TRUE, !.body = 0,
                                  !.next = "record_failure"])
    /\ UNCHANGED <<db, disk, world, hist, job, now, crashes>>

\* Seeded fault: a source without a baseline is taken for a new one.
FaultyUnbacked(s) == FALSE

\* The state _diff_node refuses: chunks exist but no baseline does.
Unbacked(s) == sources[s].body = 0 /\ documents[s].body # 0

\* Seeded fault: the diff is made against the snapshot file (the code before ADR 0014).
FaultyDiffSnapshot(h, s) ==
    /\ AtNode(h, s, "diff")
    /\ LET verdict == IF snapshot[h][s] = 0 THEN "meaningful"
                      ELSE Classify(snapshot[h][s], live[h].body)
       IN  Becomes(h, [live[h] EXCEPT !.verdict = verdict,
                          !.next = IF verdict = "meaningful" THEN "chunk" ELSE "verify_only"])
    /\ UNCHANGED <<db, disk, world, job, now, crashes, hist>>

\* _diff_node: compare with last_indexed_body; a source never indexed is meaningful.
Diff(h, s) ==
    /\ AtNode(h, s, "diff")
    /\ ~Unbacked(s)
    /\ LET verdict == IF sources[s].body = 0 THEN "meaningful"
                      ELSE Classify(sources[s].body, live[h].body)
       IN  /\ Becomes(h, [live[h] EXCEPT !.verdict = verdict,
                             !.next = IF verdict = "meaningful" THEN "chunk"
                                      ELSE "verify_only"])
           /\ found' = IF verdict = "meaningful"
                       THEN [found EXCEPT ![s] = @ \cup {<<h, job[h].run>>}] ELSE found
    /\ UNCHANGED <<db, disk, world, job, now, crashes, failing, fetchDay>>

\* Seeded fault: a dry run writes the snapshot file.
FaultyChunkDry(h, s) ==
    /\ AtNode(h, s, "chunk")
    /\ snapshot' = [snapshot EXCEPT ![h][s] = live[h].body]
    /\ Becomes(h, [live[h] EXCEPT !.next = "embed"])
    /\ UNCHANGED <<db, world, hist, saved, job, now, crashes>>

\* _chunk_node: the snapshot file is rewritten before anything is indexed.
Chunk(h, s) ==
    /\ AtNode(h, s, "chunk")
    /\ snapshot' = IF job[h].dry THEN snapshot
                   ELSE [snapshot EXCEPT ![h][s] = live[h].body]
    /\ Becomes(h, [live[h] EXCEPT !.next = "embed"])
    /\ UNCHANGED <<db, world, hist, saved, job, now, crashes>>

\* _embed_node passes through.
Embed(h, s) ==
    /\ AtNode(h, s, "embed")
    /\ Becomes(h, [live[h] EXCEPT !.next = "reindex"])
    /\ UNCHANGED <<db, disk, world, hist, job, now, crashes>>

\* _reindex_node and _verify_only_node take their timestamp, then embed or connect.
TakeNow(h, s) ==
    /\ AtNode(h, s, "reindex") \/ AtNode(h, s, "verify_only")
    /\ ~job[h].dry
    /\ now[h] = {}
    /\ now' = [now EXCEPT ![h] = {day}]
    /\ UNCHANGED <<db, disk, world, hist, live, job, crashes>>

\* The thread ends with this status.
Ends(h, status) == Becomes(h, [live[h] EXCEPT !.next = "end", !.status = status])

\* _reindex_node and _verify_only_node of a dry run: the verdict, no write.
DryVerdict(h, s) ==
    /\ AtNode(h, s, "reindex") \/ AtNode(h, s, "verify_only")
    /\ job[h].dry
    /\ Ends(h, live[h].verdict)
    /\ UNCHANGED <<db, disk, world, hist, job, now, crashes>>

\* _reindex_node's write: reindex_source.
Reindex(h, s) ==
    /\ AtNode(h, s, "reindex")
    /\ \E when \in now[h] :
           EmbedAndStore(s, live[h].body, PassedNote(live[h].note), when, TRUE)
    /\ now' = [now EXCEPT ![h] = {}]
    /\ failing' = [failing EXCEPT ![s] = {}]
    /\ Ends(h, live[h].verdict)
    /\ UNCHANGED <<disk, world, job, crashes, found, fetchDay>>

\* Seeded fault: the baseline becomes the body last fetched, not the body indexed.
FaultyVerifyBaseline(h, s) ==
    /\ AtNode(h, s, "verify_only")
    /\ \E when \in now[h] :
           sources' = [sources EXCEPT ![s].verified = when, ![s].body = live[h].body]
    /\ now' = [now EXCEPT ![h] = {}]
    /\ Ends(h, live[h].verdict)
    /\ UNCHANGED <<documents, disk, world, job, crashes, hist>>

\* _verify_only_node's write: touch_last_verified.
VerifyOnly(h, s) ==
    /\ AtNode(h, s, "verify_only")
    /\ \E when \in now[h] : TouchLastVerified(s, PassedNote(live[h].note), when)
    /\ now' = [now EXCEPT ![h] = {}]
    /\ failing' = [failing EXCEPT ![s] = {}]
    /\ Ends(h, live[h].verdict)
    /\ UNCHANGED <<disk, world, job, crashes, found, fetchDay>>

\* _record_failure_node: the failure is written unless the run is dry.
RecordFailure(h, s) ==
    /\ AtNode(h, s, "record_failure")
    /\ IF job[h].dry THEN UNCHANGED db ELSE RecordSourceFailure(s, live[h].robots)
    /\ failing' = IF job[h].dry \/ live[h].robots THEN failing
                  ELSE [failing EXCEPT ![s] = @ \cup {<<h, job[h].run>>}]
    /\ Ends(h, IF live[h].robots THEN "robots_disallowed" ELSE "fetch_failed")
    /\ UNCHANGED <<disk, world, job, now, crashes, found, fetchDay>>

-----------------------------------------------------------------------------
(* Checkpoints, exceptions and crashes.                                    *)

\* The checkpointer writes the thread's latest state to disk, some time after
\* the node that produced it.
Persist(h, s) ==
    /\ job[h].pc = "run" /\ job[h].cur = s
    /\ saved[h][job[h].run][s] # live[h]
    /\ saved' = [saved EXCEPT ![h][job[h].run][s] = live[h]]
    /\ UNCHANGED <<db, world, hist, snapshot, live, job, now, crashes>>

\* ainvoke returns once the final state is saved; the source is reported.
FinishThread(h, s) ==
    /\ AtNode(h, s, "end")
    /\ saved[h][job[h].run][s] = live[h]
    /\ Reported(h, s, live[h].status)
    /\ live' = [live EXCEPT ![h] = NoThread]
    /\ UNCHANGED <<db, disk, world, hist, now, crashes>>

\* A node raised: ainvoke flushes the checkpoint before the node and raises, and
\* run_refresh reports the source as fetch_failed, unhandled_error.
Raises(h, s) ==
    /\ Reported(h, s, "unhandled_error")
    /\ saved' = [saved EXCEPT ![h][job[h].run][s] = live[h]]
    /\ live' = [live EXCEPT ![h] = NoThread]
    /\ now' = [now EXCEPT ![h] = {}]
    /\ UNCHANGED <<db, world, hist, snapshot, crashes>>

DiffRefuses(h, s) == AtNode(h, s, "diff") /\ Unbacked(s) /\ Raises(h, s)

\* The database, the embedder or the disk fails under a node, before its write.
NodeRaises(h, s) ==
    /\ \/ AtNode(h, s, "diff")
       \/ /\ ~job[h].dry
          /\ \E node \in {"chunk", "reindex", "verify_only", "record_failure"} :
                 AtNode(h, s, node)
    /\ Raises(h, s)

\* The checkpointer's put fails, or the reply to a commit is lost: run_refresh
\* reports the source as unhandled_error and goes on, and what the thread did since
\* its last checkpoint, a committed write included, is done again by a resume.
CheckpointLost(h, s) ==
    /\ job[h].pc = "run" /\ job[h].cur = s
    /\ saved[h][job[h].run][s] # live[h]
    /\ crashes < MaxCrashes
    /\ crashes' = crashes + 1
    /\ Reported(h, s, "unhandled_error")
    /\ live' = [live EXCEPT ![h] = NoThread]
    /\ now' = [now EXCEPT ![h] = {}]
    /\ UNCHANGED <<db, disk, world, hist>>

\* The process is killed: what is not on disk or in the database is lost.
Crash(h) ==
    /\ Active(h) /\ crashes < MaxCrashes
    /\ crashes' = crashes + 1
    /\ job' = [job EXCEPT ![h].pc = "idle", ![h].cur = NoSource]
    /\ live' = [live EXCEPT ![h] = NoThread]
    /\ now' = [now EXCEPT ![h] = {}]
    /\ UNCHANGED <<db, disk, world, hist>>

-----------------------------------------------------------------------------
(* The other writers.                                                      *)

\* python -m app.ingest
StartIngest(h) ==
    /\ job[h].pc \in {"idle", "done"} /\ "ingest" \in Commands
    /\ job' = [job EXCEPT ![h] =
           [pc |-> "ingest", cur |-> NoSource, todo |-> Source, scope |-> Source,
            run |-> day, dry |-> FALSE, started |-> day, entries |-> manifest,
            report |-> NoReport]]
    /\ UNCHANGED <<db, disk, world, hist, live, now, crashes>>

\* _fetch_and_snapshot: the page goes to disk first.
IngestFetch(h, s) ==
    /\ job[h].pc = "ingest" /\ s \in job[h].todo
    /\ snapshot' = [snapshot EXCEPT ![h][s] = page[s]]
    /\ job' = [job EXCEPT ![h].pc = "store", ![h].cur = s]
    /\ fetchDay' = [fetchDay EXCEPT ![s] = day]
    /\ UNCHANGED <<db, world, saved, live, now, crashes, found, failing>>

\* _fetch_and_snapshot returns None: the source is passed over.
IngestDisallowed(h, s) ==
    /\ job[h].pc = "ingest" /\ s \in job[h].todo
    /\ job' = [job EXCEPT ![h].todo = @ \ {s}]
    /\ UNCHANGED <<db, disk, world, hist, live, now, crashes>>

\* The snapshot is read back, embedded and stored with every annotation.
IngestStore(h, s) ==
    /\ job[h].pc = "store" /\ job[h].cur = s
    /\ EmbedAndStore(s, snapshot[h][s], job[h].entries[s], day, FALSE)
    /\ failing' = [failing EXCEPT ![s] = {}]
    /\ job' = [job EXCEPT ![h].pc = "ingest", ![h].cur = NoSource, ![h].todo = @ \ {s}]
    /\ UNCHANGED <<disk, world, live, now, crashes, found, fetchDay>>

\* A fetch, an annotation, the embedder or the database raises: the whole
\* ingest stops; or every source is done.
IngestStops(h) ==
    /\ job[h].pc \in {"ingest", "store"}
    /\ job' = [job EXCEPT ![h].pc = "idle", ![h].cur = NoSource]
    /\ UNCHANGED <<db, disk, world, hist, live, now, crashes>>

\* sync_annotations, one source: the manifest's annotations onto every chunk.
SyncAnnotations(s) ==
    /\ "sync" \in Commands
    /\ documents[s].body # 0 /\ documents[s].note # manifest[s]
    /\ documents' = [documents EXCEPT ![s].note = manifest[s]]
    /\ UNCHANGED <<sources, disk, world, hist, live, job, now, crashes>>

\* backfill_source_bodies, one snapshot file: fill a NULL baseline from it.
BackfillSourceBodies(h, s) ==
    /\ "backfill" \in Commands
    /\ snapshot[h][s] # 0
    /\ sources[s].status # "absent" /\ sources[s].body = 0
    /\ sources' = [sources EXCEPT ![s].body = snapshot[h][s]]
    /\ UNCHANGED <<documents, disk, world, hist, live, job, now, crashes>>

-----------------------------------------------------------------------------
(* The world: pages change, curators edit the manifest, days pass.         *)

PageChanges(s) ==
    /\ page[s] < MaxVersion
    /\ page' = [page EXCEPT ![s] = @ + 1]
    /\ UNCHANGED <<manifest, day, db, disk, hist, live, job, now, crashes>>

EditManifest(s, note) ==
    /\ "edit" \in Commands /\ manifest[s] # note
    /\ manifest' = [manifest EXCEPT ![s] = note]
    /\ UNCHANGED <<page, day, db, disk, hist, live, job, now, crashes>>

\* A command ends within a day of its start.
NextDay ==
    /\ day < MaxDay
    /\ \A h \in Host : Active(h) => job[h].started = day
    /\ day' = day + 1
    /\ UNCHANGED <<page, manifest, db, disk, hist, live, job, now, crashes>>

-----------------------------------------------------------------------------
(* Specification.                                                          *)

InitialNote == [rule |-> SomeRule, evid |-> "true"]

\* A source is new, indexed, or indexed before last_indexed_body existed.
Init ==
    /\ page = [s \in Source |-> 1]
    /\ manifest \in [Source -> [rule : Rule, evid : {"true"}]]   \* edited or not since
    /\ day = 0
    /\ \E kind \in [Source -> InitKinds] :
         /\ sources = [s \in Source |->
                IF kind[s] = "new" THEN NoRow
                ELSE [NoRow EXCEPT !.status = "ok",
                                   !.body = IF kind[s] = "legacy" THEN 0 ELSE 1]]
         /\ documents = [s \in Source |->
                [body |-> IF kind[s] = "new" THEN 0 ELSE 1, note |-> InitialNote]]
         /\ \E owner \in SUBSET Host :   \* hosts whose disk holds the ingested snapshots
                snapshot = [h \in Host |-> [s \in Source |->
                    IF h \in owner /\ kind[s] # "new" THEN 1 ELSE 0]]
    /\ saved = [h \in Host |-> [r \in Day |-> [s \in Source |-> NoThread]]]
    /\ live = [h \in Host |-> NoThread]
    /\ job = [h \in Host |->
           [pc |-> "idle", cur |-> NoSource, todo |-> {}, scope |-> {}, run |-> 0,
            dry |-> FALSE, started |-> 0, entries |-> manifest, report |-> NoReport]]
    /\ now = [h \in Host |-> {}]
    /\ crashes = 0
    /\ found = [s \in Source |-> {}]
    /\ failing = [s \in Source |-> {}]
    /\ fetchDay = [s \in Source |-> 0]

\* A node's own step, or the loop's.
LoopStep(h, s) ==
    \/ SkipTerminal(h, s) \/ ResumeThread(h, s) \/ StartThread(h, s) \/ RejectEntry(h, s)

NodeStep(h, s) ==
    \/ FetchPage(h, s) \/ FetchFails(h, s) \/ FetchDisallowed(h, s)
    \/ Diff(h, s) \/ DiffRefuses(h, s)
    \/ Chunk(h, s) \/ Embed(h, s) \/ TakeNow(h, s) \/ DryVerdict(h, s)
    \/ Reindex(h, s) \/ VerifyOnly(h, s) \/ RecordFailure(h, s)
    \/ Persist(h, s) \/ FinishThread(h, s)

IngestStep(h, s) == IngestFetch(h, s) \/ IngestDisallowed(h, s) \/ IngestStore(h, s)

RefreshStep(h) == (\E s \in Source : LoopStep(h, s) \/ NodeStep(h, s)) \/ EndRun(h)

HostStep(h) ==
    \/ RefreshStep(h)
    \/ \E r \in RunIds, dry \in BOOLEAN, only \in (SUBSET Source) \ {{}} :
           StartRun(h, r, dry, only)
    \/ \E s \in Source : \/ NodeRaises(h, s) \/ CheckpointLost(h, s)
                        \/ IngestStep(h, s) \/ BackfillSourceBodies(h, s)
    \/ StartIngest(h) \/ IngestStops(h) \/ Crash(h)

WorldStep ==
    \/ \E s \in Source : PageChanges(s) \/ SyncAnnotations(s)
    \/ \E s \in Source, note \in Note : EditManifest(s, note)
    \/ NextDay

Next == (\E h \in Host : HostStep(h)) \/ WorldStep

Spec == Init /\ [][Next]_vars

\* A process that runs keeps taking steps.
FairSpec == Spec /\ \A h \in Host : WF_vars(RefreshStep(h))

=============================================================================
