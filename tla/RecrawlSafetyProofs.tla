------------------------ MODULE RecrawlSafetyProofs ------------------------
(***************************************************************************)
(* Proofs of the safety properties of RecrawlProperties.                   *)
(***************************************************************************)
EXTENDS RecrawlProofs, FiniteSetTheorems

(* Which steps write the two tables.                                       *)

\* The steps of a host that may change `sources` or `documents`.
DbWrite(h, s) ==
    \/ Reindex(h, s) \/ VerifyOnly(h, s) \/ RecordFailure(h, s)
    \/ IngestStore(h, s) \/ BackfillSourceBodies(h, s)

\* Any other step leaves both tables alone.
LEMMA OnlyDbWrites ==
    ASSUME [Next]_vars
    PROVE  \/ UNCHANGED db
           \/ \E h \in Host, s \in Source : DbWrite(h, s)
           \/ \E s \in Source : SyncAnnotations(s)
<1>1. ASSUME NEW h \in Host, NEW s \in Source, LoopStep(h, s) PROVE UNCHANGED db
  BY <1>1 DEF LoopStep, SkipTerminal, ResumeThread, StartThread, RejectEntry
<1>2. ASSUME NEW h \in Host, NEW s \in Source, NodeStep(h, s)
      PROVE  UNCHANGED db \/ DbWrite(h, s)
  BY <1>2 DEF NodeStep, DbWrite, FetchPage, FetchFails, FetchDisallowed, Diff, DiffRefuses,
     Raises, Chunk, Embed, TakeNow, DryVerdict, Persist, FinishThread
<1>3. ASSUME NEW h \in Host, HostStep(h)
      PROVE  UNCHANGED db \/ \E s \in Source : DbWrite(h, s)
  <2>1. CASE RefreshStep(h)
    BY <1>1, <1>2, <2>1 DEF RefreshStep, EndRun
  <2>2. CASE \E r \in RunIds, dry \in BOOLEAN, only \in (SUBSET Source) \ {{}} :
                 StartRun(h, r, dry, only)
    BY <2>2 DEF StartRun
  <2>3. ASSUME NEW s \in Source, NodeRaises(h, s) \/ CheckpointLost(h, s) PROVE UNCHANGED db
    BY <2>3 DEF NodeRaises, Raises, CheckpointLost
  <2>4. ASSUME NEW s \in Source, IngestStep(h, s) PROVE UNCHANGED db \/ DbWrite(h, s)
    BY <2>4 DEF IngestStep, IngestFetch, IngestDisallowed, DbWrite
  <2>5. ASSUME NEW s \in Source, BackfillSourceBodies(h, s) PROVE DbWrite(h, s)
    BY <2>5 DEF DbWrite
  <2>6. CASE StartIngest(h) \/ IngestStops(h) \/ Crash(h)
    BY <2>6 DEF StartIngest, IngestStops, Crash
  <2> QED
    BY <1>3, <2>1, <2>2, <2>3, <2>4, <2>5, <2>6 DEF HostStep
<1>4. ASSUME WorldStep
      PROVE  UNCHANGED db \/ \E s \in Source : SyncAnnotations(s)
  BY <1>4 DEF WorldStep, PageChanges, EditManifest, NextDay
<1>5. ASSUME UNCHANGED vars PROVE UNCHANGED db
  BY <1>5 DEF vars, db
<1> QED
  BY <1>3, <1>4, <1>5 DEF Next

-----------------------------------------------------------------------------
(* The diff baseline.                                                      *)

\* A source without a row has no chunks; one with a row has chunks built from
\* the body in the row.
Indexed(s) ==
    IF sources[s].status = "absent" THEN sources[s].body = 0 /\ documents[s].body = 0
    ELSE sources[s].body # 0 /\ documents[s].body = sources[s].body

BaselineInv == \A s \in Source : Indexed(s)

\* The writes of one source keep BaselineInv.
LEMMA EmbedAndStoreIndexed ==
    ASSUME TypeInv, BaselineInv, NEW s \in Source, NEW body \in Version, NEW note, NEW when,
           NEW markChanged, EmbedAndStore(s, body, note, when, markChanged)
    PROVE  BaselineInv'
<1>1. body # 0
  BY DEF Version
<1>2. /\ sources'[s].status = "ok" /\ sources'[s].body = body /\ documents'[s].body = body
      /\ \A u \in Source : u # s => sources'[u] = sources[u] /\ documents'[u] = documents[u]
  BY DEF EmbedAndStore, Upsert, TypeInv, TypeOK
<1> QED
  BY <1>1, <1>2 DEF BaselineInv, Indexed

\* Verifying a source or recording its failure moves no body, no fetch and no count
\* of changes, and makes no row.
LEMMA KeepsBodies ==
    ASSUME TypeInv, NEW h \in Host, NEW s \in Source, VerifyOnly(h, s) \/ RecordFailure(h, s)
    PROVE  \A u \in Source :
               /\ sources'[u].body = sources[u].body
               /\ documents'[u].body = documents[u].body
               /\ sources'[u].status = "absent" <=> sources[u].status = "absent"
               /\ sources'[u].fetched = sources[u].fetched
               /\ sources'[u].changeCount = sources[u].changeCount
<1>0. sources \in [Source -> Row] /\ documents \in [Source -> Chunks]
  BY DEF TypeInv, TypeOK
<1>1. CASE VerifyOnly(h, s)
  <2>1. PICK when \in now[h] : TouchLastVerified(s, PassedNote(live[h].note), when)
    BY <1>1 DEF VerifyOnly
  <2>2. \A u \in Source : /\ sources'[u].body = sources[u].body
                          /\ sources'[u].status = "absent" <=> sources[u].status = "absent"
                          /\ sources'[u].fetched = sources[u].fetched
                          /\ sources'[u].changeCount = sources[u].changeCount
    BY <1>0, <2>1 DEF TouchLastVerified, Row
  <2>3. \A u \in Source : documents'[u].body = documents[u].body
    BY <1>0, <2>1 DEF TouchLastVerified, Chunks
  <2> QED
    BY <2>2, <2>3
<1>2. CASE RecordFailure(h, s)
  <2>1. UNCHANGED db \/ RecordSourceFailure(s, live[h].robots)
    BY <1>2 DEF RecordFailure
  <2>2. CASE UNCHANGED db
    BY <2>2 DEF db
  <2>3. CASE RecordSourceFailure(s, live[h].robots)
    <3>1. sources[s] \in Row /\ documents' = documents
      BY <1>0, <2>3 DEF RecordSourceFailure
    <3>2. CASE sources[s].status = "absent"
      <4>1. sources' = sources
        BY <1>0, <2>3, <3>2 DEF RecordSourceFailure
      <4> QED
        BY <3>1, <4>1
    <3>3. CASE sources[s].status # "absent" /\ live[h].robots
      <4>1. sources' = [sources EXCEPT ![s] =
                          [sources[s] EXCEPT !.status = "robots_disallowed"]]
        BY <1>0, <2>3, <3>3 DEF RecordSourceFailure
      <4> QED
        BY <1>0, <3>1, <3>3, <4>1 DEF Row
    <3>4. CASE sources[s].status # "absent" /\ ~live[h].robots
      <4>1. sources' = [sources EXCEPT ![s] =
                          [sources[s] EXCEPT !.status = "fetch_failed",
                                             !.failures = sources[s].failures + 1]]
        BY <1>0, <2>3, <3>4 DEF RecordSourceFailure
      <4> QED
        BY <1>0, <3>1, <3>4, <4>1 DEF Row
    <3> QED
      BY <3>2, <3>3, <3>4
  <2> QED
    BY <2>1, <2>2, <2>3
<1> QED
  BY <1>1, <1>2

\* Every step keeps BaselineInv.
LEMMA BaselineStep ==
    ASSUME TypeInv, BaselineInv, [Next]_vars
    PROVE  BaselineInv'
<1>0. sources \in [Source -> Row] /\ documents \in [Source -> Chunks]
  BY DEF TypeInv, TypeOK
<1>1. ASSUME NEW h \in Host, NEW s \in Source, Reindex(h, s)
      PROVE  BaselineInv'
  <2>1. live[h].body \in Version
    BY <1>1, HostType DEF Reindex, AtNode, ThreadOK
  <2> QED
    BY <1>1, <2>1, EmbedAndStoreIndexed DEF Reindex
<1>2. ASSUME NEW h \in Host, NEW s \in Source, IngestStore(h, s)
      PROVE  BaselineInv'
  <2>1. snapshot[h][s] \in Version
    BY <1>2 DEF IngestStore, TypeInv, StoreOK
  <2> QED
    BY <1>2, <2>1, EmbedAndStoreIndexed DEF IngestStore
<1>3. ASSUME NEW h \in Host, NEW s \in Source, VerifyOnly(h, s) \/ RecordFailure(h, s)
      PROVE  BaselineInv'
  BY <1>3, KeepsBodies DEF BaselineInv, Indexed
<1>5. ASSUME NEW s \in Source, SyncAnnotations(s)
      PROVE  BaselineInv'
  <2>1. sources' = sources /\ \A u \in Source : documents'[u].body = documents[u].body
    BY <1>0, <1>5 DEF SyncAnnotations, Chunks
  <2> QED
    BY <2>1 DEF BaselineInv, Indexed
<1>6. ASSUME NEW h \in Host, NEW s \in Source, BackfillSourceBodies(h, s)
      PROVE  FALSE
  BY <1>6 DEF BackfillSourceBodies, BaselineInv, Indexed
<1>7. CASE UNCHANGED db
  BY <1>7 DEF BaselineInv, Indexed, db
<1> QED
  BY <1>1, <1>2, <1>3, <1>5, <1>6, <1>7, OnlyDbWrites DEF DbWrite

\* BaselineIsIndexed: once every row has been written by code that stores
\* last_indexed_body, the baseline the refresh job diffs against is the text of the
\* chunks, for any number of hosts, crashes and commands interleaved.
THEOREM BaselineCorrect ==
    ASSUME "legacy" \notin InitKinds
    PROVE  Spec => []BaselineIsIndexed
<1>1. Init => BaselineInv
  <2> SUFFICES ASSUME Init PROVE BaselineInv
    OBVIOUS
  <2>1. PICK kind \in [Source -> InitKinds] :
        /\ sources = [s \in Source |->
                IF kind[s] = "new" THEN NoRow
                ELSE [NoRow EXCEPT !.status = "ok",
                                   !.body = IF kind[s] = "legacy" THEN 0 ELSE 1]]
        /\ documents = [s \in Source |->
                [body |-> IF kind[s] = "new" THEN 0 ELSE 1, note |-> InitialNote]]
    BY DEF Init
  <2>2. ASSUME NEW s \in Source PROVE Indexed(s)
    <3>1. kind[s] # "legacy"
      OBVIOUS
    <3>2. CASE kind[s] = "new"
      <4>1. sources[s] = NoRow /\ documents[s].body = 0
        BY <2>1, <3>2
      <4> QED
        BY <4>1 DEF Indexed, NoRow
    <3>3. CASE kind[s] # "new"
      <4>1. sources[s] = [NoRow EXCEPT !.status = "ok", !.body = 1] /\ documents[s].body = 1
        BY <2>1, <3>1, <3>3
      <4> QED
        BY <4>1 DEF Indexed, NoRow
    <3> QED
      BY <3>2, <3>3
  <2> QED
    BY <2>2 DEF BaselineInv
<1>2. BaselineInv => BaselineIsIndexed
  BY DEF BaselineInv, Indexed, BaselineIsIndexed
<1>3. TypeInv /\ BaselineInv /\ [Next]_vars => BaselineInv'
  BY BaselineStep
<1> QED
  BY <1>1, <1>2, <1>3, TypeInvariant, PTL DEF Spec

-----------------------------------------------------------------------------
(* How threads move.  The current state of a thread is the one driven, or  *)
(* else the one on disk.                                                   *)

Drives(h, r, s) == job[h].pc = "run" /\ job[h].run = r /\ job[h].cur = s

Current(h, r, s) == IF Drives(h, r, s) THEN live[h] ELSE saved[h][r][s]

\* Between the verdict "meaningful" and the write of the new text.
Reindexing(thread) == thread.next \in {"chunk", "embed", "reindex"}

\* The nodes' own steps.
Works(h, s) ==
    \/ FetchPage(h, s) \/ FetchFails(h, s) \/ FetchDisallowed(h, s) \/ Diff(h, s)
    \/ Chunk(h, s) \/ Embed(h, s) \/ DryVerdict(h, s)
    \/ Reindex(h, s) \/ VerifyOnly(h, s) \/ RecordFailure(h, s)

\* h loses what its thread did since the last checkpoint.
Loses(h) == Crash(h) \/ \E s \in Source : CheckpointLost(h, s)

\* One step moves a thread from what it is to: the same, the checkpoint on disk
\* (the rest was lost), its first node, or what a node makes of it.
Moves(h, r, s) ==
    /\ saved'[h][r][s] \in {saved[h][r][s], Current(h, r, s)}
    /\ \/ Current(h, r, s)' = Current(h, r, s)
       \/ Loses(h) /\ Drives(h, r, s) /\ Current(h, r, s)' = saved[h][r][s]
       \/ /\ Current(h, r, s).next = "none" /\ Current(h, r, s)'.next = "fetch"
          /\ job[h].run = r /\ Current(h, r, s)' = InitialThread(job[h].entries[s])
       \/ /\ Drives(h, r, s) /\ live[h].next \in Nodes
          /\ Works(h, s) /\ job' = job /\ Current(h, r, s)' = live'[h]
          /\ Reindexing(Current(h, r, s)') => Reindexing(live[h]) \/ Diff(h, s)

\* A step that leaves a host's job, thread and disk alone moves none of its threads.
LEMMA StillMoves ==
    ASSUME NEW h \in Host, NEW r \in Day, NEW s \in Source,
           job'[h] = job[h], live'[h] = live[h], saved'[h] = saved[h]
    PROVE  Moves(h, r, s)
BY DEF Moves, Current, Drives

\* Nor does a step of a host that drives no thread before or after it.
LEMMA IdleMoves ==
    ASSUME NEW h \in Host, NEW r \in Day, NEW s \in Source,
           job[h].pc # "run", job'[h].pc # "run", saved' = saved
    PROVE  Moves(h, r, s)
BY DEF Moves, Current, Drives

\* A step of the thread driven leaves the other threads of its host alone.
LEMMA NodeMoves ==
    ASSUME NEW h \in Host, NEW r \in Day, NEW s \in Source, NEW u \in Source,
           job[h].pc = "run", job[h].cur = u, job' = job, saved' = saved,
           live[h].next \in Nodes, Works(h, u),
           Reindexing(live'[h]) => Reindexing(live[h]) \/ Diff(h, u)
    PROVE  Moves(h, r, s)
BY DEF Moves, Current, Drives

\* A report ends the driving of a thread.
LEMMA ReportedPc ==
    ASSUME TypeInv, NEW h \in Host, NEW s \in Source, NEW result, Reported(h, s, result)
    PROVE  /\ job'[h].pc = "next" /\ job'[h].dry = job[h].dry
           /\ \A g \in Host : g # h => job'[g] = job[g]
<1>1. job \in [Host -> Job] /\ job[h] \in Job
  BY HostType DEF TypeInv, TypeOK
<1> DEFINE report == [job[h].report EXCEPT ![s] = result]
           j == [job[h] EXCEPT !.pc = "next", !.cur = NoSource,
                               !.todo = job[h].todo \ {s}, !.report = report]
<1>2. job' = [job EXCEPT ![h] = j]
  BY DEF Reported
<1> HIDE DEF report
<1>3. j.pc = "next" /\ j.dry = job[h].dry
  BY <1>1 DEF Job
<1> HIDE DEF j
<1> QED
  BY <1>1, <1>2, <1>3

\* The steps of the loop and of the nodes move threads as Moves says.
LEMMA RefreshMoves ==
    ASSUME TypeInv, NEW h \in Host, NEW r \in Day, NEW s \in Source, NEW u \in Source,
           LoopStep(h, u) \/ NodeStep(h, u) \/ NodeRaises(h, u)
    PROVE  Moves(h, r, s)
<1>0. /\ job \in [Host -> Job] /\ job[h] \in Job /\ job[h].run \in Day
      /\ live \in [Host -> Thread] /\ live[h] \in Thread
      /\ saved \in [Host -> [Day -> [Source -> Thread]]]
  BY HostType DEF TypeInv, TypeOK
<1>1. CASE SkipTerminal(h, u) \/ RejectEntry(h, u)
  <2>1. job[h].pc # "run" /\ job'[h].pc # "run" /\ saved' = saved
    BY <1>1, ReportedPc DEF SkipTerminal, RejectEntry, disk
  <2> QED
    BY <2>1, IdleMoves
<1>2. CASE ResumeThread(h, u) \/ StartThread(h, u)
  <2>1. /\ job[h].pc = "next" /\ job'[h].pc = "run" /\ job'[h].cur = u
        /\ job'[h].run = job[h].run /\ saved' = saved
    BY <1>0, <1>2 DEF ResumeThread, StartThread, Job, disk
  <2>2. CASE ResumeThread(h, u)
    <3>1. live'[h] = saved[h][job[h].run][u]
      BY <1>0, <2>2 DEF ResumeThread
    <3> QED
      BY <2>1, <3>1 DEF Moves, Current, Drives
  <2>3. CASE StartThread(h, u)
    <3>1. /\ live'[h].next = "fetch" /\ saved[h][job[h].run][u].next = "none"
          /\ live'[h] = InitialThread(job[h].entries[u])
      BY <1>0, <2>3 DEF StartThread, InitialThread
    <3> QED
      BY <2>1, <3>1 DEF Moves, Current, Drives
  <2> QED
    BY <1>2, <2>2, <2>3
<1>3. CASE FetchPage(h, u) \/ FetchFails(h, u) \/ FetchDisallowed(h, u)
  <2>1. /\ job[h].pc = "run" /\ job[h].cur = u /\ job' = job /\ saved' = saved
        /\ live[h].next = "fetch"
    BY <1>3 DEF FetchPage, FetchFails, FetchDisallowed, AtNode, disk
  <2>2. live'[h].next \in {"fetch", "diff", "record_failure"}
    <3>1. CASE FetchPage(h, u)
      BY <1>0, <3>1 DEF FetchPage, Becomes, Thread
    <3>2. CASE FetchFails(h, u)
      BY <1>0, <3>2 DEF FetchFails, Becomes, Thread
    <3>3. CASE FetchDisallowed(h, u)
      BY <1>0, <3>3 DEF FetchDisallowed, Becomes, Thread
    <3> QED
      BY <1>3, <3>1, <3>2, <3>3
  <2> QED
    BY <1>3, <2>1, <2>2, NodeMoves DEF Nodes, Reindexing, Works
<1>4. CASE Diff(h, u)
  <2>1. /\ job[h].pc = "run" /\ job[h].cur = u /\ job' = job /\ saved' = saved
        /\ live[h].next = "diff"
    BY <1>4 DEF Diff, AtNode, disk
  <2> QED
    BY <1>4, <2>1, NodeMoves DEF Nodes, Works
<1>5. CASE Chunk(h, u) \/ Embed(h, u)
  <2>1. /\ job[h].pc = "run" /\ job[h].cur = u /\ job' = job /\ saved' = saved
        /\ live[h].next \in {"chunk", "embed"}
    BY <1>5 DEF Chunk, Embed, AtNode, disk
  <2> QED
    BY <1>5, <2>1, NodeMoves DEF Nodes, Reindexing, Works
<1>6. CASE TakeNow(h, u)
  <2>1. job'[h] = job[h] /\ live'[h] = live[h] /\ saved'[h] = saved[h]
    BY <1>6 DEF TakeNow, disk
  <2> QED
    BY <2>1, StillMoves
<1>7. CASE DryVerdict(h, u) \/ Reindex(h, u) \/ VerifyOnly(h, u) \/ RecordFailure(h, u)
  <2>1. /\ job[h].pc = "run" /\ job[h].cur = u /\ job' = job /\ saved' = saved
        /\ live[h].next \in {"reindex", "verify_only", "record_failure"}
    BY <1>7 DEF DryVerdict, Reindex, VerifyOnly, RecordFailure, AtNode, disk
  <2>2. PICK status : Ends(h, status)
    BY <1>7 DEF DryVerdict, Reindex, VerifyOnly, RecordFailure
  <2>3. live'[h].next = "end"
    BY <1>0, <2>2 DEF Ends, Becomes, Thread
  <2> QED
    BY <1>7, <2>1, <2>3, NodeMoves DEF Nodes, Reindexing, Works
<1>8. CASE Persist(h, u)
  <2>1. /\ job[h].pc = "run" /\ job[h].cur = u /\ job' = job /\ live' = live
        /\ saved' = [saved EXCEPT ![h][job[h].run][u] = live[h]]
    BY <1>8 DEF Persist
  <2>2. /\ saved'[h][job[h].run][u] = live[h]
        /\ r # job[h].run \/ s # u => saved'[h][r][s] = saved[h][r][s]
    BY <1>0, <2>1
  <2> QED
    BY <2>1, <2>2 DEF Moves, Current, Drives
<1>9. CASE FinishThread(h, u)
  <2>1. /\ job[h].pc = "run" /\ job[h].cur = u /\ job'[h].pc = "next" /\ saved' = saved
        /\ saved[h][job[h].run][u] = live[h]
    BY <1>9, ReportedPc DEF FinishThread, AtNode, disk
  <2> QED
    BY <2>1 DEF Moves, Current, Drives
<1>10. CASE DiffRefuses(h, u) \/ NodeRaises(h, u)
  <2>1. /\ job[h].pc = "run" /\ job[h].cur = u /\ job'[h].pc = "next"
        /\ saved' = [saved EXCEPT ![h][job[h].run][u] = live[h]]
    BY <1>10, ReportedPc DEF DiffRefuses, NodeRaises, Raises, AtNode
  <2>2. /\ saved'[h][job[h].run][u] = live[h]
        /\ r # job[h].run \/ s # u => saved'[h][r][s] = saved[h][r][s]
    BY <1>0, <2>1
  <2> QED
    BY <2>1, <2>2 DEF Moves, Current, Drives
<1> QED
  BY <1>1, <1>2, <1>3, <1>4, <1>5, <1>6, <1>7, <1>8, <1>9, <1>10 DEF LoopStep, NodeStep

\* So do all other steps of the thread's host.
LEMMA OwnMoves ==
    ASSUME TypeInv, NEW h \in Host, NEW r \in Day, NEW s \in Source, HostStep(h)
    PROVE  Moves(h, r, s)
<1>0. job \in [Host -> Job] /\ job[h] \in Job
  BY HostType DEF TypeInv, TypeOK
<1>1. CASE EndRun(h)
  <2>1. job[h].pc # "run" /\ job'[h].pc # "run" /\ saved' = saved
    BY <1>0, <1>1 DEF EndRun, disk
  <2> QED
    BY <2>1, IdleMoves
<1>2. ASSUME NEW n \in RunIds, NEW dry \in BOOLEAN, NEW only \in SUBSET Source,
             StartRun(h, n, dry, only)
      PROVE  Moves(h, r, s)
  <2>1. job[h].pc # "run" /\ job'[h].pc # "run" /\ saved' = saved
    BY <1>0, <1>2 DEF StartRun, disk
  <2> QED
    BY <2>1, IdleMoves
<1>3. ASSUME NEW u \in Source, IngestStep(h, u)
      PROVE  Moves(h, r, s)
  <2>1. job[h].pc # "run" /\ job'[h].pc # "run" /\ saved' = saved
    <3>1. CASE IngestFetch(h, u)
      BY <1>0, <3>1 DEF IngestFetch
    <3>2. CASE IngestDisallowed(h, u)
      <4>1. job' = [job EXCEPT ![h] = [job[h] EXCEPT !.todo = job[h].todo \ {u}]]
            /\ job[h].pc = "ingest"
        BY <3>2 DEF IngestDisallowed
      <4>2. [job[h] EXCEPT !.todo = job[h].todo \ {u}].pc = job[h].pc
        BY <1>0 DEF Job
      <4> QED
        BY <1>0, <3>2, <4>1, <4>2 DEF IngestDisallowed, disk
    <3>3. CASE IngestStore(h, u)
      BY <1>0, <3>3 DEF IngestStore, disk
    <3> QED
      BY <1>3, <3>1, <3>2, <3>3 DEF IngestStep
  <2> QED
    BY <2>1, IdleMoves
<1>4. ASSUME NEW u \in Source, BackfillSourceBodies(h, u)
      PROVE  Moves(h, r, s)
  <2>1. job'[h] = job[h] /\ live'[h] = live[h] /\ saved'[h] = saved[h]
    BY <1>4 DEF BackfillSourceBodies, disk
  <2> QED
    BY <2>1, StillMoves
<1>5. CASE StartIngest(h) \/ IngestStops(h)
  <2>1. job[h].pc # "run" /\ job'[h].pc # "run" /\ saved' = saved
    <3>1. CASE StartIngest(h)
      BY <1>0, <3>1 DEF StartIngest, disk
    <3>2. CASE IngestStops(h)
      BY <1>0, <3>2 DEF IngestStops, disk
    <3> QED
      BY <1>5, <3>1, <3>2
  <2> QED
    BY <2>1, IdleMoves
<1>6. CASE Crash(h)
  <2>1. job'[h].pc = "idle" /\ saved' = saved
    BY <1>0, <1>6 DEF Crash, disk
  <2> QED
    BY <1>6, <2>1 DEF Moves, Current, Drives, Loses
<1>7. ASSUME NEW u \in Source, CheckpointLost(h, u)
      PROVE  Moves(h, r, s)
  <2>1. job[h].pc = "run" /\ job[h].cur = u /\ job'[h].pc = "next" /\ saved' = saved
    BY <1>7, ReportedPc DEF CheckpointLost, disk
  <2>2. Loses(h)
    BY <1>7 DEF Loses
  <2> QED
    BY <2>1, <2>2 DEF Moves, Current, Drives
<1> QED
  BY <1>1, <1>2, <1>3, <1>4, <1>5, <1>6, <1>7, RefreshMoves DEF HostStep, RefreshStep

\* A step of one host leaves the threads of the others alone.
LEMMA HostIsLocal ==
    ASSUME TypeInv, NEW h \in Host, HostStep(h), NEW g \in Host \ {h}
    PROVE  job'[g] = job[g] /\ live'[g] = live[g] /\ saved'[g] = saved[g]
<1>0. /\ job \in [Host -> Job] /\ live \in [Host -> Thread]
      /\ saved \in [Host -> [Day -> [Source -> Thread]]]
  BY DEF TypeInv, TypeOK
<1>1. ASSUME NEW s \in Source, LoopStep(h, s)
      PROVE  job'[g] = job[g] /\ live'[g] = live[g] /\ saved'[g] = saved[g]
  BY <1>0, <1>1 DEF LoopStep, SkipTerminal, ResumeThread, StartThread, RejectEntry, Reported, disk
<1>2. ASSUME NEW s \in Source, NodeStep(h, s)
      PROVE  job'[g] = job[g] /\ live'[g] = live[g] /\ saved'[g] = saved[g]
  <2>1. CASE \/ FetchPage(h, s) \/ FetchFails(h, s) \/ FetchDisallowed(h, s) \/ Diff(h, s)
             \/ Chunk(h, s) \/ Embed(h, s) \/ TakeNow(h, s)
    BY <1>0, <2>1 DEF FetchPage, FetchFails, FetchDisallowed, Diff, Chunk, Embed, TakeNow,
       Becomes, disk
  <2>2. CASE DryVerdict(h, s) \/ Reindex(h, s) \/ VerifyOnly(h, s) \/ RecordFailure(h, s)
    <3>1. PICK status : Ends(h, status)
      BY <2>2 DEF DryVerdict, Reindex, VerifyOnly, RecordFailure
    <3>2. UNCHANGED <<job, saved>>
      BY <2>2 DEF DryVerdict, Reindex, VerifyOnly, RecordFailure, disk
    <3> QED
      BY <1>0, <3>1, <3>2 DEF Ends, Becomes
  <2>3. CASE DiffRefuses(h, s) \/ Persist(h, s) \/ FinishThread(h, s)
    BY <1>0, <2>3 DEF DiffRefuses, Raises, Persist, FinishThread, Reported, disk
  <2> QED
    BY <1>2, <2>1, <2>2, <2>3 DEF NodeStep
<1>3. CASE EndRun(h) \/ StartIngest(h) \/ IngestStops(h) \/ Crash(h)
  BY <1>0, <1>3 DEF EndRun, StartIngest, IngestStops, Crash, disk
<1>4. ASSUME NEW n \in RunIds, NEW dry \in BOOLEAN, NEW only \in SUBSET Source,
             StartRun(h, n, dry, only)
      PROVE  job'[g] = job[g] /\ live'[g] = live[g] /\ saved'[g] = saved[g]
  BY <1>0, <1>4 DEF StartRun, disk
<1>5. ASSUME NEW s \in Source, \/ NodeRaises(h, s) \/ CheckpointLost(h, s)
                                \/ IngestStep(h, s) \/ BackfillSourceBodies(h, s)
      PROVE  job'[g] = job[g] /\ live'[g] = live[g] /\ saved'[g] = saved[g]
  BY <1>0, <1>5 DEF NodeRaises, Raises, CheckpointLost, Reported, IngestStep, IngestFetch, IngestDisallowed,
     IngestStore, BackfillSourceBodies, disk
<1> QED
  BY <1>1, <1>2, <1>3, <1>4, <1>5 DEF HostStep, RefreshStep

\* Every step of the system moves every thread as Moves says.
LEMMA AllMoves ==
    ASSUME TypeInv, [Next]_vars, NEW h \in Host, NEW r \in Day, NEW s \in Source
    PROVE  Moves(h, r, s)
<1>1. ASSUME NEW g \in Host, HostStep(g)
      PROVE  Moves(h, r, s)
  BY <1>1, OwnMoves, HostIsLocal, StillMoves
<1>2. CASE WorldStep
  <2>1. UNCHANGED <<job, live, saved>>
    BY <1>2 DEF WorldStep, PageChanges, SyncAnnotations, EditManifest, NextDay, disk
  <2> QED
    BY <2>1, StillMoves
<1>3. CASE UNCHANGED vars
  BY <1>3, StillMoves DEF vars
<1> QED
  BY <1>1, <1>2, <1>3 DEF Next

-----------------------------------------------------------------------------
(* No blind re-index.                                                      *)

\* A thread between its diff and its write is for a source that has a baseline, or
\* none to have: in memory and on disk.
BlindInv ==
    \A h \in Host, r \in Day, s \in Source :
        Reindexing(Current(h, r, s)) \/ Reindexing(saved[h][r][s]) => ~Unbacked(s)

\* A source that is not unbacked never becomes so.
LEMMA BackedStays ==
    ASSUME TypeInv, [Next]_vars, NEW u \in Source, ~Unbacked(u)
    PROVE  ~Unbacked(u)'
<1>0. sources \in [Source -> Row] /\ documents \in [Source -> Chunks]
  BY DEF TypeInv, TypeOK
<1>1. ASSUME NEW s \in Source, NEW body \in Version, NEW note, NEW when, NEW markChanged,
             EmbedAndStore(s, body, note, when, markChanged)
      PROVE  ~Unbacked(u)'
  BY <1>0, <1>1 DEF EmbedAndStore, Upsert, Unbacked, Version
<1>2. ASSUME NEW h \in Host, NEW s \in Source, Reindex(h, s) PROVE ~Unbacked(u)'
  <2>1. live[h].body \in Version
    BY <1>2, HostType DEF Reindex, AtNode, ThreadOK
  <2> QED
    BY <1>1, <1>2, <2>1 DEF Reindex
<1>3. ASSUME NEW h \in Host, NEW s \in Source, IngestStore(h, s) PROVE ~Unbacked(u)'
  <2>1. snapshot[h][s] \in Version
    BY <1>3 DEF IngestStore, TypeInv, StoreOK
  <2> QED
    BY <1>1, <1>3, <2>1 DEF IngestStore
<1>4. ASSUME NEW h \in Host, NEW s \in Source, VerifyOnly(h, s) \/ RecordFailure(h, s)
      PROVE  ~Unbacked(u)'
  BY <1>4, KeepsBodies DEF Unbacked
<1>5. ASSUME NEW h \in Host, NEW s \in Source, BackfillSourceBodies(h, s)
      PROVE  ~Unbacked(u)'
  <2>1. /\ sources' = [sources EXCEPT ![s] = [sources[s] EXCEPT !.body = snapshot[h][s]]]
        /\ documents' = documents /\ snapshot[h][s] # 0
    BY <1>5 DEF BackfillSourceBodies
  <2>2. sources'[u].body = sources[u].body \/ sources'[u].body # 0
    BY <1>0, <2>1 DEF Row
  <2>3. sources[u].body = 0 => documents[u].body = 0 \/ sources'[u].body # 0
    BY <2>2 DEF Unbacked
  <2> QED
    BY <2>1, <2>2, <2>3 DEF Unbacked
<1>6. ASSUME NEW s \in Source, SyncAnnotations(s) PROVE ~Unbacked(u)'
  <2>1. sources' = sources /\ documents'[u].body = documents[u].body
    BY <1>0, <1>6 DEF SyncAnnotations, Chunks
  <2> QED
    BY <2>1 DEF Unbacked
<1>7. CASE UNCHANGED db
  BY <1>7 DEF Unbacked, db
<1> QED
  BY <1>2, <1>3, <1>4, <1>5, <1>6, <1>7, OnlyDbWrites DEF DbWrite

\* Every step keeps BlindInv: a thread enters Reindexing through its diff only, and a
\* source once backed stays so.
LEMMA BlindStep ==
    ASSUME TypeInv, BlindInv, [Next]_vars
    PROVE  BlindInv'
<1> SUFFICES ASSUME NEW h \in Host, NEW r \in Day, NEW s \in Source,
                    Reindexing(Current(h, r, s))' \/ Reindexing(saved[h][r][s])'
             PROVE  ~Unbacked(s)'
  BY DEF BlindInv
<1>1. Moves(h, r, s)
  BY AllMoves
<1>2. CASE Reindexing(Current(h, r, s)) \/ Reindexing(saved[h][r][s])
  BY <1>2, BackedStays DEF BlindInv
<1>3. CASE Diff(h, s)
  BY <1>3, BackedStays DEF Diff
<1> QED
  BY <1>1, <1>2, <1>3 DEF Moves, Reindexing, Current

\* BlindInv is an invariant of the corpus writers.
LEMMA BlindInvariant == Spec => []BlindInv
<1>1. Init => BlindInv
  <2>1. NoThread.next = "none"
    BY DEF NoThread, InitialThread
  <2>2. ASSUME Init, NEW h \in Host, NEW r \in Day, NEW s \in Source
        PROVE  Current(h, r, s) = NoThread /\ saved[h][r][s] = NoThread
    BY <2>2 DEF Init, Current, Drives
  <2> QED
    BY <2>1, <2>2 DEF BlindInv, Reindexing
<1>2. TypeInv /\ BlindInv /\ [Next]_vars => BlindInv'
  BY BlindStep
<1> QED
  BY <1>1, <1>2, TypeInvariant, PTL DEF Spec

\* NoBlindReindex: only an ingest replaces chunks without a baseline, whatever
\* threads are resumed, on whatever host, and however the baselines are filled in.
THEOREM BlindCorrect == Spec => NoBlindReindex
<1> DEFINE A == \A s \in Source :
           documents[s].body # 0 /\ sources[s].body = 0
               => \/ /\ documents'[s].body = documents[s].body
                     /\ sources'[s].fetched = sources[s].fetched
                  \/ \E h \in Host : /\ job[h].pc = "store" /\ job[h].cur = s
                                     /\ job'[h].pc = "ingest"
<1>1. TypeInv /\ BlindInv /\ [Next]_vars => A
  <2> SUFFICES ASSUME TypeInv, BlindInv, [Next]_vars, NEW s \in Source, Unbacked(s)
               PROVE  \/ /\ documents'[s].body = documents[s].body
                         /\ sources'[s].fetched = sources[s].fetched
                      \/ \E h \in Host : /\ job[h].pc = "store" /\ job[h].cur = s
                                         /\ job'[h].pc = "ingest"
    BY DEF Unbacked
  <2>0. sources \in [Source -> Row] /\ documents \in [Source -> Chunks] /\ job \in [Host -> Job]
    BY DEF TypeInv, TypeOK
  <2>1. ASSUME NEW h \in Host, NEW u \in Source, Reindex(h, u)
        PROVE  documents'[s] = documents[s] /\ sources'[s] = sources[s]
    <3>1. job[h].run \in Day /\ Current(h, job[h].run, u) = live[h] /\ Reindexing(live[h])
      BY <2>1, HostType DEF Reindex, AtNode, Current, Drives, Reindexing
    <3>2. ~Unbacked(u)
      BY <3>1 DEF BlindInv
    <3> QED
      BY <2>0, <2>1, <3>2 DEF Reindex, EmbedAndStore
  <2>2. ASSUME NEW h \in Host, NEW u \in Source, IngestStore(h, u)
        PROVE  \/ documents'[s] = documents[s] /\ sources'[s] = sources[s]
               \/ job[h].pc = "store" /\ job[h].cur = s /\ job'[h].pc = "ingest"
    <3>1. CASE u = s
      BY <2>0, <2>2, <3>1 DEF IngestStore, Job
    <3>2. CASE u # s
      BY <2>0, <2>2, <3>2 DEF IngestStore, EmbedAndStore
    <3> QED
      BY <3>1, <3>2
  <2>3. ASSUME NEW h \in Host, NEW u \in Source, VerifyOnly(h, u) \/ RecordFailure(h, u)
        PROVE  documents'[s].body = documents[s].body /\ sources'[s].fetched = sources[s].fetched
    BY <2>3, KeepsBodies
  <2>4. ASSUME NEW h \in Host, NEW u \in Source, BackfillSourceBodies(h, u)
        PROVE  documents'[s].body = documents[s].body /\ sources'[s].fetched = sources[s].fetched
    BY <2>0, <2>4 DEF BackfillSourceBodies, Row
  <2>5. ASSUME NEW u \in Source, SyncAnnotations(u)
        PROVE  documents'[s].body = documents[s].body /\ sources'[s].fetched = sources[s].fetched
    BY <2>0, <2>5 DEF SyncAnnotations, Chunks
  <2>6. CASE UNCHANGED db
    BY <2>6 DEF db
  <2> QED
    BY <2>1, <2>2, <2>3, <2>4, <2>5, <2>6, OnlyDbWrites DEF DbWrite
<1>2. A => [A]_vars
  OBVIOUS
<1> HIDE DEF A
<1>3. Spec => [][A]_vars
  BY <1>1, <1>2, TypeInvariant, BlindInvariant, PTL DEF Spec
<1> QED
  BY <1>3 DEF A, NoBlindReindex

-----------------------------------------------------------------------------
(* The two counters.                                                       *)

\* The threads of s that have ended.
Ended(s) == {t \in Host \X Day : Current(t[1], t[2], s).next = "end"}

\* Each counter is paid for by a thread that ended, or by what was lost: a
\* process killed, or a checkpoint lost, undoes the end of one thread that had counted.
CountInv ==
    \A s \in Source :
        /\ IsFiniteSet(found[s]) /\ IsFiniteSet(failing[s])
        /\ \A h \in Host, r \in Day :
               Reindexing(Current(h, r, s)) \/ Reindexing(saved[h][r][s]) => <<h, r>> \in found[s]
        /\ sources[s].changeCount <= Cardinality(found[s] \cap Ended(s)) + crashes
        /\ sources[s].failures <= Cardinality(failing[s] \cap Ended(s)) + crashes

\* While nothing is lost, a thread that ended stays ended; a loss un-ends at most one.
LEMMA EndedStays ==
    ASSUME TypeInv, [Next]_vars, NEW s \in Source, NEW t \in Ended(s)
    PROVE  t \in Ended(s)' \/ (Loses(t[1]) /\ t = <<t[1], job[t[1]].run>>)
<1>1. PICK h \in Host, r \in Day : t = <<h, r>> /\ Current(h, r, s).next = "end"
  BY DEF Ended
<1>2. Moves(h, r, s)
  BY AllMoves
<1>3. CASE Current(h, r, s)'.next = "end"
  BY <1>1, <1>3 DEF Ended
<1>4. CASE Loses(h) /\ Drives(h, r, s)
  BY <1>1, <1>4 DEF Drives
<1>5. Drives(h, r, s) => live[h].next \notin Nodes
  BY <1>1 DEF Current, Nodes
<1> QED
  BY <1>1, <1>2, <1>3, <1>4, <1>5 DEF Moves

\* One host loses at a time, and crashes counts it.
LEMMA LossStep ==
    ASSUME TypeInv, NEW h \in Host, Loses(h)
    PROVE  crashes' = crashes + 1 /\ \A g \in Host : Loses(g) => g = h
<1>1. job \in [Host -> Job]
  BY DEF TypeInv, TypeOK
<1>2. ASSUME NEW g \in Host, Loses(g)
      PROVE  job'[g].pc # job[g].pc
  <2>1. CASE Crash(g)
    BY <1>1, <2>1 DEF Crash, Active, Job
  <2>2. ASSUME NEW s \in Source, CheckpointLost(g, s)
        PROVE  job'[g].pc # job[g].pc
    BY <2>2, ReportedPc DEF CheckpointLost
  <2> QED
    BY <1>2, <2>1, <2>2 DEF Loses
<1>3. ASSUME NEW g \in Host, g # h
      PROVE  job'[g] = job[g]
  BY <1>1, <1>3, ReportedPc DEF Loses, Crash, CheckpointLost
<1> QED
  BY <1>2, <1>3 DEF Loses, Crash, CheckpointLost

\* No step but a loss changes the number of losses.
LEMMA CrashesGrow ==
    ASSUME TypeInv, [Next]_vars
    PROVE  crashes' = crashes \/ \E h \in Host : Loses(h)
<1>1. ASSUME NEW h \in Host, HostStep(h)
      PROVE  crashes' = crashes \/ Loses(h)
  <2>1. ASSUME NEW s \in Source, LoopStep(h, s) PROVE crashes' = crashes
    BY <2>1 DEF LoopStep, SkipTerminal, ResumeThread, StartThread, RejectEntry
  <2>2. ASSUME NEW s \in Source, NodeStep(h, s) PROVE crashes' = crashes
    BY <2>2 DEF NodeStep, FetchPage, FetchFails, FetchDisallowed, Diff, DiffRefuses, Raises,
       Chunk, Embed, TakeNow, DryVerdict, Reindex, VerifyOnly, RecordFailure, Persist,
       FinishThread
  <2>3. ASSUME NEW s \in Source,
               NodeRaises(h, s) \/ IngestStep(h, s) \/ BackfillSourceBodies(h, s)
        PROVE  crashes' = crashes
    BY <2>3 DEF NodeRaises, Raises, IngestStep, IngestFetch, IngestDisallowed, IngestStore,
       BackfillSourceBodies
  <2>4. CASE \E r \in RunIds, dry \in BOOLEAN, only \in (SUBSET Source) \ {{}} :
                 StartRun(h, r, dry, only)
    BY <2>4 DEF StartRun
  <2>5. CASE StartIngest(h) \/ IngestStops(h) \/ EndRun(h)
    BY <2>5 DEF StartIngest, IngestStops, EndRun
  <2> QED
    BY <1>1, <2>1, <2>2, <2>3, <2>4, <2>5 DEF HostStep, RefreshStep, Loses
<1>2. CASE WorldStep
  BY <1>2 DEF WorldStep, PageChanges, SyncAnnotations, EditManifest, NextDay
<1>3. CASE UNCHANGED vars
  BY <1>3 DEF vars
<1> QED
  BY <1>1, <1>2, <1>3 DEF Next

\* A counter that does not move stays paid for, when no thread leaves its set.
LEMMA StillPaid ==
    ASSUME TypeInv, [Next]_vars, NEW s \in Source, NEW S, NEW T,
           IsFiniteSet(S), IsFiniteSet(T), S \subseteq T
    PROVE  Cardinality(S \cap Ended(s)) + crashes
               <= Cardinality(T \cap Ended(s)') + crashes'
<1> DEFINE A == S \cap Ended(s)
           B == T \cap Ended(s)'
<1>1. IsFiniteSet(A) /\ IsFiniteSet(B)
  BY FS_Subset
<1>2. Cardinality(A) \in Nat /\ Cardinality(B) \in Nat /\ crashes \in Nat
  BY <1>1, FS_CardinalityType, ConstantsAssumption DEF TypeInv, TypeOK
<1>3. CASE A \subseteq B
  <2>1. Cardinality(A) <= Cardinality(B)
    BY <1>1, <1>3, FS_Subset
  <2>2. crashes' = crashes \/ crashes' = crashes + 1
    BY CrashesGrow, LossStep
  <2> QED
    BY <1>2, <2>1, <2>2
<1>4. CASE ~(A \subseteq B)
  <2>1. PICK t \in A : t \notin B
    BY <1>4
  <2>2. Loses(t[1]) /\ t[1] \in Host
    BY <2>1, EndedStays DEF Ended
  <2>3. A \ {t} \subseteq B
    <3> SUFFICES ASSUME NEW u \in A, u # t PROVE u \in B
      OBVIOUS
    <3>1. u \in Ended(s)' \/ (Loses(u[1]) /\ u = <<u[1], job[u[1]].run>>)
      BY EndedStays
    <3>2. t = <<t[1], job[t[1]].run>>
      BY <2>1, EndedStays
    <3>3. u[1] \in Host
      BY DEF Ended
    <3> QED
      BY <2>2, <3>1, <3>2, <3>3, LossStep
  <2>4. Cardinality(A) - 1 <= Cardinality(B)
    <3>1. Cardinality(A \ {t}) = Cardinality(A) - 1
      BY <1>1, <2>1, FS_RemoveElement
    <3>2. Cardinality(A \ {t}) <= Cardinality(B)
      BY <1>1, <2>3, FS_Subset
    <3> QED
      BY <3>1, <3>2
  <2>5. crashes' = crashes + 1
    BY <2>2, LossStep
  <2> QED
    BY <1>2, <2>4, <2>5
<1> QED
  BY <1>3, <1>4

\* A thread that ends in this step, and counts, pays for one more.
LEMMA OneMorePaid ==
    ASSUME TypeInv, [Next]_vars, NEW s \in Source, NEW S, NEW T, NEW t,
           IsFiniteSet(S), IsFiniteSet(T), S \subseteq T, t \in T,
           t \notin Ended(s), t \in Ended(s)', \A h \in Host : ~Loses(h)
    PROVE  Cardinality(S \cap Ended(s)) + crashes + 1
               <= Cardinality(T \cap Ended(s)') + crashes'
<1> DEFINE A == S \cap Ended(s)
           B == T \cap Ended(s)'
<1>1. IsFiniteSet(A) /\ IsFiniteSet(B)
  BY FS_Subset
<1>2. Cardinality(A) \in Nat /\ Cardinality(B) \in Nat /\ crashes \in Nat /\ crashes' = crashes
  BY <1>1, FS_CardinalityType, CrashesGrow, ConstantsAssumption DEF TypeInv, TypeOK
<1>3. A \cup {t} \subseteq B
  <2>1. ASSUME NEW u \in A PROVE u \in B
    <3>1. u[1] \in Host
      BY DEF Ended
    <3> QED
      BY <3>1, EndedStays
  <2> QED
    BY <2>1
<1>4. IsFiniteSet(A \cup {t}) /\ Cardinality(A \cup {t}) = Cardinality(A) + 1
  BY <1>1, FS_AddElement
<1>5. Cardinality(A \cup {t}) <= Cardinality(B)
  BY <1>1, <1>3, FS_Subset
<1> QED
  BY <1>2, <1>4, <1>5

\* found[s] only grows, by the thread whose diff was meaningful.
LEMMA FoundStep ==
    ASSUME TypeInv, [Next]_vars, NEW s \in Source
    PROVE  \/ found'[s] = found[s]
           \/ \E h \in Host : found'[s] = found[s] \cup {<<h, job[h].run>>}
<1>0. found \in [Source -> SUBSET (Host \X Day)]
  BY DEF TypeInv, TypeOK
<1>1. ASSUME NEW h \in Host, HostStep(h)
      PROVE  found' = found \/ \E u \in Source : Diff(h, u)
  <2>1. ASSUME NEW u \in Source, LoopStep(h, u) PROVE found' = found
    BY <2>1 DEF LoopStep, SkipTerminal, ResumeThread, StartThread, RejectEntry, hist
  <2>2. ASSUME NEW u \in Source, NodeStep(h, u) PROVE found' = found \/ Diff(h, u)
    BY <2>2 DEF NodeStep, FetchPage, FetchFails, FetchDisallowed, DiffRefuses, Raises,
       Chunk, Embed, TakeNow, DryVerdict, Reindex, VerifyOnly, RecordFailure, Persist,
       FinishThread, hist
  <2>3. ASSUME NEW u \in Source,
               \/ NodeRaises(h, u) \/ CheckpointLost(h, u)
               \/ IngestStep(h, u) \/ BackfillSourceBodies(h, u)
        PROVE  found' = found
    BY <2>3 DEF NodeRaises, Raises, CheckpointLost, IngestStep, IngestFetch, IngestDisallowed, IngestStore,
       BackfillSourceBodies, hist
  <2>4. CASE \E r \in RunIds, dry \in BOOLEAN, only \in (SUBSET Source) \ {{}} :
                 StartRun(h, r, dry, only)
    BY <2>4 DEF StartRun, hist
  <2>5. CASE StartIngest(h) \/ IngestStops(h) \/ EndRun(h) \/ Crash(h)
    BY <2>5 DEF StartIngest, IngestStops, EndRun, Crash, hist
  <2> QED
    BY <1>1, <2>1, <2>2, <2>3, <2>4, <2>5 DEF HostStep, RefreshStep
<1>2. ASSUME NEW h \in Host, NEW u \in Source, Diff(h, u)
      PROVE  found'[s] = found[s] \/ found'[s] = found[s] \cup {<<h, job[h].run>>}
  BY <1>0, <1>2 DEF Diff
<1>3. CASE WorldStep
  BY <1>3 DEF WorldStep, PageChanges, SyncAnnotations, EditManifest, NextDay, hist
<1>4. CASE UNCHANGED vars
  BY <1>4 DEF vars
<1> QED
  BY <1>1, <1>2, <1>3, <1>4 DEF Next

\* failing[s] grows by the thread that failed, or is emptied with failures.
LEMMA FailingStep ==
    ASSUME TypeInv, [Next]_vars, NEW s \in Source
    PROVE  \/ failing'[s] = failing[s]
           \/ \E h \in Host : RecordFailure(h, s)
           \/ \E h \in Host : Reindex(h, s) \/ VerifyOnly(h, s) \/ IngestStore(h, s)
<1>0. failing \in [Source -> SUBSET (Host \X Day)]
  BY DEF TypeInv, TypeOK
<1>1. ASSUME NEW h \in Host, HostStep(h)
      PROVE  failing' = failing \/ \E u \in Source :
                 RecordFailure(h, u) \/ Reindex(h, u) \/ VerifyOnly(h, u) \/ IngestStore(h, u)
  <2>1. ASSUME NEW u \in Source, LoopStep(h, u) PROVE failing' = failing
    BY <2>1 DEF LoopStep, SkipTerminal, ResumeThread, StartThread, RejectEntry, hist
  <2>2. ASSUME NEW u \in Source, NodeStep(h, u)
        PROVE  failing' = failing \/ RecordFailure(h, u) \/ Reindex(h, u) \/ VerifyOnly(h, u)
    BY <2>2 DEF NodeStep, FetchPage, FetchFails, FetchDisallowed, Diff, DiffRefuses, Raises,
       Chunk, Embed, TakeNow, DryVerdict, Persist, FinishThread, hist
  <2>3. ASSUME NEW u \in Source,
               \/ NodeRaises(h, u) \/ CheckpointLost(h, u)
               \/ IngestStep(h, u) \/ BackfillSourceBodies(h, u)
        PROVE  failing' = failing \/ IngestStore(h, u)
    BY <2>3 DEF NodeRaises, Raises, CheckpointLost, IngestStep, IngestFetch, IngestDisallowed,
       BackfillSourceBodies, hist
  <2>4. CASE \E r \in RunIds, dry \in BOOLEAN, only \in (SUBSET Source) \ {{}} :
                 StartRun(h, r, dry, only)
    BY <2>4 DEF StartRun, hist
  <2>5. CASE StartIngest(h) \/ IngestStops(h) \/ EndRun(h) \/ Crash(h)
    BY <2>5 DEF StartIngest, IngestStops, EndRun, Crash, hist
  <2> QED
    BY <1>1, <2>1, <2>2, <2>3, <2>4, <2>5 DEF HostStep, RefreshStep
<1>2. ASSUME NEW h \in Host, NEW u \in Source, u # s,
             RecordFailure(h, u) \/ Reindex(h, u) \/ VerifyOnly(h, u) \/ IngestStore(h, u)
      PROVE  failing'[s] = failing[s]
  BY <1>0, <1>2 DEF RecordFailure, Reindex, VerifyOnly, IngestStore
<1>3. CASE WorldStep
  BY <1>3 DEF WorldStep, PageChanges, SyncAnnotations, EditManifest, NextDay, hist
<1>4. CASE UNCHANGED vars
  BY <1>4 DEF vars
<1> QED
  BY <1>1, <1>2, <1>3, <1>4 DEF Next

\* A thread that writes was not ended, and ends with the write.
LEMMA WriterEnds ==
    ASSUME TypeInv, NEW h \in Host, NEW s \in Source,
           Reindex(h, s) \/ RecordFailure(h, s)
    PROVE  /\ <<h, job[h].run>> \notin Ended(s) /\ <<h, job[h].run>> \in Ended(s)'
           /\ \A g \in Host : ~Loses(g)
           /\ Current(h, job[h].run, s) = live[h]
<1>1. live \in [Host -> Thread] /\ job[h].run \in Day /\ crashes \in Nat
  BY HostType, ConstantsAssumption DEF TypeInv, TypeOK
<1>2. PICK status : Ends(h, status)
  BY DEF Reindex, RecordFailure
<1>3. live'[h].next = "end"
  BY <1>1, <1>2 DEF Ends, Becomes, Thread
<1>4. /\ job' = job /\ job[h].pc = "run" /\ job[h].cur = s /\ crashes' = crashes
      /\ live[h].next \in {"reindex", "record_failure"}
  BY DEF Reindex, RecordFailure, AtNode
<1>5. Current(h, job[h].run, s) = live[h] /\ Current(h, job[h].run, s)' = live'[h]
  BY <1>4 DEF Current, Drives
<1>6. \A g \in Host : ~Loses(g)
  BY <1>1, <1>4 DEF Loses, Crash, CheckpointLost
<1> QED
  BY <1>1, <1>3, <1>4, <1>5, <1>6 DEF Ended

\* change_count moves with a re-index of the source, by one at most.
LEMMA ChangeCountStep ==
    ASSUME TypeInv, [Next]_vars, NEW s \in Source
    PROVE  \/ sources'[s].changeCount = sources[s].changeCount
           \/ /\ \E h \in Host : Reindex(h, s)
              /\ sources'[s].changeCount <= sources[s].changeCount + 1
<1>0. sources \in [Source -> Row]
  BY DEF TypeInv, TypeOK
<1>1. sources[s].changeCount \in Nat
  BY <1>0 DEF Row
<1>2. ASSUME NEW h \in Host, NEW u \in Source, Reindex(h, u)
      PROVE  \/ sources'[s].changeCount = sources[s].changeCount
             \/ u = s /\ sources'[s].changeCount <= sources[s].changeCount + 1
  BY <1>0, <1>1, <1>2 DEF Reindex, EmbedAndStore, Upsert
<1>3. ASSUME NEW h \in Host, NEW u \in Source, IngestStore(h, u)
      PROVE  sources'[s].changeCount = sources[s].changeCount
  BY <1>0, <1>3 DEF IngestStore, EmbedAndStore, Upsert
<1>4. ASSUME NEW h \in Host, NEW u \in Source, BackfillSourceBodies(h, u)
      PROVE  sources'[s].changeCount = sources[s].changeCount
  BY <1>0, <1>4 DEF BackfillSourceBodies, Row
<1>5. ASSUME NEW u \in Source, SyncAnnotations(u)
      PROVE  sources'[s].changeCount = sources[s].changeCount
  BY <1>5 DEF SyncAnnotations
<1>6. CASE UNCHANGED db
  BY <1>6 DEF db
<1> QED
  BY <1>2, <1>3, <1>4, <1>5, <1>6, OnlyDbWrites, KeepsBodies DEF DbWrite

\* consecutive_failures is reset, or stays, or counts a failure recorded for the source.
Counts(s) ==
    \/ sources'[s].failures = 0
    \/ /\ sources'[s].failures = sources[s].failures
       /\ \/ failing'[s] = failing[s]
          \/ \E h \in Host : failing'[s] = failing[s] \cup {<<h, job[h].run>>}
    \/ \E h \in Host : /\ RecordFailure(h, s)
                       /\ failing'[s] = failing[s] \cup {<<h, job[h].run>>}
                       /\ sources'[s].failures = sources[s].failures + 1

NoRowNoFailure(s) == sources[s].status = "absent" => sources[s].failures = 0

\* A step counts as Counts says, and a source without a row keeps no failures.
LEMMA FailuresStep ==
    ASSUME TypeInv, [Next]_vars, NEW s \in Source, NoRowNoFailure(s)
    PROVE  NoRowNoFailure(s)' /\ Counts(s)
<1>0. /\ sources \in [Source -> Row] /\ sources[s] \in Row /\ sources[s].failures \in Nat
      /\ failing \in [Source -> SUBSET (Host \X Day)]
  BY DEF TypeInv, TypeOK, Row
<1>1. ASSUME NEW h \in Host, NEW u \in Source, Reindex(h, u) \/ IngestStore(h, u)
      PROVE  NoRowNoFailure(s)' /\ Counts(s)
  <2>1. PICK body, note, when, markChanged : EmbedAndStore(u, body, note, when, markChanged)
    BY <1>1 DEF Reindex, IngestStore
  <2>2. failing' = [failing EXCEPT ![u] = {}]
    BY <1>1 DEF Reindex, IngestStore
  <2>3. CASE u = s
    BY <1>0, <2>1, <2>3 DEF EmbedAndStore, Upsert, NoRowNoFailure, Counts
  <2>4. CASE u # s
    BY <1>0, <2>1, <2>2, <2>4 DEF EmbedAndStore, NoRowNoFailure, Counts
  <2> QED
    BY <2>3, <2>4
<1>2. ASSUME NEW h \in Host, NEW u \in Source, VerifyOnly(h, u)
      PROVE  NoRowNoFailure(s)' /\ Counts(s)
  <2>1. PICK note, when : TouchLastVerified(u, note, when)
    BY <1>2 DEF VerifyOnly
  <2>2. failing' = [failing EXCEPT ![u] = {}]
    BY <1>2 DEF VerifyOnly
  <2>3. CASE u = s /\ sources[s].status = "absent"
    <3>1. sources'[s] = sources[s]
      BY <1>0, <2>1, <2>3 DEF TouchLastVerified
    <3> QED
      BY <2>3, <3>1 DEF NoRowNoFailure, Counts
  <2>4. CASE u = s /\ sources[s].status # "absent"
    <3>1. sources' = [sources EXCEPT ![s] =
                 [sources[s] EXCEPT !.status = "ok", !.verified = when, !.failures = 0]]
      BY <1>0, <2>1, <2>4 DEF TouchLastVerified
    <3>2. sources'[s].failures = 0
      BY <1>0, <3>1 DEF Row
    <3> QED
      BY <3>2 DEF NoRowNoFailure, Counts
  <2>5. CASE u # s
    BY <1>0, <2>1, <2>2, <2>5 DEF TouchLastVerified, NoRowNoFailure, Counts
  <2> QED
    BY <2>3, <2>4, <2>5
<1>3. ASSUME NEW h \in Host, NEW u \in Source, RecordFailure(h, u)
      PROVE  NoRowNoFailure(s)' /\ Counts(s)
  <2>1. CASE u # s
    <3>1. sources'[s] = sources[s]
      BY <1>0, <1>3, <2>1 DEF RecordFailure, RecordSourceFailure, db
    <3>2. failing'[s] = failing[s]
      BY <1>0, <1>3, <2>1 DEF RecordFailure
    <3> QED
      BY <3>1, <3>2 DEF NoRowNoFailure, Counts
  <2>2. CASE u = s /\ job[h].dry
    <3>1. sources' = sources /\ failing' = failing
      BY <1>3, <2>2 DEF RecordFailure, db
    <3> QED
      BY <3>1 DEF NoRowNoFailure, Counts
  <2>3. CASE u = s /\ ~job[h].dry
    <3>0. RecordSourceFailure(s, live[h].robots)
      BY <1>3, <2>3 DEF RecordFailure
    <3>1. CASE sources[s].status = "absent"
      <4>1. sources'[s] = sources[s]
        BY <1>0, <3>0, <3>1 DEF RecordSourceFailure
      <4>2. failing'[s] \in {failing[s], failing[s] \cup {<<h, job[h].run>>}}
        BY <1>0, <1>3, <2>3 DEF RecordFailure
      <4> QED
        BY <4>1, <4>2 DEF NoRowNoFailure, Counts
    <3>2. CASE sources[s].status # "absent" /\ live[h].robots
      <4>1. sources' = [sources EXCEPT ![s] =
                          [sources[s] EXCEPT !.status = "robots_disallowed"]]
        BY <1>0, <3>0, <3>2 DEF RecordSourceFailure
      <4>2. /\ sources'[s].failures = sources[s].failures
            /\ sources'[s].status = "robots_disallowed"
        BY <1>0, <4>1 DEF Row
      <4>3. failing'[s] = failing[s]
        BY <1>3, <3>2 DEF RecordFailure
      <4> QED
        BY <4>2, <4>3 DEF NoRowNoFailure, Counts
    <3>3. CASE sources[s].status # "absent" /\ ~live[h].robots
      <4>1. sources' = [sources EXCEPT ![s] =
                          [sources[s] EXCEPT !.status = "fetch_failed",
                                             !.failures = sources[s].failures + 1]]
        BY <1>0, <3>0, <3>3 DEF RecordSourceFailure
      <4>2. /\ sources'[s].failures = sources[s].failures + 1
            /\ sources'[s].status = "fetch_failed"
        BY <1>0, <4>1 DEF Row
      <4>3. failing'[s] = failing[s] \cup {<<h, job[h].run>>}
        BY <1>0, <1>3, <2>3, <3>3 DEF RecordFailure
      <4> QED
        BY <1>3, <2>3, <4>2, <4>3 DEF NoRowNoFailure, Counts
    <3> QED
      BY <3>1, <3>2, <3>3
  <2> QED
    BY <2>1, <2>2, <2>3
<1>4. ASSUME NEW h \in Host, NEW u \in Source, BackfillSourceBodies(h, u)
      PROVE  NoRowNoFailure(s)' /\ Counts(s)
  <2>1. sources'[s].failures = sources[s].failures /\ sources'[s].status = sources[s].status
    BY <1>0, <1>4 DEF BackfillSourceBodies, Row
  <2>2. failing' = failing
    BY <1>4 DEF BackfillSourceBodies, hist
  <2> QED
    BY <2>1, <2>2 DEF NoRowNoFailure, Counts
<1>5. ASSUME NEW u \in Source, SyncAnnotations(u)
      PROVE  NoRowNoFailure(s)' /\ Counts(s)
  BY <1>5 DEF SyncAnnotations, hist, NoRowNoFailure, Counts
<1>6. CASE UNCHANGED db /\ failing'[s] = failing[s]
  BY <1>6 DEF db, NoRowNoFailure, Counts
<1> QED
  BY <1>1, <1>2, <1>3, <1>4, <1>5, <1>6, OnlyDbWrites, FailingStep DEF DbWrite

\* A finite set with one more element is finite.
LEMMA AddStep ==
    ASSUME NEW S, NEW T, IsFiniteSet(S), T = S \/ \E t : T = S \cup {t}
    PROVE  IsFiniteSet(T) /\ S \subseteq T
BY FS_AddElement

\* Every step keeps CountInv: a counter goes up only with a thread that ends in the
\* same step, and only a crash takes an ended thread back.
LEMMA CountStep ==
    ASSUME TypeInv, CountInv, \A s \in Source : NoRowNoFailure(s), [Next]_vars
    PROVE  CountInv' /\ \A s \in Source : NoRowNoFailure(s)'
<1> SUFFICES ASSUME NEW s \in Source
             PROVE  /\ (IsFiniteSet(found[s]) /\ IsFiniteSet(failing[s]))'
                    /\ (\A h \in Host, r \in Day :
                           Reindexing(Current(h, r, s)) \/ Reindexing(saved[h][r][s])
                               => <<h, r>> \in found[s])'
                    /\ (sources[s].changeCount <= Cardinality(found[s] \cap Ended(s)) + crashes)'
                    /\ (sources[s].failures <= Cardinality(failing[s] \cap Ended(s)) + crashes)'
                    /\ NoRowNoFailure(s)'
  BY DEF CountInv
<1>0. /\ IsFiniteSet(found[s]) /\ IsFiniteSet(failing[s])
      /\ \A h \in Host, r \in Day :
            Reindexing(Current(h, r, s)) \/ Reindexing(saved[h][r][s]) => <<h, r>> \in found[s]
      /\ sources[s].changeCount <= Cardinality(found[s] \cap Ended(s)) + crashes
      /\ sources[s].failures <= Cardinality(failing[s] \cap Ended(s)) + crashes
  BY DEF CountInv
<1>1. /\ sources \in [Source -> Row] /\ crashes \in Nat /\ crashes' \in Nat
      /\ sources[s].changeCount \in Nat /\ sources[s].failures \in Nat
  <2>1. sources \in [Source -> Row] /\ crashes \in Nat
    BY ConstantsAssumption DEF TypeInv, TypeOK
  <2>2. crashes' \in Nat
    BY <2>1, CrashesGrow, LossStep
  <2> QED
    BY <2>1, <2>2 DEF Row
<1>2. IsFiniteSet(found'[s]) /\ found[s] \subseteq found'[s]
  <2>1. found'[s] = found[s] \/ \E t : found'[s] = found[s] \cup {t}
    BY FoundStep
  <2> QED
    BY <1>0, <2>1, AddStep
<1>3. NoRowNoFailure(s)' /\ Counts(s)
  BY FailuresStep
<1>4. IsFiniteSet(failing'[s])
  <2>1. CASE \/ failing'[s] = failing[s]
             \/ \E h \in Host : failing'[s] = failing[s] \cup {<<h, job[h].run>>}
    BY <1>0, <2>1, AddStep
  <2>2. ASSUME NEW h \in Host, RecordFailure(h, s)
        PROVE  \/ failing'[s] = failing[s]
               \/ \E g \in Host : failing'[s] = failing[s] \cup {<<g, job[g].run>>}
    BY <2>2 DEF RecordFailure, TypeInv, TypeOK
  <2>3. ASSUME NEW h \in Host, Reindex(h, s) \/ VerifyOnly(h, s) \/ IngestStore(h, s)
        PROVE  failing'[s] = {}
    BY <2>3 DEF Reindex, VerifyOnly, IngestStore, TypeInv, TypeOK
  <2> QED
    BY <2>1, <2>2, <2>3, FailingStep, FS_EmptySet
<1>5. ASSUME NEW h \in Host, NEW r \in Day,
             (Reindexing(Current(h, r, s)) \/ Reindexing(saved[h][r][s]))'
      PROVE  <<h, r>> \in found'[s]
  <2>1. Moves(h, r, s)
    BY AllMoves
  <2>2. CASE Reindexing(Current(h, r, s)) \/ Reindexing(saved[h][r][s])
    BY <1>0, <1>2, <2>2
  <2>3. CASE Diff(h, s) /\ Drives(h, r, s) /\ Reindexing(Current(h, r, s)')
    <3>1. Current(h, r, s)' = live'[h] /\ job' = job /\ r = job[h].run
      BY <2>3 DEF Diff, Drives, Current
    <3>2. live \in [Host -> Thread] /\ found \in [Source -> SUBSET (Host \X Day)]
      BY DEF TypeInv, TypeOK
    <3>3. PICK verdict :
             /\ live' = [live EXCEPT ![h] = [live[h] EXCEPT !.verdict = verdict,
                             !.next = IF verdict = "meaningful" THEN "chunk"
                                      ELSE "verify_only"]]
             /\ found' = IF verdict = "meaningful"
                         THEN [found EXCEPT ![s] = found[s] \cup {<<h, job[h].run>>}]
                         ELSE found
      BY <2>3 DEF Diff, Becomes
    <3>4. verdict = "meaningful"
      BY <2>3, <3>1, <3>2, <3>3 DEF Reindexing, Thread
    <3> QED
      BY <3>1, <3>2, <3>3, <3>4
  <2> QED
    BY <1>5, <2>1, <2>2, <2>3 DEF Moves, Reindexing, Current
<1>6. sources'[s].changeCount <= Cardinality(found'[s] \cap Ended(s)') + crashes'
  <2>1. Cardinality(found[s] \cap Ended(s)) \in Nat
        /\ Cardinality(found'[s] \cap Ended(s)') \in Nat
    BY <1>0, <1>2, FS_Subset, FS_CardinalityType
  <2>2. CASE sources'[s].changeCount = sources[s].changeCount
    <3>1. Cardinality(found[s] \cap Ended(s)) + crashes
            <= Cardinality(found'[s] \cap Ended(s)') + crashes'
      BY <1>0, <1>2, StillPaid
    <3> QED
      BY <1>0, <1>1, <2>1, <2>2, <3>1
  <2>3. ASSUME NEW h \in Host, Reindex(h, s),
               sources'[s].changeCount <= sources[s].changeCount + 1
        PROVE  sources'[s].changeCount <= Cardinality(found'[s] \cap Ended(s)') + crashes'
    <3> DEFINE t == <<h, job[h].run>>
    <3>1. /\ t \notin Ended(s) /\ t \in Ended(s)' /\ \A g \in Host : ~Loses(g)
          /\ Current(h, job[h].run, s) = live[h]
      BY <2>3, WriterEnds
    <3>2. Reindexing(live[h]) /\ job[h].run \in Day
      BY <2>3, HostType DEF Reindex, AtNode, Reindexing
    <3>3. t \in found'[s]
      BY <1>0, <1>2, <3>1, <3>2
    <3>4. Cardinality(found[s] \cap Ended(s)) + crashes + 1
            <= Cardinality(found'[s] \cap Ended(s)') + crashes'
      BY <1>0, <1>2, <3>1, <3>3, OneMorePaid
    <3>5. sources'[s].changeCount \in Nat
      <4>1. TypeInv'
        BY NextTypeInv
      <4> QED
        BY <4>1 DEF TypeInv, TypeOK, Row
    <3> QED
      BY <1>0, <1>1, <2>1, <2>3, <3>4, <3>5
  <2> QED
    BY <2>2, <2>3, ChangeCountStep
<1>7. sources'[s].failures <= Cardinality(failing'[s] \cap Ended(s)') + crashes'
  <2>1. Cardinality(failing[s] \cap Ended(s)) \in Nat
        /\ Cardinality(failing'[s] \cap Ended(s)') \in Nat
    BY <1>0, <1>4, FS_Subset, FS_CardinalityType
  <2>2. CASE sources'[s].failures = 0
    BY <1>1, <2>1, <2>2
  <2>3. CASE /\ sources'[s].failures = sources[s].failures
             /\ \/ failing'[s] = failing[s]
                \/ \E h \in Host : failing'[s] = failing[s] \cup {<<h, job[h].run>>}
    <3>1. failing[s] \subseteq failing'[s]
      BY <2>3
    <3>2. Cardinality(failing[s] \cap Ended(s)) + crashes
            <= Cardinality(failing'[s] \cap Ended(s)') + crashes'
      BY <1>0, <1>4, <3>1, StillPaid
    <3> QED
      BY <1>0, <1>1, <2>1, <2>3, <3>2
  <2>4. ASSUME NEW h \in Host, RecordFailure(h, s),
               failing'[s] = failing[s] \cup {<<h, job[h].run>>},
               sources'[s].failures = sources[s].failures + 1
        PROVE  sources'[s].failures <= Cardinality(failing'[s] \cap Ended(s)') + crashes'
    <3> DEFINE t == <<h, job[h].run>>
    <3>1. t \notin Ended(s) /\ t \in Ended(s)' /\ \A g \in Host : ~Loses(g)
      BY <2>4, WriterEnds
    <3>2. failing[s] \subseteq failing'[s] /\ t \in failing'[s]
      BY <2>4
    <3>3. Cardinality(failing[s] \cap Ended(s)) + crashes + 1
            <= Cardinality(failing'[s] \cap Ended(s)') + crashes'
      BY <1>0, <1>4, <3>1, <3>2, OneMorePaid
    <3> QED
      BY <1>0, <1>1, <2>1, <2>4, <3>3
  <2> QED
    BY <1>3, <2>2, <2>3, <2>4 DEF Counts
<1> QED
  BY <1>2, <1>3, <1>4, <1>5, <1>6, <1>7

\* CountInv is an invariant of the corpus writers.
THEOREM CountInvariant == Spec => []CountInv
<1> DEFINE NoRowInv == \A s \in Source : NoRowNoFailure(s)
<1>1. Init => CountInv /\ NoRowInv
  <2> SUFFICES ASSUME Init PROVE CountInv /\ NoRowInv
    OBVIOUS
  <2>1. NoThread.next = "none"
    BY DEF NoThread, InitialThread
  <2>2. ASSUME NEW h \in Host, NEW r \in Day, NEW s \in Source
        PROVE  Current(h, r, s) = NoThread /\ saved[h][r][s] = NoThread
    BY DEF Init, Current, Drives
  <2>3. ASSUME NEW s \in Source
        PROVE  /\ found[s] = {} /\ failing[s] = {} /\ crashes = 0
               /\ sources[s].changeCount = 0 /\ sources[s].failures = 0
    <3>1. PICK kind \in [Source -> InitKinds] :
          sources = [s_1 \in Source |->
                IF kind[s_1] = "new" THEN NoRow
                ELSE [NoRow EXCEPT !.status = "ok",
                                   !.body = IF kind[s_1] = "legacy" THEN 0 ELSE 1]]
      BY DEF Init
    <3>2. sources[s].changeCount = 0 /\ sources[s].failures = 0
      BY <3>1 DEF NoRow
    <3> QED
      BY <3>2 DEF Init
  <2>4. ASSUME NEW s \in Source
        PROVE  Cardinality(found[s] \cap Ended(s)) = 0
               /\ Cardinality(failing[s] \cap Ended(s)) = 0
               /\ IsFiniteSet(found[s]) /\ IsFiniteSet(failing[s])
    BY <2>3, FS_EmptySet
  <2> QED
    BY <2>1, <2>2, <2>3, <2>4 DEF CountInv, Reindexing, NoRowNoFailure
<1>2. TypeInv /\ CountInv /\ NoRowInv /\ [Next]_vars => CountInv' /\ NoRowInv'
  BY CountStep
<1> HIDE DEF NoRowInv
<1> QED
  BY <1>1, <1>2, TypeInvariant, PTL DEF Spec

\* ChangeCountBound: change_count exceeds the runs that found a meaningful change by
\* at most one for every process killed, on any number of hosts.
LEMMA ChangeCountCorrect == Spec => []ChangeCountBound
<1>1. TypeInv /\ CountInv => ChangeCountBound
  <2> SUFFICES ASSUME TypeInv, CountInv, NEW s \in Source
               PROVE  sources[s].changeCount <= Cardinality(found[s]) + crashes
    BY DEF ChangeCountBound
  <2>1. /\ IsFiniteSet(found[s]) /\ sources[s].changeCount \in Nat /\ crashes \in Nat
        /\ sources[s].changeCount <= Cardinality(found[s] \cap Ended(s)) + crashes
    <3>1. sources \in [Source -> Row] /\ crashes \in Nat
      BY ConstantsAssumption DEF TypeInv, TypeOK
    <3> QED
      BY <3>1 DEF CountInv, Row
  <2>2. /\ Cardinality(found[s] \cap Ended(s)) <= Cardinality(found[s])
        /\ Cardinality(found[s]) \in Nat /\ Cardinality(found[s] \cap Ended(s)) \in Nat
    BY <2>1, FS_Subset, FS_CardinalityType
  <2> QED
    BY <2>1, <2>2
<1> QED
  BY <1>1, TypeInvariant, CountInvariant, PTL

\* FailureCountBound: consecutive_failures exceeds the runs that failed since the last
\* success by at most one for every process killed, on any number of hosts.
LEMMA FailureCountCorrect == Spec => []FailureCountBound
<1>1. TypeInv /\ CountInv => FailureCountBound
  <2> SUFFICES ASSUME TypeInv, CountInv, NEW s \in Source
               PROVE  sources[s].failures <= Cardinality(failing[s]) + crashes
    BY DEF FailureCountBound
  <2>1. /\ IsFiniteSet(failing[s]) /\ sources[s].failures \in Nat /\ crashes \in Nat
        /\ sources[s].failures <= Cardinality(failing[s] \cap Ended(s)) + crashes
    <3>1. sources \in [Source -> Row] /\ crashes \in Nat
      BY ConstantsAssumption DEF TypeInv, TypeOK
    <3> QED
      BY <3>1 DEF CountInv, Row
  <2>2. /\ Cardinality(failing[s] \cap Ended(s)) <= Cardinality(failing[s])
        /\ Cardinality(failing[s]) \in Nat /\ Cardinality(failing[s] \cap Ended(s)) \in Nat
    BY <2>1, FS_Subset, FS_CardinalityType
  <2> QED
    BY <2>1, <2>2
<1> QED
  BY <1>1, TypeInvariant, CountInvariant, PTL

\* CountersBounded: both counters of every source, on any number of hosts, with any
\* number of processes killed and checkpoints lost.
THEOREM CountersCorrect == Spec => []CountersBounded
  BY ChangeCountCorrect, FailureCountCorrect, PTL DEF CountersBounded

-----------------------------------------------------------------------------
(* Dry runs.                                                               *)

\* A timestamp is taken by a writing node of a live run only, and an ingest is
\* never dry.
Dry(h) ==
    /\ now[h] # {} => /\ job[h].pc = "run" /\ ~job[h].dry
                      /\ live[h].next \in {"reindex", "verify_only"}
    /\ job[h].pc \in {"ingest", "store"} => ~job[h].dry

DryInv == \A h \in Host : Dry(h)

\* What a step of a dry run leaves alone.
Kept(h) ==
    Active(h) /\ job[h].dry /\ <<live'[h], job'[h]>> # <<live[h], job[h]>>
        => UNCHANGED <<sources, documents, snapshot>>

\* A step of a host keeps Dry, and writes nothing when its run is dry.
LEMMA DryHostStep ==
    ASSUME TypeInv, NEW h \in Host, Dry(h), HostStep(h)
    PROVE  Dry(h)' /\ Kept(h)
<1>0. /\ job \in [Host -> Job] /\ job[h] \in Job /\ now \in [Host -> SUBSET Day]
      /\ live \in [Host -> Thread] /\ live[h] \in Thread
  BY HostType DEF TypeInv, TypeOK
<1>1. ASSUME NEW s \in Source, LoopStep(h, s)
      PROVE  Dry(h)' /\ Kept(h)
  <2>1. job[h].pc = "next" /\ UNCHANGED <<now, sources, documents, snapshot>>
    BY <1>1 DEF LoopStep, SkipTerminal, ResumeThread, StartThread, RejectEntry, db, disk
  <2>2. job'[h].pc \in {"next", "run"}
    <3>1. CASE SkipTerminal(h, s) \/ RejectEntry(h, s)
      BY <3>1, ReportedPc DEF SkipTerminal, RejectEntry
    <3>2. CASE ResumeThread(h, s) \/ StartThread(h, s)
      BY <1>0, <3>2 DEF ResumeThread, StartThread, Job
    <3> QED
      BY <1>1, <3>1, <3>2 DEF LoopStep
  <2> QED
    BY <2>1, <2>2 DEF Dry, Kept
<1>2. ASSUME NEW s \in Source, Raises(h, s), job[h].pc = "run"
      PROVE  Dry(h)' /\ Kept(h)
  <2>1. job'[h].pc = "next" /\ now'[h] = {}
    BY <1>0, <1>2, ReportedPc DEF Raises
  <2> QED
    BY <1>2, <2>1 DEF Raises, Dry, Kept, db
<1>3. ASSUME NEW s \in Source, NodeStep(h, s)
      PROVE  Dry(h)' /\ Kept(h)
  <2>1. CASE FetchPage(h, s) \/ FetchFails(h, s) \/ FetchDisallowed(h, s) \/ Diff(h, s)
    BY <2>1 DEF FetchPage, FetchFails, FetchDisallowed, Diff, AtNode, Dry, Kept, db, disk
  <2>2. CASE Chunk(h, s) \/ Embed(h, s) \/ DryVerdict(h, s)
    BY <2>2 DEF Chunk, Embed, DryVerdict, AtNode, Dry, Kept, db, disk
  <2>3. CASE TakeNow(h, s)
    BY <1>0, <2>3 DEF TakeNow, AtNode, Dry, Kept, db, disk
  <2>4. CASE Reindex(h, s) \/ VerifyOnly(h, s)
    <3>1. now[h] # {} /\ job' = job /\ now'[h] = {}
      BY <1>0, <2>4 DEF Reindex, VerifyOnly
    <3> QED
      BY <3>1 DEF Dry, Kept
  <2>5. CASE RecordFailure(h, s)
    BY <2>5 DEF RecordFailure, AtNode, Dry, Kept, db, disk
  <2>6. CASE Persist(h, s)
    BY <2>6 DEF Persist, AtNode, Dry, Kept, db, disk
  <2>7. CASE FinishThread(h, s)
    BY <2>7, ReportedPc DEF FinishThread, AtNode, Dry, Kept, db, disk
  <2>8. CASE DiffRefuses(h, s)
    BY <1>2, <2>8 DEF DiffRefuses, AtNode
  <2> QED
    BY <1>3, <2>1, <2>2, <2>3, <2>4, <2>5, <2>6, <2>7, <2>8 DEF NodeStep
<1>4. CASE EndRun(h)
  <2>1. job'[h].pc = "done" /\ job[h].pc = "next"
    BY <1>0, <1>4 DEF EndRun, Job
  <2> QED
    BY <1>4, <2>1 DEF EndRun, Dry, Kept, db, disk
<1>5. CASE Crash(h)
  <2>1. job'[h].pc = "idle" /\ now'[h] = {}
    BY <1>0, <1>5 DEF Crash, Job
  <2> QED
    BY <1>5, <2>1 DEF Crash, Dry, Kept, db, disk
<1>6. ASSUME NEW r \in RunIds, NEW dry \in BOOLEAN, NEW only \in SUBSET Source,
             StartRun(h, r, dry, only)
      PROVE  Dry(h)' /\ Kept(h)
  <2>1. job'[h].pc = "next" /\ job[h].pc \in {"idle", "done"}
    BY <1>0, <1>6 DEF StartRun
  <2> QED
    BY <1>6, <2>1 DEF StartRun, Dry, Kept, Active
<1>7. ASSUME NEW s \in Source, NodeRaises(h, s) \/ CheckpointLost(h, s)
      PROVE  Dry(h)' /\ Kept(h)
  <2>1. CASE NodeRaises(h, s)
    BY <1>2, <2>1 DEF NodeRaises, AtNode
  <2>2. CASE CheckpointLost(h, s)
    <3>1. job'[h].pc = "next" /\ now'[h] = {}
      BY <1>0, <2>2, ReportedPc DEF CheckpointLost
    <3> QED
      BY <2>2, <3>1 DEF CheckpointLost, Dry, Kept, db, disk
  <2> QED
    BY <1>7, <2>1, <2>2
<1>8. ASSUME NEW s \in Source, IngestStep(h, s)
      PROVE  Dry(h)' /\ Kept(h)
  <2>1. job[h].pc \in {"ingest", "store"} /\ now' = now
    BY <1>8 DEF IngestStep, IngestFetch, IngestDisallowed, IngestStore
  <2>2. job'[h].dry = job[h].dry
    <3>1. CASE IngestFetch(h, s)
      <4>1. job'[h] = [job[h] EXCEPT !.pc = "store", !.cur = s]
        BY <1>0, <3>1 DEF IngestFetch
      <4> QED
        BY <1>0, <4>1 DEF Job
    <3>2. CASE IngestDisallowed(h, s)
      <4>1. job'[h] = [job[h] EXCEPT !.todo = job[h].todo \ {s}]
        BY <1>0, <3>2 DEF IngestDisallowed
      <4> QED
        BY <1>0, <4>1 DEF Job
    <3>3. CASE IngestStore(h, s)
      <4>1. job'[h] = [job[h] EXCEPT !.pc = "ingest", !.cur = NoSource,
                                     !.todo = job[h].todo \ {s}]
        BY <1>0, <3>3 DEF IngestStore
      <4> QED
        BY <1>0, <4>1 DEF Job
    <3> QED
      BY <1>8, <3>1, <3>2, <3>3 DEF IngestStep
  <2> QED
    BY <2>1, <2>2 DEF Dry, Kept
<1>9. ASSUME NEW s \in Source, BackfillSourceBodies(h, s)
      PROVE  Dry(h)' /\ Kept(h)
  BY <1>9 DEF BackfillSourceBodies, Dry, Kept
<1>10. CASE StartIngest(h)
  <2>1. ~job'[h].dry /\ job[h].pc \in {"idle", "done"} /\ now' = now
    BY <1>0, <1>10 DEF StartIngest
  <2> QED
    BY <2>1 DEF Dry, Kept, Active
<1>11. CASE IngestStops(h)
  <2>1. job'[h].pc = "idle" /\ job[h].pc \in {"ingest", "store"} /\ now' = now
    BY <1>0, <1>11 DEF IngestStops, Job
  <2> QED
    BY <2>1 DEF Dry, Kept
<1> QED
  BY <1>1, <1>3, <1>4, <1>5, <1>6, <1>7, <1>8, <1>9, <1>10, <1>11 DEF HostStep, RefreshStep

\* A step of one host leaves the timestamps of the others alone.
LEMMA NowIsLocal ==
    ASSUME TypeInv, NEW h \in Host, HostStep(h), NEW g \in Host \ {h}
    PROVE  now'[g] = now[g]
<1>0. now \in [Host -> SUBSET Day]
  BY DEF TypeInv, TypeOK
<1>1. ASSUME NEW s \in Source, LoopStep(h, s) PROVE now'[g] = now[g]
  BY <1>1 DEF LoopStep, SkipTerminal, ResumeThread, StartThread, RejectEntry
<1>2. ASSUME NEW s \in Source, NodeStep(h, s) PROVE now'[g] = now[g]
  <2>1. now' = now \/ \E new : now' = [now EXCEPT ![h] = new]
    BY <1>2 DEF NodeStep, FetchPage, FetchFails, FetchDisallowed, Diff, DiffRefuses, Raises,
       Chunk, Embed, TakeNow, DryVerdict, Reindex, VerifyOnly, RecordFailure, Persist,
       FinishThread
  <2> QED
    BY <1>0, <2>1
<1>3. ASSUME NEW s \in Source, \/ NodeRaises(h, s) \/ CheckpointLost(h, s)
                                \/ IngestStep(h, s) \/ BackfillSourceBodies(h, s)
      PROVE  now'[g] = now[g]
  <2>1. now' = now \/ now' = [now EXCEPT ![h] = {}]
    BY <1>3 DEF NodeRaises, Raises, CheckpointLost, IngestStep, IngestFetch, IngestDisallowed, IngestStore,
       BackfillSourceBodies
  <2> QED
    BY <1>0, <2>1
<1>4. CASE \E r \in RunIds, dry \in BOOLEAN, only \in (SUBSET Source) \ {{}} :
               StartRun(h, r, dry, only)
  BY <1>4 DEF StartRun
<1>5. CASE StartIngest(h) \/ IngestStops(h) \/ EndRun(h) \/ Crash(h)
  BY <1>0, <1>5 DEF StartIngest, IngestStops, EndRun, Crash
<1> QED
  BY <1>1, <1>2, <1>3, <1>4, <1>5 DEF HostStep, RefreshStep

\* The initial states satisfy DryInv.
LEMMA DryInit == Init => DryInv
<1> SUFFICES ASSUME Init, NEW h \in Host PROVE Dry(h)
  BY DEF DryInv
<1>1. job[h].pc = "idle" /\ now[h] = {}
  BY DEF Init
<1> QED
  BY <1>1 DEF Dry

\* Every step keeps DryInv, and what a dry run leaves alone.
LEMMA DryNext ==
    ASSUME TypeInv, DryInv, [Next]_vars
    PROVE  DryInv' /\ \A h \in Host : Kept(h)
<1>1. ASSUME NEW h \in Host, HostStep(h)
      PROVE  DryInv' /\ \A g \in Host : Kept(g)
  <2>1. Dry(h)' /\ Kept(h)
    BY <1>1, DryHostStep DEF DryInv
  <2>2. ASSUME NEW g \in Host \ {h} PROVE Dry(g)' /\ Kept(g)
    <3>1. job'[g] = job[g] /\ live'[g] = live[g] /\ now'[g] = now[g]
      BY <1>1, HostIsLocal, NowIsLocal
    <3> QED
      BY <3>1 DEF DryInv, Dry, Kept
  <2> QED
    BY <2>1, <2>2 DEF DryInv
<1>2. CASE WorldStep
  <2>1. UNCHANGED <<job, live, now>>
    BY <1>2 DEF WorldStep, PageChanges, SyncAnnotations, EditManifest, NextDay
  <2> QED
    BY <2>1 DEF DryInv, Dry, Kept
<1>3. CASE UNCHANGED vars
  BY <1>3 DEF vars, DryInv, Dry, Kept
<1> QED
  BY <1>1, <1>2, <1>3 DEF Next

\* DryInv is an invariant of the corpus writers.
LEMMA DryInvariant == Spec => []DryInv
<1>1. TypeInv /\ DryInv /\ [Next]_vars => DryInv'
  BY DryNext
<1> QED
  BY <1>1, DryInit, TypeInvariant, PTL DEF Spec

\* DryRunWritesNothing: no step of a dry run writes the tables or a snapshot file,
\* whatever threads it resumes and whatever fails.
THEOREM DryRunCorrect == Spec => DryRunWritesNothing
<1> DEFINE A == \A h \in Host :
           Active(h) /\ job[h].dry /\ <<live'[h], job'[h]>> # <<live[h], job[h]>>
               => UNCHANGED <<sources, documents, snapshot>>
<1>1. TypeInv /\ DryInv /\ [Next]_vars => A
  BY DryNext DEF Kept
<1>2. A => [A]_vars
  OBVIOUS
<1> HIDE DEF A
<1>3. Spec => [][A]_vars
  BY <1>1, <1>2, TypeInvariant, DryInvariant, PTL DEF Spec
<1> QED
  BY <1>3 DEF A, DryRunWritesNothing
=============================================================================
