--------------------------- MODULE RecrawlProofs ---------------------------
(***************************************************************************)
(* Proofs about module Recrawl, for any number of hosts, sources, days,    *)
(* versions and crashes.                                                   *)
(***************************************************************************)
EXTENDS RecrawlProperties, TLAPS

\* What a thread's position in the graph says of its other fields.
ThreadOK(t) ==
    /\ t.next = "fetch" => t.attempts < MaxAttempts
    /\ t.next \in {"diff", "chunk", "embed", "reindex", "verify_only"} => t.body \in Version
    /\ t.next \in {"chunk", "embed", "reindex", "verify_only"} => t.verdict \in Verdicts
    /\ t.next = "end" => t.status \in Terminal

ThreadsOK ==
    /\ \A h \in Host : ThreadOK(live[h])
    /\ \A h \in Host, r \in Day, s \in Source : ThreadOK(saved[h][r][s])

\* An ingest about to store has a snapshot to read.
StoreOK ==
    \A h \in Host : job[h].pc = "store" =>
        /\ job[h].cur \in Source
        /\ snapshot[h][job[h].cur] \in Version

TypeInv == TypeOK /\ ThreadsOK /\ StoreOK

-----------------------------------------------------------------------------

\* A thread as it starts is well formed.
LEMMA InitialThreadType ==
    ASSUME NEW note \in Note
    PROVE  InitialThread(note) \in Thread /\ ThreadOK(InitialThread(note))
BY ConstantsAssumption
DEF InitialThread, Thread, ThreadOK, Body, Version, Verdicts, Terminal, Nodes

\* The initial note and the empty thread are well formed.
LEMMA NoThreadType ==
    InitialNote \in Note /\ NoThread \in Thread /\ ThreadOK(NoThread)
<1>1. SomeRule \in Rule
  BY ConstantsAssumption DEF SomeRule
<1>2. InitialNote \in Note /\ [rule |-> SomeRule, evid |-> "null"] \in Note
  BY <1>1 DEF InitialNote, Note, Evid
<1> DEFINE t == InitialThread([rule |-> SomeRule, evid |-> "null"])
<1>3. t \in Thread
  BY <1>2, InitialThreadType
<1>4. NoThread = [t EXCEPT !.next = "none"]
  BY DEF NoThread
<1> HIDE DEF t
<1>5. NoThread \in Thread /\ NoThread.next = "none"
  BY <1>3, <1>4 DEF Thread
<1> QED
  BY <1>2, <1>5 DEF ThreadOK

\* The initial states are well typed.
LEMMA InitTypeInv == Init => TypeInv
<1> SUFFICES ASSUME Init PROVE TypeInv
  OBVIOUS
<1>0. MaxVersion \in Nat \ {0} /\ MaxDay \in Nat /\ MaxCrashes \in Nat
  BY ConstantsAssumption
<1>1. PICK kind \in [Source -> InitKinds] :
        /\ sources = [s \in Source |->
                IF kind[s] = "new" THEN NoRow
                ELSE [NoRow EXCEPT !.status = "ok",
                                   !.body = IF kind[s] = "legacy" THEN 0 ELSE 1]]
        /\ documents = [s \in Source |->
                [body |-> IF kind[s] = "new" THEN 0 ELSE 1, note |-> InitialNote]]
        /\ \E owner \in SUBSET Host :
                snapshot = [h \in Host |-> [s \in Source |->
                    IF h \in owner /\ kind[s] # "new" THEN 1 ELSE 0]]
  BY DEF Init
<1>2. sources \in [Source -> Row]
  <2>1. sources = [s \in Source |->
                IF kind[s] = "new" THEN NoRow
                ELSE [NoRow EXCEPT !.status = "ok",
                                   !.body = IF kind[s] = "legacy" THEN 0 ELSE 1]]
    BY <1>1
  <2>2. NoRow \in Row
    BY <1>0 DEF NoRow, Row, Day, Body
  <2>3. 0 \in Body /\ 1 \in Body
    BY <1>0 DEF Body
  <2>4. \A b \in Body : [NoRow EXCEPT !.status = "ok", !.body = b] \in Row
    BY <2>2 DEF Row
  <2>5. ASSUME NEW s \in Source PROVE sources[s] \in Row
    BY <2>1, <2>2, <2>3, <2>4
  <2> QED
    BY <2>1, <2>5
<1>3. documents \in [Source -> Chunks]
  <2>1. documents = [s \in Source |->
                [body |-> IF kind[s] = "new" THEN 0 ELSE 1, note |-> InitialNote]]
    BY <1>1
  <2> QED
    BY <1>0, <2>1, NoThreadType DEF Chunks, Body
<1>4. snapshot \in [Host -> [Source -> Body]]
  <2>1. PICK owner \in SUBSET Host :
                snapshot = [h \in Host |-> [s \in Source |->
                    IF h \in owner /\ kind[s] # "new" THEN 1 ELSE 0]]
    BY <1>1
  <2>2. 0 \in Body /\ 1 \in Body
    BY <1>0 DEF Body
  <2> QED
    BY <2>1, <2>2
<1>5. manifest \in [Source -> Note]
  <2>1. {"true"} \subseteq Evid
    BY DEF Evid
  <2>2. [rule : Rule, evid : {"true"}] \subseteq Note
    BY <2>1 DEF Note
  <2>3. manifest \in [Source -> [rule : Rule, evid : {"true"}]]
    BY DEF Init
  <2> QED
    BY <2>2, <2>3
<1>6. job \in [Host -> Job] /\ \A h \in Host : job[h].pc = "idle"
  <2>1. NoReport \in [Source -> Terminal \cup {"none", "unhandled_error"}]
    BY DEF NoReport
  <2>2. job = [h \in Host |->
           [pc |-> "idle", cur |-> NoSource, todo |-> {}, scope |-> {}, run |-> 0,
            dry |-> FALSE, started |-> 0, entries |-> manifest, report |-> NoReport]]
    BY DEF Init
  <2>3. 0 \in Day
    BY <1>0 DEF Day
  <2>4. [pc |-> "idle", cur |-> NoSource, todo |-> {}, scope |-> {}, run |-> 0,
            dry |-> FALSE, started |-> 0, entries |-> manifest, report |-> NoReport] \in Job
    BY <1>5, <2>1, <2>3 DEF Job
  <2> QED
    BY <2>2, <2>4
<1>7. saved \in [Host -> [Day -> [Source -> Thread]]] /\ live \in [Host -> Thread]
  BY NoThreadType DEF Init
<1>8. /\ page \in [Source -> Version] /\ day \in Day /\ now \in [Host -> SUBSET Day]
      /\ crashes \in 0..MaxCrashes /\ fetchDay \in [Source -> Day]
      /\ found \in [Source -> SUBSET (Host \X Day)]
      /\ failing \in [Source -> SUBSET (Host \X Day)]
  <2>1. /\ page = [s \in Source |-> 1] /\ day = 0 /\ now = [h \in Host |-> {}]
        /\ crashes = 0 /\ fetchDay = [s \in Source |-> 0]
        /\ found = [s \in Source |-> {}] /\ failing = [s \in Source |-> {}]
    BY DEF Init
  <2>2. 1 \in Version /\ 0 \in Day /\ 0 \in 0..MaxCrashes
    BY <1>0 DEF Version, Day
  <2> QED
    BY <2>1, <2>2
<1>9. ThreadsOK
  BY NoThreadType DEF Init, ThreadsOK
<1>10. StoreOK
  BY <1>6 DEF StoreOK
<1> QED
  BY <1>2, <1>3, <1>4, <1>5, <1>6, <1>7, <1>8, <1>9, <1>10 DEF TypeOK, TypeInv

-----------------------------------------------------------------------------
(* Steps keep the types.  First what the recurring updates keep.           *)

\* A driven thread replaced by a well formed one.
LEMMA LiveStep ==
    ASSUME TypeInv, NEW h \in Host, NEW t \in Thread, ThreadOK(t),
           live' = [live EXCEPT ![h] = t]
    PROVE  live' \in [Host -> Thread] /\ \A g \in Host : ThreadOK(live'[g])
BY DEF TypeInv, TypeOK, ThreadsOK

\* A checkpoint replaced by the thread driven.
LEMMA SavedStep ==
    ASSUME TypeInv, NEW h \in Host, NEW s \in Source,
           saved' = [saved EXCEPT ![h][job[h].run][s] = live[h]]
    PROVE  /\ saved' \in [Host -> [Day -> [Source -> Thread]]]
           /\ \A g \in Host, r \in Day, u \in Source : ThreadOK(saved'[g][r][u])
<1>1. job[h].run \in Day
  BY DEF TypeInv, TypeOK, Job
<1> QED
  BY <1>1 DEF TypeInv, TypeOK, ThreadsOK

\* The loop's bookkeeping.
LEMMA ReportedStep ==
    ASSUME TypeInv, NEW h \in Host, NEW s \in Source,
           NEW result \in Terminal \cup {"unhandled_error"}, Reported(h, s, result)
    PROVE  job' \in [Host -> Job] /\ job'[h].pc = "next"
           /\ \A g \in Host : g # h => job'[g] = job[g]
<1>1. job \in [Host -> Job]
  BY DEF TypeInv, TypeOK
<1>2. job[h].report \in [Source -> Terminal \cup {"none", "unhandled_error"}]
  BY <1>1 DEF Job
<1>3. [job[h].report EXCEPT ![s] = result]
        \in [Source -> Terminal \cup {"none", "unhandled_error"}]
  BY <1>2
<1> DEFINE report == [job[h].report EXCEPT ![s] = result]
           j == [job[h] EXCEPT !.pc = "next", !.cur = NoSource,
                               !.todo = job[h].todo \ {s}, !.report = report]
<1>4. job' = [job EXCEPT ![h] = j]
  BY <1>1 DEF Reported
<1> HIDE DEF report
<1>5. j \in Job /\ j.pc = "next"
  <2>1. job[h] \in Job /\ report \in [Source -> Terminal \cup {"none", "unhandled_error"}]
    BY <1>1, <1>3 DEF report
  <2> QED
    BY <2>1 DEF Job
<1> HIDE DEF j
<1> QED
  BY <1>1, <1>4, <1>5

\* A job whose position and source alone change.
LEMMA JobStep ==
    ASSUME TypeInv, NEW h \in Host,
           NEW pc \in {"idle", "next", "run", "done", "ingest", "store"},
           NEW cur \in Source \cup {NoSource},
           NEW todo \in SUBSET Source,
           job' = [job EXCEPT ![h] = [@ EXCEPT !.pc = pc, !.cur = cur, !.todo = todo]]
    PROVE  job' \in [Host -> Job] /\ job'[h].pc = pc /\ job'[h].cur = cur
           /\ \A g \in Host : g # h => job'[g] = job[g]
<1> DEFINE j == [job[h] EXCEPT !.pc = pc, !.cur = cur, !.todo = todo]
<1>1. job \in [Host -> Job] /\ job' = [job EXCEPT ![h] = j]
  BY DEF TypeInv, TypeOK
<1>2. job[h] \in Job
  BY <1>1
<1>3. j \in Job /\ j.pc = pc /\ j.cur = cur
  BY <1>2 DEF Job
<1> HIDE DEF j
<1> QED
  BY <1>1, <1>3

\* A step of host h that leaves every snapshot alone, and h not about to store.
LEMMA StoreStep ==
    ASSUME TypeInv, NEW h \in Host, UNCHANGED snapshot,
           job'[h].pc # "store",
           \A g \in Host : g # h => job'[g] = job[g]
    PROVE  StoreOK'
BY DEF TypeInv, StoreOK

\* The steps of the refresh loop keep the types.
LEMMA LoopType ==
    ASSUME TypeInv, NEW h \in Host, NEW s \in Source, LoopStep(h, s)
    PROVE  TypeInv'
<1>0. job[h] \in Job /\ job[h].run \in Day /\ job[h].todo \in SUBSET Source
      /\ job[h].entries \in [Source -> Note]
  BY DEF TypeInv, TypeOK, Job
<1>1. CASE SkipTerminal(h, s)
  <2>1. saved[h][job[h].run][s].status \in Terminal
    BY <1>0, <1>1 DEF SkipTerminal, TypeInv, ThreadsOK, ThreadOK
  <2>2. Reported(h, s, saved[h][job[h].run][s].status)
    BY <1>1 DEF SkipTerminal
  <2>3. job' \in [Host -> Job] /\ job'[h].pc = "next"
        /\ \A g \in Host : g # h => job'[g] = job[g]
    BY <2>1, <2>2, ReportedStep
  <2>4. UNCHANGED <<db, disk, world, hist, live, now, crashes>>
    BY <1>1 DEF SkipTerminal
  <2>5. StoreOK'
    BY <2>3, <2>4, StoreStep DEF disk
  <2> QED
    BY <2>3, <2>4, <2>5 DEF TypeInv, TypeOK, ThreadsOK, db, disk, world, hist
<1>2. CASE ResumeThread(h, s)
  <2>1. saved[h][job[h].run][s] \in Thread /\ ThreadOK(saved[h][job[h].run][s])
    BY <1>0 DEF TypeInv, TypeOK, ThreadsOK
  <2>2. live' \in [Host -> Thread] /\ \A g \in Host : ThreadOK(live'[g])
    BY <2>1, <1>2, LiveStep DEF ResumeThread
  <2>3. job' = [job EXCEPT ![h] = [@ EXCEPT !.pc = "run", !.cur = s, !.todo = job[h].todo]]
    BY <1>0, <1>2 DEF ResumeThread, Job, TypeInv, TypeOK
  <2>4. job' \in [Host -> Job] /\ job'[h].pc = "run"
        /\ \A g \in Host : g # h => job'[g] = job[g]
    BY <1>0, <2>3, JobStep
  <2>5. UNCHANGED <<db, disk, world, hist, now, crashes>>
    BY <1>2 DEF ResumeThread
  <2>6. StoreOK'
    BY <2>4, <2>5, StoreStep DEF disk
  <2> QED
    BY <2>2, <2>4, <2>5, <2>6 DEF TypeInv, TypeOK, ThreadsOK, db, disk, world, hist
<1>3. CASE StartThread(h, s)
  <2>1. job[h].entries[s] \in Note
    BY <1>0
  <2>2. live' \in [Host -> Thread] /\ \A g \in Host : ThreadOK(live'[g])
    BY <2>1, <1>3, InitialThreadType, LiveStep DEF StartThread
  <2>3. job' = [job EXCEPT ![h] = [@ EXCEPT !.pc = "run", !.cur = s, !.todo = job[h].todo]]
    BY <1>0, <1>3 DEF StartThread, Job, TypeInv, TypeOK
  <2>4. job' \in [Host -> Job] /\ job'[h].pc = "run"
        /\ \A g \in Host : g # h => job'[g] = job[g]
    BY <1>0, <2>3, JobStep
  <2>5. UNCHANGED <<db, disk, world, hist, now, crashes>>
    BY <1>3 DEF StartThread
  <2>6. StoreOK'
    BY <2>4, <2>5, StoreStep DEF disk
  <2> QED
    BY <2>2, <2>4, <2>5, <2>6 DEF TypeInv, TypeOK, ThreadsOK, db, disk, world, hist
<1>4. CASE RejectEntry(h, s)
  <2>1. job' \in [Host -> Job] /\ job'[h].pc = "next"
        /\ \A g \in Host : g # h => job'[g] = job[g]
    BY <1>4, ReportedStep DEF RejectEntry
  <2>2. UNCHANGED <<db, disk, world, hist, live, now, crashes>>
    BY <1>4 DEF RejectEntry
  <2>3. StoreOK'
    BY <2>1, <2>2, StoreStep DEF disk
  <2> QED
    BY <2>1, <2>2, <2>3 DEF TypeInv, TypeOK, ThreadsOK, db, disk, world, hist
<1> QED
  BY <1>1, <1>2, <1>3, <1>4 DEF LoopStep

-----------------------------------------------------------------------------

\* What TypeInv says of one host.
LEMMA HostType ==
    ASSUME TypeInv, NEW h \in Host
    PROVE  /\ live[h] \in Thread /\ ThreadOK(live[h])
           /\ job[h] \in Job /\ job[h].run \in Day
           /\ job[h].todo \in SUBSET Source /\ job[h].entries \in [Source -> Note]
           /\ now[h] \in SUBSET Day
BY DEF TypeInv, TypeOK, ThreadsOK, Job

\* _embed_and_store keeps the types of the two tables.
LEMMA EmbedAndStoreType ==
    ASSUME TypeInv, NEW s \in Source, NEW body \in Body, NEW note \in Note,
           NEW when \in Day, NEW markChanged \in BOOLEAN,
           EmbedAndStore(s, body, note, when, markChanged)
    PROVE  sources' \in [Source -> Row] /\ documents' \in [Source -> Chunks]
<1>1. sources \in [Source -> Row] /\ documents \in [Source -> Chunks]
  BY DEF TypeInv, TypeOK
<1>2. Upsert(sources[s], body, when, markChanged) \in Row
  BY <1>1 DEF Upsert, Row
<1>3. [body |-> body, note |-> note] \in Chunks
  BY DEF Chunks
<1> QED
  BY <1>1, <1>2, <1>3 DEF EmbedAndStore

\* touch_last_verified keeps the types of the two tables.
LEMMA TouchLastVerifiedType ==
    ASSUME TypeInv, NEW s \in Source, NEW note \in Note, NEW when \in Day,
           TouchLastVerified(s, note, when)
    PROVE  sources' \in [Source -> Row] /\ documents' \in [Source -> Chunks]
<1>1. sources \in [Source -> Row] /\ documents \in [Source -> Chunks]
  BY DEF TypeInv, TypeOK
<1>2. sources' \in [Source -> Row]
  <2>1. [sources[s] EXCEPT !.status = "ok", !.verified = when, !.failures = 0] \in Row
    BY <1>1 DEF Row
  <2> QED
    BY <1>1, <2>1 DEF TouchLastVerified
<1>3. documents' \in [Source -> Chunks]
  <2>1. documents[s] \in Chunks /\ documents[s].note \in Note
    BY <1>1 DEF Chunks
  <2>2. \A n \in Note : [documents[s] EXCEPT !.note = n] \in Chunks
    BY <2>1 DEF Chunks
  <2>3. PICK n \in Note : documents' = [documents EXCEPT ![s] = [documents[s] EXCEPT !.note = n]]
    BY <1>1, <2>1 DEF TouchLastVerified
  <2> QED
    BY <1>1, <2>2, <2>3
<1> QED
  BY <1>2, <1>3

\* record_source_failure keeps the types of the two tables.
LEMMA RecordSourceFailureType ==
    ASSUME TypeInv, NEW s \in Source, NEW robots \in BOOLEAN,
           RecordSourceFailure(s, robots)
    PROVE  sources' \in [Source -> Row] /\ documents' \in [Source -> Chunks]
<1>1. sources \in [Source -> Row] /\ documents \in [Source -> Chunks]
  BY DEF TypeInv, TypeOK
<1>2. /\ [sources[s] EXCEPT !.status = "robots_disallowed"] \in Row
      /\ [sources[s] EXCEPT !.status = "fetch_failed", !.failures = sources[s].failures + 1]
            \in Row
  <2>1. sources[s] \in Row /\ sources[s].failures + 1 \in Nat
    BY <1>1 DEF Row
  <2> QED
    BY <2>1 DEF Row
<1>3. sources' = [sources EXCEPT ![s] =
           IF sources[s].status = "absent" THEN sources[s]
           ELSE IF robots THEN [sources[s] EXCEPT !.status = "robots_disallowed"]
           ELSE [sources[s] EXCEPT !.status = "fetch_failed",
                                   !.failures = sources[s].failures + 1]]
  BY DEF RecordSourceFailure
<1> QED
  BY <1>1, <1>2, <1>3 DEF RecordSourceFailure

\* A thread that ends with a terminal status is well formed.
LEMMA EndsType ==
    ASSUME TypeInv, NEW h \in Host, NEW status \in Terminal, Ends(h, status)
    PROVE  live' \in [Host -> Thread] /\ \A g \in Host : ThreadOK(live'[g])
<1> DEFINE t == [live[h] EXCEPT !.next = "end", !.status = status]
<1>1. live[h] \in Thread
  BY HostType
<1>2. t \in Thread /\ t.next = "end" /\ t.status = status
  BY <1>1 DEF Thread
<1>3. live' = [live EXCEPT ![h] = t]
  BY DEF Ends, Becomes
<1> HIDE DEF t
<1>4. ThreadOK(t)
  BY <1>2 DEF ThreadOK
<1> QED
  BY <1>2, <1>3, <1>4, LiveStep

\* A node that raises keeps the types.
LEMMA RaisesType ==
    ASSUME TypeInv, NEW h \in Host, NEW s \in Source, Raises(h, s)
    PROVE  TypeInv'
<1>1. job' \in [Host -> Job] /\ job'[h].pc = "next"
      /\ \A g \in Host : g # h => job'[g] = job[g]
  BY ReportedStep DEF Raises
<1>2. /\ saved' \in [Host -> [Day -> [Source -> Thread]]]
      /\ \A g \in Host, r \in Day, u \in Source : ThreadOK(saved'[g][r][u])
  BY SavedStep DEF Raises
<1>3. live' \in [Host -> Thread] /\ \A g \in Host : ThreadOK(live'[g])
  BY NoThreadType, LiveStep DEF Raises
<1>4. now' \in [Host -> SUBSET Day]
  BY DEF Raises, TypeInv, TypeOK
<1>5. UNCHANGED <<db, world, hist, snapshot, crashes>>
  BY DEF Raises
<1>6. StoreOK'
  BY <1>1, <1>5, StoreStep
<1> QED
  BY <1>1, <1>2, <1>3, <1>4, <1>5, <1>6 DEF TypeInv, TypeOK, ThreadsOK, db, world, hist

\* Losing the checkpoint of a thread keeps the types.
LEMMA CheckpointLostType ==
    ASSUME TypeInv, NEW h \in Host, NEW s \in Source, CheckpointLost(h, s)
    PROVE  TypeInv'
<1>1. job' \in [Host -> Job] /\ job'[h].pc = "next"
      /\ \A g \in Host : g # h => job'[g] = job[g]
  BY ReportedStep DEF CheckpointLost
<1>2. live' \in [Host -> Thread] /\ \A g \in Host : ThreadOK(live'[g])
  BY NoThreadType, LiveStep DEF CheckpointLost
<1>3. now' \in [Host -> SUBSET Day] /\ crashes' \in 0..MaxCrashes
  BY ConstantsAssumption DEF CheckpointLost, TypeInv, TypeOK
<1>4. UNCHANGED <<db, disk, world, hist>>
  BY DEF CheckpointLost
<1>5. StoreOK'
  BY <1>1, <1>4, StoreStep DEF disk
<1> QED
  BY <1>1, <1>2, <1>3, <1>4, <1>5 DEF TypeInv, TypeOK, ThreadsOK, db, disk, world, hist

\* The nodes of the refresh graph keep the types.
LEMMA NodeType ==
    ASSUME TypeInv, NEW h \in Host, NEW s \in Source, NodeStep(h, s)
    PROVE  TypeInv'
<1>0. /\ live[h] \in Thread /\ ThreadOK(live[h]) /\ job[h] \in Job /\ job[h].run \in Day
      /\ now[h] \in SUBSET Day /\ job \in [Host -> Job]
  BY HostType DEF TypeInv, TypeOK
<1>1. CASE FetchPage(h, s)
  <2> DEFINE t == [live[h] EXCEPT !.attempts = live[h].attempts + 1, !.robots = FALSE,
                                  !.body = page[s], !.next = "diff"]
  <2>1. live[h].attempts + 1 \in 0..MaxAttempts
    BY <1>0, <1>1, ConstantsAssumption DEF FetchPage, AtNode, Thread, ThreadOK
  <2>2. page[s] \in Version /\ page[s] \in Body
    BY DEF TypeInv, TypeOK, Version, Body
  <2>3. t \in Thread /\ t.next = "diff" /\ t.body = page[s]
    BY <1>0, <2>1, <2>2 DEF Thread, Nodes
  <2>4. live' = [live EXCEPT ![h] = t]
    BY <1>1 DEF FetchPage, Becomes
  <2> HIDE DEF t
  <2>5. ThreadOK(t)
    BY <2>2, <2>3 DEF ThreadOK
  <2>6. live' \in [Host -> Thread] /\ \A g \in Host : ThreadOK(live'[g])
    BY <2>3, <2>4, <2>5, LiveStep
  <2>7. UNCHANGED <<db, disk, world, job, now, crashes, found, failing>>
        /\ fetchDay' = [fetchDay EXCEPT ![s] = day]
    BY <1>1 DEF FetchPage
  <2>8. StoreOK'
    BY <2>7 DEF TypeInv, StoreOK, disk
  <2> QED
    BY <2>6, <2>7, <2>8 DEF TypeInv, TypeOK, ThreadsOK, db, disk, world
<1>2. CASE FetchFails(h, s)
  <2> DEFINE n == live[h].attempts + 1
             next == IF n < MaxAttempts THEN "fetch" ELSE "record_failure"
             t == [live[h] EXCEPT !.attempts = n, !.robots = FALSE, !.body = 0, !.next = next]
  <2>1. n \in 0..MaxAttempts
    BY <1>0, <1>2, ConstantsAssumption DEF FetchFails, AtNode, Thread, ThreadOK
  <2>2. live' = [live EXCEPT ![h] = t]
    BY <1>2 DEF FetchFails, Becomes
  <2>3. next \in {"fetch", "record_failure"} /\ (next = "fetch" => n < MaxAttempts)
    OBVIOUS
  <2>4. 0 \in Body
    BY ConstantsAssumption DEF Body
  <2> HIDE DEF n, next
  <2>5. t \in Thread /\ t.next = next /\ t.attempts = n
    BY <1>0, <2>1, <2>3, <2>4 DEF Thread, Nodes
  <2> HIDE DEF t
  <2>6. ThreadOK(t)
    BY <2>3, <2>5 DEF ThreadOK
  <2>7. live' \in [Host -> Thread] /\ \A g \in Host : ThreadOK(live'[g])
    BY <2>2, <2>5, <2>6, LiveStep
  <2>8. UNCHANGED <<db, disk, world, hist, job, now, crashes>>
    BY <1>2 DEF FetchFails
  <2> QED
    BY <2>7, <2>8 DEF TypeInv, TypeOK, ThreadsOK, StoreOK, db, disk, world, hist
<1>3. CASE FetchDisallowed(h, s)
  <2> DEFINE t == [live[h] EXCEPT !.attempts = live[h].attempts + 1, !.robots = TRUE,
                                  !.body = 0, !.next = "record_failure"]
  <2>1. live[h].attempts + 1 \in 0..MaxAttempts
    BY <1>0, <1>3, ConstantsAssumption DEF FetchDisallowed, AtNode, Thread, ThreadOK
  <2>2. live' = [live EXCEPT ![h] = t]
    BY <1>3 DEF FetchDisallowed, Becomes
  <2>3. 0 \in Body
    BY ConstantsAssumption DEF Body
  <2>4. t \in Thread /\ t.next = "record_failure"
    BY <1>0, <2>1, <2>3 DEF Thread, Nodes
  <2> HIDE DEF t
  <2>5. ThreadOK(t)
    BY <2>4 DEF ThreadOK
  <2>6. live' \in [Host -> Thread] /\ \A g \in Host : ThreadOK(live'[g])
    BY <2>2, <2>4, <2>5, LiveStep
  <2>7. UNCHANGED <<db, disk, world, hist, job, now, crashes>>
    BY <1>3 DEF FetchDisallowed
  <2> QED
    BY <2>6, <2>7 DEF TypeInv, TypeOK, ThreadsOK, StoreOK, db, disk, world, hist
<1>4. CASE Diff(h, s)
  <2> DEFINE verdict == IF sources[s].body = 0 THEN "meaningful"
                        ELSE Classify(sources[s].body, live[h].body)
             next == IF verdict = "meaningful" THEN "chunk" ELSE "verify_only"
             t == [live[h] EXCEPT !.verdict = verdict, !.next = next]
  <2>1. live' = [live EXCEPT ![h] = t]
    BY <1>4 DEF Diff, Becomes
  <2>2. found' \in [Source -> SUBSET (Host \X Day)]
    BY <1>0, <1>4 DEF Diff, TypeInv, TypeOK
  <2>3. verdict \in Verdicts
    BY DEF Classify, Verdicts
  <2>4. next \in {"chunk", "verify_only"}
    OBVIOUS
  <2> HIDE DEF verdict, next
  <2>5. live[h].body \in Version
    BY <1>0, <1>4 DEF Diff, AtNode, ThreadOK
  <2>6. t \in Thread /\ t.next = next /\ t.verdict = verdict /\ t.body \in Version
    BY <1>0, <2>3, <2>4, <2>5 DEF Thread, Nodes
  <2> HIDE DEF t
  <2>7. ThreadOK(t)
    BY <2>3, <2>4, <2>6 DEF ThreadOK
  <2>8. live' \in [Host -> Thread] /\ \A g \in Host : ThreadOK(live'[g])
    BY <2>1, <2>6, <2>7, LiveStep
  <2>9. UNCHANGED <<db, disk, world, job, now, crashes, failing, fetchDay>>
    BY <1>4 DEF Diff
  <2> QED
    BY <2>2, <2>8, <2>9 DEF TypeInv, TypeOK, ThreadsOK, StoreOK, db, disk, world
<1>5. CASE DiffRefuses(h, s)
  BY <1>5, RaisesType DEF DiffRefuses
<1>6. CASE Chunk(h, s) \/ Embed(h, s)
  <2> DEFINE next == IF Chunk(h, s) THEN "embed" ELSE "reindex"
             t == [live[h] EXCEPT !.next = next]
  <2>1. live[h].body \in Version /\ live[h].body \in Body /\ live[h].verdict \in Verdicts
    BY <1>0, <1>6 DEF Chunk, Embed, AtNode, ThreadOK, Version, Body
  <2>2. live' = [live EXCEPT ![h] = t]
    BY <1>6 DEF Chunk, Embed, Becomes, AtNode
  <2>3. next \in {"embed", "reindex"}
    OBVIOUS
  <2> HIDE DEF next
  <2>4. t \in Thread /\ t.next = next /\ t.body \in Version /\ t.verdict \in Verdicts
    BY <1>0, <2>1, <2>3 DEF Thread, Nodes
  <2> HIDE DEF t
  <2>5. ThreadOK(t)
    BY <2>3, <2>4 DEF ThreadOK
  <2>6. live' \in [Host -> Thread] /\ \A g \in Host : ThreadOK(live'[g])
    BY <2>2, <2>4, <2>5, LiveStep
  <2>7. UNCHANGED <<db, world, hist, saved, job, now, crashes>>
    BY <1>6 DEF Chunk, Embed, disk
  <2>8. snapshot' = snapshot \/ snapshot' = [snapshot EXCEPT ![h][s] = live[h].body]
    BY <1>6 DEF Chunk, Embed, disk
  <2>9. /\ snapshot' \in [Host -> [Source -> Body]]
        /\ \A g \in Host, u \in Source : snapshot'[g][u] \in {snapshot[g][u], live[h].body}
    <3>1. snapshot \in [Host -> [Source -> Body]]
      BY DEF TypeInv, TypeOK
    <3>2. CASE snapshot' = snapshot
      BY <3>1, <3>2
    <3>3. CASE snapshot' = [snapshot EXCEPT ![h][s] = live[h].body]
      BY <2>1, <3>1, <3>3
    <3> QED
      BY <2>8, <3>2, <3>3
  <2>10. StoreOK'
    BY <2>1, <2>7, <2>9 DEF TypeInv, StoreOK
  <2> QED
    BY <2>6, <2>7, <2>9, <2>10 DEF TypeInv, TypeOK, ThreadsOK, db, world, hist
<1>7. CASE TakeNow(h, s)
  <2>1. UNCHANGED <<db, disk, world, hist, live, job, crashes>>
        /\ now' = [now EXCEPT ![h] = {day}]
    BY <1>7 DEF TakeNow
  <2> QED
    BY <2>1 DEF TypeInv, TypeOK, ThreadsOK, StoreOK, db, disk, world, hist
<1>8. CASE DryVerdict(h, s)
  <2>1. live[h].verdict \in Terminal
    BY <1>0, <1>8 DEF DryVerdict, AtNode, ThreadOK, Terminal
  <2>2. live' \in [Host -> Thread] /\ \A g \in Host : ThreadOK(live'[g])
    BY <1>8, <2>1, EndsType DEF DryVerdict
  <2>3. UNCHANGED <<db, disk, world, hist, job, now, crashes>>
    BY <1>8 DEF DryVerdict
  <2> QED
    BY <2>2, <2>3 DEF TypeInv, TypeOK, ThreadsOK, StoreOK, db, disk, world, hist
<1>9. CASE Reindex(h, s)
  <2>1. live[h].verdict \in Terminal /\ live[h].body \in Body
    BY <1>0, <1>9 DEF Reindex, AtNode, ThreadOK, Terminal, Thread
  <2>2. live' \in [Host -> Thread] /\ \A g \in Host : ThreadOK(live'[g])
    BY <1>9, <2>1, EndsType DEF Reindex
  <2>3. PassedNote(live[h].note) \in Note
    BY <1>0 DEF PassedNote, Thread, Note, Evid
  <2>4. sources' \in [Source -> Row] /\ documents' \in [Source -> Chunks]
    BY <1>0, <1>9, <2>1, <2>3, EmbedAndStoreType DEF Reindex
  <2>5. UNCHANGED <<disk, world, job, crashes, found, fetchDay>>
        /\ now' = [now EXCEPT ![h] = {}] /\ failing' = [failing EXCEPT ![s] = {}]
    BY <1>9 DEF Reindex
  <2> QED
    BY <2>2, <2>4, <2>5 DEF TypeInv, TypeOK, ThreadsOK, StoreOK, disk, world
<1>10. CASE VerifyOnly(h, s)
  <2>1. live[h].verdict \in Terminal
    BY <1>0, <1>10 DEF VerifyOnly, AtNode, ThreadOK, Terminal
  <2>2. live' \in [Host -> Thread] /\ \A g \in Host : ThreadOK(live'[g])
    BY <1>10, <2>1, EndsType DEF VerifyOnly
  <2>3. PassedNote(live[h].note) \in Note
    BY <1>0 DEF PassedNote, Thread, Note, Evid
  <2>4. sources' \in [Source -> Row] /\ documents' \in [Source -> Chunks]
    BY <1>0, <1>10, <2>3, TouchLastVerifiedType DEF VerifyOnly
  <2>5. UNCHANGED <<disk, world, job, crashes, found, fetchDay>>
        /\ now' = [now EXCEPT ![h] = {}] /\ failing' = [failing EXCEPT ![s] = {}]
    BY <1>10 DEF VerifyOnly
  <2> QED
    BY <2>2, <2>4, <2>5 DEF TypeInv, TypeOK, ThreadsOK, StoreOK, disk, world
<1>11. CASE RecordFailure(h, s)
  <2>1. live' \in [Host -> Thread] /\ \A g \in Host : ThreadOK(live'[g])
    BY <1>11, EndsType DEF RecordFailure, Terminal
  <2>2. live[h].robots \in BOOLEAN
    BY <1>0 DEF Thread
  <2>3. sources' \in [Source -> Row] /\ documents' \in [Source -> Chunks]
    <3>1. CASE job[h].dry
      BY <1>11, <3>1 DEF RecordFailure, db, TypeInv, TypeOK
    <3>2. CASE ~job[h].dry
      BY <1>11, <2>2, <3>2, RecordSourceFailureType DEF RecordFailure
    <3> QED
      BY <3>1, <3>2
  <2>4. failing' \in [Source -> SUBSET (Host \X Day)]
    BY <1>0, <1>11 DEF RecordFailure, TypeInv, TypeOK
  <2>5. UNCHANGED <<disk, world, job, now, crashes, found, fetchDay>>
    BY <1>11 DEF RecordFailure
  <2> QED
    BY <2>1, <2>3, <2>4, <2>5 DEF TypeInv, TypeOK, ThreadsOK, StoreOK, disk, world
<1>12. CASE Persist(h, s)
  <2>1. /\ saved' \in [Host -> [Day -> [Source -> Thread]]]
        /\ \A g \in Host, r \in Day, u \in Source : ThreadOK(saved'[g][r][u])
    BY <1>12, SavedStep DEF Persist
  <2>2. UNCHANGED <<db, world, hist, snapshot, live, job, now, crashes>>
    BY <1>12 DEF Persist
  <2> QED
    BY <2>1, <2>2 DEF TypeInv, TypeOK, ThreadsOK, StoreOK, db, world, hist
<1>13. CASE FinishThread(h, s)
  <2>1. live[h].status \in Terminal
    BY <1>0, <1>13 DEF FinishThread, AtNode, ThreadOK
  <2>2. job' \in [Host -> Job] /\ job'[h].pc = "next"
        /\ \A g \in Host : g # h => job'[g] = job[g]
    BY <1>13, <2>1, ReportedStep DEF FinishThread
  <2>3. live' \in [Host -> Thread] /\ \A g \in Host : ThreadOK(live'[g])
    BY <1>13, NoThreadType, LiveStep DEF FinishThread
  <2>4. UNCHANGED <<db, disk, world, hist, now, crashes>>
    BY <1>13 DEF FinishThread
  <2>5. StoreOK'
    BY <2>2, <2>4, StoreStep DEF disk
  <2> QED
    BY <2>2, <2>3, <2>4, <2>5 DEF TypeInv, TypeOK, ThreadsOK, db, disk, world, hist
<1> QED
  BY <1>1, <1>2, <1>3, <1>4, <1>5, <1>6, <1>7, <1>8, <1>9, <1>10, <1>11, <1>12, <1>13
  DEF NodeStep

-----------------------------------------------------------------------------

\* The other steps of a host keep the types.
LEMMA HostStepType ==
    ASSUME TypeInv, NEW h \in Host, HostStep(h)
    PROVE  TypeInv'
<1>0. /\ job \in [Host -> Job] /\ job[h] \in Job /\ manifest \in [Source -> Note]
      /\ day \in Day /\ 0 \in Day /\ NoReport \in [Source -> Terminal \cup {"none", "unhandled_error"}]
  BY HostType, ConstantsAssumption DEF TypeInv, TypeOK, NoReport, Day
<1>1. CASE RefreshStep(h)
  <2>1. CASE \E s \in Source : LoopStep(h, s) \/ NodeStep(h, s)
    BY <2>1, LoopType, NodeType
  <2>2. CASE EndRun(h)
    <3>1. job' = [job EXCEPT ![h] = [@ EXCEPT !.pc = "done", !.cur = job[h].cur,
                                             !.todo = job[h].todo]]
      BY <1>0, <2>2 DEF EndRun, Job
    <3>2. job[h].cur \in Source \cup {NoSource} /\ job[h].todo \in SUBSET Source
      BY <1>0 DEF Job
    <3>3. job' \in [Host -> Job] /\ job'[h].pc = "done"
          /\ \A g \in Host : g # h => job'[g] = job[g]
      BY <3>1, <3>2, JobStep
    <3>4. UNCHANGED <<db, disk, world, hist, live, now, crashes>>
      BY <2>2 DEF EndRun
    <3>5. StoreOK'
      BY <3>3, <3>4, StoreStep DEF disk
    <3> QED
      BY <3>3, <3>4, <3>5 DEF TypeInv, TypeOK, ThreadsOK, db, disk, world, hist
  <2> QED
    BY <1>1, <2>1, <2>2 DEF RefreshStep
<1>2. ASSUME NEW r \in RunIds, NEW dry \in BOOLEAN, NEW only \in SUBSET Source,
             StartRun(h, r, dry, only)
      PROVE  TypeInv'
  <2> DEFINE j == [pc |-> "next", cur |-> NoSource, todo |-> only, scope |-> only, run |-> r,
                   dry |-> dry, started |-> day, entries |-> manifest, report |-> NoReport]
  <2>1. r \in Day
    BY <1>0, ConstantsAssumption DEF RunIds, Day
  <2>2. j \in Job /\ j.pc = "next"
    BY <1>0, <2>1 DEF Job
  <2>3. job' = [job EXCEPT ![h] = j] /\ UNCHANGED <<db, disk, world, hist, live, now, crashes>>
    BY <1>2 DEF StartRun
  <2> HIDE DEF j
  <2>4. job' \in [Host -> Job] /\ job'[h].pc # "store"
        /\ \A g \in Host : g # h => job'[g] = job[g]
    BY <1>0, <2>2, <2>3
  <2>5. StoreOK'
    BY <2>3, <2>4, StoreStep DEF disk
  <2> QED
    BY <2>3, <2>4, <2>5 DEF TypeInv, TypeOK, ThreadsOK, db, disk, world, hist
<1>3. ASSUME NEW s \in Source, NodeRaises(h, s) \/ CheckpointLost(h, s)
      PROVE  TypeInv'
  BY <1>3, RaisesType, CheckpointLostType DEF NodeRaises
<1>4. ASSUME NEW s \in Source, IngestFetch(h, s)
      PROVE  TypeInv'
  <2>1. page[s] \in Version /\ page[s] \in Body
    BY DEF TypeInv, TypeOK, Version, Body
  <2>2. job' = [job EXCEPT ![h] = [@ EXCEPT !.pc = "store", !.cur = s, !.todo = job[h].todo]]
    BY <1>0, <1>4 DEF IngestFetch, Job
  <2>3. job[h].todo \in SUBSET Source
    BY <1>0 DEF Job
  <2>4. job' \in [Host -> Job] /\ job'[h].pc = "store" /\ job'[h].cur = s
        /\ \A g \in Host : g # h => job'[g] = job[g]
    BY <2>2, <2>3, JobStep
  <2>5. /\ UNCHANGED <<db, world, saved, live, now, crashes, found, failing>>
        /\ snapshot' = [snapshot EXCEPT ![h][s] = page[s]]
        /\ fetchDay' = [fetchDay EXCEPT ![s] = day]
    BY <1>4 DEF IngestFetch
  <2>6. /\ snapshot' \in [Host -> [Source -> Body]] /\ snapshot'[h][s] = page[s]
        /\ \A g \in Host : g # h => snapshot'[g] = snapshot[g]
    BY <2>1, <2>5 DEF TypeInv, TypeOK
  <2>7. StoreOK'
    BY <2>1, <2>4, <2>6 DEF TypeInv, StoreOK
  <2> QED
    BY <1>0, <2>4, <2>5, <2>6, <2>7 DEF TypeInv, TypeOK, ThreadsOK, db, world
<1>5. ASSUME NEW s \in Source, IngestDisallowed(h, s)
      PROVE  TypeInv'
  <2> DEFINE rest == job[h].todo \ {s}
             c == job[h].cur
  <2>0. job' = [job EXCEPT ![h].todo = rest] /\ job[h].pc = "ingest"
    BY <1>5 DEF IngestDisallowed
  <2>2. c \in Source \cup {NoSource} /\ rest \in SUBSET Source
    BY <1>0 DEF Job
  <2> HIDE DEF rest
  <2>1. job' = [job EXCEPT ![h] = [@ EXCEPT !.pc = "ingest", !.cur = c, !.todo = rest]]
    <3> DEFINE j == [job[h] EXCEPT !.todo = rest]
               k == [job[h] EXCEPT !.pc = "ingest", !.cur = c, !.todo = rest]
    <3>1. j = k
      BY <1>0, <2>0 DEF Job
    <3>2. job' = [job EXCEPT ![h] = j]
      BY <2>0
    <3> HIDE DEF j, k
    <3>3. job' = [job EXCEPT ![h] = k]
      BY <3>1, <3>2
    <3> QED
      BY <3>3 DEF k
  <2> HIDE DEF c
  <2>3. job' \in [Host -> Job] /\ job'[h].pc = "ingest"
        /\ \A g \in Host : g # h => job'[g] = job[g]
    BY <2>1, <2>2, JobStep
  <2>4. UNCHANGED <<db, disk, world, hist, live, now, crashes>>
    BY <1>5 DEF IngestDisallowed
  <2>5. StoreOK'
    BY <2>3, <2>4, StoreStep DEF disk
  <2> QED
    BY <2>3, <2>4, <2>5 DEF TypeInv, TypeOK, ThreadsOK, db, disk, world, hist
<1>6. ASSUME NEW s \in Source, IngestStore(h, s)
      PROVE  TypeInv'
  <2>1. snapshot[h][s] \in Body /\ job[h].entries[s] \in Note
    BY <1>0 DEF TypeInv, TypeOK, Job
  <2>2. sources' \in [Source -> Row] /\ documents' \in [Source -> Chunks]
    BY <1>0, <1>6, <2>1, EmbedAndStoreType DEF IngestStore
  <2> DEFINE rest == job[h].todo \ {s}
  <2>3. job' = [job EXCEPT ![h] = [@ EXCEPT !.pc = "ingest", !.cur = NoSource, !.todo = rest]]
    BY <1>0, <1>6 DEF IngestStore, Job
  <2>4. rest \in SUBSET Source
    BY <1>0 DEF Job
  <2> HIDE DEF rest
  <2>5. job' \in [Host -> Job] /\ job'[h].pc = "ingest"
        /\ \A g \in Host : g # h => job'[g] = job[g]
    BY <2>3, <2>4, JobStep
  <2>6. UNCHANGED <<disk, world, live, now, crashes, found, fetchDay>>
        /\ failing' = [failing EXCEPT ![s] = {}]
    BY <1>6 DEF IngestStore
  <2>7. StoreOK'
    BY <2>5, <2>6, StoreStep DEF disk
  <2> QED
    BY <2>2, <2>5, <2>6, <2>7 DEF TypeInv, TypeOK, ThreadsOK, disk, world
<1>7. ASSUME NEW s \in Source, BackfillSourceBodies(h, s)
      PROVE  TypeInv'
  <2>1. sources' = [sources EXCEPT ![s] = [sources[s] EXCEPT !.body = snapshot[h][s]]]
        /\ UNCHANGED <<documents, disk, world, hist, live, job, now, crashes>>
    BY <1>7 DEF BackfillSourceBodies
  <2>2. sources[s] \in Row /\ snapshot[h][s] \in Body /\ sources \in [Source -> Row]
    BY DEF TypeInv, TypeOK
  <2>3. [sources[s] EXCEPT !.body = snapshot[h][s]] \in Row
    BY <2>2 DEF Row
  <2>4. sources' \in [Source -> Row]
    BY <2>1, <2>2, <2>3
  <2> QED
    BY <2>1, <2>4 DEF TypeInv, TypeOK, ThreadsOK, StoreOK, disk, world, hist
<1>8. CASE StartIngest(h)
  <2> DEFINE j == [pc |-> "ingest", cur |-> NoSource, todo |-> Source, scope |-> Source,
                   run |-> day, dry |-> FALSE, started |-> day, entries |-> manifest,
                   report |-> NoReport]
  <2>1. j \in Job /\ j.pc = "ingest"
    BY <1>0 DEF Job
  <2>2. job' = [job EXCEPT ![h] = j] /\ UNCHANGED <<db, disk, world, hist, live, now, crashes>>
    BY <1>8 DEF StartIngest
  <2> HIDE DEF j
  <2>3. job' \in [Host -> Job] /\ job'[h].pc # "store"
        /\ \A g \in Host : g # h => job'[g] = job[g]
    BY <1>0, <2>1, <2>2
  <2>4. StoreOK'
    BY <2>2, <2>3, StoreStep DEF disk
  <2> QED
    BY <2>2, <2>3, <2>4 DEF TypeInv, TypeOK, ThreadsOK, db, disk, world, hist
<1>9. CASE IngestStops(h) \/ Crash(h)
  <2> DEFINE rest == job[h].todo
  <2>0. job' = [job EXCEPT ![h].pc = "idle", ![h].cur = NoSource]
    BY <1>9 DEF IngestStops, Crash
  <2>1. job' = [job EXCEPT ![h] = [@ EXCEPT !.pc = "idle", !.cur = NoSource, !.todo = rest]]
    BY <1>0, <2>0 DEF Job
  <2>2. rest \in SUBSET Source
    BY <1>0 DEF Job
  <2> HIDE DEF rest
  <2>3. job' \in [Host -> Job] /\ job'[h].pc = "idle"
        /\ \A g \in Host : g # h => job'[g] = job[g]
    BY <2>1, <2>2, JobStep
  <2>4. UNCHANGED <<db, disk, world, hist>>
    BY <1>9 DEF IngestStops, Crash
  <2>5. StoreOK'
    BY <2>3, <2>4, StoreStep DEF disk
  <2>6. live' \in [Host -> Thread] /\ \A g \in Host : ThreadOK(live'[g])
    <3>1. CASE live' = live
      BY <3>1 DEF TypeInv, TypeOK, ThreadsOK
    <3>2. CASE live' = [live EXCEPT ![h] = NoThread]
      BY <3>2, NoThreadType, LiveStep
    <3> QED
      BY <1>9, <3>1, <3>2 DEF IngestStops, Crash
  <2>7. now' \in [Host -> SUBSET Day] /\ crashes' \in 0..MaxCrashes
    <3>1. now \in [Host -> SUBSET Day] /\ crashes \in 0..MaxCrashes /\ MaxCrashes \in Nat
      BY ConstantsAssumption DEF TypeInv, TypeOK
    <3>2. CASE IngestStops(h)
      BY <3>1, <3>2 DEF IngestStops
    <3>3. CASE Crash(h)
      BY <3>1, <3>3 DEF Crash
    <3> QED
      BY <1>9, <3>2, <3>3
  <2> QED
    BY <2>3, <2>4, <2>5, <2>6, <2>7 DEF TypeInv, TypeOK, ThreadsOK, db, disk, world, hist
<1> QED
  BY <1>1, <1>2, <1>3, <1>4, <1>5, <1>6, <1>7, <1>8, <1>9 DEF HostStep, IngestStep

\* The steps of the world keep the types.
LEMMA WorldStepType ==
    ASSUME TypeInv, WorldStep
    PROVE  TypeInv'
<1>1. ASSUME NEW s \in Source, PageChanges(s) PROVE TypeInv'
  <2>1. page' \in [Source -> Version]
    BY <1>1, ConstantsAssumption DEF PageChanges, TypeInv, TypeOK, Version
  <2>2. UNCHANGED <<manifest, day, db, disk, hist, live, job, now, crashes>>
    BY <1>1 DEF PageChanges
  <2> QED
    BY <2>1, <2>2 DEF TypeInv, TypeOK, ThreadsOK, StoreOK, db, disk, hist
<1>2. ASSUME NEW s \in Source, SyncAnnotations(s) PROVE TypeInv'
  <2>1. documents \in [Source -> Chunks] /\ manifest[s] \in Note
    BY DEF TypeInv, TypeOK
  <2>2. [documents[s] EXCEPT !.note = manifest[s]] \in Chunks
    BY <2>1 DEF Chunks
  <2>3. documents' = [documents EXCEPT ![s] = [documents[s] EXCEPT !.note = manifest[s]]]
        /\ UNCHANGED <<sources, disk, world, hist, live, job, now, crashes>>
    BY <1>2 DEF SyncAnnotations
  <2>4. documents' \in [Source -> Chunks]
    BY <2>1, <2>2, <2>3
  <2> QED
    BY <2>3, <2>4 DEF TypeInv, TypeOK, ThreadsOK, StoreOK, disk, world, hist
<1>3. ASSUME NEW s \in Source, NEW note \in Note, EditManifest(s, note) PROVE TypeInv'
  <2>1. manifest' \in [Source -> Note]
    BY <1>3 DEF EditManifest, TypeInv, TypeOK
  <2>2. UNCHANGED <<page, day, db, disk, hist, live, job, now, crashes>>
    BY <1>3 DEF EditManifest
  <2> QED
    BY <2>1, <2>2 DEF TypeInv, TypeOK, ThreadsOK, StoreOK, db, disk, hist
<1>4. CASE NextDay
  <2>1. day' \in Day
    BY <1>4, ConstantsAssumption DEF NextDay, TypeInv, TypeOK, Day
  <2>2. UNCHANGED <<page, manifest, db, disk, hist, live, job, now, crashes>>
    BY <1>4 DEF NextDay
  <2> QED
    BY <2>1, <2>2 DEF TypeInv, TypeOK, ThreadsOK, StoreOK, db, disk, hist
<1> QED
  BY <1>1, <1>2, <1>3, <1>4 DEF WorldStep

\* Every step keeps TypeInv.
LEMMA NextTypeInv == TypeInv /\ [Next]_vars => TypeInv'
<1>1. ASSUME TypeInv, UNCHANGED vars PROVE TypeInv'
  BY <1>1 DEF vars, TypeInv, TypeOK, ThreadsOK, StoreOK
<1> QED
  BY <1>1, HostStepType, WorldStepType DEF Next

\* TypeInv is an invariant of the corpus writers.
THEOREM TypeInvariant == Spec => []TypeInv
BY InitTypeInv, NextTypeInv, PTL DEF Spec

\* Every variable keeps its type, whatever the number of hosts, sources, days,
\* page versions and crashes: in particular the attempts of a thread stay
\* within REFRESH_MAX_FETCH_ATTEMPTS across resumptions.
THEOREM TypeCorrect == Spec => []TypeOK
<1>1. TypeInv => TypeOK
  BY DEF TypeInv
<1> QED
  BY <1>1, TypeInvariant, PTL
=============================================================================
