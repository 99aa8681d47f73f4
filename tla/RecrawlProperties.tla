------------------------- MODULE RecrawlProperties -------------------------
(***************************************************************************)
(* What the corpus writers of module Recrawl must guarantee.               *)
(***************************************************************************)
EXTENDS Recrawl

\* Every variable keeps its type.
TypeOK ==
    /\ page \in [Source -> Version]
    /\ manifest \in [Source -> Note]
    /\ day \in Day
    /\ sources \in [Source -> Row]
    /\ documents \in [Source -> Chunks]
    /\ snapshot \in [Host -> [Source -> Body]]
    /\ saved \in [Host -> [Day -> [Source -> Thread]]]
    /\ live \in [Host -> Thread]
    /\ job \in [Host -> Job]
    /\ now \in [Host -> SUBSET Day]
    /\ crashes \in 0..MaxCrashes
    /\ found \in [Source -> SUBSET (Host \X Day)]
    /\ failing \in [Source -> SUBSET (Host \X Day)]
    /\ fetchDay \in [Source -> Day]

-----------------------------------------------------------------------------
(* The diff baseline.                                                      *)

\* last_indexed_body is the body the chunks were built from, and no chunk
\* lacks its row (infra/sql/init.sql:104-106): whatever interleaving of
\* writers, crash or exception, the next diff is made against what is served.
BaselineIsIndexed ==
    \A s \in Source :
        /\ sources[s].body # 0 => documents[s].body = sources[s].body
        /\ documents[s].body # 0 => sources[s].status # "absent"

\* The refresh job never re-indexes chunks it has no baseline for: not even
\* when the thread was resumed after the baseline was looked at (ADR 0014).
\* Only an ingest replaces such chunks, with its store step.
NoBlindReindex ==
    [][\A s \in Source :
           documents[s].body # 0 /\ sources[s].body = 0
               => \/ /\ documents'[s].body = documents[s].body
                     /\ sources'[s].fetched = sources[s].fetched
                  \/ \E h \in Host : /\ job[h].pc = "store" /\ job[h].cur = s
                                     /\ job'[h].pc = "ingest"]_vars

\* A page version older than the one indexed is never indexed over it, though
\* a thread resumed after a crash indexes the body in its checkpoint.
IndexNeverRegresses ==
    [][\A s \in Source : documents'[s].body >= documents[s].body]_vars

\* The text of an indexed source is replaced only by text that differs in
\* more than order or formatting from the text replaced.
ReindexOnlyOnChange ==
    [][\A s \in Source :
           documents[s].body # 0 /\ documents'[s].body # documents[s].body
               => Class[documents'[s].body] # Class[documents[s].body]]_vars

\* When a live run ends, a source it reports unchanged, cosmetic or meaningful
\* is indexed with the text that run fetched, up to order and formatting:
\* "re-index only the sources whose content meaningfully changed" (recrawl.py:1-2).
ReportedIsIndexed ==
    \A h \in Host : job[h].pc = "done" /\ ~job[h].dry =>
        \A s \in job[h].scope : job[h].report[s] \in Verdicts =>
            /\ documents[s].body # 0
            /\ Class[documents[s].body] = Class[saved[h][job[h].run][s].body]

-----------------------------------------------------------------------------
(* The freshness clocks and the failure history.                           *)

\* A source changed no later than it was fetched, was fetched no later than it
\* was verified, and nothing is dated in the future.
ClocksInOrder ==
    \A s \in Source :
        /\ sources[s].changed <= sources[s].fetched
        /\ sources[s].fetched <= sources[s].verified
        /\ sources[s].verified <= day

\* last_verified_at overstates the last successful fetch by at most the one
\* midnight a run may cross, even when the run was killed and resumed.
VerificationIsFresh ==
    \A s \in Source : sources[s].verified <= fetchDay[s] + 1

\* change_count exceeds the runs that found a meaningful change by at most one
\* for every process killed or checkpoint lost (the reindex is then run again).
ChangeCountBound ==
    \A s \in Source : sources[s].changeCount <= Cardinality(found[s]) + crashes

\* consecutive_failures exceeds the runs that failed since the last success by
\* at most one for every process killed or checkpoint lost.
FailureCountBound ==
    \A s \in Source : sources[s].failures <= Cardinality(failing[s]) + crashes

\* Neither counter of a source runs away from what happened to it: a threshold on
\* one is reached by real changes or failures, give or take one for
\* every process killed or checkpoint lost.
CountersBounded == ChangeCountBound /\ FailureCountBound

-----------------------------------------------------------------------------
(* Annotations, dry runs and progress.                                     *)

\* When a live run ends, the chunks of a source it verified or re-indexed carry
\* the effective date, status and status source the manifest had for that run.
RuleIsCarried ==
    \A h \in Host : job[h].pc = "done" /\ ~job[h].dry =>
        \A s \in job[h].scope : job[h].report[s] \in Verdicts =>
            documents[s].note.rule = saved[h][job[h].run][s].note.rule

\* A dry run will "make no database writes and no snapshot writes" (recrawl.py:1548):
\* no step of it does, whatever live run left the threads it resumes and whatever
\* other hosts write meanwhile.
DryRunWritesNothing ==
    [][\A h \in Host :
           Active(h) /\ job[h].dry /\ <<live'[h], job'[h]>> # <<live[h], job[h]>>
               => UNCHANGED <<sources, documents, snapshot>>]_vars

\* One source that fails, raises or is disallowed never keeps a run from ending
\* with a result for every source it was given, unless the process is killed.
RunReportsEverySource ==
    \A h \in Host :
        job[h].pc = "next" ~>
            \/ job[h].pc = "idle"
            \/ job[h].pc = "done"
               /\ \A s \in job[h].scope : job[h].report[s] # "none"
=============================================================================
