---------------------------- MODULE SourceStatus ----------------------------
(***************************************************************************)
(* GET /sources/status (app/main.py, app/guardrails/freshness.py): what    *)
(* the header of the page says of the corpus that the writers of module    *)
(* Recrawl keep, at any moment of theirs.  Ages are in days: a timestamp   *)
(* of d days ago is between d - 1 and d + 1 times 24 hours old, so at a    *)
(* threshold either side of it may be reported.                            *)
(***************************************************************************)
EXTENDS Recrawl, FiniteSetsExt

CONSTANTS
    CurrentDays,          \* the 24 hours of sources_freshness_state
    RecentDays,           \* its 168 hours
    BrokenAfterFailures,  \* SOURCE_BROKEN_CONSECUTIVE_FAILURES
    BrokenAfterDays       \* SOURCE_BROKEN_NO_SUCCESS_DAYS

ASSUME StatusAssumption ==
    /\ {CurrentDays, RecentDays, BrokenAfterDays} \subseteq Nat
    /\ CurrentDays < RecentDays
    /\ BrokenAfterFailures \in Nat \ {0}

\* The rows of the table.
Present == {s \in Source : sources[s].status # "absent"}

\* sources_freshness_state of the oldest last_verified_at: the bands an age
\* in days can fall in.
sources_freshness_state(age) ==
    {band \in {"current", "recent", "stale"} :
        CASE band = "current" -> age <= CurrentDays
          [] band = "recent"  -> CurrentDays <= age /\ age <= RecentDays
          [] band = "stale"   -> RecentDays <= age}

\* Seeded fault: a source is broken by its recorded failures alone.
FaultyHealthByFailures(row) ==
    IF row.status = "robots_disallowed" \/ row.failures >= BrokenAfterFailures
    THEN {"broken"} ELSE {"ok"}

\* source_health_state; last_success_at is written where last_verified_at is.
source_health_state(row) ==
    {health \in {"ok", "broken"} :
        CASE health = "ok"     -> /\ row.status # "robots_disallowed"
                                  /\ row.failures < BrokenAfterFailures
                                  /\ day - row.verified <= BrokenAfterDays
          [] health = "broken" -> \/ row.status = "robots_disallowed"
                                  \/ row.failures >= BrokenAfterFailures
                                  \/ day - row.verified >= BrokenAfterDays}

\* sources_status: the band of the weakest source ...
Bands ==
    IF Present = {} THEN {"unknown"}
    ELSE sources_freshness_state(day - Min({sources[s].verified : s \in Present}))

\* ... and the sources that may be left out of the list of broken ones.
Unlisted == {s \in Present : "ok" \in source_health_state(sources[s])}

-----------------------------------------------------------------------------
\* What the header claims is so: it says "current" only if every source was
\* fetched within the threshold and the one midnight a run may cross, and leaves
\* out of the broken ones only a source the job may fetch and has fetched within
\* its threshold.  A run that raises records no failure, so that only the age of
\* the last success can tell (freshness.py:88-97, :136-144).
StatusIsHonest ==
    /\ "current" \in Bands =>
           \A s \in Present : day <= fetchDay[s] + CurrentDays + 1
    /\ \A s \in Unlisted :
           /\ sources[s].status # "robots_disallowed"
           /\ day <= fetchDay[s] + BrokenAfterDays + 1
=============================================================================
