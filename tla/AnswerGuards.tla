---------------------------- MODULE AnswerGuards ----------------------------
(***************************************************************************)
(* What stands between a curator's statement about a rule and what a       *)
(* reader is told of it: the annotations and their validation              *)
(* (app/rule_status.py), the retrieval with its dated companions           *)
(* (app/db.py), the notes in the prompt (app/prompts.py), the citation,    *)
(* authority and prompt-leak checks, the temporal guard and the freshness  *)
(* notice (app/guardrails), in the order of app/pipeline.py.               *)
(* One question is followed at a time: answer_question keeps all of this   *)
(* in its locals.  The writers and midnight come between its awaits.       *)
(*                                                                         *)
(* Abstractions: a date is the number of a day, 0 standing for None; a     *)
(* sentence is the figures, dates and citations it states and what the     *)
(* regular expressions would find in it; a source has one citation URL.    *)
(***************************************************************************)
EXTENDS Naturals, Sequences, FiniteSets, FiniteSetsExt, Functions

CONSTANTS
    Url,         \* the sources
    Figure,      \* the numbers the corpus states
    Chunk,       \* rows of documents
    UrlOf,       \* UrlOf[c]: the source of a chunk
    FiguresOf,   \* FiguresOf[c]: the figures its content states
    Document,    \* court orders, withdrawals and Federal Register pages
    Entry,       \* annotations a curator may write into the manifest
    Held,        \* annotations held at the start: valid ones, and some from before
                 \* rule_status was a column
    Text,        \* the texts the model may generate
    TopK,        \* Settings.RETRIEVAL_TOP_K
    Companions,  \* Settings.DATED_RULE_COMPANIONS
    MaxDay,      \* bound: days
    MaxEdits     \* bound: annotations loaded

Day == 1..MaxDay
Date == 0..(MaxDay + 1)
RuleStatus == {"in_force", "scheduled", "enjoined", "not_in_force"}

\* rule_status, rule_effective_date, rule_status_source and
\* rule_status_source_evidences_status.
Note == [status : RuleStatus \cup {"null"}, date : Date,
         source : Document \cup {"null"}, evidences : {"null", "true", "false"}]

NoNote == [status |-> "null", date |-> 0, source |-> "null", evidences |-> "null"]

\* A sentence: the figures and the effective dates it states; the indices in its
\* brackets, and whether these are native markup instead of [N]; whether it claims
\* authority, quotes the prompt or names the DSO.
Sentence == [figures : SUBSET Figure, dates : SUBSET Date, cites : SUBSET Nat,
             native : BOOLEAN, marks : SUBSET {"authority", "leak", "redirect"}]

ASSUME ConstantsAssumption ==
    /\ UrlOf \in [Chunk -> Url]
    /\ FiguresOf \in [Chunk -> SUBSET Figure]
    /\ Entry \subseteq Note
    /\ Held \subseteq Note
    /\ \A t \in Text : t.sentences \in Seq(Sentence) /\ t.heading \in 0..Len(t.sentences)
    /\ IsFiniteSet(Chunk)
    /\ TopK \in Nat \ {0}
    /\ Companions \in Nat
    /\ MaxDay \in Nat \ {0}
    /\ MaxEdits \in Nat

\* The annotations of the first day were valid on it.
ASSUME HeldAssumption ==
    \A n \in Held : /\ n.status = "scheduled" => n.date # 0
                    /\ n.status = "in_force" => n.date <= 1

VARIABLES
    today,   \* the UTC date
    stored,  \* stored[u]: the annotations on the chunks of u in documents
    edits,   \* annotations loaded so far
    asked    \* the locals of answer_question, and the response it returns

vars == <<today, stored, edits, asked>>
world == <<today, stored, edits>>

-----------------------------------------------------------------------------
(* The annotations.                                                        *)

\* is_in_force: what a curator has stated, whatever the date.
InForce(status) == status \in {"null", "in_force"}

Contested(status) == status \in {"enjoined", "not_in_force"}

\* Seeded fault: a rule may be stated to be in force from a day to come.
FaultyValidAnyDate(n, day) ==
    /\ n.source # "null" => n.evidences # "null"
    /\ n.status = "null" => n.date = 0
    /\ n.status = "scheduled" => n.date > day
    /\ Contested(n.status) => n.source # "null"

\* validate_rule_status, on the day the annotation is loaded.
ValidRuleStatus(n, day) ==
    /\ n.source # "null" => n.evidences # "null"
    /\ n.status = "null" => n.date = 0
    /\ n.status = "scheduled" => n.date > day
    /\ n.status = "in_force" => n.date <= day
    /\ Contested(n.status) => n.source # "null"

-----------------------------------------------------------------------------
(* Retrieval and the prompt.                                               *)

Numbered(n, S) == {s \in [1..n -> S] : IsInjective(s)}

\* The two arms of hybrid_search: the fused top k in order of rank ...
Fused == Numbered(Min({TopK, Cardinality(Chunk)}), Chunk)

\* ... and the nearest of the other chunks with an effective date one of these has.
CompanionsOf(top) ==
    LET dates == {stored[UrlOf[top[i]]].date : i \in DOMAIN top} \ {0}
        dated == {c \in Chunk \ Range(top) : stored[UrlOf[c]].date \in dates}
    IN  Numbered(Min({Companions, Cardinality(dated)}), dated)

\* The rows returned: each chunk with the annotations its source has by now.
Rows(cs) == [i \in DOMAIN cs |-> [id |-> cs[i], note |-> stored[UrlOf[cs[i]]]]]

Annotated(n) == n.status # "null" \/ n.date # 0

\* _rule_date_note: what the prompt says of the rule a passage states.
PromptClaim(n) ==
    CASE Contested(n.status)                     -> n.status
      [] InForce(n.status) /\ n.date = 0         -> "in force today"
      [] InForce(n.status) /\ n.date # 0         -> "took effect"
      [] n.status = "scheduled" /\ n.date # 0    -> "takes effect"
      [] n.status = "scheduled" /\ n.date = 0    -> "not_in_force"

\* Seeded fault: the passages are numbered from 0.
FaultyPromptNotesFromZero(rows) ==
    [i \in {j \in 0..(Len(rows) - 1) : Annotated(rows[j + 1].note)} |->
        PromptClaim(rows[i + 1].note)]

\* format_context: the passages with an annotation carry a note.
PromptNotes(rows) ==
    [i \in {j \in DOMAIN rows : Annotated(rows[j].note)} |-> PromptClaim(rows[i].note)]

-----------------------------------------------------------------------------
(* The generated text: its sentences, and how many stand before a          *)
(* "Sources:" heading.                                                     *)

Normalized(sentences) == [i \in DOMAIN sentences |-> [sentences[i] EXCEPT !.native = FALSE]]

Stripped(text) == Normalized(SubSeq(text.sentences, 1, text.heading))

CitedIndices(sentences) ==
    UNION {sentences[i].cites : i \in {j \in DOMAIN sentences : ~sentences[j].native}}

Marks(sentences) == UNION {sentences[i].marks : i \in DOMAIN sentences}

\* Seeded fault: the checks read the text before its source list is stripped.
FaultyVerifiedUnstripped(text) == Normalized(text.sentences)

\* The text the three checks read.
Verified(text) == Stripped(text)

\* verify_citations, verify_no_authority_claim and verify_no_prompt_leak, by
\* precedence: the reason to block, or "none".
BlockReason(sentences, contexts, advice) ==
    LET cited == CitedIndices(sentences)
        sound == cited \subseteq 1..contexts /\ (cited # {} \/ advice)
        marked == Marks(sentences) \cap {"authority", "leak"}
    IN  CASE ~(cited \subseteq 1..contexts)    -> "citation_index_out_of_range"
          [] cited = {} /\ ~advice             -> "answer_missing_citation"
          [] sound /\ "authority" \in marked   -> "answer_claims_official_authority"
          [] sound /\ marked = {"leak"}        -> "answer_reproduces_system_prompt"
          [] sound /\ marked = {}              -> "none"

-----------------------------------------------------------------------------
(* The temporal guard.                                                     *)

CurrentFigures(rows) ==
    UNION {FiguresOf[rows[i].id] : i \in {j \in DOMAIN rows : InForce(rows[j].note.status)}}

\* The rules that give figure f, when no rule in force gives it.
Provenances(rows, f) ==
    IF f \in CurrentFigures(rows) THEN {}
    ELSE {[status |-> rows[i].note.status, date |-> rows[i].note.date] :
             i \in {j \in DOMAIN rows : /\ ~InForce(rows[j].note.status)
                                        /\ f \in FiguresOf[rows[j].id]}}

\* Those of a sentence whose date it does not state; it fires if there are any.
Unstated(rows, s) ==
    {p \in UNION {Provenances(rows, f) : f \in s.figures} : p.date = 0 \/ p.date \notin s.dates}

\* _provenance_sort_key; a tie of dates is broken by the hashes of a set.
Alphabetical == [enjoined |-> 1, not_in_force |-> 2, scheduled |-> 3]
SortsBefore(p, q) ==
    \/ p.date # 0 /\ (q.date = 0 \/ p.date < q.date)
    \/ p.date = 0 /\ q.date = 0 /\ Alphabetical[p.status] < Alphabetical[q.status]
Foremost(ps) == {p \in ps : \A q \in ps : ~SortsBefore(q, p)}

\* Seeded fault: a figure in force anywhere in the text saves a sentence.
FaultyAssertedElsewhere(rows, sentences) ==
    {i \in DOMAIN sentences :
        /\ Unstated(rows, sentences[i]) # {}
        /\ \A j \in DOMAIN sentences : sentences[j].figures \cap CurrentFigures(rows) = {}}

\* BLOCK VS INSERT: a firing sentence without a figure of a rule in force.
Asserted(rows, sentences) ==
    {i \in DOMAIN sentences : /\ Unstated(rows, sentences[i]) # {}
                              /\ sentences[i].figures \cap CurrentFigures(rows) = {}}

\* blocked_source_urls: where the figures that made them fire come from.
BlockedUrls(rows, sentences) ==
    {UrlOf[rows[j].id] :
        j \in {k \in DOMAIN rows :
            /\ ~InForce(rows[k].note.status)
            /\ \E i \in Asserted(rows, sentences) :
               \E f \in sentences[i].figures \cap FiguresOf[rows[k].id] :
                    Provenances(rows, f) \cap Unstated(rows, sentences[i]) # {}}}

\* The rendered sentences: each with the rule a sentence inserted after it
\* names, or "none".
Qualified(rows, sentences) ==
    LET firing == {i \in DOMAIN sentences : Unstated(rows, sentences[i]) # {}}
        rules == {[status |-> rows[j].note.status, date |-> rows[j].note.date] : j \in DOMAIN rows}
        choices == {c \in [firing -> rules] :
                       \A i \in firing : c[i] \in Foremost(Unstated(rows, sentences[i]))}
    IN  {[i \in DOMAIN sentences |->
             [said |-> sentences[i],
              inserted |-> IF i \in firing THEN {c[i]} ELSE {}]] : c \in choices}

-----------------------------------------------------------------------------
(* The freshness notice.                                                   *)

\* Seeded fault: the gate that was overridden; only rank or citation earns a notice.
FaultyNoticedIfRankedOrCited(rows, cited) ==
    {i \in DOMAIN rows :
        /\ \A j \in 1..(i - 1) : UrlOf[rows[j].id] # UrlOf[rows[i].id]
        /\ Annotated(rows[i].note)
        /\ i = 1 \/ \E j \in cited \cap DOMAIN rows : UrlOf[rows[j].id] = UrlOf[rows[i].id]}

\* build_freshness: the first row of every distinct source with an annotation.
Noticed(rows, cited) ==
    {i \in DOMAIN rows : /\ \A j \in 1..(i - 1) : UrlOf[rows[j].id] # UrlOf[rows[i].id]
                         /\ Annotated(rows[i].note)}

\* FreshnessNotice, by the position of that row.
Notices(rows, cited) ==
    [i \in Noticed(rows, cited) |->
        LET url == UrlOf[rows[i].id]
        IN  [url |-> url, note |-> rows[i].note,
             reason |-> IF url = UrlOf[rows[1].id] THEN "top_ranked"
                        ELSE IF \E j \in cited \cap DOMAIN rows : UrlOf[rows[j].id] = url
                             THEN "cited" ELSE "retrieved"]]

\* What freshness_notice_text says of the rules of one group.
NoticeClaim(status, date) ==
    CASE Contested(status)                    -> status
      [] ~Contested(status) /\ date = 0       -> "in force today"
      [] InForce(status) /\ date # 0          -> "took effect"
      [] status = "scheduled" /\ date # 0     -> "takes effect"

\* The label of a group's links goes by the first notice of the group.
Label(note) ==
    IF ~Contested(note.status) THEN "source"
    ELSE IF note.evidences # "true" THEN "rule as published"
    ELSE IF note.status = "enjoined" THEN "court's order" ELSE "source for that"

\* The sentence about one group: it links the documents a curator gave for a
\* contested rule, and the retrieved pages otherwise.
Line(notices, group) ==
    LET note == notices[Min(group)].note
        urls == {notices[i].url : i \in group}
        documents == {notices[i].note.source : i \in group} \ {"null"}
    IN  [status |-> note.status, date |-> note.date, count |-> Cardinality(urls),
         claim |-> NoticeClaim(note.status, note.date), label |-> Label(note),
         links |-> IF Contested(note.status) /\ documents # {} THEN documents ELSE urls]

\* freshness_notice_text: one sentence per (rule_effective_date, rule_status).
Lines(notices) ==
    LET key(i) == <<notices[i].note.date, notices[i].note.status>>
    IN  {Line(notices, {j \in DOMAIN notices : key(j) = key(i)}) : i \in DOMAIN notices}

-----------------------------------------------------------------------------
(* One question.                                                           *)

Nothing == [type |-> "none", reason |-> "none", text |-> << >>, notices |-> << >>,
            lines |-> {}, urls |-> {}, says |-> "nothing"]
Idle == [pc |-> "idle", advice |-> FALSE, rows |-> << >>, today |-> 1, prompt |-> << >>,
         response |-> Nothing]

Init ==
    /\ today = 1
    /\ stored \in [Url -> Held]
    /\ edits = 0
    /\ asked = Idle

\* A writer of the corpus loads what a curator states of a source.  The refresh
\* job drops rule_status_source_evidences_status, and may have validated the
\* annotation on the day its thread began; an invalid one is not written.
Annotate(u) ==
    /\ edits < MaxEdits
    /\ edits' = edits + 1
    /\ \E n \in Entry, day \in 1..today :
          /\ ValidRuleStatus(n, day)
          /\ \/ day = today /\ stored' = [stored EXCEPT ![u] = n]
             \/ stored' = [stored EXCEPT ![u] = [n EXCEPT !.evidences = "null"]]
    /\ UNCHANGED <<today, asked>>

Midnight ==
    /\ today < MaxDay
    /\ today' = today + 1
    /\ UNCHANGED <<stored, edits, asked>>

\* classify_advice, then hybrid_search.
Retrieve ==
    /\ asked.pc \in {"idle", "done"}
    /\ \E advice \in BOOLEAN, top \in Fused : \E more \in CompanionsOf(top) :
          asked' = [Idle EXCEPT !.pc = "retrieved", !.advice = advice, !.rows = Rows(top \o more)]
    /\ UNCHANGED world

\* The no-answer gate passes; today is read, the prompt built and the LLM called.
Prompt ==
    /\ asked.pc = "retrieved"
    /\ asked' = [asked EXCEPT !.pc = "generate", !.today = today,
                              !.prompt = PromptNotes(asked.rows)]
    /\ UNCHANGED world

Respond(response) ==
    /\ asked' = [asked EXCEPT !.pc = "done", !.response = response]
    /\ UNCHANGED world

\* Steps 6 and 7: a check fails.
BlockUnverified(text) ==
    LET reason == BlockReason(Verified(text), Len(asked.rows), asked.advice)
    IN  /\ asked.pc = "generate"
        /\ reason # "none"
        /\ Respond([Nothing EXCEPT !.type = "BLOCKED_UNVERIFIED", !.reason = reason])

\* An advice response ends by pointing at the DSO.
Redirect == [figures |-> {}, dates |-> {}, cites |-> {}, native |-> FALSE, marks |-> {"redirect"}]
Redirected(sentences) ==
    IF asked.advice /\ "redirect" \notin Marks(sentences)
    THEN Append(sentences, Redirect) ELSE sentences

\* The text and the checks' verdict on it, as step 8 begins.
Passes(text) ==
    /\ asked.pc = "generate"
    /\ BlockReason(Verified(text), Len(asked.rows), asked.advice) = "none"

\* _future_rule_blocked_message: what it says of the rule, whatever its status.
BlockedClaim == "takes effect"

\* Step 8: the temporal guard blocks.
BlockAsserted(text) ==
    LET sentences == Redirected(Stripped(text))
    IN  /\ Passes(text)
        /\ Asserted(asked.rows, sentences) # {}
        /\ Respond([Nothing EXCEPT !.type = "BLOCKED_UNVERIFIED",
                                   !.reason = "answer_states_not_in_force_rule_as_current",
                                   !.urls = BlockedUrls(asked.rows, sentences),
                                   !.says = BlockedClaim])

\* Step 8: the qualified text with the notice after it.
Answer(text) ==
    LET sentences == Redirected(Stripped(text))
        notices == Notices(asked.rows, CitedIndices(sentences))
    IN  /\ Passes(text)
        /\ Asserted(asked.rows, sentences) = {}
        /\ \E rendered \in Qualified(asked.rows, sentences) :
              Respond([Nothing EXCEPT
                          !.type = IF asked.advice THEN "REFUSAL_ADVICE" ELSE "ANSWER",
                          !.text = rendered, !.notices = notices, !.lines = Lines(notices)])

Next ==
    \/ \E u \in Url : Annotate(u)
    \/ Midnight
    \/ Retrieve
    \/ Prompt
    \/ \E text \in Text : BlockUnverified(text) \/ BlockAsserted(text) \/ Answer(text)

Spec == Init /\ [][Next]_vars
=============================================================================
