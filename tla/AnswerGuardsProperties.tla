----------------------- MODULE AnswerGuardsProperties -----------------------
(***************************************************************************)
(* What a reader may rely on in a response that module AnswerGuards lets   *)
(* through, whatever the model generated and whenever a curator wrote.     *)
(***************************************************************************)
EXTENDS AnswerGuards

Sent == asked.pc = "done" /\ asked.response.type \in {"ANSWER", "REFUSAL_ADVICE"}

Provenance == [status : RuleStatus, date : Date]

\* Every variable keeps its type.
TypeOK ==
    /\ today \in Day
    /\ stored \in [Url -> Note]
    /\ edits \in 0..MaxEdits
    /\ asked.pc \in {"idle", "retrieved", "generate", "done"}
    /\ asked.advice \in BOOLEAN
    /\ asked.rows \in Seq([id : Chunk, note : Note])
    /\ asked.today \in Day
    /\ DOMAIN asked.prompt \subseteq DOMAIN asked.rows
    /\ asked.response.type \in {"none", "ANSWER", "REFUSAL_ADVICE", "BLOCKED_UNVERIFIED"}
    /\ asked.response.text \in Seq([said : Sentence, inserted : SUBSET Provenance])
    /\ DOMAIN asked.response.notices \subseteq DOMAIN asked.rows
    /\ asked.response.urls \subseteq Url

\* A figure that only rules out of force give is never all the reader is told:
\* its sentence also states a figure in force, or the dates of those rules; when
\* it does not state a date, a sentence that names one of the rules follows; and
\* a line of the notice denies that each of them is in force (temporal.py, "BLOCK
\* VS INSERT"; freshness.py, "HONEST NOTICE WORDING").
ForceIsTold ==
    Sent => \A i \in DOMAIN asked.response.text :
        LET s == asked.response.text[i]
            current == UNION {FiguresOf[r.id] : r \in {x \in Range(asked.rows) :
                                  x.note.status \in {"null", "in_force"}}}
            doubtful == {r \in Range(asked.rows) :
                            (FiguresOf[r.id] \cap s.said.figures) \ current # {}}
            undated == {r \in doubtful : r.note.date = 0 \/ r.note.date \notin s.said.dates}
        IN  /\ undated # {} =>
                  /\ s.said.figures \cap current # {}
                  /\ \E r \in undated :
                        s.inserted = {[status |-> r.note.status, date |-> r.note.date]}
            /\ \A r \in doubtful : \E line \in asked.response.lines :
                  /\ <<line.status, line.date>> = <<r.note.status, r.note.date>>
                  /\ line.claim \notin {"took effect", "in force today"}

\* What is shown was checked: every bracket shown names a retrieved passage, an
\* ANSWER shows at least one, and nothing shown claims authority or quotes the
\* prompt, though native markup is rewritten, a source list cut off, and
\* sentences added.
ShownIsVerified ==
    Sent =>
        LET shown == [i \in DOMAIN asked.response.text |-> asked.response.text[i].said]
        IN  /\ \A i \in DOMAIN shown : ~shown[i].native
            /\ CitedIndices(shown) \subseteq DOMAIN asked.rows
            /\ asked.response.type = "ANSWER" => CitedIndices(shown) # {}
            /\ Marks(shown) \cap {"authority", "leak"} = {}

\* "EVERY distinct retrieved source that carries either one gets a notice"
\* (freshness.py:187-190), also one retrieved as a companion, and the line of its
\* date and status links its document, or itself when nothing else is linked.
EverySourceIsNoticed ==
    Sent => \A r \in Range(asked.rows) : Annotated(r.note) =>
        /\ \E n \in Range(asked.response.notices) : n.url = UrlOf[r.id] /\ n.note = r.note
        /\ \E line \in asked.response.lines :
              /\ <<line.status, line.date>> = <<r.note.status, r.note.date>>
              /\ IF Contested(r.note.status) /\ r.note.source # "null"
                 THEN r.note.source \in line.links
                 ELSE UrlOf[r.id] \in line.links \/ Contested(r.note.status)

\* Neither the prompt nor the notice calls a rule in force that a curator has not
\* stated to be, nor says of one that it took effect on a day still to come, however
\* many days passed since it was stated (ADR 0023).  A row stored before
\* rule_status existed is read as in force, whatever its date.
NothingIsPromoted ==
    /\ \A i \in DOMAIN asked.prompt :
          LET n == asked.rows[i].note
          IN  n.status # "null" =>
                 /\ asked.prompt[i] \in {"took effect", "in force today"} => n.status = "in_force"
                 /\ asked.prompt[i] = "took effect" => n.date <= asked.today
    /\ \A line \in asked.response.lines :
          line.status # "null" =>
             /\ line.claim \in {"took effect", "in force today"} => line.status = "in_force"
             /\ line.claim = "took effect" => line.date <= asked.today

\* "`enjoined` deliberately never says "takes effect on": that phrase asserts the
\* rule has a date it will become law on its own" (temporal.py:502-504): a message
\* that announces a rule names a source of one that is scheduled.
OnlyScheduledIsAnnounced ==
    asked.response.says = "takes effect" =>
        \E r \in Range(asked.rows) : UrlOf[r.id] \in asked.response.urls /\ r.note.status = "scheduled"
=============================================================================
