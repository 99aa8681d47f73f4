----------------------- MODULE QueryStreamProperties ------------------------
(* What the way of a question promises to the page and to the counters.     *)
EXTENDS QueryStream

Frame == {"ping", "stage", "result", "error", "refused", "broken", "end"}

TypeOK ==
    /\ url \in Question \cup {Home}
    /\ view \in [phase : {"home", "loading", "done", "error"},
                 question : Question \cup {NULL}, answer : Ask \cup {NULL}]
    /\ pageCache \in [Question -> Ask \cup {NULL}] /\ asks \in 0 .. MaxAsks
    /\ question \in [Ask -> Question \cup {NULL}] /\ aborted \in [Ask -> BOOLEAN]
    /\ gateway \in [Ask -> {"none", "asked", "streaming", "closed"}]
    /\ cut \subseteq Ask
    /\ stream \in [Ask -> {"none", "open", "ended", "dead"}] /\ pipe \in [Ask -> Seq(Frame)]
    /\ stage \in [Ask -> {"none", "retrieve", "generate", "record", "over"}]
    /\ turn \in [Ask -> 1 .. Len(chain)] /\ chain \in Chains
    /\ recorded \subseteq Ask
    /\ failed \in [Ask -> Seq(Provider)] /\ served \in [Ask -> Provider \cup {NULL}]
    /\ answered \subseteq Ask /\ uncounted \subseteq Ask
    /\ visits \in 0 .. MaxVisits /\ faults \in 0 .. MaxFaults

\* The page shows what belongs to its URL, whatever frames of earlier requests
\* still come in, and never a response no pipeline returned (Chat.tsx: "The
\* single source of truth for what view is", signal.aborted).
ShownIsAsked ==
    /\ view.question = IF url = Home THEN NULL ELSE url
    /\ view.phase = "done" => /\ question[view.answer] = url
                              /\ view.answer \in answered
    /\ \A q \in Question : pageCache[q] # NULL =>
          question[pageCache[q]] = q /\ pageCache[q] \in answered

\* Only questions that were answered are counted, each before its response can
\* be shown, unless counting failed (main.py: "Recorded only on success").
CountedOnSuccess ==
    /\ recorded \subseteq answered
    /\ \A q \in Question : pageCache[q] # NULL => pageCache[q] \in recorded \cup uncounted

\* A stream begins with the ping, has at most one result or error, and nothing
\* but its end comes after that (main.py: "the terminal message").
TerminalIsLast ==
    \A a \in Ask : \A n \in DOMAIN pipe[a] :
        /\ pipe[a][n] = "ping" => n = 1
        /\ pipe[a][n] \in {"result", "error"} => SubSeq(pipe[a], n + 1, Len(pipe[a])) = <<"end">>

\* The providers are tried in the order of the chain, none twice and none left
\* out, and the first that can serve does, however the asks' generations overlap
\* (llm.py: FallbackLLM).
FirstThatAnswersServes ==
    \A a \in Ask : /\ IsPrefix(failed[a], chain)
                  /\ served[a] # NULL => IsPrefix(Append(failed[a], served[a]), chain)

\* The page does not wait forever, unless the stream of the request it waits for
\* broke off after its headers (Chat.tsx, main.py: "error" SSE message,
\* timeout.go: TimeToFirstByte).
LoadingEnds == (view.phase = "loading") ~> (view.phase # "loading" \/ asks \in cut)
=============================================================================
