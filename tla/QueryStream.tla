---------------------------- MODULE QueryStream -----------------------------
(* A question on its way: the page that shows one answer at a time          *)
(* (Chat.tsx, api.ts), the gateway that passes the event stream on          *)
(* (ProxyStream), the orchestrator's stream and the task behind it          *)
(* (query_stream), and the chain of model providers (FallbackLLM).          *)
EXTENDS Integers, Sequences, SequencesExt

CONSTANTS
    Question,
    Chains,        \* the provider chains a configuration may resolve to
    MaxAsks,       \* bound: requests the page makes
    MaxVisits,     \* bound: moves from one URL to another
    MaxFaults,     \* bound: failures and deaths
    Home, NULL

Ask == 1 .. MaxAsks
Provider == UNION {{c[n] : n \in DOMAIN c} : c \in Chains}

ASSUME QueryStreamAssumption ==
    /\ MaxAsks \in Nat /\ MaxVisits \in Nat /\ MaxFaults \in Nat
    /\ \A c \in Chains : c \in Seq(Provider) /\ c # <<>> /\ IsInjective(c)
    /\ Home \notin Question /\ NULL \notin Question \cup Ask \cup Provider

VARIABLES
    \* The page.
    url,        \* the question in the URL, Home without one
    view,       \* phase, question, and the ask whose response is shown
    pageCache,  \* the response known for a question, as its ask
    asks,       \* requests made
    question,   \* per ask: the question
    aborted,    \* per ask: the controller was aborted
    \* The gateway.
    gateway,    \* per ask: where its handler is
    cut,        \* asks whose stream broke off after its headers
    \* The orchestrator.
    stream,     \* per ask: where event_stream is
    pipe,       \* per ask: frames from the queue to the page, in order
    stage,      \* per ask: where run_pipeline is
    turn,       \* per ask: the provider of the chain being called
    chain,      \* the provider chain of this configuration
    recorded,   \* asks counted in usage_totals
    \* History.
    failed,     \* per ask: providers that failed
    served,     \* per ask: the provider that served it
    answered,   \* asks whose pipeline returned
    uncounted,  \* those whose count failed
    visits, faults

page == <<url, view, pageCache, asks, question, aborted, visits>>
providers == <<turn, failed, served>>
counters == <<recorded, uncounted>>
vars == <<page, gateway, cut, stream, pipe, stage, providers, answered, counters, chain, faults>>

View(phase, q, a) == [phase |-> phase, question |-> q, answer |-> a]

Init ==
    /\ url = Home /\ view = View("home", NULL, NULL)
    /\ pageCache = [q \in Question |-> NULL] /\ asks = 0
    /\ question = [a \in Ask |-> NULL] /\ aborted = [a \in Ask |-> FALSE]
    /\ gateway = [a \in Ask |-> "none"] /\ cut = {}
    /\ stream = [a \in Ask |-> "none"] /\ pipe = [a \in Ask |-> <<>>]
    /\ stage = [a \in Ask |-> "none"] /\ turn = [a \in Ask |-> 1]
    /\ chain \in Chains
    /\ failed = [a \in Ask |-> <<>>] /\ served = [a \in Ask |-> NULL]
    /\ answered = {} /\ recorded = {} /\ uncounted = {}
    /\ visits = 0 /\ faults = 0

Fault == faults < MaxFaults /\ faults' = faults + 1

-----------------------------------------------------------------------------
(* The page.  Its effect runs when the URL changes, and aborts the request   *)
(* of the URL before.                                                        *)

Visit(u) ==
    /\ u # url /\ visits < MaxVisits
    /\ visits' = visits + 1
    /\ url' = u
    /\ aborted' = [a \in Ask |-> a <= asks]
    /\ UNCHANGED <<pageCache, cut, stream, pipe, stage, providers, answered, counters,
                   chain, faults>>

GoHome ==
    /\ Visit(Home)
    /\ view' = View("home", NULL, NULL)
    /\ UNCHANGED <<asks, question, gateway>>

ShowCached(q) ==
    /\ pageCache[q] # NULL
    /\ Visit(q)
    /\ view' = View("done", q, pageCache[q])
    /\ UNCHANGED <<asks, question, gateway>>

\* streamQuery's fetch.
AskFor(q) ==
    /\ pageCache[q] = NULL /\ asks < MaxAsks
    /\ Visit(q)
    /\ view' = View("loading", q, NULL)
    /\ asks' = asks + 1
    /\ question' = [question EXCEPT ![asks'] = q]
    /\ gateway' = [gateway EXCEPT ![asks'] = "asked"]

\* onEvent and catch look at the signal first.
FaultyHeededAlways(a) == TRUE
Heeded(a) == ~aborted[a]

\* The next frame, or what ends the response.
Read(a) ==
    /\ pipe[a] # <<>> /\ gateway[a] # "asked" /\ Heeded(a)
    /\ pipe' = [pipe EXCEPT ![a] = Tail(@)]
    /\ LET frame == Head(pipe[a]) q == question[a] IN
       \/ /\ frame = "result"
          /\ pageCache' = [pageCache EXCEPT ![q] = a]
          /\ view' = View("done", q, a)
          /\ UNCHANGED <<gateway, stream>>
       \/ /\ frame \in {"error", "refused", "broken"}
          /\ view' = View("error", q, NULL)
          /\ UNCHANGED <<pageCache, gateway, stream>>
       \/ /\ frame \in {"ping", "stage"}
          /\ UNCHANGED <<view, pageCache, gateway, stream>>
       \/ /\ frame = "end"
          /\ gateway' = [gateway EXCEPT ![a] = "closed"]
          /\ stream' = [stream EXCEPT ![a] = "ended"]
          /\ UNCHANGED <<view, pageCache>>
    /\ UNCHANGED <<url, asks, question, aborted, visits, cut, stage, providers, answered,
                   counters, chain, faults>>

\* The connection of an aborted request is closed, what it still brings dropped.
Leave(a) ==
    /\ aborted[a] /\ (pipe[a] # <<>> \/ gateway[a] # "closed")
    /\ gateway' = [gateway EXCEPT ![a] = "closed"]
    /\ pipe' = [pipe EXCEPT ![a] = <<>>]
    /\ UNCHANGED <<page, cut, stream, stage, providers, answered, counters, chain, faults>>

-----------------------------------------------------------------------------
(* The gateway.                                                              *)

gatewayLeaves == <<page, stream, stage, providers, answered, counters, chain>>
CloseWith(a, frame) == /\ gateway' = [gateway EXCEPT ![a] = "closed"]
                       /\ pipe' = [pipe EXCEPT ![a] = <<frame>>]

\* Rate limit, body limit, a request that cannot be read or built; or Do returns
\* an error: 504 after TimeToFirstByte's timer, 502 otherwise.
Refuse(a) ==
    /\ gateway[a] = "asked"
    /\ CloseWith(a, "refused")
    /\ UNCHANGED <<gatewayLeaves, cut, faults>>

Headers(a) ==
    /\ gateway[a] = "asked" /\ stream[a] = "open"
    /\ gateway' = [gateway EXCEPT ![a] = "streaming"]
    /\ UNCHANGED <<gatewayLeaves, cut, pipe, faults>>

\* A read error ends the response like its end; of what was sent, some is lost.
\* The timer that fires between the headers and its stop causes one, too.
ReadFails(a) ==
    /\ \/ gateway[a] = "asked" /\ stream[a] = "open"
       \/ gateway[a] = "streaming" /\ stream[a] = "dead"
    /\ CloseWith(a, "end")
    /\ cut' = cut \cup {a}
    /\ UNCHANGED <<gatewayLeaves, faults>>

Handling == {a \in Ask : gateway[a] \in {"asked", "streaming"}}
GatewayDies ==
    /\ Fault /\ Handling # {}
    /\ gateway' = [a \in Ask |-> IF a \in Handling THEN "closed" ELSE gateway[a]]
    /\ pipe' = [a \in Ask |-> IF a \in Handling THEN <<"broken">> ELSE pipe[a]]
    /\ UNCHANGED <<gatewayLeaves, cut>>

-----------------------------------------------------------------------------
(* The orchestrator's event_stream; what the task puts it sends on at once.  *)

streamLeaves == <<page, cut, chain, providers, answered, counters>>

\* The ping goes out before the task exists.
StartStream(a) ==
    /\ gateway[a] = "asked" /\ stream[a] = "none"
    /\ stream' = [stream EXCEPT ![a] = "open"]
    /\ pipe' = [pipe EXCEPT ![a] = <<"ping">>]
    /\ stage' = [stage EXCEPT ![a] = "retrieve"]
    /\ UNCHANGED <<streamLeaves, gateway, faults>>

\* Nobody listens any more: the stream ends, and the task either goes on or is
\* cancelled at one of its awaits.
Abandon(a) ==
    /\ stream[a] = "open" /\ gateway[a] = "closed"
    /\ stream' = [stream EXCEPT ![a] = "ended"]
    /\ \/ UNCHANGED stage
       \/ stage' = [stage EXCEPT ![a] = "over"]
    /\ UNCHANGED <<streamLeaves, gateway, pipe, faults>>

OrchestratorDies ==
    /\ Fault
    /\ \E a \in Ask : stream[a] = "open"
    /\ stream' = [a \in Ask |-> IF stream[a] = "open" THEN "dead" ELSE stream[a]]
    /\ stage' = [a \in Ask |-> IF stage[a] = "none" THEN "none" ELSE "over"]
    /\ UNCHANGED <<streamLeaves, gateway, pipe>>

-----------------------------------------------------------------------------
(* The task: run_pipeline around answer_question.                            *)

taskLeaves == <<page, gateway, cut, stream, chain>>
Goto(a, s) == stage' = [stage EXCEPT ![a] = s]
Put(a, frames) ==
    \/ gateway[a] # "closed" /\ pipe' = [pipe EXCEPT ![a] = @ \o frames]
    \/ gateway[a] = "closed" /\ UNCHANGED pipe

\* An exception: its message, and the sentinel of finally.
FaultyRaiseRecords(a) == Goto(a, "record") /\ Put(a, <<"error">>)
FaultyRaiseSilent(a) == Goto(a, "over") /\ UNCHANGED pipe
Raise(a) == Goto(a, "over") /\ Put(a, <<"error", "end">>)

\* Classified and retrieved; some questions are answered without a generation.
Retrieve(a) ==
    /\ stage[a] = "retrieve"
    /\ Put(a, <<"stage">>)
    /\ \/ Goto(a, "generate") /\ UNCHANGED answered
       \/ Goto(a, "record") /\ answered' = answered \cup {a}
    /\ UNCHANGED <<taskLeaves, providers, counters, faults>>

RetrieveRaises(a) ==
    /\ stage[a] = "retrieve"
    /\ Fault
    /\ Raise(a)
    /\ UNCHANGED <<taskLeaves, providers, answered, counters>>

\* The provider at this turn answers with content, which is verified.
ProviderAnswers(a) ==
    /\ stage[a] = "generate"
    /\ served' = [served EXCEPT ![a] = chain[turn[a]]]
    /\ \/ /\ Goto(a, "record") /\ Put(a, <<"stage">>)
          /\ answered' = answered \cup {a}
          /\ UNCHANGED faults
       \/ Fault /\ Raise(a) /\ UNCHANGED answered
    /\ UNCHANGED <<taskLeaves, turn, failed, counters>>

FaultyLastTurnPassed(a) == turn[a] > Len(chain)
LastTurn(a) == turn[a] = Len(chain)
FaultyNextTurnSame(a) == turn[a]
NextTurn(a) == turn[a] + 1

\* A connection error, a timeout, a status other than 200, empty content: the
\* next provider's turn, until there is none.
ProviderFails(a) ==
    /\ stage[a] = "generate"
    /\ failed' = [failed EXCEPT ![a] = Append(@, chain[turn[a]])]
    /\ \/ /\ ~LastTurn(a)
          /\ turn' = [turn EXCEPT ![a] = NextTurn(a)]
          /\ UNCHANGED <<stage, pipe, faults>>
       \/ /\ LastTurn(a)
          /\ Fault
          /\ Raise(a)
          /\ UNCHANGED turn
    /\ UNCHANGED <<taskLeaves, served, answered, counters>>

\* Any other exception is not failed over.
ProviderBreaks(a) ==
    /\ stage[a] = "generate"
    /\ Fault
    /\ Raise(a)
    /\ UNCHANGED <<taskLeaves, providers, answered, counters>>

\* record_query commits, or fails and is swallowed; then the response.
RecordQuery(a) ==
    /\ stage[a] = "record"
    /\ \/ recorded' = recorded \cup {a} /\ UNCHANGED <<uncounted, faults>>
       \/ uncounted' = uncounted \cup {a} /\ Fault /\ UNCHANGED recorded
    /\ Goto(a, "over") /\ Put(a, <<"result", "end">>)
    /\ UNCHANGED <<taskLeaves, providers, answered>>

\* What follows the count raises (the metric, model_dump), outside of the except:
\* finally still puts the sentinel, event_stream raises at its await of the task,
\* and its response breaks off with neither a result nor an error.
ResponseRaises(a) ==
    /\ stage[a] = "record"
    /\ Fault
    /\ recorded' = recorded \cup {a}
    /\ Goto(a, "over") /\ Put(a, <<"end">>)
    /\ cut' = cut \cup {a}
    /\ UNCHANGED <<page, gateway, stream, chain, providers, answered, uncounted>>

-----------------------------------------------------------------------------
Page(a) == Read(a) \/ Leave(a)
Gateway(a) == Refuse(a) \/ Headers(a) \/ ReadFails(a)
Stream(a) == StartStream(a) \/ Abandon(a)
Task(a) == \/ Retrieve(a) \/ RetrieveRaises(a)
           \/ ProviderAnswers(a) \/ ProviderFails(a) \/ ProviderBreaks(a)
           \/ RecordQuery(a) \/ ResponseRaises(a)
User == GoHome \/ \E q \in Question : ShowCached(q) \/ AskFor(q)

Next == \/ User
        \/ \E a \in Ask : Page(a) \/ Gateway(a) \/ Stream(a) \/ Task(a)
        \/ GatewayDies \/ OrchestratorDies

\* The page reads on; the gateway's timer fires when no headers come, which
\* nothing makes the orchestrator send; every await of the task has a timeout
\* or a database behind it that answers or fails.
Fairness ==
    \A a \in Ask : WF_vars(Page(a)) /\ WF_vars(Gateway(a)) /\ WF_vars(Task(a))

Spec == Init /\ [][Next]_vars /\ Fairness
=============================================================================
