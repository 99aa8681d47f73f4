-------------------------- MODULE QueryStreamProofs --------------------------
(***************************************************************************)
(* What QueryStreamProperties promises the page and the counters, for any  *)
(* number of requests, questions, providers and failures.  A request's     *)
(* frames are in the right order because only its task puts any while its  *)
(* gateway still listens, and what the page takes from them belongs to its *)
(* URL because it heeds no request that a later URL has aborted.           *)
(***************************************************************************)
EXTENDS QueryStreamProperties, SequenceTheorems, TLAPS

-----------------------------------------------------------------------------
(* The inductive invariant.                                                *)

\* The frames of one stream, in the form their proofs use.
InOrder(s) ==
    \A n \in DOMAIN s :
        /\ s[n] = "ping" => n = 1
        /\ s[n] \in {"result", "error"} => n + 1 = Len(s) /\ s[Len(s)] = "end"

Unfinished == {"none", "retrieve", "generate", "record"}

\* While the task is at work and the gateway listens, no terminal frame is out.
PipeOK(a) ==
    /\ InOrder(pipe[a])
    /\ stage[a] \in Unfinished /\ gateway[a] # "closed"
          => \A n \in DOMAIN pipe[a] : pipe[a][n] \in {"ping", "stage"}
    /\ (\E n \in DOMAIN pipe[a] : pipe[a][n] = "result")
          => a \in answered /\ a \in recorded \cup uncounted

\* A request that was not made is nowhere; one that was not aborted is of the URL.
AskOK(a) ==
    /\ a > asks => /\ gateway[a] = "none" /\ stage[a] = "none" /\ pipe[a] = << >>
                   /\ ~aborted[a]
    /\ a <= asks => question[a] \in Question /\ (~aborted[a] => question[a] = url)
    /\ a \in answered => a <= asks
    /\ stage[a] = "record" => a \in answered
    /\ stream[a] = "none" => stage[a] = "none"

\* The providers before this turn have failed, and the one that served is next.
ChainOK(a) ==
    /\ stage[a] # "over" => Len(failed[a]) = turn[a] - 1
    /\ Len(failed[a]) <= Len(chain)
    /\ \A n \in 1 .. Len(failed[a]) : failed[a][n] = chain[n]
    /\ stage[a] \in {"none", "retrieve", "generate"} => served[a] = NULL
    /\ served[a] # NULL => Len(failed[a]) < Len(chain) /\ served[a] = chain[Len(failed[a]) + 1]

PageOK ==
    /\ view.question = IF url = Home THEN NULL ELSE url
    /\ view.phase = "done" => view.answer \in answered /\ question[view.answer] = url
    /\ \A q \in Question : pageCache[q] # NULL =>
          /\ pageCache[q] \in answered /\ question[pageCache[q]] = q
          /\ pageCache[q] \in recorded \cup uncounted
    /\ recorded \subseteq answered

IInv ==
    /\ TypeOK
    /\ PageOK
    /\ \A a \in Ask : PipeOK(a) /\ AskOK(a) /\ ChainOK(a)

-----------------------------------------------------------------------------
(* Frames.                                                                 *)

LEMMA EmptyFrames == << >> \in Seq(Frame) /\ DOMAIN << >> = {} /\ InOrder(<< >>)
  BY DEF InOrder

LEMMA OneFrame ==
    ASSUME NEW f \in Frame \ {"result", "error"}
    PROVE  /\ <<f>> \in Seq(Frame) /\ InOrder(<<f>>)
           /\ \A n \in DOMAIN <<f>> : <<f>>[n] = f
  BY DEF InOrder

LEMMA TailFrames ==
    ASSUME NEW s \in Seq(Frame), s # << >>
    PROVE  /\ Tail(s) \in Seq(Frame) /\ Head(s) = s[1] /\ 1 \in DOMAIN s
           /\ \A n \in DOMAIN Tail(s) : n + 1 \in DOMAIN s /\ Tail(s)[n] = s[n + 1]
           /\ InOrder(s) => InOrder(Tail(s))
<1>1. /\ Tail(s) \in Seq(Frame) /\ Len(Tail(s)) = Len(s) - 1
      /\ \A n \in 1 .. Len(Tail(s)) : Tail(s)[n] = s[n + 1]
  BY HeadTailProperties
<1>2. /\ Len(s) \in Nat \ {0} /\ DOMAIN s = 1 .. Len(s) /\ Head(s) = s[1]
      /\ DOMAIN Tail(s) = 1 .. Len(Tail(s))
  BY <1>1
<1>3. \A n \in DOMAIN Tail(s) : n \in Nat /\ n + 1 \in DOMAIN s /\ n + 1 # 1 /\ Tail(s)[n] = s[n + 1]
  BY <1>1, <1>2
<1>4. ASSUME InOrder(s) PROVE InOrder(Tail(s))
  <2> SUFFICES ASSUME NEW n \in DOMAIN Tail(s)
               PROVE  /\ Tail(s)[n] = "ping" => n = 1
                      /\ Tail(s)[n] \in {"result", "error"}
                            => n + 1 = Len(Tail(s)) /\ Tail(s)[Len(Tail(s))] = "end"
    BY DEF InOrder
  <2>1. /\ s[n + 1] = "ping" => n + 1 = 1
        /\ s[n + 1] \in {"result", "error"} => n + 1 + 1 = Len(s) /\ s[Len(s)] = "end"
    BY <1>3, <1>4 DEF InOrder
  <2>2. ASSUME n + 1 + 1 = Len(s) PROVE Tail(s)[Len(Tail(s))] = s[Len(s)] /\ n + 1 = Len(Tail(s))
    BY <2>2, <1>1, <1>2, <1>3
  <2> QED
    BY <2>1, <2>2, <1>3
<1> QED
  BY <1>1, <1>2, <1>3, <1>4

\* The end alone, of a response that broke off.
LEMMA EndFrames ==
    ASSUME NEW s \in Seq(Frame), InOrder(s),
           \A n \in DOMAIN s : s[n] \in {"ping", "stage"}
    PROVE  /\ s \o <<"end">> \in Seq(Frame) /\ InOrder(s \o <<"end">>)
           /\ \A n \in DOMAIN (s \o <<"end">>) : (s \o <<"end">>)[n] \in {"ping", "stage", "end"}
<1> DEFINE one == <<"end">>
<1>1. one \in Seq(Frame) /\ Len(one) = 1 /\ one[1] = "end"
  BY DEF Frame
<1> HIDE DEF one
<1>2. Len(s) \in Nat /\ DOMAIN s = 1 .. Len(s)
  OBVIOUS
<1>3. /\ s \o one \in Seq(Frame) /\ Len(s \o one) = Len(s) + 1
      /\ DOMAIN (s \o one) = 1 .. Len(s) + 1
      /\ \A n \in 1 .. Len(s) + 1 :
            (s \o one)[n] = IF n <= Len(s) THEN s[n] ELSE one[n - Len(s)]
  BY <1>1, ConcatProperties
<1>4. \A n \in DOMAIN (s \o one) :
         /\ n \in DOMAIN s => (s \o one)[n] = s[n]
         /\ n \notin DOMAIN s => (s \o one)[n] = "end"
  BY <1>1, <1>2, <1>3
<1>5. InOrder(s \o one) /\ \A n \in DOMAIN (s \o one) : (s \o one)[n] \in {"ping", "stage", "end"}
  BY <1>4 DEF InOrder
<1> QED
  BY <1>3, <1>5 DEF one

LEMMA PutFrames ==
    ASSUME NEW s \in Seq(Frame), InOrder(s),
           \A n \in DOMAIN s : s[n] \in {"ping", "stage"},
           NEW last \in {"result", "error"}
    PROVE  /\ s \o <<"stage">> \in Seq(Frame) /\ InOrder(s \o <<"stage">>)
           /\ \A n \in DOMAIN (s \o <<"stage">>) : (s \o <<"stage">>)[n] \in {"ping", "stage"}
           /\ s \o <<last, "end">> \in Seq(Frame) /\ InOrder(s \o <<last, "end">>)
           /\ \A n \in DOMAIN (s \o <<last, "end">>) :
                  (s \o <<last, "end">>)[n] \in {"ping", "stage", "end", last}
<1> DEFINE one == <<"stage">>
           two == <<last, "end">>
<1>1. /\ one \in Seq(Frame) /\ Len(one) = 1 /\ one[1] = "stage"
      /\ two \in Seq(Frame) /\ Len(two) = 2 /\ two[1] = last /\ two[2] = "end"
  BY DEF Frame
<1> HIDE DEF one, two
<1>2. Len(s) \in Nat /\ DOMAIN s = 1 .. Len(s)
  OBVIOUS
<1>3. /\ s \o one \in Seq(Frame) /\ Len(s \o one) = Len(s) + 1
      /\ DOMAIN (s \o one) = 1 .. Len(s) + 1
      /\ \A n \in 1 .. Len(s) + 1 :
            (s \o one)[n] = IF n <= Len(s) THEN s[n] ELSE one[n - Len(s)]
  BY <1>1, ConcatProperties
<1>4. /\ s \o two \in Seq(Frame) /\ Len(s \o two) = Len(s) + 2
      /\ DOMAIN (s \o two) = 1 .. Len(s) + 2
      /\ \A n \in 1 .. Len(s) + 2 :
            (s \o two)[n] = IF n <= Len(s) THEN s[n] ELSE two[n - Len(s)]
  <2>1. /\ s \o two \in Seq(Frame) /\ Len(s \o two) = Len(s) + Len(two)
        /\ \A n \in 1 .. Len(s) + Len(two) :
              (s \o two)[n] = IF n <= Len(s) THEN s[n] ELSE two[n - Len(s)]
    BY <1>1, ConcatProperties, Zenon
  <2> QED
    BY <1>1, <2>1
<1>5. \A n \in DOMAIN (s \o one) :
         /\ n \in DOMAIN s => (s \o one)[n] = s[n]
         /\ n \notin DOMAIN s => (s \o one)[n] = "stage"
  BY <1>1, <1>2, <1>3
<1>6. \A n \in DOMAIN (s \o two) :
         /\ n \in DOMAIN s => (s \o two)[n] = s[n]
         /\ n \notin DOMAIN s => \/ n = Len(s) + 1 /\ (s \o two)[n] = last
                                 \/ n = Len(s) + 2 /\ (s \o two)[n] = "end"
  BY <1>1, <1>2, <1>4
<1>7. InOrder(s \o one) /\ \A n \in DOMAIN (s \o one) : (s \o one)[n] \in {"ping", "stage"}
  BY <1>5 DEF InOrder
<1>8. (s \o two)[Len(s \o two)] = "end"
  BY <1>1, <1>2, <1>4
<1>9. InOrder(s \o two)
  BY <1>2, <1>4, <1>6, <1>8 DEF InOrder
<1>10. \A n \in DOMAIN (s \o two) : (s \o two)[n] \in {"ping", "stage", "end", last}
  BY <1>6
<1> QED
  BY <1>3, <1>4, <1>7, <1>9, <1>10 DEF one, two

\* What the task puts while it is at work.
LEMMA PutKeeps ==
    ASSUME TypeOK, NEW a \in Ask, PipeOK(a), stage[a] \in Unfinished,
           NEW frames \in {<<"stage">>, <<"end">>, <<"error", "end">>, <<"result", "end">>},
           Put(a, frames)
    PROVE  /\ pipe' \in [Ask -> Seq(Frame)]
           /\ \A b \in Ask \ {a} : pipe'[b] = pipe[b]
           /\ InOrder(pipe'[a])
           /\ gateway[a] # "closed" /\ frames = <<"stage">>
                 => \A n \in DOMAIN pipe'[a] : pipe'[a][n] \in {"ping", "stage"}
           /\ frames # <<"result", "end">> /\ (\E n \in DOMAIN pipe'[a] : pipe'[a][n] = "result")
                 => \E n \in DOMAIN pipe[a] : pipe[a][n] = "result"
<1>1. pipe \in [Ask -> Seq(Frame)] /\ pipe[a] \in Seq(Frame) /\ InOrder(pipe[a])
  BY DEF TypeOK, PipeOK
<1>2. CASE gateway[a] = "closed"
  BY <1>1, <1>2 DEF Put
<1>3. CASE gateway[a] # "closed"
  <2>1. pipe' = [pipe EXCEPT ![a] = @ \o frames]
    BY <1>3 DEF Put
  <2>2. \A n \in DOMAIN pipe[a] : pipe[a][n] \in {"ping", "stage"}
    BY <1>3 DEF PipeOK
  <2>3. CASE frames = <<"stage">>
    BY <1>1, <2>1, <2>2, <2>3, PutFrames
  <2>5. CASE frames = <<"end">>
    <3>1. /\ pipe[a] \o frames \in Seq(Frame) /\ InOrder(pipe[a] \o frames)
          /\ \A n \in DOMAIN (pipe[a] \o frames) :
                (pipe[a] \o frames)[n] \in {"ping", "stage", "end"}
      BY <1>1, <2>2, <2>5, EndFrames
    <3>2. frames # <<"stage">>
      BY <2>5
    <3>3. pipe'[a] = pipe[a] \o frames /\ pipe' \in [Ask -> Seq(Frame)]
          /\ \A b \in Ask \ {a} : pipe'[b] = pipe[b]
      BY <1>1, <2>1, <3>1
    <3> QED
      BY <3>1, <3>2, <3>3
  <2>4. CASE frames \in {<<"error", "end">>, <<"result", "end">>}
    <3>1. PICK last \in {"result", "error"} : frames = <<last, "end">>
      BY <2>4
    <3>2. /\ pipe[a] \o frames \in Seq(Frame) /\ InOrder(pipe[a] \o frames)
          /\ \A n \in DOMAIN (pipe[a] \o frames) :
                (pipe[a] \o frames)[n] \in {"ping", "stage", "end", last}
      BY <1>1, <2>2, <3>1, PutFrames
    <3>3. frames # <<"stage">> /\ (last = "result" => frames = <<"result", "end">>)
      BY <3>1
    <3>4. pipe'[a] = pipe[a] \o frames /\ pipe' \in [Ask -> Seq(Frame)]
          /\ \A b \in Ask \ {a} : pipe'[b] = pipe[b]
      BY <1>1, <2>1, <3>2
    <3> QED
      BY <3>2, <3>3, <3>4
  <2> QED
    BY <2>3, <2>4, <2>5
<1> QED
  BY <1>2, <1>3

-----------------------------------------------------------------------------
(* The first state.                                                        *)

LEMMA Constants ==
    /\ MaxAsks \in Nat /\ MaxVisits \in Nat /\ MaxFaults \in Nat
    /\ Home \notin Question /\ NULL \notin Question /\ NULL \notin Ask /\ NULL \notin Provider
    /\ \A c \in Chains : c \in Seq(Provider) /\ c # << >>
    /\ \A a \in Ask : a \in Nat \ {0} /\ a <= MaxAsks
  BY QueryStreamAssumption DEF Ask

LEMMA ChainType ==
    ASSUME TypeOK
    PROVE  chain \in Seq(Provider) /\ Len(chain) \in Nat \ {0}
  BY Constants DEF TypeOK

\* The provider whose turn it is.
LEMMA TurnType ==
    ASSUME TypeOK, NEW a \in Ask
    PROVE  turn[a] \in 1 .. Len(chain) /\ chain[turn[a]] \in Provider
<1>1. chain \in Seq(Provider) /\ turn[a] \in 1 .. Len(chain)
  BY ChainType DEF TypeOK
<1> QED
  BY <1>1

LEMMA InitHolds == Init => IInv
<1> SUFFICES ASSUME Init PROVE IInv
  OBVIOUS
<1>1. chain \in Seq(Provider) /\ Len(chain) \in Nat \ {0} /\ 1 \in 1 .. Len(chain)
  BY Constants DEF Init
<1>2. << >> \in Seq(Provider) /\ Len(<< >>) = 0
  OBVIOUS
<1>3. TypeOK
  <2>1. pipe \in [Ask -> Seq(Frame)] /\ failed \in [Ask -> Seq(Provider)]
    BY <1>2, EmptyFrames DEF Init
  <2>2. turn \in [Ask -> 1 .. Len(chain)] /\ chain \in Chains
    BY <1>1 DEF Init
  <2>3. /\ asks \in 0 .. MaxAsks /\ visits \in 0 .. MaxVisits /\ faults \in 0 .. MaxFaults
        /\ view \in [phase : {"home", "loading", "done", "error"},
                     question : Question \cup {NULL}, answer : Ask \cup {NULL}]
    BY Constants DEF Init, View
  <2> QED
    BY <2>1, <2>2, <2>3 DEF Init, TypeOK
<1>4. PageOK
  BY Constants DEF Init, PageOK, View
<1>5. ASSUME NEW a \in Ask PROVE PipeOK(a)
  BY EmptyFrames DEF Init, PipeOK
<1>6. ASSUME NEW a \in Ask PROVE AskOK(a)
  BY Constants DEF Init, AskOK
<1>7. ASSUME NEW a \in Ask PROVE ChainOK(a)
  BY <1>1, <1>2 DEF Init, ChainOK
<1> QED
  BY <1>3, <1>4, <1>5, <1>6, <1>7 DEF IInv

-----------------------------------------------------------------------------
(* The page.                                                               *)

\* A move to another URL aborts the requests made so far.
LEMMA VisitAborts ==
    ASSUME TypeOK, NEW u, Visit(u)
    PROVE  aborted' \in [Ask -> BOOLEAN] /\ \A a \in Ask : aborted'[a] <=> a <= asks
<1>1. aborted' = [a \in Ask |-> a <= asks]
  BY DEF Visit
<1>2. \A a \in Ask : (a <= asks) \in BOOLEAN
  OBVIOUS
<1>3. \A a \in Ask : aborted'[a] = (a <= asks)
  BY <1>1, Zenon
<1>4. aborted' \in [Ask -> BOOLEAN]
  BY <1>1, <1>2, Zenon
<1> QED
  BY <1>3, <1>4

LEMMA GoHomeKeeps == ASSUME IInv, GoHome PROVE IInv'
<1>1. TypeOK'
  BY Constants DEF IInv, TypeOK, GoHome, Visit, View, providers, counters
<1>2. PageOK'
  BY Constants DEF IInv, PageOK, GoHome, Visit, View, providers, counters
<1>3. ASSUME NEW a \in Ask PROVE PipeOK(a)'
  BY DEF IInv, PipeOK, GoHome, Visit, providers, counters
<1>4. ASSUME NEW a \in Ask PROVE AskOK(a)'
  <2>1. aborted'[a] <=> a <= asks
    BY VisitAborts DEF IInv, GoHome
  <2>2. AskOK(a) /\ a \in Nat /\ asks \in Nat
    BY Constants DEF IInv, TypeOK
  <2> QED
    BY <2>1, <2>2 DEF AskOK, GoHome, Visit
<1>5. ASSUME NEW a \in Ask PROVE ChainOK(a)'
  BY DEF IInv, ChainOK, GoHome, Visit, providers
<1> QED
  BY <1>1, <1>2, <1>3, <1>4, <1>5 DEF IInv

LEMMA ShowCachedKeeps == ASSUME IInv, NEW q \in Question, ShowCached(q) PROVE IInv'
<1>1. TypeOK'
  BY Constants DEF IInv, TypeOK, ShowCached, Visit, View, providers, counters
<1>2. PageOK'
  BY Constants DEF IInv, PageOK, ShowCached, Visit, View, providers, counters
<1>3. ASSUME NEW a \in Ask PROVE PipeOK(a)'
  BY DEF IInv, PipeOK, ShowCached, Visit, providers, counters
<1>4. ASSUME NEW a \in Ask PROVE AskOK(a)'
  <2>1. aborted'[a] <=> a <= asks
    BY VisitAborts DEF IInv, ShowCached
  <2>2. AskOK(a) /\ a \in Nat /\ asks \in Nat
    BY Constants DEF IInv, TypeOK
  <2> QED
    BY <2>1, <2>2 DEF AskOK, ShowCached, Visit
<1>5. ASSUME NEW a \in Ask PROVE ChainOK(a)'
  BY DEF IInv, ChainOK, ShowCached, Visit, providers
<1> QED
  BY <1>1, <1>2, <1>3, <1>4, <1>5 DEF IInv

LEMMA AskForKeeps == ASSUME IInv, NEW q \in Question, AskFor(q) PROVE IInv'
<1>0. /\ asks' = asks + 1 /\ asks' \in Ask /\ asks \in Nat /\ asks' \in 0 .. MaxAsks
      /\ question' = [question EXCEPT ![asks'] = q] /\ gateway' = [gateway EXCEPT ![asks'] = "asked"]
      /\ aborted' \in [Ask -> BOOLEAN] /\ \A a \in Ask : aborted'[a] <=> a <= asks
      /\ url' = q /\ UNCHANGED <<pageCache, cut, stream, pipe, stage, turn, failed, served,
                                 answered, recorded, uncounted, chain, faults>>
      /\ visits' \in 0 .. MaxVisits
      /\ view' \in [phase : {"home", "loading", "done", "error"},
                    question : Question \cup {NULL}, answer : Ask \cup {NULL}]
  <2>1. /\ asks \in 0 .. MaxAsks /\ asks < MaxAsks /\ asks' = asks + 1
        /\ visits \in 0 .. MaxVisits /\ visits < MaxVisits /\ visits' = visits + 1
    BY DEF IInv, TypeOK, AskFor, Visit
  <2>2. /\ asks' \in Ask /\ asks \in Nat /\ asks' \in 0 .. MaxAsks /\ visits' \in 0 .. MaxVisits
    BY <2>1, Constants DEF Ask
  <2>3. aborted' \in [Ask -> BOOLEAN] /\ \A a \in Ask : aborted'[a] <=> a <= asks
    BY VisitAborts DEF IInv, AskFor
  <2> QED
    BY <2>1, <2>2, <2>3 DEF AskFor, Visit, View, providers, counters
<1>1. TypeOK'
  <2>1. TypeOK
    BY DEF IInv
  <2>2. /\ question' \in [Ask -> Question \cup {NULL}]
        /\ gateway' \in [Ask -> {"none", "asked", "streaming", "closed"}]
    BY <1>0, <2>1 DEF TypeOK
  <2> QED
    BY <1>0, <2>1, <2>2 DEF TypeOK
<1>2. PageOK'
  BY Constants DEF IInv, TypeOK, PageOK, AskOK, AskFor, Visit, View, providers, counters
<1>3. ASSUME NEW a \in Ask PROVE PipeOK(a)'
  BY DEF IInv, PipeOK, AskFor, Visit, providers, counters, TypeOK, AskOK
<1>4. ASSUME NEW a \in Ask PROVE AskOK(a)'
  <2>1. AskOK(a) /\ a \in Nat /\ question \in [Ask -> Question \cup {NULL}]
        /\ gateway \in [Ask -> {"none", "asked", "streaming", "closed"}]
    BY Constants DEF IInv, TypeOK
  <2>2. CASE a = asks'
    BY <1>0, <2>1, <2>2 DEF AskOK
  <2>3. CASE a # asks'
    BY <1>0, <2>1, <2>3 DEF AskOK
  <2> QED
    BY <2>2, <2>3
<1>5. ASSUME NEW a \in Ask PROVE ChainOK(a)'
  BY DEF IInv, ChainOK, AskFor, Visit, providers
<1> QED
  BY <1>1, <1>2, <1>3, <1>4, <1>5 DEF IInv

LEMMA LeaveKeeps == ASSUME IInv, NEW a \in Ask, Leave(a) PROVE IInv'
<1>1. TypeOK'
  BY Constants, EmptyFrames DEF IInv, TypeOK, Leave, page, providers, counters
<1>2. PageOK'
  BY Constants DEF IInv, TypeOK, PageOK, AskOK, Leave, page, providers, counters
<1>3. ASSUME NEW b \in Ask PROVE PipeOK(b)'
  BY EmptyFrames DEF IInv, TypeOK, PipeOK, Leave, page, providers, counters
<1>4. ASSUME NEW b \in Ask PROVE AskOK(b)'
  BY Constants DEF IInv, TypeOK, AskOK, Leave, page, providers, counters
<1>5. ASSUME NEW b \in Ask PROVE ChainOK(b)'
  BY DEF IInv, TypeOK, ChainOK, Leave, page, providers, counters
<1> QED
  BY <1>1, <1>2, <1>3, <1>4, <1>5 DEF IInv

-----------------------------------------------------------------------------
(* The gateway and the stream.                                             *)

\* A response of one frame, f, with which nothing of the task's is lost or shown.
Replaces(a, f) ==
    /\ pipe' \in [Ask -> Seq(Frame)] /\ InOrder(pipe'[a])
    /\ \A n \in DOMAIN pipe'[a] : pipe'[a][n] = f
    /\ \A b \in Ask \ {a} : pipe'[b] = pipe[b]

LEMMA OneFrameReplaces ==
    ASSUME TypeOK, NEW a \in Ask, NEW f \in Frame \ {"result", "error"},
           pipe' = [pipe EXCEPT ![a] = <<f>>]
    PROVE  Replaces(a, f)
<1>1. pipe \in [Ask -> Seq(Frame)] /\ <<f>> \in Seq(Frame) /\ InOrder(<<f>>)
      /\ \A n \in DOMAIN <<f>> : <<f>>[n] = f
  BY OneFrame DEF TypeOK
<1>2. pipe' \in [Ask -> Seq(Frame)] /\ pipe'[a] = <<f>> /\ \A b \in Ask \ {a} : pipe'[b] = pipe[b]
  BY <1>1
<1> QED
  BY <1>1, <1>2 DEF Replaces

LEMMA CloseKeeps ==
    ASSUME TypeOK, NEW a \in Ask, NEW f \in Frame \ {"result", "error"}, CloseWith(a, f)
    PROVE  /\ gateway' \in [Ask -> {"none", "asked", "streaming", "closed"}]
           /\ gateway'[a] = "closed" /\ \A b \in Ask \ {a} : gateway'[b] = gateway[b]
           /\ Replaces(a, f)
<1>1. gateway' = [gateway EXCEPT ![a] = "closed"] /\ pipe' = [pipe EXCEPT ![a] = <<f>>]
  BY DEF CloseWith
<1>2. Replaces(a, f)
  BY <1>1, OneFrameReplaces
<1> QED
  BY <1>1, <1>2 DEF TypeOK

LEMMA RefuseKeeps == ASSUME IInv, NEW a \in Ask, Refuse(a) PROVE IInv'
<1>0. /\ gateway' \in [Ask -> {"none", "asked", "streaming", "closed"}]
      /\ gateway'[a] = "closed" /\ \A b \in Ask \ {a} : gateway'[b] = gateway[b]
      /\ pipe' \in [Ask -> Seq(Frame)] /\ InOrder(pipe'[a])
      /\ \A n \in DOMAIN pipe'[a] : pipe'[a][n] = "refused"
      /\ \A b \in Ask \ {a} : pipe'[b] = pipe[b]
  BY CloseKeeps DEF IInv, Refuse, Replaces, Frame
<1>1. TypeOK'
  BY <1>0 DEF IInv, TypeOK, Refuse, gatewayLeaves, page, providers, counters
<1>2. PageOK'
  BY Constants DEF IInv, TypeOK, PageOK, AskOK, Refuse, gatewayLeaves, page, providers, counters, CloseWith
<1>3. ASSUME NEW b \in Ask PROVE PipeOK(b)'
  BY <1>0 DEF IInv, PipeOK, Refuse, gatewayLeaves, counters
<1>4. ASSUME NEW b \in Ask PROVE AskOK(b)'
  BY Constants DEF IInv, TypeOK, AskOK, Refuse, gatewayLeaves, page, providers, counters, CloseWith
<1>5. ASSUME NEW b \in Ask PROVE ChainOK(b)'
  BY DEF IInv, TypeOK, ChainOK, Refuse, gatewayLeaves, page, providers, counters, CloseWith
<1> QED
  BY <1>1, <1>2, <1>3, <1>4, <1>5 DEF IInv

LEMMA HeadersKeeps == ASSUME IInv, NEW a \in Ask, Headers(a) PROVE IInv'
<1>1. TypeOK'
  BY Constants, EmptyFrames DEF IInv, TypeOK, Headers, gatewayLeaves, page, providers, counters, CloseWith
<1>2. PageOK'
  BY Constants DEF IInv, TypeOK, PageOK, AskOK, Headers, gatewayLeaves, page, providers, counters, CloseWith
<1>3. ASSUME NEW b \in Ask PROVE PipeOK(b)'
  BY EmptyFrames DEF IInv, TypeOK, PipeOK, Headers, gatewayLeaves, page, providers, counters, CloseWith
<1>4. ASSUME NEW b \in Ask PROVE AskOK(b)'
  BY Constants DEF IInv, TypeOK, AskOK, Headers, gatewayLeaves, page, providers, counters, CloseWith
<1>5. ASSUME NEW b \in Ask PROVE ChainOK(b)'
  BY DEF IInv, TypeOK, ChainOK, Headers, gatewayLeaves, page, providers, counters, CloseWith
<1> QED
  BY <1>1, <1>2, <1>3, <1>4, <1>5 DEF IInv

LEMMA ReadFailsKeeps == ASSUME IInv, NEW a \in Ask, ReadFails(a) PROVE IInv'
<1>0. /\ gateway' \in [Ask -> {"none", "asked", "streaming", "closed"}]
      /\ gateway'[a] = "closed" /\ \A b \in Ask \ {a} : gateway'[b] = gateway[b]
      /\ pipe' \in [Ask -> Seq(Frame)] /\ InOrder(pipe'[a])
      /\ \A n \in DOMAIN pipe'[a] : pipe'[a][n] = "end"
      /\ \A b \in Ask \ {a} : pipe'[b] = pipe[b]
  BY CloseKeeps DEF IInv, ReadFails, Replaces, Frame
<1>1. TypeOK'
  BY <1>0 DEF IInv, TypeOK, ReadFails, gatewayLeaves, page, providers, counters
<1>2. PageOK'
  BY Constants DEF IInv, TypeOK, PageOK, AskOK, ReadFails, gatewayLeaves, page, providers, counters, CloseWith
<1>3. ASSUME NEW b \in Ask PROVE PipeOK(b)'
  BY <1>0 DEF IInv, PipeOK, ReadFails, gatewayLeaves, counters
<1>4. ASSUME NEW b \in Ask PROVE AskOK(b)'
  BY Constants DEF IInv, TypeOK, AskOK, ReadFails, gatewayLeaves, page, providers, counters, CloseWith
<1>5. ASSUME NEW b \in Ask PROVE ChainOK(b)'
  BY DEF IInv, TypeOK, ChainOK, ReadFails, gatewayLeaves, page, providers, counters, CloseWith
<1> QED
  BY <1>1, <1>2, <1>3, <1>4, <1>5 DEF IInv

LEMMA StartStreamKeeps == ASSUME IInv, NEW a \in Ask, StartStream(a) PROVE IInv'
<1>0. /\ pipe' \in [Ask -> Seq(Frame)] /\ InOrder(pipe'[a])
      /\ \A n \in DOMAIN pipe'[a] : pipe'[a][n] = "ping"
      /\ \A b \in Ask \ {a} : pipe'[b] = pipe[b]
  BY OneFrameReplaces DEF IInv, StartStream, Replaces, Frame
<1>1. TypeOK'
  BY <1>0 DEF IInv, TypeOK, StartStream, streamLeaves, page, providers, counters
<1>2. PageOK'
  BY Constants DEF IInv, TypeOK, PageOK, AskOK, StartStream, streamLeaves, page, providers, counters, Fault
<1>3. ASSUME NEW b \in Ask PROVE PipeOK(b)'
  BY <1>0 DEF IInv, PipeOK, StartStream, streamLeaves, counters
<1>4. ASSUME NEW b \in Ask PROVE AskOK(b)'
  BY Constants DEF IInv, TypeOK, AskOK, StartStream, streamLeaves, page, providers, counters, Fault
<1>5. ASSUME NEW b \in Ask PROVE ChainOK(b)'
  BY DEF IInv, TypeOK, AskOK, ChainOK, StartStream, streamLeaves, providers
<1> QED
  BY <1>1, <1>2, <1>3, <1>4, <1>5 DEF IInv

LEMMA AbandonKeeps == ASSUME IInv, NEW a \in Ask, Abandon(a) PROVE IInv'
<1>1. TypeOK'
  BY Constants, EmptyFrames DEF IInv, TypeOK, Abandon, streamLeaves, page, providers, counters, Fault
<1>2. PageOK'
  BY Constants DEF IInv, TypeOK, PageOK, AskOK, Abandon, streamLeaves, page, providers, counters, Fault
<1>3. ASSUME NEW b \in Ask PROVE PipeOK(b)'
  BY EmptyFrames DEF IInv, TypeOK, PipeOK, Abandon, streamLeaves, page, providers, counters, Fault
<1>4. ASSUME NEW b \in Ask PROVE AskOK(b)'
  BY Constants DEF IInv, TypeOK, AskOK, Abandon, streamLeaves, page, providers, counters, Fault
<1>5. ASSUME NEW b \in Ask PROVE ChainOK(b)'
  BY DEF IInv, TypeOK, ChainOK, Abandon, streamLeaves, page, providers, counters, Fault
<1> QED
  BY <1>1, <1>2, <1>3, <1>4, <1>5 DEF IInv

LEMMA GatewayDiesKeeps == ASSUME IInv, GatewayDies PROVE IInv'
<1>0. /\ <<"broken">> \in Seq(Frame) /\ InOrder(<<"broken">>)
      /\ \A n \in DOMAIN <<"broken">> : <<"broken">>[n] = "broken"
  BY OneFrame DEF Frame
<1>6. /\ gateway' \in [Ask -> {"none", "asked", "streaming", "closed"}]
      /\ pipe' \in [Ask -> Seq(Frame)]
      /\ \A b \in Ask :
            \/ /\ gateway'[b] = "closed" /\ pipe'[b] = <<"broken">>
               /\ gateway[b] \in {"asked", "streaming"}
            \/ gateway'[b] = gateway[b] /\ pipe'[b] = pipe[b]
  <2>1. /\ gateway' = [b \in Ask |-> IF b \in Handling THEN "closed" ELSE gateway[b]]
        /\ pipe' = [b \in Ask |-> IF b \in Handling THEN <<"broken">> ELSE pipe[b]]
    BY DEF GatewayDies
  <2>2. /\ gateway \in [Ask -> {"none", "asked", "streaming", "closed"}]
        /\ pipe \in [Ask -> Seq(Frame)]
    BY DEF IInv, TypeOK
  <2>3. \A b \in Ask : b \in Handling => gateway[b] \in {"asked", "streaming"}
    BY DEF Handling
  <2> HIDE DEF Handling
  <2>4. pipe' \in [Ask -> Seq(Frame)]
    BY <1>0, <2>1, <2>2
  <2>5. gateway' \in [Ask -> {"none", "asked", "streaming", "closed"}]
    BY <2>1, <2>2
  <2>6. ASSUME NEW b \in Ask
        PROVE  \/ /\ gateway'[b] = "closed" /\ pipe'[b] = <<"broken">>
                  /\ gateway[b] \in {"asked", "streaming"}
               \/ gateway'[b] = gateway[b] /\ pipe'[b] = pipe[b]
    <3>1. CASE b \in Handling
      BY <2>1, <2>3, <3>1, Zenon
    <3>2. CASE b \notin Handling
      BY <2>1, <3>2, Zenon
    <3> QED
      BY <3>1, <3>2
  <2> QED
    BY <2>4, <2>5, <2>6
<1>1. TypeOK'
  <2>1. TypeOK /\ cut' = cut /\ faults' \in 0 .. MaxFaults
    <3>1. TypeOK /\ faults \in 0 .. MaxFaults
      BY DEF IInv, TypeOK
    <3> QED
      BY <3>1, Constants DEF GatewayDies, Fault
  <2>2. UNCHANGED gatewayLeaves
    BY DEF GatewayDies
  <2> QED
    BY <1>6, <2>1, <2>2 DEF TypeOK, gatewayLeaves, page, providers, counters
<1>2. PageOK'
  BY Constants DEF IInv, TypeOK, PageOK, AskOK, GatewayDies, gatewayLeaves, page, providers, counters, CloseWith, Handling, Fault
<1>3. ASSUME NEW b \in Ask PROVE PipeOK(b)'
  BY <1>0, <1>6 DEF IInv, PipeOK, GatewayDies, gatewayLeaves, counters
<1>4. ASSUME NEW b \in Ask PROVE AskOK(b)'
  BY <1>6 DEF IInv, AskOK, GatewayDies, gatewayLeaves, page
<1>5. ASSUME NEW b \in Ask PROVE ChainOK(b)'
  BY DEF IInv, TypeOK, ChainOK, GatewayDies, gatewayLeaves, page, providers, counters, CloseWith, Handling, Fault
<1> QED
  BY <1>1, <1>2, <1>3, <1>4, <1>5 DEF IInv

LEMMA OrchestratorDiesKeeps == ASSUME IInv, OrchestratorDies PROVE IInv'
<1>1. TypeOK'
  BY Constants, EmptyFrames DEF IInv, TypeOK, OrchestratorDies, streamLeaves, page, providers, counters, Fault
<1>2. PageOK'
  BY Constants DEF IInv, TypeOK, PageOK, AskOK, OrchestratorDies, streamLeaves, page, providers, counters, Fault
<1>3. ASSUME NEW b \in Ask PROVE PipeOK(b)'
  BY DEF IInv, PipeOK, Unfinished, OrchestratorDies, streamLeaves, counters
<1>4. ASSUME NEW b \in Ask PROVE AskOK(b)'
  BY Constants DEF IInv, TypeOK, AskOK, OrchestratorDies, streamLeaves, page, providers, counters, Fault
<1>5. ASSUME NEW b \in Ask PROVE ChainOK(b)'
  BY DEF IInv, TypeOK, ChainOK, OrchestratorDies, streamLeaves, page, providers, counters, Fault
<1> QED
  BY <1>1, <1>2, <1>3, <1>4, <1>5 DEF IInv

\* The page takes a frame: its URL's, since only requests of a URL left are aborted.
LEMMA ReadKeeps == ASSUME IInv, NEW a \in Ask, Read(a) PROVE IInv'
<1>1. /\ TypeOK /\ pipe[a] \in Seq(Frame) /\ pipe[a] # << >> /\ gateway[a] # "asked" /\ ~aborted[a]
      /\ pipe' = [pipe EXCEPT ![a] = Tail(@)] /\ PipeOK(a) /\ AskOK(a)
  BY DEF IInv, TypeOK, Read, Heeded
<1>2. /\ Tail(pipe[a]) \in Seq(Frame) /\ Head(pipe[a]) = pipe[a][1] /\ 1 \in DOMAIN pipe[a]
      /\ \A n \in DOMAIN Tail(pipe[a]) :
            n + 1 \in DOMAIN pipe[a] /\ Tail(pipe[a])[n] = pipe[a][n + 1]
      /\ InOrder(Tail(pipe[a]))
  BY <1>1, TailFrames DEF PipeOK
<1>3. /\ pipe' \in [Ask -> Seq(Frame)] /\ pipe'[a] = Tail(pipe[a])
      /\ \A b \in Ask \ {a} : pipe'[b] = pipe[b]
  BY <1>1, <1>2 DEF TypeOK
<1>4. a <= asks /\ question[a] = url /\ question[a] \in Question
  BY <1>1, Constants DEF TypeOK, AskOK
<1>5. Head(pipe[a]) = "result" => a \in answered /\ a \in recorded \cup uncounted
  BY <1>1, <1>2 DEF PipeOK
<1>6. /\ UNCHANGED <<url, asks, question, aborted, visits, cut, stage, turn, failed, served,
                     answered, recorded, uncounted, chain, faults>>
      /\ \/ gateway' = gateway /\ stream' = stream
         \/ gateway' = [gateway EXCEPT ![a] = "closed"] /\ stream' = [stream EXCEPT ![a] = "ended"]
  BY DEF Read, providers, counters
<1>7. /\ \/ /\ Head(pipe[a]) = "result" /\ pageCache' = [pageCache EXCEPT ![question[a]] = a]
            /\ view' = View("done", question[a], a)
         \/ view' = View("error", question[a], NULL) /\ pageCache' = pageCache
         \/ view' = view /\ pageCache' = pageCache
  BY DEF Read
<1>8. TypeOK'
  <2>1. view' \in [phase : {"home", "loading", "done", "error"},
                  question : Question \cup {NULL}, answer : Ask \cup {NULL}]
    BY <1>1, <1>4, <1>7 DEF TypeOK, View
  <2>3. pageCache' \in [Question -> Ask \cup {NULL}]
    BY <1>1, <1>4, <1>7 DEF TypeOK
  <2>2. /\ gateway' \in [Ask -> {"none", "asked", "streaming", "closed"}]
        /\ stream' \in [Ask -> {"none", "open", "ended", "dead"}]
    BY <1>1, <1>6 DEF TypeOK
  <2> QED
    BY <1>1, <1>3, <1>6, <2>1, <2>2, <2>3 DEF TypeOK
<1>9. PageOK'
  <2>1. PageOK /\ url # Home
    BY <1>4, Constants DEF IInv
  <2>2. CASE view' = View("error", question[a], NULL) /\ pageCache' = pageCache
    BY <1>4, <1>6, <2>1, <2>2 DEF PageOK, View
  <2>3. CASE view' = view /\ pageCache' = pageCache
    BY <1>6, <2>1, <2>3 DEF PageOK
  <2>4. CASE /\ Head(pipe[a]) = "result" /\ pageCache' = [pageCache EXCEPT ![question[a]] = a]
             /\ view' = View("done", question[a], a)
    BY <1>1, <1>4, <1>5, <1>6, <2>1, <2>4 DEF PageOK, TypeOK, View
  <2> QED
    BY <1>7, <2>2, <2>3, <2>4
<1>10. ASSUME NEW b \in Ask PROVE PipeOK(b)'
  <2>1. PipeOK(b) /\ (gateway'[b] # "closed" => gateway[b] # "closed")
    BY <1>1, <1>6 DEF IInv, TypeOK
  <2>2. CASE b = a
    <3>1. stage[a] \in Unfinished /\ gateway[a] # "closed"
             => \A n \in DOMAIN pipe'[a] : pipe'[a][n] \in {"ping", "stage"}
      BY <1>1, <1>2, <1>3 DEF PipeOK
    <3>2. (\E n \in DOMAIN pipe'[a] : pipe'[a][n] = "result")
             => a \in answered /\ a \in recorded \cup uncounted
      BY <1>1, <1>2, <1>3 DEF PipeOK
    <3> QED
      BY <1>2, <1>3, <1>6, <2>1, <2>2, <3>1, <3>2 DEF PipeOK
  <2>3. CASE b # a
    BY <1>3, <1>6, <2>1, <2>3 DEF PipeOK
  <2> QED
    BY <2>2, <2>3
<1>11. ASSUME NEW b \in Ask PROVE AskOK(b)'
  <2>1. AskOK(b) /\ asks \in Nat /\ b \in Nat /\ a \in Nat
    BY <1>1, Constants DEF IInv, TypeOK
  <2>2. CASE b = a
    BY <1>1, <1>4, <1>6, <2>1, <2>2 DEF AskOK, TypeOK
  <2>3. CASE b # a
    BY <1>1, <1>3, <1>6, <2>1, <2>3 DEF AskOK, TypeOK
  <2> QED
    BY <2>2, <2>3
<1>12. ASSUME NEW b \in Ask PROVE ChainOK(b)'
  BY <1>6 DEF IInv, ChainOK
<1> QED
  BY <1>8, <1>9, <1>10, <1>11, <1>12 DEF IInv

-----------------------------------------------------------------------------
(* The task.                                                               *)

\* A step of one task disturbs what is said of its own request only.
TaskStep(a, s) ==
    /\ UNCHANGED <<page, gateway, stream, chain>> /\ cut' \in {cut, cut \cup {a}}
    /\ Goto(a, s) /\ s \in {"generate", "record", "over"}
    /\ answered' \in {answered, answered \cup {a}} /\ (s = "record" => a \in answered')
    /\ recorded' \in {recorded, recorded \cup {a}} /\ uncounted' \in {uncounted, uncounted \cup {a}}
    /\ faults' \in 0 .. MaxFaults
    /\ pipe' \in [Ask -> Seq(Frame)] /\ \A b \in Ask \ {a} : pipe'[b] = pipe[b]
    /\ turn' \in [Ask -> 1 .. Len(chain)] /\ failed' \in [Ask -> Seq(Provider)]
    /\ served' \in [Ask -> Provider \cup {NULL}]
    /\ \A b \in Ask \ {a} : turn'[b] = turn[b] /\ failed'[b] = failed[b] /\ served'[b] = served[b]

LEMMA TaskKeeps ==
    ASSUME IInv, NEW a \in Ask, stage[a] \in {"retrieve", "generate", "record"},
           NEW s, TaskStep(a, s), PipeOK(a)', ChainOK(a)', recorded' \subseteq answered'
    PROVE  IInv'
<1>1. /\ TypeOK /\ AskOK(a) /\ a <= asks /\ PageOK
  BY Constants DEF IInv, AskOK, TypeOK
<1>2. /\ UNCHANGED <<url, view, pageCache, asks, question, aborted, visits, gateway, stream, chain>>
      /\ cut' \subseteq Ask
      /\ stage' \in [Ask -> {"none", "retrieve", "generate", "record", "over"}]
      /\ stage'[a] = s /\ \A b \in Ask \ {a} : stage'[b] = stage[b]
      /\ s \in {"generate", "record", "over"}
  BY <1>1 DEF TaskStep, page, Goto, TypeOK
<1>3. /\ answered \subseteq answered' /\ answered' \subseteq answered \cup {a} /\ answered' \subseteq Ask
      /\ recorded \subseteq recorded' /\ recorded' \subseteq Ask
      /\ uncounted \subseteq uncounted' /\ uncounted' \subseteq Ask
  BY <1>1 DEF TaskStep, TypeOK
<1>4. TypeOK'
  BY <1>1, <1>2, <1>3 DEF TypeOK, TaskStep
<1>5. PageOK'
  BY <1>1, <1>2, <1>3 DEF PageOK
<1>6. ASSUME NEW b \in Ask PROVE PipeOK(b)' /\ AskOK(b)' /\ ChainOK(b)'
  <2>1. PipeOK(b) /\ AskOK(b) /\ ChainOK(b)
    BY DEF IInv
  <2>2. CASE b = a
    <3>1. AskOK(a)'
      BY <1>1, <1>2, <1>3, Constants DEF AskOK, TaskStep, TypeOK
    <3> QED
      BY <2>2, <3>1
  <2>3. CASE b # a
    <3>1. /\ pipe'[b] = pipe[b] /\ stage'[b] = stage[b] /\ gateway'[b] = gateway[b]
          /\ turn'[b] = turn[b] /\ failed'[b] = failed[b] /\ served'[b] = served[b]
          /\ (b \in answered' <=> b \in answered)
      BY <1>2, <1>3, <2>3 DEF TaskStep
    <3>2. PipeOK(b)'
      BY <2>1, <3>1, <1>3 DEF PipeOK
    <3>3. AskOK(b)'
      BY <2>1, <3>1, <1>2 DEF AskOK
    <3>4. ChainOK(b)'
      BY <2>1, <3>1, <1>2 DEF ChainOK
    <3> QED
      BY <3>2, <3>3, <3>4
  <2> QED
    BY <2>2, <2>3
<1> QED
  BY <1>4, <1>5, <1>6 DEF IInv

LEMMA FaultCounts == ASSUME TypeOK, Fault PROVE faults' \in 0 .. MaxFaults
  BY Constants DEF TypeOK, Fault

\* An exception ends the task with what the providers have done.
LEMMA RaiseKeeps ==
    ASSUME IInv, NEW a \in Ask, stage[a] \in {"retrieve", "generate", "record"},
           Fault, Raise(a), UNCHANGED <<taskLeaves, answered, counters>>,
           turn' \in [Ask -> 1 .. Len(chain)], failed' \in [Ask -> Seq(Provider)],
           served' \in [Ask -> Provider \cup {NULL}],
           \A b \in Ask \ {a} : turn'[b] = turn[b] /\ failed'[b] = failed[b] /\ served'[b] = served[b],
           ChainOK(a)'
    PROVE  IInv'
<1>1. TypeOK /\ PipeOK(a) /\ stage[a] \in Unfinished /\ recorded \subseteq answered
  BY DEF IInv, Unfinished, PageOK
<1>2. Goto(a, "over") /\ Put(a, <<"error", "end">>)
  BY DEF Raise
<1>3. /\ pipe' \in [Ask -> Seq(Frame)]
      /\ \A b \in Ask \ {a} : pipe'[b] = pipe[b]
      /\ InOrder(pipe'[a])
      /\ (\E n \in DOMAIN pipe'[a] : pipe'[a][n] = "result")
            => \E n \in DOMAIN pipe[a] : pipe[a][n] = "result"
  <2>1. <<"error", "end">> # <<"result", "end">>
    OBVIOUS
  <2> QED
    BY <1>1, <1>2, <2>1, PutKeeps
<1>4. stage'[a] = "over" /\ UNCHANGED <<answered, recorded, uncounted>>
  BY <1>1, <1>2 DEF Goto, TypeOK, counters
<1>5. PipeOK(a)'
  BY <1>1, <1>3, <1>4 DEF PipeOK, Unfinished
<1>6. TaskStep(a, "over")
  BY <1>1, <1>2, <1>3, <1>4, FaultCounts DEF TaskStep, taskLeaves
<1> QED
  BY <1>1, <1>4, <1>5, <1>6, TaskKeeps

LEMMA RetrieveKeeps == ASSUME IInv, NEW a \in Ask, Retrieve(a) PROVE IInv'
<1>1. TypeOK /\ PipeOK(a) /\ ChainOK(a) /\ stage[a] = "retrieve" /\ stage[a] \in Unfinished
      /\ recorded \subseteq answered
  BY DEF IInv, PageOK, Retrieve, Unfinished
<1>2. /\ pipe' \in [Ask -> Seq(Frame)]
      /\ \A b \in Ask \ {a} : pipe'[b] = pipe[b]
      /\ InOrder(pipe'[a])
      /\ gateway[a] # "closed" => \A n \in DOMAIN pipe'[a] : pipe'[a][n] \in {"ping", "stage"}
      /\ (\E n \in DOMAIN pipe'[a] : pipe'[a][n] = "result")
            => \E n \in DOMAIN pipe[a] : pipe[a][n] = "result"
  <2>1. Put(a, <<"stage">>) /\ <<"stage">> # <<"result", "end">>
    BY DEF Retrieve
  <2> QED
    BY <1>1, <2>1, PutKeeps
<1>3. PICK s \in {"generate", "record"} :
         /\ Goto(a, s) /\ answered' \in {answered, answered \cup {a}}
         /\ (s = "record" => a \in answered')
  BY DEF Retrieve
<1>4. UNCHANGED <<taskLeaves, turn, failed, served, recorded, uncounted, faults>>
      /\ gateway' = gateway /\ chain' = chain
  BY DEF Retrieve, taskLeaves, providers, counters
<1>5. stage'[a] = s
  BY <1>1, <1>3 DEF Goto, TypeOK
<1>6. PipeOK(a)'
  BY <1>1, <1>2, <1>3, <1>4, <1>5 DEF PipeOK
<1>7. ChainOK(a)'
  BY <1>1, <1>4, <1>5 DEF ChainOK
<1>8. TaskStep(a, s)
  BY <1>1, <1>2, <1>3, <1>4 DEF TaskStep, TypeOK, taskLeaves
<1>9. recorded' \subseteq answered'
  BY <1>1, <1>3, <1>4
<1> QED
  BY <1>1, <1>6, <1>7, <1>8, <1>9, TaskKeeps

\* Before the chain, or outside of it.
LEMMA OtherRaisesKeep ==
    ASSUME IInv, NEW a \in Ask, RetrieveRaises(a) \/ ProviderBreaks(a) PROVE IInv'
<1>1. TypeOK /\ ChainOK(a) /\ stage[a] \in {"retrieve", "generate"} /\ Fault /\ Raise(a)
      /\ UNCHANGED <<taskLeaves, answered, counters, turn, failed, served, chain>>
  BY DEF IInv, RetrieveRaises, ProviderBreaks, providers, taskLeaves
<1>2. stage'[a] = "over"
  BY <1>1 DEF Raise, Goto, TypeOK
<1>3. ChainOK(a)'
  BY <1>1, <1>2 DEF ChainOK
<1>4. /\ turn' \in [Ask -> 1 .. Len(chain)] /\ failed' \in [Ask -> Seq(Provider)]
      /\ served' \in [Ask -> Provider \cup {NULL}]
      /\ \A b \in Ask \ {a} : turn'[b] = turn[b] /\ failed'[b] = failed[b] /\ served'[b] = served[b]
  BY <1>1 DEF TypeOK
<1> QED
  BY <1>1, <1>3, <1>4, RaiseKeeps

LEMMA ProviderAnswersKeeps == ASSUME IInv, NEW a \in Ask, ProviderAnswers(a) PROVE IInv'
<1>1. TypeOK /\ PipeOK(a) /\ ChainOK(a) /\ stage[a] = "generate" /\ stage[a] \in Unfinished
      /\ recorded \subseteq answered
  BY DEF IInv, PageOK, ProviderAnswers, Unfinished
<1>2. UNCHANGED <<taskLeaves, turn, failed, counters, recorded, uncounted>>
      /\ gateway' = gateway /\ chain' = chain
  BY DEF ProviderAnswers, taskLeaves, counters
<1>3. /\ chain \in Seq(Provider) /\ Len(chain) \in Nat \ {0}
      /\ turn[a] \in 1 .. Len(chain) /\ chain[turn[a]] \in Provider
      /\ failed[a] \in Seq(Provider) /\ Len(failed[a]) \in Nat
  <2>1. failed[a] \in Seq(Provider)
    BY <1>1 DEF TypeOK
  <2>2. chain \in Seq(Provider) /\ Len(chain) \in Nat \ {0}
    BY <1>1, ChainType
  <2>3. turn[a] \in 1 .. Len(chain) /\ chain[turn[a]] \in Provider
    BY <1>1, TurnType
  <2> QED
    BY <2>1, <2>2, <2>3
<1>4. /\ served' \in [Ask -> Provider \cup {NULL}] /\ served'[a] = chain[turn[a]]
      /\ \A b \in Ask \ {a} : served'[b] = served[b]
  BY <1>1, <1>3 DEF ProviderAnswers, TypeOK
<1>5. /\ turn' \in [Ask -> 1 .. Len(chain)] /\ failed' \in [Ask -> Seq(Provider)]
      /\ \A b \in Ask \ {a} : turn'[b] = turn[b] /\ failed'[b] = failed[b] /\ served'[b] = served[b]
  BY <1>1, <1>2, <1>4 DEF TypeOK
<1>6. ASSUME NEW s \in {"record", "over"}, Goto(a, s) PROVE ChainOK(a)'
  <2>1. stage'[a] = s
    BY <1>1, <1>6 DEF Goto, TypeOK
  <2>2. Len(failed[a]) = turn[a] - 1 /\ Len(failed[a]) < Len(chain) /\ Len(failed[a]) + 1 = turn[a]
    BY <1>1, <1>3 DEF ChainOK
  <2> QED
    BY <1>1, <1>2, <1>4, <1>6, <2>1, <2>2 DEF ChainOK
<1>7. CASE Goto(a, "record") /\ Put(a, <<"stage">>) /\ answered' = answered \cup {a}
           /\ faults' = faults
  <2>1. /\ pipe' \in [Ask -> Seq(Frame)]
        /\ \A b \in Ask \ {a} : pipe'[b] = pipe[b]
        /\ InOrder(pipe'[a])
        /\ gateway[a] # "closed" => \A n \in DOMAIN pipe'[a] : pipe'[a][n] \in {"ping", "stage"}
        /\ (\E n \in DOMAIN pipe'[a] : pipe'[a][n] = "result")
              => \E n \in DOMAIN pipe[a] : pipe[a][n] = "result"
    <3>1. <<"stage">> # <<"result", "end">>
      OBVIOUS
    <3> QED
      BY <1>1, <1>7, <3>1, PutKeeps
  <2>2. PipeOK(a)'
    BY <1>1, <1>2, <1>7, <2>1 DEF PipeOK
  <2>3. TaskStep(a, "record")
    BY <1>1, <1>2, <1>4, <1>5, <1>7, <2>1 DEF TaskStep, TypeOK, taskLeaves
  <2>4. ChainOK(a)' /\ recorded' \subseteq answered'
    BY <1>1, <1>2, <1>6, <1>7
  <2> QED
    BY <1>1, <2>2, <2>3, <2>4, TaskKeeps
<1>8. CASE Fault /\ Raise(a) /\ answered' = answered
  <2>1. ChainOK(a)'
    BY <1>6, <1>8 DEF Raise
  <2> QED
    BY <1>1, <1>2, <1>4, <1>5, <1>8, <2>1, RaiseKeeps
<1> QED
  BY <1>7, <1>8 DEF ProviderAnswers

LEMMA ProviderFailsKeeps == ASSUME IInv, NEW a \in Ask, ProviderFails(a) PROVE IInv'
<1>1. TypeOK /\ PipeOK(a) /\ ChainOK(a) /\ AskOK(a) /\ PageOK /\ stage[a] = "generate"
  BY DEF IInv, ProviderFails
<1>2. UNCHANGED <<taskLeaves, served, answered, counters, recorded, uncounted>>
      /\ gateway' = gateway /\ chain' = chain
  BY DEF ProviderFails, taskLeaves, counters
<1>3. /\ chain \in Seq(Provider) /\ Len(chain) \in Nat \ {0}
      /\ turn[a] \in 1 .. Len(chain) /\ chain[turn[a]] \in Provider
      /\ failed[a] \in Seq(Provider) /\ Len(failed[a]) = turn[a] - 1
      /\ \A n \in 1 .. Len(failed[a]) : failed[a][n] = chain[n]
      /\ served[a] = NULL
  BY <1>1, ChainType DEF TypeOK, ChainOK
<1> DEFINE more == Append(failed[a], chain[turn[a]])
<1>4. /\ more \in Seq(Provider) /\ Len(more) = turn[a]
      /\ \A n \in 1 .. Len(more) : more[n] = chain[n]
  <2>1. /\ more \in Seq(Provider) /\ Len(more) = Len(failed[a]) + 1
        /\ \A n \in 1 .. Len(failed[a]) : more[n] = failed[a][n]
        /\ more[Len(failed[a]) + 1] = chain[turn[a]]
    BY <1>3, AppendProperties
  <2> HIDE DEF more
  <2>2. Len(more) = turn[a] /\ Len(failed[a]) + 1 = turn[a] /\ turn[a] \in Nat
    BY <1>3, <2>1
  <2>3. ASSUME NEW n \in 1 .. Len(more) PROVE more[n] = chain[n]
    <3>1. n \in 1 .. Len(failed[a]) \/ n = turn[a]
      BY <1>3, <2>2
    <3> QED
      BY <1>3, <2>1, <2>2, <3>1
  <2> QED
    BY <2>1, <2>2, <2>3
<1>5. failed' = [failed EXCEPT ![a] = more]
  BY DEF ProviderFails
<1> HIDE DEF more
<1>6. /\ failed' \in [Ask -> Seq(Provider)] /\ failed'[a] = more
      /\ \A b \in Ask \ {a} : failed'[b] = failed[b]
  BY <1>1, <1>4, <1>5 DEF TypeOK
<1>7. served' \in [Ask -> Provider \cup {NULL}] /\ served'[a] = NULL
      /\ \A b \in Ask : served'[b] = served[b]
  BY <1>1, <1>2, <1>3 DEF TypeOK
<1>8. CASE ~LastTurn(a) /\ turn' = [turn EXCEPT ![a] = NextTurn(a)]
           /\ UNCHANGED <<stage, pipe, faults>>
  <2>1. turn[a] + 1 \in 1 .. Len(chain)
    BY <1>3, <1>8 DEF LastTurn
  <2>2. /\ turn' \in [Ask -> 1 .. Len(chain)] /\ turn'[a] = turn[a] + 1
        /\ \A b \in Ask \ {a} : turn'[b] = turn[b]
    BY <1>1, <1>8, <2>1 DEF TypeOK, NextTurn
  <2>3. ChainOK(a)'
    BY <1>1, <1>2, <1>3, <1>4, <1>6, <1>7, <1>8, <2>1, <2>2 DEF ChainOK
  <2>4. PipeOK(a)'
    BY <1>1, <1>2, <1>8 DEF PipeOK
  <2>5. TaskStep(a, "generate")
    <3>1. Goto(a, "generate")
      BY <1>1, <1>8 DEF Goto, TypeOK
    <3> QED
      BY <1>1, <1>2, <1>6, <1>7, <1>8, <2>2, <3>1 DEF TaskStep, TypeOK, taskLeaves
  <2>6. recorded' \subseteq answered'
    BY <1>1, <1>2 DEF PageOK
  <2> QED
    BY <1>1, <2>3, <2>4, <2>5, <2>6, TaskKeeps
<1>9. CASE LastTurn(a) /\ Fault /\ Raise(a) /\ turn' = turn
  <2>1. stage'[a] = "over"
    BY <1>1, <1>9 DEF Raise, Goto, TypeOK
  <2>2. ChainOK(a)'
    BY <1>2, <1>3, <1>4, <1>6, <1>7, <1>9, <2>1 DEF ChainOK, LastTurn
  <2>3. turn' \in [Ask -> 1 .. Len(chain)]
    BY <1>1, <1>9 DEF TypeOK
  <2> QED
    BY <1>1, <1>2, <1>6, <1>7, <1>9, <2>2, <2>3, RaiseKeeps
<1> QED
  BY <1>8, <1>9 DEF ProviderFails

LEMMA RecordQueryKeeps == ASSUME IInv, NEW a \in Ask, RecordQuery(a) PROVE IInv'
<1>1. TypeOK /\ PipeOK(a) /\ ChainOK(a) /\ stage[a] = "record" /\ stage[a] \in Unfinished
      /\ a \in answered /\ recorded \subseteq answered
  BY DEF IInv, PageOK, AskOK, RecordQuery, Unfinished
<1>2. UNCHANGED <<taskLeaves, turn, failed, served, answered>>
      /\ gateway' = gateway /\ chain' = chain /\ Goto(a, "over") /\ Put(a, <<"result", "end">>)
  BY DEF RecordQuery, taskLeaves, providers
<1>3. /\ pipe' \in [Ask -> Seq(Frame)]
      /\ \A b \in Ask \ {a} : pipe'[b] = pipe[b]
      /\ InOrder(pipe'[a])
  BY <1>1, <1>2, PutKeeps
<1>4. /\ recorded' \in {recorded, recorded \cup {a}} /\ uncounted' \in {uncounted, uncounted \cup {a}}
      /\ a \in recorded' \cup uncounted'
      /\ faults' \in 0 .. MaxFaults
  <2>1. CASE recorded' = recorded \cup {a} /\ UNCHANGED <<uncounted, faults>>
    BY <1>1, <2>1 DEF TypeOK
  <2>2. CASE uncounted' = uncounted \cup {a} /\ Fault /\ UNCHANGED recorded
    BY <1>1, <2>2, FaultCounts
  <2> QED
    BY <2>1, <2>2 DEF RecordQuery
<1>5. stage'[a] = "over"
  BY <1>1, <1>2 DEF Goto, TypeOK
<1>6. PipeOK(a)'
  BY <1>1, <1>2, <1>3, <1>4, <1>5 DEF PipeOK, Unfinished
<1>7. ChainOK(a)'
  BY <1>1, <1>2, <1>5 DEF ChainOK
<1>8. TaskStep(a, "over")
  BY <1>1, <1>2, <1>3, <1>4 DEF TaskStep, TypeOK, taskLeaves
<1>9. recorded' \subseteq answered'
  BY <1>1, <1>2, <1>4
<1> QED
  BY <1>1, <1>6, <1>7, <1>8, <1>9, TaskKeeps

\* A response that breaks off leaves no terminal frame behind.
LEMMA ResponseRaisesKeeps == ASSUME IInv, NEW a \in Ask, ResponseRaises(a) PROVE IInv'
<1>1. TypeOK /\ PipeOK(a) /\ ChainOK(a) /\ stage[a] = "record" /\ stage[a] \in Unfinished
      /\ a \in answered /\ recorded \subseteq answered
  BY DEF IInv, PageOK, AskOK, ResponseRaises, Unfinished
<1>2. UNCHANGED <<page, gateway, stream, chain, turn, failed, served, answered, uncounted>>
      /\ Goto(a, "over") /\ Put(a, <<"end">>) /\ recorded' = recorded \cup {a}
      /\ cut' = cut \cup {a} /\ faults' \in 0 .. MaxFaults
  BY <1>1, FaultCounts DEF ResponseRaises, providers
<1>3. /\ pipe' \in [Ask -> Seq(Frame)]
      /\ \A b \in Ask \ {a} : pipe'[b] = pipe[b]
      /\ InOrder(pipe'[a])
  BY <1>1, <1>2, PutKeeps
<1>4. stage'[a] = "over"
  BY <1>1, <1>2 DEF Goto, TypeOK
<1>5. PipeOK(a)'
  BY <1>1, <1>2, <1>3, <1>4 DEF PipeOK, Unfinished
<1>6. ChainOK(a)'
  BY <1>1, <1>2, <1>4 DEF ChainOK
<1>7. TaskStep(a, "over")
  BY <1>1, <1>2, <1>3 DEF TaskStep, TypeOK
<1>8. recorded' \subseteq answered'
  BY <1>1, <1>2
<1> QED
  BY <1>1, <1>5, <1>6, <1>7, <1>8, TaskKeeps

-----------------------------------------------------------------------------
(* Every step, and what follows from the invariant.                        *)

LEMMA NextKeeps == IInv /\ [Next]_vars => IInv'
<1> SUFFICES ASSUME IInv, [Next]_vars PROVE IInv'
  OBVIOUS
<1>1. CASE User
  BY <1>1, GoHomeKeeps, ShowCachedKeeps, AskForKeeps DEF User
<1>2. CASE \E a \in Ask : Page(a) \/ Gateway(a) \/ Stream(a)
  BY <1>2, ReadKeeps, LeaveKeeps, RefuseKeeps, HeadersKeeps, ReadFailsKeeps, StartStreamKeeps,
     AbandonKeeps DEF Page, Gateway, Stream
<1>3. CASE \E a \in Ask : Task(a)
  BY <1>3, RetrieveKeeps, OtherRaisesKeep, ProviderAnswersKeeps, ProviderFailsKeeps,
     RecordQueryKeeps, ResponseRaisesKeeps DEF Task
<1>4. CASE GatewayDies \/ OrchestratorDies
  BY <1>4, GatewayDiesKeeps, OrchestratorDiesKeeps
<1>5. CASE UNCHANGED vars
  BY <1>5 DEF vars, page, providers, counters, IInv, TypeOK, PageOK, PipeOK, AskOK, ChainOK
<1> QED
  BY <1>1, <1>2, <1>3, <1>4, <1>5 DEF Next

\* The inductive invariant holds in every state of every behaviour.
THEOREM IInvHolds == Spec => []IInv
  BY InitHolds, NextKeeps, PTL DEF Spec

\* Every variable stays in its type: no bound is passed, no turn leaves the chain.
THEOREM TypeCorrect == Spec => []TypeOK
<1>1. IInv => TypeOK
  BY DEF IInv
<1> QED
  BY <1>1, IInvHolds, PTL

\* For any number of requests and moves, the page shows what its URL asks for
\* (Chat.tsx: the effect's cleanup and signal.aborted).
THEOREM AskedCorrect == Spec => []ShownIsAsked
<1>1. IInv => ShownIsAsked
  BY DEF IInv, PageOK, ShownIsAsked
<1> QED
  BY <1>1, IInvHolds, PTL

\* For any interleaving of tasks, only answered questions are counted, and
\* counting is tried before a response leaves (main.py: query_stream).
THEOREM CountedCorrect == Spec => []CountedOnSuccess
<1>1. IInv => CountedOnSuccess
  BY DEF IInv, PageOK, CountedOnSuccess
<1> QED
  BY <1>1, IInvHolds, PTL

LEMMA InOrderIsTerminal ==
    ASSUME NEW s \in Seq(Frame), InOrder(s), NEW n \in DOMAIN s
    PROVE  /\ s[n] = "ping" => n = 1
           /\ s[n] \in {"result", "error"} => SubSeq(s, n + 1, Len(s)) = <<"end">>
<1>1. s[n] = "ping" => n = 1
  BY DEF InOrder
<1>2. ASSUME s[n] \in {"result", "error"} PROVE SubSeq(s, n + 1, Len(s)) = <<"end">>
  <2>1. n + 1 = Len(s) /\ s[Len(s)] = "end"
    BY <1>2 DEF InOrder
  <2>2. n \in Nat \ {0} /\ Len(s) \in Nat /\ n + 1 \in 1 .. Len(s)
    BY <2>1
  <2>3. /\ SubSeq(s, n + 1, Len(s)) \in Seq(Frame) /\ Len(SubSeq(s, n + 1, Len(s))) = 1
        /\ SubSeq(s, n + 1, Len(s))[1] = "end"
    BY <2>1, <2>2
  <2>4. <<"end">> \in Seq(Frame) /\ Len(<<"end">>) = 1 /\ <<"end">>[1] = "end"
    BY DEF Frame
  <2>5. \A i \in 1 .. 1 : i = 1
    OBVIOUS
  <2> QED
    BY <2>3, <2>4, <2>5, SeqEqual
<1> QED
  BY <1>1, <1>2

\* For any number of streams, whatever the gateway loses of them, nothing but
\* the end comes after a terminal frame (main.py: event_stream's sentinel).
THEOREM TerminalCorrect == Spec => []TerminalIsLast
<1>1. IInv => TerminalIsLast
  BY InOrderIsTerminal DEF IInv, TypeOK, PipeOK, TerminalIsLast
<1> QED
  BY <1>1, IInvHolds, PTL

\* For any chain of providers, a prefix of it has failed, and the provider
\* behind that prefix is the one that serves (llm.py: FallbackLLM.complete).
THEOREM ServesCorrect == Spec => []FirstThatAnswersServes
<1>1. ASSUME IInv, NEW a \in Ask
      PROVE  /\ IsPrefix(failed[a], chain)
             /\ served[a] # NULL => IsPrefix(Append(failed[a], served[a]), chain)
  <2>1. /\ failed[a] \in Seq(Provider) /\ chain \in Seq(Provider) /\ ChainOK(a)
        /\ served[a] \in Provider \cup {NULL}
    BY <1>1, ChainType DEF IInv, TypeOK
  <2>2. ASSUME NEW s \in Seq(Provider), Len(s) <= Len(chain),
               \A n \in 1 .. Len(s) : s[n] = chain[n]
        PROVE  IsPrefix(s, chain)
    <3>1. Len(s) \in Nat /\ Len(chain) \in Nat
      BY <2>1
    <3>2. SubSeq(s, 1, Len(s)) = SubSeq(chain, 1, Len(s))
      <4>1. /\ SubSeq(s, 1, Len(s)) = [n \in 1 .. Len(s) |-> s[n]]
            /\ SubSeq(chain, 1, Len(s)) = [n \in 1 .. Len(s) |-> chain[n]]
        BY <2>1, <2>2, <3>1
      <4> QED
        BY <2>2, <4>1, Zenon
    <3> QED
      BY <2>2, <3>2 DEF IsPrefix
  <2>3. IsPrefix(failed[a], chain)
    BY <2>1, <2>2 DEF ChainOK
  <2>4. ASSUME served[a] # NULL PROVE IsPrefix(Append(failed[a], served[a]), chain)
    <3> DEFINE more == Append(failed[a], served[a])
    <3>1. Len(failed[a]) \in Nat /\ Len(chain) \in Nat /\ served[a] \in Provider
      BY <2>1, <2>4
    <3>2. /\ more \in Seq(Provider) /\ Len(more) = Len(failed[a]) + 1
          /\ \A n \in 1 .. Len(failed[a]) : more[n] = failed[a][n]
          /\ more[Len(failed[a]) + 1] = served[a]
      BY <2>1, <3>1, AppendProperties
    <3> HIDE DEF more
    <3>3. Len(more) <= Len(chain) /\ \A n \in 1 .. Len(more) : more[n] = chain[n]
      BY <2>1, <2>4, <3>1, <3>2 DEF ChainOK
    <3>4. IsPrefix(more, chain)
      BY <2>2, <3>2, <3>3
    <3> QED
      BY <3>4 DEF more
  <2> QED
    BY <2>3, <2>4
<1>2. IInv => FirstThatAnswersServes
  BY <1>1 DEF FirstThatAnswersServes
<1> QED
  BY <1>2, IInvHolds, PTL
=============================================================================
