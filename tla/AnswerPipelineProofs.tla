------------------------ MODULE AnswerPipelineProofs ------------------------
(***************************************************************************)
(* What AnswerPipelineProperties promises of every reply, the cache and    *)
(* the counters, for any number of requests, questions and sources, any    *)
(* similarity of questions, any cap, and any number of writers, days and   *)
(* faults.  The first part treats a maximum or a sum over the sources as   *)
(* whatever corpus_version makes of the corpus; the second proves what the *)
(* two return, and with it the types, the counts and the freshness.        *)
(***************************************************************************)
EXTENDS AnswerPipelineProperties, FiniteSetTheorems, WellFoundedInduction, TLAPS

-----------------------------------------------------------------------------
(* Types.  Those of TypeOK, with a corpus version made of whatever         *)
(* LastChange and ChunkTotal return.                                       *)

Versions == [changed : {LastChange(at) : at \in [Source -> Nat]} \cup {0},
             chunks : {ChunkTotal(text) : text \in [Source -> Version]} \cup {0},
             day : Day \cup {0}]
Rows == [by : Request, question : Question, version : Versions, answer : Answer]
Starts == [day : Day, marked : [Source -> Version], full : BOOLEAN]
Locals == [pc : Steps, question : Question, advice : BOOLEAN, version : Versions,
           answer : Answer \cup {NoAnswer}, doomed : SUBSET Rows, reply : Replies,
           start : Starts, generatedOn : Day \cup {0}, unpaid : BOOLEAN, open : BOOLEAN]

CorpusTypes ==
    /\ day \in Day /\ clock \in Nat /\ pending \in [Source -> Nat]
    /\ corpus \in [changedAt : [Source -> Nat], text : [Source -> Version],
                   marked : [Source -> Version]]

Types ==
    /\ CorpusTypes
    /\ cache \subseteq Rows /\ counts \in [Day -> Nat]
    /\ req \in [Request -> Locals] /\ faults \in 0 .. MaxFaults

-----------------------------------------------------------------------------
(* The inductive invariant, for one request's local state q, a row of the  *)
(* cache, a day d and the counts c.                                        *)

HasAnswer == {"budget", "generate", "record", "verify", "store", "commit"}
Verified == {"store", "commit"}

\* What an answer is made of is no older than the version it goes under, and
\* that version no older than the request's arrival.
DatesOK(q, d) ==
    /\ q.version.day <= d
    /\ q.pc # "idle" => q.start.day <= d
    /\ q.pc \in {"version", "lookup"} => q.start.day <= q.version.day
    /\ q.pc \in HasAnswer => /\ q.version.day <= q.answer.today /\ q.answer.today <= d
                             /\ q.start.day <= q.answer.today

\* An answer is of the type the verdict asks for; past Verify every guard has
\* passed it.
AnswerOK(q) ==
    /\ q.pc \in HasAnswer => q.answer \in Answer /\ q.answer.type = RequiredResponseType(q.advice)
    /\ q.pc \in Verified => q.answer.sound

ReplyOK(q, d) ==
    q.reply \in Cacheable =>
        /\ q.pc = "done" /\ q.answer \in Answer /\ q.answer.sound
        /\ q.reply = RequiredResponseType(q.advice) /\ q.answer.type = q.reply
        /\ q.start.day <= q.answer.today /\ q.answer.today <= d

\* A day's count never goes down, so a request that found it spent at its arrival
\* finds it spent at its check, unless the day has gone by.
BudgetOK(q, d, c) ==
    /\ q.pc = "idle" => q.generatedOn = 0
    /\ q.pc # "idle" /\ q.start.full => c[q.start.day] >= Cap
    /\ q.pc = "generate" /\ q.start.full /\ ~q.open => q.start.day < d
    /\ q.generatedOn # 0 /\ q.start.full /\ ~q.open => q.start.day < q.generatedOn

LocalOK(q, d, c) == DatesOK(q, d) /\ AnswerOK(q) /\ ReplyOK(q, d) /\ BudgetOK(q, d, c)

RowOK(row, d) ==
    /\ row.answer.sound
    /\ row.version.day <= row.answer.today /\ row.answer.today <= d

IInv ==
    /\ Types
    /\ \A r \in Request : LocalOK(req[r], day, counts)
    /\ \A row \in cache : RowOK(row, day)

LEMMA DayType == (\A d \in Day : d \in Nat) /\ 1 \in Day /\ 0 \notin Day /\ Cap \in Nat
  BY ConstantsAssumption DEF Day

LEMMA CorpusVersionType ==
    ASSUME CorpusTypes, NEW today \in Day
    PROVE  CorpusVersion(today) \in Versions /\ CorpusVersion(today).day = today
<1>1. corpus.changedAt \in [Source -> Nat] /\ corpus.text \in [Source -> Version]
  BY DEF CorpusTypes
<1> QED
  BY <1>1 DEF CorpusVersion, Versions

LEMMA NoVersionType == NoVersion \in Versions /\ NoVersion.day = 0
  BY DEF NoVersion, Versions

LEMMA AnswerType ==
    /\ \A a \in Answer : a.type \in Cacheable /\ a.today \in Day /\ a.sound \in BOOLEAN
    /\ Cacheable \subseteq Replies
  BY DEF Answer, Replies

\* The fields the invariant speaks of.
LEMMA LocalFields ==
    ASSUME NEW q \in Locals
    PROVE  /\ q.start \in Starts /\ q.start.day \in Day
           /\ q.version \in Versions /\ q.version.day \in Day \cup {0}
           /\ q.answer \in Answer \cup {NoAnswer} /\ q.answer.today \in Day \cup {0}
           /\ q.generatedOn \in Day \cup {0}
<1>1. /\ q.start \in Starts /\ q.version \in Versions
      /\ q.answer \in Answer \cup {NoAnswer} /\ q.generatedOn \in Day \cup {0}
  BY DEF Locals
<1>2. q.start.day \in Day
  BY <1>1 DEF Starts
<1>3. q.version.day \in Day \cup {0}
  BY <1>1 DEF Versions
<1>4. q.answer.today \in Day \cup {0}
  BY <1>1 DEF Answer, NoAnswer
<1> QED
  BY <1>1, <1>2, <1>3, <1>4

-----------------------------------------------------------------------------
(* Steps of one request.                                                   *)

\* The requests that stand still keep their invariant while the day and the
\* counts only grow.
LEMMA OthersKeep ==
    ASSUME NEW q \in Locals, NEW d \in Day, NEW e \in Day, d <= e,
           NEW c \in [Day -> Nat], NEW k \in [Day -> Nat], \A x \in Day : c[x] <= k[x],
           LocalOK(q, d, c)
    PROVE  LocalOK(q, e, k)
<1>1. /\ q.start.day \in Day /\ q.version.day \in Day \cup {0} /\ q.generatedOn \in Day \cup {0}
      /\ q.answer.today \in Day \cup {0}
  BY LocalFields
<1>5. /\ d \in Nat /\ e \in Nat /\ q.start.day \in Nat /\ q.version.day \in Nat
      /\ q.answer.today \in Nat
  BY <1>1, DayType
<1> DEFINE was == c[q.start.day]
           is == k[q.start.day]
<1>0. was \in Nat /\ is \in Nat /\ was <= is
  BY <1>1
<1>2. DatesOK(q, e)
  BY <1>5 DEF LocalOK, DatesOK
<1>3. ReplyOK(q, e)
  BY <1>5 DEF LocalOK, ReplyOK
<1>4. BudgetOK(q, e, k)
  <2>1. BudgetOK(q, d, c)
    BY DEF LocalOK
  <2>2. q.pc # "idle" /\ q.start.full => was >= Cap
    BY <2>1 DEF BudgetOK
  <2>3. q.pc # "idle" /\ q.start.full => is >= Cap
    BY <1>0, <2>2, DayType
  <2> HIDE DEF was
  <2>4. q.pc = "generate" /\ q.start.full /\ ~q.open => q.start.day < e
    BY <1>5, <2>1 DEF BudgetOK
  <2> QED
    BY <2>1, <2>3, <2>4 DEF BudgetOK
<1> QED
  BY <1>2, <1>3, <1>4 DEF LocalOK

\* A step that changes one request's local state and perhaps the faults.
LEMMA RequestStep ==
    ASSUME IInv, NEW r \in Request, NEW new \in Locals, LocalOK(new, day, counts),
           req' = [req EXCEPT ![r] = new], UNCHANGED <<world, cache, counts>>,
           faults' \in 0 .. MaxFaults
    PROVE  IInv'
<1>1. Types'
  BY DEF IInv, Types, CorpusTypes, world
<1>2. \A x \in Request : LocalOK(req'[x], day, counts)
  BY DEF IInv, Types
<1>3. \A x \in Request : LocalOK(req[x], day, counts)'
  BY <1>2 DEF world
<1>4. \A row \in cache' : RowOK(row, day)'
  BY DEF IInv, world, RowOK
<1> QED
  BY <1>1, <1>3, <1>4 DEF IInv

LEMMA FaultType ==
    ASSUME Types PROVE /\ Fault => faults' \in 0 .. MaxFaults
                       /\ UNCHANGED faults => faults' \in 0 .. MaxFaults
  BY ConstantsAssumption DEF Fault, Types

\* The local state of a request and what its invariant says of it.
LEMMA LocalTypes ==
    ASSUME IInv, NEW r \in Request
    PROVE  req[r] \in Locals /\ LocalOK(req[r], day, counts) /\ req \in [Request -> Locals]
  BY DEF IInv, Types

\* What a request keeps of its arrival and its generation once it is over.
LEMMA OverKeeps ==
    ASSUME IInv, NEW r \in Request, ~At(r, "idle"), NEW new,
           new.pc = "done", new.version = NoVersion, new.start = req[r].start,
           new.open = req[r].open, new.generatedOn = req[r].generatedOn
    PROVE  DatesOK(new, day) /\ AnswerOK(new) /\ BudgetOK(new, day, counts)
<1>1. DatesOK(req[r], day) /\ BudgetOK(req[r], day, counts) /\ req[r].pc # "idle"
  BY LocalTypes DEF LocalOK, At
<1>2. day \in Nat
  BY DayType DEF IInv, Types, CorpusTypes
<1>3. DatesOK(new, day)
  BY <1>1, <1>2, NoVersionType DEF DatesOK, HasAnswer
<1>4. BudgetOK(new, day, counts)
  BY <1>1 DEF BudgetOK
<1>5. AnswerOK(new)
  BY DEF AnswerOK, HasAnswer, Verified
<1> QED
  BY <1>3, <1>4, <1>5

\* A reply without generated text.
LEMMA PlainReply ==
    ASSUME IInv, NEW r \in Request, NEW kind \in Replies \ Cacheable, ~At(r, "idle"),
           Reply(r, kind, NoAnswer), UNCHANGED <<world, cache, counts>>,
           faults' \in 0 .. MaxFaults
    PROVE  IInv'
<1> DEFINE new == [req[r] EXCEPT !.pc = "done", !.reply = kind, !.answer = NoAnswer,
                                 !.version = NoVersion, !.doomed = {}]
<1>1. req' = [req EXCEPT ![r] = new]
  BY DEF Reply
<1>2. new \in Locals
  <2>1. req[r] \in Locals /\ NoVersion \in Versions /\ kind \in Replies
    BY LocalTypes, NoVersionType
  <2> QED
    BY <2>1 DEF Locals, Steps
<1>3. LocalOK(new, day, counts)
  <2>1. /\ new.pc = "done" /\ new.reply = kind /\ new.version = NoVersion
        /\ new.start = req[r].start /\ new.open = req[r].open
        /\ new.generatedOn = req[r].generatedOn
    BY LocalTypes DEF Locals
  <2> HIDE DEF new
  <2> QED
    BY <2>1, OverKeeps DEF LocalOK, ReplyOK
<1> HIDE DEF new
<1> QED
  BY <1>1, <1>2, <1>3, RequestStep

\* A reply with generated text, from the cache or the request's own.
LEMMA TextReply ==
    ASSUME IInv, NEW r \in Request, NEW a \in Answer, ~At(r, "idle"),
           a.sound, a.type = RequiredResponseType(req[r].advice),
           req[r].start.day <= a.today, a.today <= day, Reply(r, a.type, a)
    PROVE  LET new == [req[r] EXCEPT !.pc = "done", !.reply = a.type, !.answer = a,
                                     !.version = NoVersion, !.doomed = {}]
           IN  /\ new \in Locals /\ LocalOK(new, day, counts)
               /\ req' = [req EXCEPT ![r] = new]
<1> DEFINE new == [req[r] EXCEPT !.pc = "done", !.reply = a.type, !.answer = a,
                                 !.version = NoVersion, !.doomed = {}]
<1>1. req' = [req EXCEPT ![r] = new]
  BY DEF Reply
<1>2. new \in Locals
  <2>1. req[r] \in Locals /\ NoVersion \in Versions /\ a.type \in Replies
    BY LocalTypes, NoVersionType, AnswerType
  <2> QED
    BY <2>1 DEF Locals, Steps
<1>3. LocalOK(new, day, counts)
  <2>1. /\ new.pc = "done" /\ new.reply = a.type /\ new.version = NoVersion
        /\ new.answer = a /\ new.advice = req[r].advice
        /\ new.start = req[r].start /\ new.open = req[r].open
        /\ new.generatedOn = req[r].generatedOn
    BY LocalTypes DEF Locals
  <2> HIDE DEF new
  <2> QED
    BY <2>1, OverKeeps DEF LocalOK, ReplyOK
<1> QED
  BY <1>1, <1>2, <1>3

-----------------------------------------------------------------------------
(* Each step of a request.                                                 *)

LEMMA ArriveKeeps ==
    ASSUME IInv, NEW r \in Request, NEW q \in Question, Arrive(r, q) PROVE IInv'
<1> DEFINE start == [day |-> day, marked |-> corpus.marked, full |-> counts[day] >= Cap]
<1>1. PICK gated \in BOOLEAN :
         req' = [req EXCEPT ![r] = [@ EXCEPT !.question = q, !.start = start,
                                             !.pc = IF gated THEN "done" ELSE "classify",
                                             !.reply = IF gated THEN "gated" ELSE "none"]]
  BY DEF Arrive
<1> DEFINE new == [req[r] EXCEPT !.question = q, !.start = start,
                                 !.pc = IF gated THEN "done" ELSE "classify",
                                 !.reply = IF gated THEN "gated" ELSE "none"]
<1>2. req[r] \in Locals /\ req[r].pc = "idle" /\ LocalOK(req[r], day, counts)
  BY LocalTypes DEF Arrive, At
<1>3. start \in Starts /\ start.day = day /\ (start.full => counts[day] >= Cap)
  <2>1. day \in Day /\ corpus.marked \in [Source -> Version]
    BY DEF IInv, Types, CorpusTypes
  <2>2. (counts[day] >= Cap) \in BOOLEAN
    OBVIOUS
  <2> QED
    BY <2>1, <2>2 DEF Starts
<1> HIDE DEF start
<1>4. new \in Locals
  BY <1>2, <1>3 DEF Locals, Steps, Replies
<1>5. /\ new.pc \in {"done", "classify"} /\ new.reply \in {"gated", "none"}
      /\ new.start = start /\ new.generatedOn = req[r].generatedOn
      /\ new.version = req[r].version
  BY <1>2 DEF Locals
<1> HIDE DEF new
<1>6. day \in Nat
  BY DayType DEF IInv, Types, CorpusTypes
<1>7. LocalOK(new, day, counts)
  <2>1. DatesOK(new, day)
    BY <1>2, <1>3, <1>5, <1>6 DEF LocalOK, DatesOK, HasAnswer
  <2>2. AnswerOK(new) /\ ReplyOK(new, day)
    BY <1>5 DEF AnswerOK, ReplyOK, HasAnswer, Verified, Cacheable
  <2>3. BudgetOK(new, day, counts)
    BY <1>2, <1>3, <1>5 DEF LocalOK, BudgetOK
  <2> QED
    BY <2>1, <2>2, <2>3 DEF LocalOK
<1>8. req' = [req EXCEPT ![r] = new] /\ UNCHANGED <<world, cache, counts>>
      /\ faults' \in 0 .. MaxFaults
  BY <1>1, FaultType DEF new, Arrive, IInv
<1> QED
  BY <1>4, <1>7, <1>8, RequestStep

\* A step that only moves a request on, to where its invariant asks no more.
LEMMA MoveKeeps ==
    ASSUME IInv, NEW r \in Request, NEW step \in Steps, ~At(r, "idle"), step # "idle",
           step \notin {"generate", "version", "lookup"},
           step \in HasAnswer => req[r].pc \in HasAnswer,
           step \in Verified => req[r].answer.sound, ~At(r, "done"),
           Goto(r, step), UNCHANGED <<world, cache, counts>>, faults' \in 0 .. MaxFaults
    PROVE  IInv'
<1> DEFINE new == [req[r] EXCEPT !.pc = step]
<1>1. req' = [req EXCEPT ![r] = new]
  BY DEF Goto
<1>2. req[r] \in Locals /\ LocalOK(req[r], day, counts) /\ req[r].pc \notin {"idle", "done"}
  BY LocalTypes DEF At
<1>3. new \in Locals
  BY <1>2 DEF Locals
<1>4. /\ new.pc = step /\ new.reply = req[r].reply /\ new.version = req[r].version
      /\ new.start = req[r].start /\ new.open = req[r].open /\ new.answer = req[r].answer
      /\ new.generatedOn = req[r].generatedOn /\ new.advice = req[r].advice
  BY <1>2 DEF Locals
<1> HIDE DEF new
<1>5. DatesOK(new, day) /\ AnswerOK(new) /\ ReplyOK(new, day) /\ BudgetOK(new, day, counts)
  BY <1>2, <1>4 DEF LocalOK, DatesOK, AnswerOK, ReplyOK, BudgetOK
<1> QED
  BY <1>1, <1>3, <1>5, RequestStep DEF LocalOK

LEMMA ClassifyKeeps ==
    ASSUME IInv, NEW r \in Request, Classify(r) PROVE IInv'
<1>1. req[r] \in Locals /\ LocalOK(req[r], day, counts) /\ req[r].pc = "classify"
  BY LocalTypes DEF Classify, At
<1>2. /\ UNCHANGED <<world, cache, counts>>
      /\ \/ \E verdict \in BOOLEAN :
               req' = [req EXCEPT ![r].pc = "embed", ![r].advice = verdict] /\ UNCHANGED faults
         \/ Fault /\ Goto(r, "embed")
  BY DEF Classify
<1>3. CASE Fault /\ Goto(r, "embed")
  <2>1. faults' \in 0 .. MaxFaults
    BY <1>3, FaultType DEF IInv
  <2> QED
    BY <1>1, <1>2, <1>3, <2>1, MoveKeeps DEF Steps, HasAnswer, Verified, At
<1>4. ASSUME NEW verdict \in BOOLEAN, UNCHANGED faults,
             req' = [req EXCEPT ![r].pc = "embed", ![r].advice = verdict]
      PROVE  IInv'
  <2> DEFINE new == [req[r] EXCEPT !.pc = "embed", !.advice = verdict]
  <2>1. req' = [req EXCEPT ![r] = new]
    BY <1>4, LocalTypes DEF Locals
  <2>2. new \in Locals
    BY <1>1 DEF Locals, Steps
  <2>3. /\ new.pc = "embed" /\ new.reply = req[r].reply /\ new.version = req[r].version
        /\ new.start = req[r].start /\ new.open = req[r].open /\ new.answer = req[r].answer
        /\ new.generatedOn = req[r].generatedOn
    BY <1>1 DEF Locals
  <2> HIDE DEF new
  <2>4. DatesOK(new, day) /\ AnswerOK(new) /\ BudgetOK(new, day, counts)
    BY <1>1, <2>3 DEF LocalOK, DatesOK, AnswerOK, BudgetOK, HasAnswer, Verified
  <2>5. new.reply \notin Cacheable
    BY <1>1, <2>3 DEF LocalOK, ReplyOK
  <2>6. ReplyOK(new, day)
    BY <2>5 DEF ReplyOK
  <2> QED
    BY <1>2, <1>4, <2>1, <2>2, <2>4, <2>6, RequestStep, FaultType DEF LocalOK, IInv
<1> QED
  BY <1>2, <1>3, <1>4

\* corpus_version's day is taken here, its row read in the next step.
LEMMA EmbedKeeps ==
    ASSUME IInv, NEW r \in Request, Embed(r) PROVE IInv'
<1>1. req[r] \in Locals /\ LocalOK(req[r], day, counts) /\ req[r].pc = "embed"
  BY LocalTypes DEF Embed, At
<1>2. UNCHANGED <<world, cache, counts>> /\ faults' \in 0 .. MaxFaults
  BY FaultType DEF Embed, IInv
<1>3. CASE Reply(r, "error", NoAnswer)
  BY <1>1, <1>2, <1>3, PlainReply DEF Replies, Cacheable, At
<1>4. CASE req' = [req EXCEPT ![r].pc = "version", ![r].version.day = day]
  <2> DEFINE version == [req[r].version EXCEPT !.day = day]
             new == [req[r] EXCEPT !.pc = "version", !.version = version]
  <2>1. day \in Day /\ day \in Nat /\ req[r].version \in Versions
    BY <1>1, DayType, LocalFields DEF IInv, Types, CorpusTypes
  <2>2. version \in Versions /\ version.day = day
    BY <2>1 DEF Versions
  <2>3. req' = [req EXCEPT ![r] = new]
    BY <1>4, LocalTypes DEF Locals
  <2> HIDE DEF version
  <2>4. new \in Locals
    BY <1>1, <2>2 DEF Locals, Steps
  <2>5. /\ new.pc = "version" /\ new.reply = req[r].reply /\ new.version = version
        /\ new.start = req[r].start /\ new.open = req[r].open /\ new.answer = req[r].answer
        /\ new.generatedOn = req[r].generatedOn
    BY <1>1 DEF Locals
  <2> HIDE DEF new
  <2>6. DatesOK(new, day)
    BY <1>1, <2>1, <2>2, <2>5 DEF LocalOK, DatesOK, HasAnswer
  <2>7. AnswerOK(new) /\ ReplyOK(new, day) /\ BudgetOK(new, day, counts)
    BY <1>1, <2>5 DEF LocalOK, AnswerOK, ReplyOK, BudgetOK, HasAnswer, Verified
  <2> QED
    BY <1>2, <2>3, <2>4, <2>6, <2>7, RequestStep DEF LocalOK
<1> QED
  BY <1>3, <1>4 DEF Embed

LEMMA ReadVersionKeeps ==
    ASSUME IInv, NEW r \in Request, ReadVersion(r) PROVE IInv'
<1>1. req[r] \in Locals /\ LocalOK(req[r], day, counts) /\ req[r].pc = "version"
  BY LocalTypes DEF ReadVersion, At
<1>2. UNCHANGED <<world, cache, counts>> /\ faults' \in 0 .. MaxFaults
  BY FaultType DEF ReadVersion, IInv
<1>3. ASSUME NEW step \in {"lookup", "retrieve"}, NEW version \in Versions,
             (version = NoVersion /\ step = "retrieve") \/ version.day = req[r].version.day,
             req' = [req EXCEPT ![r].pc = step, ![r].version = version]
      PROVE  IInv'
  <2> DEFINE new == [req[r] EXCEPT !.pc = step, !.version = version]
  <2>1. day \in Nat
    BY DayType DEF IInv, Types, CorpusTypes
  <2>2. req' = [req EXCEPT ![r] = new]
    BY <1>3, LocalTypes DEF Locals
  <2>3. new \in Locals
    BY <1>1, <1>3 DEF Locals, Steps
  <2>4. /\ new.pc = step /\ new.reply = req[r].reply /\ new.version = version
        /\ new.start = req[r].start /\ new.open = req[r].open /\ new.answer = req[r].answer
        /\ new.generatedOn = req[r].generatedOn
    BY <1>1 DEF Locals
  <2> HIDE DEF new
  <2>5. DatesOK(new, day)
    BY <1>1, <1>3, <2>1, <2>4, NoVersionType DEF LocalOK, DatesOK, HasAnswer
  <2>6. AnswerOK(new) /\ ReplyOK(new, day) /\ BudgetOK(new, day, counts)
    BY <1>1, <2>4 DEF LocalOK, AnswerOK, ReplyOK, BudgetOK, HasAnswer, Verified
  <2> QED
    BY <1>2, <2>2, <2>3, <2>5, <2>6, RequestStep DEF LocalOK
<1>4. CASE req' = [req EXCEPT ![r].pc = "retrieve", ![r].version = NoVersion]
  BY <1>3, <1>4, NoVersionType
<1>5. CASE req' = [req EXCEPT ![r].pc = "lookup", ![r].version = CorpusVersion(@.day)]
  <2> DEFINE today == req[r].version.day
  <2>1. today \in Day
    <3>1. req[r].start.day \in Day /\ today \in Day \cup {0} /\ req[r].start.day <= today
      BY <1>1, LocalFields DEF LocalOK, DatesOK
    <3> QED
      BY <3>1, DayType
  <2>2. CorpusVersion(today) \in Versions /\ CorpusVersion(today).day = today
    BY <2>1, CorpusVersionType DEF IInv, Types
  <2>3. req' = [req EXCEPT ![r].pc = "lookup", ![r].version = CorpusVersion(today)]
    BY <1>1, <1>5, LocalTypes DEF Locals
  <2> QED
    BY <1>3, <2>2, <2>3
<1> QED
  BY <1>4, <1>5 DEF ReadVersion

\* A row of the request's own version is no older than the request.
LEMMA LookupKeeps ==
    ASSUME IInv, NEW r \in Request, Lookup(r) PROVE IInv'
<1>1. req[r] \in Locals /\ LocalOK(req[r], day, counts) /\ req[r].pc = "lookup"
  BY LocalTypes DEF Lookup, At
<1>2. UNCHANGED <<world, cache, counts>> /\ faults' \in 0 .. MaxFaults
  BY FaultType DEF Lookup, IInv
<1>3. CASE Goto(r, "retrieve")
  BY <1>1, <1>2, <1>3, MoveKeeps DEF Steps, HasAnswer, Verified, At
<1>6. CASE Reply(r, "error", NoAnswer)
  BY <1>1, <1>2, <1>6, PlainReply DEF Replies, Cacheable, At
<1>4. ASSUME NEW row \in Matching(r), Reply(r, row.answer.type, row.answer) PROVE IInv'
  <2> DEFINE a == row.answer
  <2>1. row \in cache /\ row.version = req[r].version
        /\ a.type = RequiredResponseType(req[r].advice)
    BY <1>4 DEF Matching
  <2>2. a \in Answer /\ RowOK(row, day) /\ row.version.day \in Day \cup {0}
    BY <2>1 DEF IInv, Types, Rows, Versions
  <2>3. /\ req[r].start.day \in Nat /\ row.version.day \in Nat /\ a.today \in Nat
        /\ req[r].start.day <= row.version.day /\ row.version.day <= a.today
    BY <1>1, <2>1, <2>2, AnswerType, LocalFields, DayType DEF RowOK, LocalOK, DatesOK
  <2>4. req[r].start.day <= a.today /\ a.today <= day /\ a.sound
    BY <2>2, <2>3 DEF RowOK
  <2> HIDE DEF a
  <2>5. Reply(r, a.type, a)
    BY <1>4 DEF a
  <2> QED
    BY <1>1, <1>2, <2>1, <2>2, <2>4, <2>5, TextReply, RequestStep DEF At
<1>5. \/ Goto(r, "retrieve") \/ Reply(r, "error", NoAnswer)
      \/ \E row \in Matching(r) : Reply(r, row.answer.type, row.answer)
  BY DEF Lookup, Nearest
<1> QED
  BY <1>3, <1>4, <1>5, <1>6

LEMMA LookupFailsKeeps ==
    ASSUME IInv, NEW r \in Request, LookupFails(r) PROVE IInv'
<1>1. req[r].pc = "lookup" /\ Goto(r, "retrieve") /\ UNCHANGED <<world, cache, counts>>
      /\ faults' \in 0 .. MaxFaults
  BY FaultType DEF LookupFails, At, IInv
<1> QED
  BY <1>1, MoveKeeps DEF Steps, HasAnswer, Verified, At

\* What is retrieved is dated today.
LEMMA RetrieveKeeps ==
    ASSUME IInv, NEW r \in Request, Retrieve(r) PROVE IInv'
<1>1. req[r] \in Locals /\ LocalOK(req[r], day, counts) /\ req[r].pc = "retrieve"
  BY LocalTypes DEF Retrieve, At
<1>2. UNCHANGED <<world, cache, counts>> /\ faults' \in 0 .. MaxFaults
  BY FaultType DEF Retrieve, IInv
<1>3. ASSUME NEW kind \in {"no_answer", "error"}, Reply(r, kind, NoAnswer) PROVE IInv'
  BY <1>1, <1>2, <1>3, PlainReply DEF Replies, Cacheable, At
<1> DEFINE answer == [text |-> corpus.text, today |-> day, sound |-> FALSE,
                      type |-> RequiredResponseType(req[r].advice)]
<1>4. CASE req' = [req EXCEPT ![r].pc = "budget", ![r].answer = answer]
  <2> DEFINE new == [req[r] EXCEPT !.pc = "budget", !.answer = answer]
  <2>1. day \in Day /\ day \in Nat
    BY DayType DEF IInv, Types, CorpusTypes
  <2>2. answer \in Answer /\ answer.today = day
        /\ answer.type = RequiredResponseType(req[r].advice)
    BY <2>1 DEF IInv, Types, CorpusTypes, Answer, Cacheable, RequiredResponseType
  <2>3. req' = [req EXCEPT ![r] = new]
    BY <1>4, LocalTypes DEF Locals
  <2> HIDE DEF answer
  <2>4. new \in Locals
    BY <1>1, <2>2 DEF Locals, Steps
  <2>5. /\ new.pc = "budget" /\ new.reply = req[r].reply /\ new.version = req[r].version
        /\ new.start = req[r].start /\ new.open = req[r].open /\ new.answer = answer
        /\ new.generatedOn = req[r].generatedOn /\ new.advice = req[r].advice
    BY <1>1 DEF Locals
  <2> HIDE DEF new
  <2>6. DatesOK(new, day)
    BY <1>1, <2>1, <2>2, <2>5 DEF LocalOK, DatesOK
  <2>7. AnswerOK(new) /\ ReplyOK(new, day) /\ BudgetOK(new, day, counts)
    BY <1>1, <2>2, <2>5 DEF LocalOK, AnswerOK, ReplyOK, BudgetOK, HasAnswer, Verified
  <2> QED
    BY <1>2, <2>3, <2>4, <2>6, <2>7, RequestStep DEF LocalOK
<1> QED
  BY <1>3, <1>4 DEF Retrieve

\* A request that found the day's budget spent passes its check on a later day, or
\* when the check fails open.
LEMMA CheckBudgetKeeps ==
    ASSUME IInv, NEW r \in Request, CheckBudget(r) PROVE IInv'
<1>1. req[r] \in Locals /\ LocalOK(req[r], day, counts) /\ req[r].pc = "budget"
  BY LocalTypes DEF CheckBudget, At
<1>2. UNCHANGED <<world, cache, counts>> /\ faults' \in 0 .. MaxFaults
  BY FaultType DEF CheckBudget, IInv
<1>3. CASE Reply(r, "capped", NoAnswer)
  BY <1>1, <1>2, <1>3, PlainReply DEF Replies, Cacheable, At
<1>4. ASSUME NEW open \in BOOLEAN, (open = req[r].open /\ counts[BudgetDay(r)] < Cap) \/ open,
             req' = [req EXCEPT ![r].pc = "generate", ![r].open = open]
      PROVE  IInv'
  <2> DEFINE new == [req[r] EXCEPT !.pc = "generate", !.open = open]
  <2>1. req' = [req EXCEPT ![r] = new]
    BY <1>4, LocalTypes DEF Locals
  <2>2. new \in Locals
    BY <1>1 DEF Locals, Steps
  <2>3. /\ new.pc = "generate" /\ new.reply = req[r].reply /\ new.version = req[r].version
        /\ new.start = req[r].start /\ new.open = open /\ new.answer = req[r].answer
        /\ new.generatedOn = req[r].generatedOn /\ new.advice = req[r].advice
    BY <1>1 DEF Locals
  <2> HIDE DEF new
  <2>4. DatesOK(new, day) /\ AnswerOK(new) /\ ReplyOK(new, day)
    BY <1>1, <2>3 DEF LocalOK, DatesOK, AnswerOK, ReplyOK, HasAnswer, Verified
  <2>5. req[r].start.full /\ ~open => req[r].start.day < day
    <3> SUFFICES ASSUME req[r].start.full, ~open PROVE req[r].start.day < day
      OBVIOUS
    <3> DEFINE today == req[r].answer.today
    <3>1. /\ counts[today] < Cap /\ counts[req[r].start.day] >= Cap
          /\ req[r].start.day <= today /\ today <= day
      BY <1>1, <1>4 DEF LocalOK, BudgetOK, DatesOK, BudgetDay, HasAnswer
    <3>2. today \in Day
      BY <1>1, AnswerType DEF LocalOK, AnswerOK, HasAnswer
    <3>3. counts \in [Day -> Nat] /\ Cap \in Nat /\ day \in Nat
      BY DayType DEF IInv, Types, CorpusTypes
    <3>4. req[r].start.day \in Nat /\ today \in Nat /\ counts[today] \in Nat
      BY <1>1, <3>2, <3>3, LocalFields, DayType
    <3> HIDE DEF today
    <3>5. req[r].start.day # today
      BY <3>1, <3>3, <3>4
    <3> QED
      BY <3>1, <3>3, <3>4, <3>5
  <2>6. BudgetOK(new, day, counts)
    BY <1>1, <1>4, <2>3, <2>5 DEF LocalOK, BudgetOK
  <2> QED
    BY <1>2, <2>1, <2>2, <2>4, <2>6, RequestStep DEF LocalOK
<1>5. CASE counts[BudgetDay(r)] < Cap /\ Goto(r, "generate")
  <2>1. req' = [req EXCEPT ![r].pc = "generate", ![r].open = req[r].open]
    BY <1>1, <1>5, LocalTypes DEF Goto, Locals
  <2>2. req[r].open \in BOOLEAN
    BY <1>1 DEF Locals
  <2> QED
    BY <1>4, <1>5, <2>1, <2>2
<1>6. CASE req' = [req EXCEPT ![r].pc = "generate", ![r].open = TRUE]
  BY <1>4, <1>6
<1> QED
  BY <1>3, <1>5, <1>6 DEF CheckBudget

LEMMA GenerateKeeps ==
    ASSUME IInv, NEW r \in Request, Generate(r) PROVE IInv'
<1>1. req[r] \in Locals /\ LocalOK(req[r], day, counts) /\ req[r].pc = "generate"
  BY LocalTypes DEF Generate, At
<1>2. UNCHANGED <<world, cache, counts>> /\ faults' \in 0 .. MaxFaults
  BY FaultType DEF Generate, IInv
<1>3. CASE Reply(r, "error", NoAnswer)
  BY <1>1, <1>2, <1>3, PlainReply DEF Replies, Cacheable, At
<1>4. ASSUME NEW sound \in BOOLEAN,
             req' = [req EXCEPT ![r].pc = "record", ![r].answer.sound = sound,
                                ![r].generatedOn = day, ![r].unpaid = TRUE]
      PROVE  IInv'
  <2> DEFINE answer == [req[r].answer EXCEPT !.sound = sound]
             new == [req[r] EXCEPT !.pc = "record", !.answer = answer,
                                   !.generatedOn = day, !.unpaid = TRUE]
  <2>1. req[r].answer \in Answer
    BY <1>1 DEF LocalOK, AnswerOK, HasAnswer
  <2>2. /\ answer \in Answer /\ answer.type = req[r].answer.type
        /\ answer.today = req[r].answer.today
    BY <2>1 DEF Answer
  <2>3. req' = [req EXCEPT ![r] = new]
    BY <1>4, LocalTypes DEF Locals
  <2> HIDE DEF answer
  <2>4. day \in Day
    BY DEF IInv, Types, CorpusTypes
  <2>5. new \in Locals
    BY <1>1, <2>2, <2>4 DEF Locals, Steps
  <2>6. /\ new.pc = "record" /\ new.reply = req[r].reply /\ new.version = req[r].version
        /\ new.start = req[r].start /\ new.open = req[r].open /\ new.answer = answer
        /\ new.generatedOn = day /\ new.advice = req[r].advice
    BY <1>1 DEF Locals
  <2> HIDE DEF new
  <2>7. DatesOK(new, day) /\ AnswerOK(new) /\ ReplyOK(new, day)
    BY <1>1, <2>2, <2>6 DEF LocalOK, DatesOK, AnswerOK, ReplyOK, HasAnswer, Verified
  <2>8. BudgetOK(new, day, counts)
    BY <1>1, <2>6 DEF LocalOK, BudgetOK
  <2> QED
    BY <1>2, <2>3, <2>5, <2>7, <2>8, RequestStep DEF LocalOK
<1> QED
  BY <1>3, <1>4 DEF Generate

\* A count goes up; whoever found its day spent still does.
LEMMA RecordGenerationKeeps ==
    ASSUME IInv, NEW r \in Request, RecordGeneration(r) PROVE IInv'
<1>1. req[r] \in Locals /\ LocalOK(req[r], day, counts) /\ req[r].pc = "record"
  BY LocalTypes DEF RecordGeneration, At
<1>2. CASE Fault /\ Goto(r, "verify") /\ UNCHANGED counts
  <2>1. UNCHANGED <<world, cache, counts>> /\ faults' \in 0 .. MaxFaults
    BY <1>2, FaultType DEF RecordGeneration, IInv
  <2> QED
    BY <1>1, <1>2, <2>1, MoveKeeps DEF Steps, HasAnswer, Verified, At
<1>3. CASE /\ counts' = [counts EXCEPT ![req[r].generatedOn] = @ + 1]
           /\ req' = [req EXCEPT ![r].pc = "verify", ![r].unpaid = FALSE]
           /\ UNCHANGED faults
  <2> DEFINE new == [req[r] EXCEPT !.pc = "verify", !.unpaid = FALSE]
  <2>1. req' = [req EXCEPT ![r] = new]
    BY <1>3, LocalTypes DEF Locals
  <2>2. new \in Locals
    BY <1>1 DEF Locals, Steps
  <2>3. /\ new.pc = "verify" /\ new.reply = req[r].reply /\ new.version = req[r].version
        /\ new.start = req[r].start /\ new.open = req[r].open /\ new.answer = req[r].answer
        /\ new.generatedOn = req[r].generatedOn /\ new.advice = req[r].advice
    BY <1>1 DEF Locals
  <2> HIDE DEF new
  <2>4. LocalOK(new, day, counts)
    BY <1>1, <2>3 DEF LocalOK, DatesOK, AnswerOK, ReplyOK, BudgetOK, HasAnswer, Verified
  <2>5. /\ counts' \in [Day -> Nat] /\ \A d \in Day : counts[d] <= counts'[d]
        /\ counts \in [Day -> Nat] /\ day \in Day /\ day <= day
    <3> DEFINE today == req[r].generatedOn
    <3>1. counts \in [Day -> Nat] /\ day \in Day /\ day <= day
      BY DayType DEF IInv, Types, CorpusTypes
    <3>2. counts' = [counts EXCEPT ![today] = @ + 1]
      BY <1>3
    <3> HIDE DEF today
    <3>3. \A d \in Day : counts'[d] = IF d = today THEN counts[d] + 1 ELSE counts[d]
      BY <3>1, <3>2
    <3>4. counts' \in [Day -> Nat]
      <4>1. counts' = [d \in Day |-> IF d = today THEN counts[d] + 1 ELSE counts[d]]
        BY <3>1, <3>2
      <4> QED
        BY <3>1, <4>1
    <3> QED
      BY <3>1, <3>3, <3>4
  <2>6. ASSUME NEW x \in Request PROVE LocalOK(req'[x], day, counts')
    <3>1. req'[x] \in Locals /\ LocalOK(req'[x], day, counts)
      BY <2>1, <2>2, <2>4, LocalTypes DEF IInv
    <3> QED
      BY <2>5, <3>1, OthersKeep
  <2>7. UNCHANGED <<world, cache>>
    BY DEF RecordGeneration
  <2>8. Types'
    <3>1. req' \in [Request -> Locals]
      BY <2>1, <2>2, LocalTypes
    <3>2. CorpusTypes' /\ cache' \subseteq Rows /\ faults' \in 0 .. MaxFaults
      BY <1>3, <2>7 DEF IInv, Types, CorpusTypes, world
    <3> QED
      BY <2>5, <3>1, <3>2 DEF Types
  <2>9. \A x \in Request : LocalOK(req[x], day, counts)'
    BY <2>6, <2>7 DEF world
  <2>10. \A row \in cache' : RowOK(row, day)'
    BY <2>7 DEF IInv, world, RowOK
  <2> QED
    BY <2>8, <2>9, <2>10 DEF IInv
<1> QED
  BY <1>2, <1>3 DEF RecordGeneration

\* The request's own answer may be served once every guard has passed it.
LEMMA OwnReply ==
    ASSUME IInv, NEW r \in Request, req[r].pc \in HasAnswer, req[r].answer.sound,
           Reply(r, req[r].answer.type, req[r].answer)
    PROVE  \E new \in Locals : LocalOK(new, day, counts) /\ req' = [req EXCEPT ![r] = new]
<1> DEFINE a == req[r].answer
<1>1. /\ a \in Answer /\ a.type = RequiredResponseType(req[r].advice)
      /\ req[r].start.day <= a.today /\ a.today <= day
  BY LocalTypes DEF LocalOK, DatesOK, AnswerOK
<1> HIDE DEF a
<1>2. a.sound /\ Reply(r, a.type, a) /\ ~At(r, "idle")
  BY DEF a, At, HasAnswer
<1> QED
  BY <1>1, <1>2, TextReply

LEMMA VerifyKeeps ==
    ASSUME IInv, NEW r \in Request, Verify(r) PROVE IInv'
<1>1. req[r].pc = "verify" /\ UNCHANGED <<world, cache, counts>> /\ faults' \in 0 .. MaxFaults
  BY FaultType DEF Verify, At, IInv
<1>2. CASE Reply(r, "blocked", NoAnswer)
  BY <1>1, <1>2, PlainReply DEF Replies, Cacheable, At
<1>3. CASE req[r].answer.sound /\ Reply(r, req[r].answer.type, req[r].answer)
  BY <1>1, <1>3, OwnReply, RequestStep DEF HasAnswer
<1>4. CASE req[r].answer.sound /\ Goto(r, "store")
  BY <1>1, <1>4, MoveKeeps DEF Steps, HasAnswer, Verified, At
<1> QED
  BY <1>2, <1>3, <1>4 DEF Verify

LEMMA StoreDeleteKeeps ==
    ASSUME IInv, NEW r \in Request, StoreDelete(r) PROVE IInv'
<1>1. /\ req[r] \in Locals /\ LocalOK(req[r], day, counts) /\ req[r].pc = "store"
      /\ UNCHANGED <<world, cache, counts>> /\ faults' \in 0 .. MaxFaults
  BY LocalTypes, FaultType DEF StoreDelete, At, IInv
<1>2. CASE Reply(r, req[r].answer.type, req[r].answer)
  <2>1. req[r].answer.sound
    BY <1>1 DEF LocalOK, AnswerOK, Verified
  <2> QED
    BY <1>1, <1>2, <2>1, OwnReply, RequestStep DEF HasAnswer
<1> DEFINE doomed == {row \in cache : row.version # StoreVersion(r)}
<1>3. CASE req' = [req EXCEPT ![r].pc = "commit", ![r].doomed = doomed]
  <2> DEFINE new == [req[r] EXCEPT !.pc = "commit", !.doomed = doomed]
  <2>1. req' = [req EXCEPT ![r] = new]
    BY <1>3, LocalTypes DEF Locals
  <2>2. doomed \in SUBSET Rows
    BY DEF IInv, Types
  <2> HIDE DEF doomed
  <2>3. new \in Locals
    BY <1>1, <2>2 DEF Locals, Steps
  <2>4. /\ new.pc = "commit" /\ new.reply = req[r].reply /\ new.version = req[r].version
        /\ new.start = req[r].start /\ new.open = req[r].open /\ new.answer = req[r].answer
        /\ new.generatedOn = req[r].generatedOn /\ new.advice = req[r].advice
    BY <1>1 DEF Locals
  <2> HIDE DEF new
  <2>5. LocalOK(new, day, counts)
    BY <1>1, <2>4 DEF LocalOK, DatesOK, AnswerOK, ReplyOK, BudgetOK, HasAnswer, Verified
  <2> QED
    BY <1>1, <2>1, <2>3, <2>5, RequestStep
<1> QED
  BY <1>2, <1>3 DEF StoreDelete

\* The row goes in under the version that was read before its answer was retrieved.
LEMMA StoreCommitKeeps ==
    ASSUME IInv, NEW r \in Request, StoreCommit(r) PROVE IInv'
<1> DEFINE row == [by |-> r, question |-> req[r].question,
                   version |-> StoreVersion(r), answer |-> req[r].answer]
<1>1. /\ req[r] \in Locals /\ LocalOK(req[r], day, counts) /\ req[r].pc = "commit"
      /\ UNCHANGED <<world, counts>> /\ faults' \in 0 .. MaxFaults
      /\ Reply(r, req[r].answer.type, req[r].answer)
  BY LocalTypes, FaultType DEF StoreCommit, At, IInv
<1>2. req[r].answer.sound /\ req[r].answer \in Answer
  BY <1>1 DEF LocalOK, AnswerOK, Verified, HasAnswer
<1>3. PICK new \in Locals : LocalOK(new, day, counts) /\ req' = [req EXCEPT ![r] = new]
  BY <1>1, <1>2, OwnReply DEF HasAnswer
<1>4. row \in Rows
  BY <1>1, <1>2 DEF Rows, StoreVersion, Locals
<1>5. RowOK(row, day)
  BY <1>1, <1>2 DEF RowOK, StoreVersion, LocalOK, DatesOK, HasAnswer
<1>6. cache' = cache \/ cache' = (cache \ req[r].doomed) \cup {row}
  BY DEF StoreCommit
<1> HIDE DEF row
<1>7. cache' \subseteq Rows /\ \A x \in cache' : RowOK(x, day)
  BY <1>4, <1>5, <1>6 DEF IInv, Types
<1>8. Types'
  BY <1>1, <1>3, <1>7 DEF IInv, Types, CorpusTypes, world
<1>9. \A x \in Request : LocalOK(req[x], day, counts)'
  <2>1. \A x \in Request : LocalOK(req'[x], day, counts)
    BY <1>3 DEF IInv, Types
  <2> QED
    BY <1>1, <2>1 DEF world
<1>10. \A x \in cache' : RowOK(x, day)'
  BY <1>1, <1>7 DEF world, RowOK
<1> QED
  BY <1>8, <1>9, <1>10 DEF IInv

-----------------------------------------------------------------------------
(* Steps of the world.                                                     *)

LEMMA RestartKeeps ==
    ASSUME IInv, Restart PROVE IInv'
<1> DEFINE gone(x) == [req[x] EXCEPT !.pc = "done", !.reply = "lost", !.answer = NoAnswer,
                                     !.version = NoVersion, !.doomed = {}]
<1>1. /\ UNCHANGED <<world, cache, counts>> /\ faults' \in 0 .. MaxFaults
      /\ req' = [x \in Request |-> IF req[x].pc \in {"idle", "done"} THEN req[x] ELSE gone(x)]
  BY FaultType DEF Restart, IInv
<1>2. ASSUME NEW x \in Request, req[x].pc \notin {"idle", "done"}
      PROVE  gone(x) \in Locals /\ LocalOK(gone(x), day, counts)
  <2>1. req[x] \in Locals /\ NoVersion \in Versions
    BY LocalTypes, NoVersionType
  <2>2. gone(x) \in Locals
    BY <2>1 DEF Locals, Steps, Replies
  <2>3. /\ gone(x).pc = "done" /\ gone(x).reply = "lost" /\ gone(x).version = NoVersion
        /\ gone(x).start = req[x].start /\ gone(x).open = req[x].open
        /\ gone(x).generatedOn = req[x].generatedOn
    BY <2>1 DEF Locals
  <2> DEFINE g == gone(x)
  <2>4. /\ g.pc = "done" /\ g.reply = "lost" /\ g.version = NoVersion
        /\ g.start = req[x].start /\ g.open = req[x].open
        /\ g.generatedOn = req[x].generatedOn
    BY <2>3
  <2> HIDE DEF g
  <2>5. LocalOK(g, day, counts)
    BY <1>2, <2>4, OverKeeps DEF LocalOK, ReplyOK, Cacheable, At
  <2> QED
    BY <2>2, <2>5 DEF g
<1> HIDE DEF gone
<1>3. \A x \in Request : req'[x] \in Locals /\ LocalOK(req'[x], day, counts)
  BY <1>1, <1>2, LocalTypes DEF IInv
<1>4. Types'
  BY <1>1, <1>3 DEF IInv, Types, CorpusTypes, world
<1>5. \A x \in Request : LocalOK(req[x], day, counts)'
  BY <1>1, <1>3 DEF world
<1>6. \A row \in cache' : RowOK(row, day)'
  BY <1>1 DEF IInv, world, RowOK
<1> QED
  BY <1>4, <1>5, <1>6 DEF IInv

LEMMA WriteKeeps ==
    ASSUME IInv, Write PROVE IInv'
<1>1. PICK s \in Source : BeginReindex(s) \/ CommitReindex(s) \/ WriteUnmarked(s)
  BY DEF Write
<1>2. day' = day /\ UNCHANGED requestState
  BY <1>1 DEF BeginReindex, CommitReindex, WriteUnmarked
<1>3. CorpusTypes'
  <2>1. CASE BeginReindex(s)
    BY <2>1 DEF BeginReindex, IInv, Types, CorpusTypes
  <2>2. CASE CommitReindex(s)
    BY <2>2 DEF CommitReindex, IInv, Types, CorpusTypes
  <2>3. CASE WriteUnmarked(s)
    BY <2>3 DEF WriteUnmarked, IInv, Types, CorpusTypes
  <2> QED
    BY <1>1, <2>1, <2>2, <2>3
<1>4. Types'
  BY <1>2, <1>3 DEF IInv, Types, requestState
<1>5. \A x \in Request : LocalOK(req[x], day, counts)'
  BY <1>2 DEF IInv, requestState
<1>6. \A row \in cache' : RowOK(row, day)'
  BY <1>2 DEF IInv, requestState, RowOK
<1> QED
  BY <1>4, <1>5, <1>6 DEF IInv

LEMMA NextDayKeeps ==
    ASSUME IInv, NextDay PROVE IInv'
<1>1. /\ day \in Day /\ day' = day + 1 /\ day < MaxDay
      /\ UNCHANGED <<corpus, pending, clock, requestState>>
  BY DEF NextDay, IInv, Types, CorpusTypes
<1>2. day' \in Day /\ day <= day' /\ day \in Nat /\ day' \in Nat
  BY <1>1, ConstantsAssumption DEF Day
<1>3. Types'
  BY <1>1, <1>2 DEF IInv, Types, CorpusTypes, requestState
<1>4. ASSUME NEW x \in Request PROVE LocalOK(req[x], day', counts)
  <2>1. counts \in [Day -> Nat]
    BY DEF IInv, Types
  <2>2. \A d \in Day : counts[d] <= counts[d]
    BY <2>1
  <2> QED
    BY <1>1, <1>2, <2>1, <2>2, LocalTypes, OthersKeep
<1>5. \A x \in Request : LocalOK(req[x], day, counts)'
  BY <1>1, <1>4 DEF requestState
<1>6. ASSUME NEW row \in cache' PROVE RowOK(row, day)'
  <2>1. row \in Rows /\ RowOK(row, day)
    BY <1>1 DEF requestState, IInv, Types
  <2>2. row.answer.today \in Nat
    BY <2>1, AnswerType, DayType DEF Rows
  <2> QED
    BY <1>2, <2>1, <2>2 DEF RowOK
<1> QED
  BY <1>3, <1>5, <1>6 DEF IInv

-----------------------------------------------------------------------------
(* The invariant, and the theorems that follow from it.                    *)

LEMMA InitHolds == Init => IInv
<1> SUFFICES ASSUME Init PROVE IInv
  OBVIOUS
<1>1. 1 \in Version /\ 1 \in Day
  BY ConstantsAssumption, DayType DEF Version
<1>2. CorpusTypes
  BY <1>1 DEF Init, CorpusTypes
<1>3. ASSUME NEW r \in Request PROVE Blank(r) \in Locals
  <2>1. (CHOOSE q \in Question : TRUE) \in Question
    BY ConstantsAssumption
  <2>2. [day |-> 1, marked |-> [s \in Source |-> 1], full |-> FALSE] \in Starts
    BY <1>1 DEF Starts
  <2> QED
    BY <2>1, <2>2, NoVersionType DEF Blank, Locals, Steps, Replies
<1>4. Types
  BY <1>2, <1>3, ConstantsAssumption DEF Init, Types
<1>5. ASSUME NEW r \in Request PROVE LocalOK(req[r], day, counts)
  <2>1. /\ req[r].pc = "idle" /\ req[r].reply = "none" /\ req[r].version = NoVersion
        /\ req[r].generatedOn = 0 /\ day = 1
    BY DEF Init, Blank
  <2> QED
    BY <2>1, NoVersionType DEF LocalOK, DatesOK, AnswerOK, ReplyOK, BudgetOK, HasAnswer,
                               Verified, Cacheable
<1>6. cache = {}
  BY DEF Init
<1> QED
  BY <1>4, <1>5, <1>6 DEF IInv

LEMMA NextKeeps == IInv /\ [Next]_vars => IInv'
<1> SUFFICES ASSUME IInv, [Next]_vars PROVE IInv'
  OBVIOUS
<1>1. ASSUME NEW r \in Request, Handle(r) PROVE IInv'
  BY <1>1, ArriveKeeps, ClassifyKeeps, EmbedKeeps, ReadVersionKeeps, LookupKeeps,
     LookupFailsKeeps, RetrieveKeeps, CheckBudgetKeeps, GenerateKeeps,
     RecordGenerationKeeps, VerifyKeeps, StoreDeleteKeeps, StoreCommitKeeps DEF Handle
<1>2. CASE Write
  BY <1>2, WriteKeeps
<1>3. CASE NextDay
  BY <1>3, NextDayKeeps
<1>4. CASE Restart
  BY <1>4, RestartKeeps
<1>5. CASE UNCHANGED vars \/ Done
  <2>1. UNCHANGED vars
    BY <1>5 DEF Done
  <2> QED
    BY <2>1 DEF vars, IInv, Types, CorpusTypes, RowOK
<1> QED
  BY <1>1, <1>2, <1>3, <1>4, <1>5 DEF Next

LEMMA IInvHolds == Spec => []IInv
  BY InitHolds, NextKeeps, PTL DEF Spec

\* The date of an answer (cache.py: corpus_version's date; pipeline.py: today):
\* a row is only found on the day it was looked up for, and its own answer was
\* dated after that.
THEOREM DateCorrect == Spec => []DateIsCurrent
<1>1. IInv => DateIsCurrent
  BY DEF IInv, LocalOK, ReplyOK, DateIsCurrent, Answered
<1> QED
  BY <1>1, IInvHolds, PTL

\* The boundary between information and advice holds for cached answers as for
\* fresh ones (cache.py: _required_response_type).
THEOREM AdviceCorrect == Spec => []AdviceBoundary
<1>1. IInv => AdviceBoundary
  BY DEF IInv, LocalOK, ReplyOK, AdviceBoundary, Answered
<1> QED
  BY <1>1, IInvHolds, PTL

\* Nothing is served that the guards did not pass (pipeline.py: steps 7 and 8,
\* and the store after them).
THEOREM VerifiedCorrect == Spec => []ServedWasVerified
<1>1. IInv => ServedWasVerified
  BY DEF IInv, LocalOK, ReplyOK, ServedWasVerified, Answered
<1> QED
  BY <1>1, IInvHolds, PTL

\* A spent budget stays spent for the day, whatever the interleaving and however
\* often the orchestrator restarts (usage.py).
THEOREM BudgetCorrect == Spec => []SpentBudgetHolds
<1>1. IInv => SpentBudgetHolds
  <2> SUFFICES ASSUME IInv, NEW r \in Request, req[r].start.full, ~req[r].open
               PROVE  req[r].generatedOn # req[r].start.day
    BY DEF SpentBudgetHolds
  <2>1. req[r].start.day \in Day /\ BudgetOK(req[r], day, counts)
    BY LocalTypes, LocalFields DEF LocalOK
  <2>2. req[r].start.day \in Nat /\ req[r].start.day # 0
    BY <2>1, DayType
  <2> QED
    BY <2>1, <2>2 DEF BudgetOK
<1> QED
  BY <1>1, IInvHolds, PTL

-----------------------------------------------------------------------------
(* Sums and maxima over finite sets: what MapThenSumSet and Max return.    *)

\* Among subsets of a finite set there is one with no other of them inside it.
LEMMA SmallestSubset ==
    ASSUME NEW S, IsFiniteSet(S), NEW T \in SUBSET (SUBSET S), T # {}
    PROVE  \E s \in T : \A u \in T : u \subseteq s => u = s
<1>1. IsWellFoundedOn(StrictSubsetOrdering(S), SUBSET S)
  BY FS_StrictSubsetOrderingWellFounded, FS_FiniteSubsetsOfFinite
<1>2. PICK s \in T : \A u \in T : ~ (<<u, s>> \in StrictSubsetOrdering(S))
  <2> DEFINE R == StrictSubsetOrdering(S)
  <2>1. IsWellFoundedOn(R, SUBSET S)
    BY <1>1
  <2> HIDE DEF R
  <2>2. \E s \in T : \A u \in T : ~ (<<u, s>> \in R)
    BY <2>1, WFMin
  <2> QED
    BY <2>2 DEF R
<1> QED
  BY <1>2 DEF StrictSubsetOrdering

\* A nonempty set of naturals has a least element.
LEMMA LeastNat ==
    ASSUME NEW T \in SUBSET Nat, T # {}
    PROVE  \E m \in T : \A k \in T : m <= k
<1> DEFINE R == OpToRel(<, Nat)
<1>1. IsWellFoundedOn(R, Nat)
  BY NatLessThanWellFounded, Zenon
<1>2. \A x, y \in Nat : y < x => <<y, x>> \in R
  BY DEF OpToRel
<1> HIDE DEF R
<1>3. PICK m \in T : \A y \in T : ~ (<<y, m>> \in R)
  BY <1>1, WFMin
<1>4. \A k \in T : m <= k
  <2> TAKE k \in T
  <2>1. m \in Nat /\ k \in Nat /\ ~(k < m)
    BY <1>2, <1>3
  <2> QED
    BY <2>1
<1> QED
  BY <1>4

\* A finite nonempty set of naturals has its Max in it.
LEMMA MaxType ==
    ASSUME NEW S, S \subseteq Nat, IsFiniteSet(S), S # {}
    PROVE  Max(S) \in S /\ \A k \in S : k <= Max(S)
<1> DEFINE above(x) == {y \in S : y > x}
           T == {above(x) : x \in S}
<1>0. ASSUME NEW U \in SUBSET (SUBSET S), U # {}
      PROVE  \E s \in U : \A u \in U : u \subseteq s => u = s
  BY ONLY IsFiniteSet(S), <1>0, SmallestSubset
<1>1. PICK s \in T : \A u \in T : u \subseteq s => u = s
  <2>1. T \in SUBSET (SUBSET S)
    OBVIOUS
  <2>2. T # {}
    OBVIOUS
  <2> HIDE DEF T, above
  <2> QED
    BY <2>1, <2>2, <1>0
<1>2. PICK m \in S : s = above(m)
  OBVIOUS
<1>3. \A k \in S : k <= m
  <2> SUFFICES ASSUME NEW k \in S, k > m PROVE FALSE
    OBVIOUS
  <2>1. above(k) \in T
    OBVIOUS
  <2>3. above(k) \subseteq above(m)
    <3>1. \A y \in S : y > k => y > m
      BY SMT
    <3> QED
      BY <3>1
  <2>2. k \in above(m) /\ k \notin above(k)
    OBVIOUS
  <2> HIDE DEF above, T
  <2> QED
    BY <1>1, <1>2, <2>1, <2>2, <2>3
<1> HIDE DEF above, T
<1>4. \E x \in S : \A y \in S : x >= y
  BY <1>3
<1> QED
  BY <1>4 DEF Max

\* The element MapThenSumSet takes next, what it adds up on the way, and f a function
\* that does so.
Taken(s) == CHOOSE x \in s : TRUE
Added(f, w, s) == IF s = {} THEN 0 ELSE w[Taken(s)] + f[s \ {Taken(s)}]
Adds(f, w, S) == f = [s \in SUBSET S |-> Added(f, w, s)]

\* There is such a function: one for the smaller subsets extends to the next larger.
LEMMA AddsExists ==
    ASSUME NEW S, IsFiniteSet(S), NEW w \in [S -> Nat]
    PROVE  \E f : Adds(f, w, S)
<1> DEFINE Upto(f, n) == /\ f \in [SUBSET S -> Nat]
                         /\ \A s \in SUBSET S : Cardinality(s) <= n => f[s] = Added(f, w, s)
           Bad == {n \in Nat : ~ \E f : Upto(f, n)}
<1>0. \A s \in SUBSET S : IsFiniteSet(s) /\ Cardinality(s) \in Nat
                          /\ Cardinality(s) <= Cardinality(S) /\ Cardinality(S) \in Nat
  BY FS_Subset, FS_CardinalityType
<1>1. Bad = {}
  <2> SUFFICES ASSUME Bad # {} PROVE FALSE
    OBVIOUS
  <2>1. PICK m \in Bad : \A k \in Bad : m <= k
    BY LeastNat
  <2>2. CASE m = 0
    <3> DEFINE g == [s \in SUBSET S |-> 0]
    <3>1. \A s \in SUBSET S : Cardinality(s) <= 0 => s = {}
      BY <1>0, FS_EmptySet
    <3>2. Upto(g, 0)
      BY <3>1 DEF Added
    <3> QED
      BY <2>2, <3>2
  <2>3. CASE m # 0
    <3>1. m - 1 \in Nat /\ m - 1 \notin Bad
      <4>1. m \in Nat
        BY <2>1
      <4> HIDE DEF Bad
      <4>2. m - 1 \in Bad => m <= m - 1
        BY <2>1
      <4> QED
        BY <2>3, <4>1, <4>2
    <3>2. PICK f : Upto(f, m - 1)
      BY <3>1
    <3> DEFINE g == [s \in SUBSET S |-> IF Cardinality(s) = m THEN Added(f, w, s) ELSE f[s]]
    <3>3. ASSUME NEW s \in SUBSET S, s # {}
          PROVE  /\ Taken(s) \in S /\ s \ {Taken(s)} \in SUBSET S
                 /\ Cardinality(s \ {Taken(s)}) = Cardinality(s) - 1
                 /\ Added(f, w, s) \in Nat
      <4>1. Taken(s) \in s
        BY <3>3 DEF Taken
      <4>2. Cardinality(s \ {Taken(s)}) = Cardinality(s) - 1
        BY <1>0, <4>1, FS_RemoveElement
      <4>3. w[Taken(s)] \in Nat /\ f[s \ {Taken(s)}] \in Nat
        BY <3>2, <4>1
      <4> QED
        BY <4>1, <4>2, <4>3 DEF Added
    <3>4. \A s \in SUBSET S : Added(f, w, s) \in Nat
      BY <3>3 DEF Added
    <3>5. g \in [SUBSET S -> Nat]
      BY <3>2, <3>4
    <3>6. ASSUME NEW s \in SUBSET S, Cardinality(s) <= m
          PROVE  g[s] = Added(g, w, s)
      <4>1. g[s] = Added(f, w, s)
        <5>1. CASE Cardinality(s) = m
          BY <5>1
        <5>2. CASE Cardinality(s) # m
          <6>1. Cardinality(s) <= m - 1
            BY <1>0, <3>6, <5>2
          <6> QED
            BY <3>2, <5>2, <6>1
        <5> QED
          BY <5>1, <5>2
      <4>2. CASE s = {}
        BY <4>1, <4>2 DEF Added
      <4>3. CASE s # {}
        <5> DEFINE rest == s \ {Taken(s)}
        <5>1. rest \in SUBSET S /\ Cardinality(rest) # m
          BY <1>0, <3>3, <3>6, <4>3
        <5>2. g[rest] = f[rest]
          BY <5>1
        <5> HIDE DEF g
        <5> QED
          BY <4>1, <4>3, <5>2 DEF Added
      <4> QED
        BY <4>2, <4>3
    <3>7. Upto(g, m)
      BY <3>5, <3>6
    <3> QED
      BY <3>7
  <2> QED
    BY <2>2, <2>3
<1>2. PICK f : Upto(f, Cardinality(S))
  BY <1>0, <1>1
<1>3. \A s \in SUBSET S : f[s] = Added(f, w, s)
  BY <1>0, <1>2
<1>4. f = [s \in SUBSET S |-> Added(f, w, s)]
  BY <1>2, <1>3
<1> QED
  BY <1>4 DEF Adds

\* What it returns for a subset is a natural number.
LEMMA AddsType ==
    ASSUME NEW S, IsFiniteSet(S), NEW w \in [S -> Nat], NEW f, Adds(f, w, S)
    PROVE  \A s \in SUBSET S : f[s] \in Nat
<1> DEFINE T == {s \in SUBSET S : f[s] \notin Nat}
<1>0. \A s \in SUBSET S : f[s] = Added(f, w, s)
  BY DEF Adds
<1> SUFFICES ASSUME T # {} PROVE FALSE
  OBVIOUS
<1>1. PICK s \in T : \A u \in T : u \subseteq s => u = s
  <2>1. T \in SUBSET (SUBSET S)
    OBVIOUS
  <2> HIDE DEF T
  <2> QED
    BY <2>1, SmallestSubset
<1>2. s # {}
  BY <1>0 DEF Added
<1>3. Taken(s) \in s
  BY <1>2 DEF Taken
<1>4. s \ {Taken(s)} \in SUBSET S /\ s \ {Taken(s)} \notin T
  BY <1>1, <1>3
<1>5. f[s \ {Taken(s)}] \in Nat /\ w[Taken(s)] \in Nat
  BY <1>3, <1>4
<1>6. f[s] = w[Taken(s)] + f[s \ {Taken(s)}]
  BY <1>0, <1>2 DEF Added
<1>7. f[s] \notin Nat
  OBVIOUS
<1> QED
  BY <1>5, <1>6, <1>7

\* The sum of a function over a finite set is the last of what is added up.
Sum(w, S) == MapThenSumSet(LAMBDA x : w[x], S)

LEMMA SumIs ==
    ASSUME NEW S, IsFiniteSet(S), NEW w \in [S -> Nat]
    PROVE  \E f : Adds(f, w, S) /\ Sum(w, S) = f[S]
<1>1. Sum(w, S) = (CHOOSE f : Adds(f, w, S))[S]
  BY DEF Sum, MapThenSumSet, MapThenFoldSet, Adds, Added, Taken
<1> QED
  BY <1>1, AddsExists

LEMMA SumType ==
    ASSUME NEW S, IsFiniteSet(S), NEW w \in [S -> Nat]
    PROVE  Sum(w, S) \in Nat
  BY SumIs, AddsType

-----------------------------------------------------------------------------
(* What a step may do to one request, from its local state q to n, and to  *)
(* the tables: the facts that the remaining theorems need of the actions.  *)

\* What every step but the request's arrival and its end leaves alone.
Keeps(q, n) == n.start = q.start /\ n.reply = q.reply

Arrives(q, n) ==
    /\ q.pc = "idle" /\ n.pc \in {"classify", "done"} /\ n.reply \notin Cacheable
    /\ n.start.marked = corpus.marked /\ n.version = q.version /\ n.doomed = q.doomed
    /\ n.generatedOn = q.generatedOn /\ n.unpaid = q.unpaid

\* On to the next step with nothing the invariants speak of changed.
Hops(q, n) ==
    /\ <<q.pc, n.pc>> \in {<<"classify", "embed">>, <<"lookup", "retrieve">>,
                           <<"budget", "generate">>, <<"record", "verify">>, <<"verify", "store">>}
    /\ n.pc = "store" => q.version # NoVersion
    /\ n.version = q.version /\ n.answer = q.answer /\ n.doomed = q.doomed
    /\ n.generatedOn = q.generatedOn /\ n.unpaid = q.unpaid

\* The request takes the day, and then the corpus version or none.
Dates(q, n) ==
    /\ \/ q.pc = "embed" /\ n.pc = "version" /\ n.version = [q.version EXCEPT !.day = day]
       \/ q.pc = "version" /\ n.pc = "lookup" /\ n.version = CorpusVersion(q.version.day)
       \/ q.pc = "version" /\ n.pc = "retrieve" /\ n.version = NoVersion
    /\ n.answer = q.answer /\ n.doomed = q.doomed
    /\ n.generatedOn = q.generatedOn /\ n.unpaid = q.unpaid

Retrieves(q, n) ==
    /\ q.pc = "retrieve" /\ n.pc = "budget" /\ n.answer.text = corpus.text
    /\ n.version = q.version /\ n.doomed = q.doomed
    /\ n.generatedOn = q.generatedOn /\ n.unpaid = q.unpaid

Generates(q, n) ==
    /\ q.pc = "generate" /\ n.pc = "record" /\ n.answer.text = q.answer.text
    /\ n.version = q.version /\ n.doomed = q.doomed
    /\ n.generatedOn = day /\ n.unpaid = TRUE

\* The generation goes into the counts.
Pays(q, n) ==
    /\ q.pc = "record" /\ n.pc = "verify" /\ Keeps(q, n)
    /\ n.version = q.version /\ n.answer = q.answer /\ n.doomed = q.doomed
    /\ n.generatedOn = q.generatedOn /\ n.unpaid = FALSE

Dooms(q, n) ==
    /\ q.pc = "store" /\ n.pc = "commit" /\ n.doomed \subseteq cache
    /\ n.version = q.version /\ n.answer = q.answer
    /\ n.generatedOn = q.generatedOn /\ n.unpaid = q.unpaid

\* The request is over: without generated text, with its own, or with a row of its
\* version.
Ends(q, n) ==
    /\ q.pc \notin {"idle", "done"} /\ n.pc = "done" /\ n.start = q.start
    /\ n.version = NoVersion /\ n.doomed = {}
    /\ n.generatedOn = q.generatedOn /\ n.unpaid = q.unpaid
    /\ \/ n.reply \notin Cacheable
       \/ q.pc \in Verified \cup {"verify"} /\ n.answer = q.answer
       \/ q.pc = "lookup" /\ \E row \in cache : row.version = q.version /\ n.answer = row.answer

Moves(q, n) ==
    \/ n = q
    \/ Arrives(q, n) \/ Ends(q, n)
    \/ Keeps(q, n) /\ (Hops(q, n) \/ Dates(q, n) \/ Retrieves(q, n) \/ Generates(q, n)
                       \/ Dooms(q, n))

\* The row a request that stores inserts.
Stored(r) == [by |-> r, question |-> req[r].question, version |-> req[r].version,
              answer |-> req[r].answer]

LEMMA ReplyMoves ==
    ASSUME IInv, NEW r \in Request, NEW kind \in Replies, NEW a, ~At(r, "idle"), ~At(r, "done"),
           Reply(r, kind, a),
           \/ kind \notin Cacheable
           \/ req[r].pc \in Verified \cup {"verify"} /\ a = req[r].answer
           \/ /\ req[r].pc = "lookup"
              /\ \E row \in cache : row.version = req[r].version /\ a = row.answer
    PROVE  Ends(req[r], req'[r])
<1>1. req[r] \in Locals /\ req \in [Request -> Locals]
  BY LocalTypes
<1>2. /\ req'[r].pc = "done" /\ req'[r].reply = kind /\ req'[r].answer = a
      /\ req'[r].version = NoVersion /\ req'[r].doomed = {}
      /\ req'[r].start = req[r].start /\ req'[r].generatedOn = req[r].generatedOn
      /\ req'[r].unpaid = req[r].unpaid
  BY <1>1 DEF Reply, Locals
<1>3. req[r].pc \notin {"idle", "done"}
  BY DEF At
<1> QED
  BY <1>2, <1>3 DEF Ends

LEMMA ArriveMoves ==
    ASSUME IInv, NEW r \in Request, NEW q \in Question, Arrive(r, q)
    PROVE  Arrives(req[r], req'[r])
<1>1. req[r] \in Locals /\ req \in [Request -> Locals]
  BY LocalTypes
<1>2. PICK gated \in BOOLEAN :
         req' = [req EXCEPT ![r] = [@ EXCEPT !.question = q,
             !.start = [day |-> day, marked |-> corpus.marked, full |-> counts[day] >= Cap],
             !.pc = IF gated THEN "done" ELSE "classify",
             !.reply = IF gated THEN "gated" ELSE "none"]]
  BY DEF Arrive
<1>3. /\ req'[r].pc \in {"classify", "done"} /\ req'[r].reply \in {"gated", "none"}
      /\ req'[r].start.marked = corpus.marked
      /\ req'[r].version = req[r].version /\ req'[r].doomed = req[r].doomed
      /\ req'[r].generatedOn = req[r].generatedOn /\ req'[r].unpaid = req[r].unpaid
  BY <1>1, <1>2 DEF Locals
<1> QED
  BY <1>3 DEF Arrives, Arrive, At, Cacheable

LEMMA GotoMoves ==
    ASSUME IInv, NEW r \in Request, NEW step, Goto(r, step),
           <<req[r].pc, step>> \in {<<"classify", "embed">>, <<"lookup", "retrieve">>,
               <<"budget", "generate">>, <<"record", "verify">>, <<"verify", "store">>},
           step = "store" => req[r].version # NoVersion
    PROVE  Moves(req[r], req'[r])
<1>1. req[r] \in Locals /\ req \in [Request -> Locals]
  BY LocalTypes
<1>2. /\ req'[r].pc = step
      /\ req'[r].reply = req[r].reply /\ req'[r].start = req[r].start
      /\ req'[r].version = req[r].version /\ req'[r].answer = req[r].answer
      /\ req'[r].doomed = req[r].doomed
      /\ req'[r].generatedOn = req[r].generatedOn /\ req'[r].unpaid = req[r].unpaid
  BY <1>1 DEF Goto, Locals
<1> QED
  BY <1>2 DEF Moves, Keeps, Hops

LEMMA ClassifyMoves ==
    ASSUME IInv, NEW r \in Request, Classify(r) PROVE Moves(req[r], req'[r])
<1>1. req[r] \in Locals /\ req \in [Request -> Locals] /\ req[r].pc = "classify"
  BY LocalTypes DEF Classify, At
<1>2. CASE Goto(r, "embed")
  BY <1>1, <1>2, GotoMoves
<1>3. ASSUME NEW advice, req' = [req EXCEPT ![r].pc = "embed", ![r].advice = advice]
      PROVE  Moves(req[r], req'[r])
  <2>1. /\ req'[r].pc = "embed"
        /\ req'[r].reply = req[r].reply /\ req'[r].start = req[r].start
        /\ req'[r].version = req[r].version /\ req'[r].answer = req[r].answer
        /\ req'[r].doomed = req[r].doomed
        /\ req'[r].generatedOn = req[r].generatedOn /\ req'[r].unpaid = req[r].unpaid
    BY <1>1, <1>3 DEF Locals
  <2> QED
    BY <1>1, <2>1 DEF Moves, Keeps, Hops
<1>4. \/ Goto(r, "embed")
      \/ \E advice : req' = [req EXCEPT ![r].pc = "embed", ![r].advice = advice]
  BY DEF Classify
<1> QED
  BY <1>2, <1>3, <1>4

LEMMA CheckBudgetMoves ==
    ASSUME IInv, NEW r \in Request, CheckBudget(r) PROVE Moves(req[r], req'[r])
<1>1. req[r] \in Locals /\ req \in [Request -> Locals] /\ req[r].pc = "budget"
  BY LocalTypes DEF CheckBudget, At
<1>2. CASE Goto(r, "generate")
  BY <1>1, <1>2, GotoMoves
<1>3. CASE req' = [req EXCEPT ![r].pc = "generate", ![r].open = TRUE]
  <2>1. /\ req'[r].pc = "generate"
        /\ req'[r].reply = req[r].reply /\ req'[r].start = req[r].start
        /\ req'[r].version = req[r].version /\ req'[r].answer = req[r].answer
        /\ req'[r].doomed = req[r].doomed
        /\ req'[r].generatedOn = req[r].generatedOn /\ req'[r].unpaid = req[r].unpaid
    BY <1>1, <1>3 DEF Locals
  <2> QED
    BY <1>1, <2>1 DEF Moves, Keeps, Hops
<1>4. CASE Reply(r, "capped", NoAnswer)
  BY <1>1, <1>4, ReplyMoves DEF Moves, Replies, Cacheable, At
<1> QED
  BY <1>2, <1>3, <1>4 DEF CheckBudget

LEMMA EmbedMoves ==
    ASSUME IInv, NEW r \in Request, Embed(r) PROVE Moves(req[r], req'[r])
<1>1. req[r] \in Locals /\ req \in [Request -> Locals] /\ req[r].pc = "embed"
  BY LocalTypes DEF Embed, At
<1>2. CASE Reply(r, "error", NoAnswer)
  BY <1>1, <1>2, ReplyMoves DEF Moves, Replies, Cacheable, At
<1>3. CASE req' = [req EXCEPT ![r].pc = "version", ![r].version.day = day]
  <2>1. /\ req'[r].pc = "version" /\ req'[r].version = [req[r].version EXCEPT !.day = day]
        /\ req'[r].reply = req[r].reply /\ req'[r].start = req[r].start
        /\ req'[r].answer = req[r].answer /\ req'[r].doomed = req[r].doomed
        /\ req'[r].generatedOn = req[r].generatedOn /\ req'[r].unpaid = req[r].unpaid
    BY <1>1, <1>3 DEF Locals
  <2> QED
    BY <1>1, <2>1 DEF Moves, Keeps, Dates
<1> QED
  BY <1>2, <1>3 DEF Embed

LEMMA ReadVersionMoves ==
    ASSUME IInv, NEW r \in Request, ReadVersion(r) PROVE Moves(req[r], req'[r])
<1>1. req[r] \in Locals /\ req \in [Request -> Locals] /\ req[r].pc = "version"
  BY LocalTypes DEF ReadVersion, At
<1>2. ASSUME NEW step, NEW version, req' = [req EXCEPT ![r].pc = step, ![r].version = version]
      PROVE  /\ req'[r].pc = step /\ req'[r].version = version
             /\ req'[r].reply = req[r].reply /\ req'[r].start = req[r].start
             /\ req'[r].answer = req[r].answer /\ req'[r].doomed = req[r].doomed
             /\ req'[r].generatedOn = req[r].generatedOn /\ req'[r].unpaid = req[r].unpaid
  BY <1>1, <1>2 DEF Locals
<1>3. CASE req' = [req EXCEPT ![r].pc = "lookup", ![r].version = CorpusVersion(@.day)]
  <2> DEFINE version == CorpusVersion(req[r].version.day)
  <2>1. req' = [req EXCEPT ![r].pc = "lookup", ![r].version = version]
    BY <1>1, <1>3 DEF Locals
  <2>2. /\ req'[r].pc = "lookup" /\ req'[r].version = version
        /\ req'[r].reply = req[r].reply /\ req'[r].start = req[r].start
        /\ req'[r].answer = req[r].answer /\ req'[r].doomed = req[r].doomed
        /\ req'[r].generatedOn = req[r].generatedOn /\ req'[r].unpaid = req[r].unpaid
    BY <1>2, <2>1
  <2> QED
    BY <1>1, <2>2 DEF Moves, Keeps, Dates
<1>4. CASE req' = [req EXCEPT ![r].pc = "retrieve", ![r].version = NoVersion]
  <2>1. /\ req'[r].pc = "retrieve" /\ req'[r].version = NoVersion
        /\ req'[r].reply = req[r].reply /\ req'[r].start = req[r].start
        /\ req'[r].answer = req[r].answer /\ req'[r].doomed = req[r].doomed
        /\ req'[r].generatedOn = req[r].generatedOn /\ req'[r].unpaid = req[r].unpaid
    BY <1>2, <1>4
  <2> QED
    BY <1>1, <2>1 DEF Moves, Keeps, Dates
<1> QED
  BY <1>3, <1>4 DEF ReadVersion

LEMMA LookupMoves ==
    ASSUME IInv, NEW r \in Request, Lookup(r) PROVE Moves(req[r], req'[r])
<1>1. req[r].pc = "lookup"
  BY DEF Lookup, At
<1>2. CASE Goto(r, "retrieve")
  BY <1>1, <1>2, GotoMoves
<1>3. ASSUME NEW row \in Matching(r), Reply(r, row.answer.type, row.answer)
      PROVE  Ends(req[r], req'[r])
  <2>1. row \in cache /\ row.version = req[r].version
    BY DEF Matching
  <2>2. row.answer.type \in Replies
    BY <2>1, AnswerType DEF IInv, Types, Rows
  <2> QED
    BY <1>1, <1>3, <2>1, <2>2, ReplyMoves DEF At
<1>5. CASE Reply(r, "error", NoAnswer)
  BY <1>1, <1>5, ReplyMoves DEF Replies, Cacheable, At, Moves
<1>4. \/ Goto(r, "retrieve") \/ Reply(r, "error", NoAnswer)
      \/ \E row \in Matching(r) : Reply(r, row.answer.type, row.answer)
  BY DEF Lookup, Nearest
<1> QED
  BY <1>2, <1>3, <1>4, <1>5 DEF Moves

LEMMA RetrieveMoves ==
    ASSUME IInv, NEW r \in Request, Retrieve(r) PROVE Moves(req[r], req'[r])
<1>1. req[r] \in Locals /\ req \in [Request -> Locals] /\ req[r].pc = "retrieve"
  BY LocalTypes DEF Retrieve, At
<1>2. CASE Reply(r, "error", NoAnswer) \/ Reply(r, "no_answer", NoAnswer)
  BY <1>1, <1>2, ReplyMoves DEF Moves, Replies, Cacheable, At
<1> DEFINE answer == [text |-> corpus.text, today |-> day, sound |-> FALSE,
                      type |-> RequiredResponseType(req[r].advice)]
<1>3. CASE req' = [req EXCEPT ![r].pc = "budget", ![r].answer = answer]
  <2>1. answer.text = corpus.text
    OBVIOUS
  <2> HIDE DEF answer
  <2>2. /\ req'[r].pc = "budget" /\ req'[r].answer = answer
        /\ req'[r].reply = req[r].reply /\ req'[r].start = req[r].start
        /\ req'[r].version = req[r].version /\ req'[r].doomed = req[r].doomed
        /\ req'[r].generatedOn = req[r].generatedOn /\ req'[r].unpaid = req[r].unpaid
    BY <1>1, <1>3 DEF Locals
  <2> QED
    BY <1>1, <2>1, <2>2 DEF Moves, Keeps, Retrieves
<1> QED
  BY <1>2, <1>3 DEF Retrieve

LEMMA GenerateMoves ==
    ASSUME IInv, NEW r \in Request, Generate(r) PROVE Moves(req[r], req'[r])
<1>1. /\ req[r] \in Locals /\ req \in [Request -> Locals] /\ req[r].pc = "generate"
      /\ req[r].answer \in Answer
  BY LocalTypes DEF Generate, At, LocalOK, AnswerOK, HasAnswer
<1>2. CASE Reply(r, "error", NoAnswer)
  BY <1>1, <1>2, ReplyMoves DEF Moves, Replies, Cacheable, At
<1>3. ASSUME NEW sound \in BOOLEAN,
             req' = [req EXCEPT ![r].pc = "record", ![r].answer.sound = sound,
                                ![r].generatedOn = day, ![r].unpaid = TRUE]
      PROVE  Moves(req[r], req'[r])
  <2>1. /\ req'[r].pc = "record"
        /\ req'[r].reply = req[r].reply /\ req'[r].start = req[r].start
        /\ req'[r].version = req[r].version /\ req'[r].doomed = req[r].doomed
        /\ req'[r].generatedOn = day /\ req'[r].unpaid = TRUE
    BY <1>1, <1>3 DEF Locals
  <2>2. req'[r].answer = [req[r].answer EXCEPT !.sound = sound]
    BY <1>1, <1>3 DEF Locals
  <2>3. req'[r].answer.text = req[r].answer.text
    BY <1>1, <2>2 DEF Answer
  <2> QED
    BY <1>1, <2>1, <2>3 DEF Moves, Keeps, Generates
<1> QED
  BY <1>2, <1>3 DEF Generate

LEMMA VerifyMoves ==
    ASSUME IInv, NEW r \in Request, Verify(r) PROVE Moves(req[r], req'[r])
<1>1. req[r].pc = "verify" /\ req[r].answer \in Answer
  BY LocalTypes DEF Verify, At, LocalOK, AnswerOK, HasAnswer
<1>2. CASE Reply(r, "blocked", NoAnswer)
  BY <1>1, <1>2, ReplyMoves DEF Moves, Replies, Cacheable, At
<1>3. CASE Reply(r, req[r].answer.type, req[r].answer)
  BY <1>1, <1>3, ReplyMoves, AnswerType DEF Moves, At
<1>4. CASE req[r].version # NoVersion /\ Goto(r, "store")
  BY <1>1, <1>4, GotoMoves
<1> QED
  BY <1>2, <1>3, <1>4 DEF Verify

LEMMA StoreMoves ==
    ASSUME IInv, NEW r \in Request, StoreDelete(r) \/ StoreCommit(r)
    PROVE  Moves(req[r], req'[r])
<1>1. /\ req[r] \in Locals /\ req \in [Request -> Locals] /\ req[r].pc \in Verified
      /\ req[r].answer \in Answer
  BY LocalTypes DEF StoreDelete, StoreCommit, At, LocalOK, AnswerOK, HasAnswer, Verified
<1>2. CASE Reply(r, req[r].answer.type, req[r].answer)
  <2>1. req[r].answer.type \in Replies
    BY <1>1, AnswerType
  <2> QED
    BY <1>1, <1>2, <2>1, ReplyMoves DEF Moves, At, Verified
<1> DEFINE doomed == {row \in cache : row.version # StoreVersion(r)}
<1>3. CASE StoreDelete(r) /\ req' = [req EXCEPT ![r].pc = "commit", ![r].doomed = doomed]
  <2>1. doomed \subseteq cache
    OBVIOUS
  <2> HIDE DEF doomed
  <2>2. /\ req'[r].pc = "commit" /\ req'[r].doomed = doomed
        /\ req'[r].reply = req[r].reply /\ req'[r].start = req[r].start
        /\ req'[r].version = req[r].version /\ req'[r].answer = req[r].answer
        /\ req'[r].generatedOn = req[r].generatedOn /\ req'[r].unpaid = req[r].unpaid
    BY <1>1, <1>3 DEF Locals
  <2>3. req[r].pc = "store"
    BY <1>3 DEF StoreDelete, At
  <2> QED
    BY <2>1, <2>2, <2>3 DEF Moves, Keeps, Dooms
<1> QED
  BY <1>2, <1>3 DEF StoreDelete, StoreCommit

\* A generation is recorded, and no other request moves.
Payment(r) ==
    /\ Pays(req[r], req'[r]) /\ counts' = [counts EXCEPT ![req[r].generatedOn] = @ + 1]
    /\ \A x \in Request \ {r} : req'[x] = req[x]

LEMMA RecordGenerationMoves ==
    ASSUME IInv, NEW r \in Request, RecordGeneration(r)
    PROVE  Payment(r) \/ (Moves(req[r], req'[r]) /\ UNCHANGED counts)
<1>1. req[r] \in Locals /\ req \in [Request -> Locals] /\ req[r].pc = "record"
  BY LocalTypes DEF RecordGeneration, At
<1>2. CASE Goto(r, "verify") /\ UNCHANGED counts
  BY <1>1, <1>2, GotoMoves
<1>3. CASE /\ req' = [req EXCEPT ![r].pc = "verify", ![r].unpaid = FALSE]
           /\ counts' = [counts EXCEPT ![req[r].generatedOn] = @ + 1]
  <2>1. /\ req'[r].pc = "verify" /\ req'[r].unpaid = FALSE
        /\ req'[r].reply = req[r].reply /\ req'[r].start = req[r].start
        /\ req'[r].version = req[r].version /\ req'[r].answer = req[r].answer
        /\ req'[r].doomed = req[r].doomed /\ req'[r].generatedOn = req[r].generatedOn
    BY <1>1, <1>3 DEF Locals
  <2>2. \A x \in Request \ {r} : req'[x] = req[x]
    BY <1>1, <1>3
  <2>3. Pays(req[r], req'[r])
    BY <1>1, <2>1 DEF Pays, Keeps
  <2>4. counts' = [counts EXCEPT ![req[r].generatedOn] = @ + 1]
    BY <1>3
  <2> QED
    BY <2>2, <2>3, <2>4 DEF Payment
<1> QED
  BY <1>2, <1>3 DEF RecordGeneration

\* A request's step leaves the others where they are.
LEMMA OthersStand ==
    ASSUME IInv, NEW r \in Request, Handle(r), NEW x \in Request \ {r}
    PROVE  req'[x] = req[x]
<1>1. req \in [Request -> Locals]
  BY LocalTypes
<1>2. \A step : Goto(r, step) => req'[x] = req[x]
  BY <1>1 DEF Goto
<1>3. \A kind, a : Reply(r, kind, a) => req'[x] = req[x]
  BY <1>1 DEF Reply
<1>4. \A q \in Question : Arrive(r, q) => req'[x] = req[x]
  BY <1>1 DEF Arrive
<1>5. Classify(r) => req'[x] = req[x]
  BY <1>1, <1>2 DEF Classify
<1>6. Embed(r) => req'[x] = req[x]
  BY <1>1, <1>3 DEF Embed
<1>7. ReadVersion(r) => req'[x] = req[x]
  BY <1>1 DEF ReadVersion
<1>8. Lookup(r) \/ LookupFails(r) => req'[x] = req[x]
  BY <1>2, <1>3 DEF Lookup, LookupFails
<1>9. Retrieve(r) => req'[x] = req[x]
  BY <1>1, <1>3 DEF Retrieve
<1>10. CheckBudget(r) => req'[x] = req[x]
  BY <1>1, <1>2, <1>3 DEF CheckBudget
<1>11. Generate(r) => req'[x] = req[x]
  BY <1>1, <1>3 DEF Generate
<1>12. RecordGeneration(r) => req'[x] = req[x]
  BY <1>1, <1>2 DEF RecordGeneration
<1>13. Verify(r) => req'[x] = req[x]
  BY <1>2, <1>3 DEF Verify
<1>14. StoreDelete(r) \/ StoreCommit(r) => req'[x] = req[x]
  BY <1>1, <1>3 DEF StoreDelete, StoreCommit
<1> QED
  BY <1>4, <1>5, <1>6, <1>7, <1>8, <1>9, <1>10, <1>11, <1>12, <1>13, <1>14 DEF Handle

LEMMA RestartMoves ==
    ASSUME IInv, Restart, NEW x \in Request PROVE Moves(req[x], req'[x])
<1>1. req[x] \in Locals /\ req \in [Request -> Locals]
  BY LocalTypes
<1>2. req' = [r \in Request |->
                 IF req[r].pc \in {"idle", "done"} THEN req[r]
                 ELSE [req[r] EXCEPT !.pc = "done", !.reply = "lost", !.answer = NoAnswer,
                                     !.version = NoVersion, !.doomed = {}]]
  BY DEF Restart
<1>3. CASE req[x].pc \in {"idle", "done"}
  BY <1>2, <1>3 DEF Moves
<1>4. CASE req[x].pc \notin {"idle", "done"}
  <2>1. req'[x] = [req[x] EXCEPT !.pc = "done", !.reply = "lost", !.answer = NoAnswer,
                                 !.version = NoVersion, !.doomed = {}]
    BY <1>2, <1>4
  <2>2. /\ req'[x].pc = "done" /\ req'[x].reply = "lost" /\ req'[x].version = NoVersion
        /\ req'[x].doomed = {} /\ req'[x].start = req[x].start
        /\ req'[x].generatedOn = req[x].generatedOn /\ req'[x].unpaid = req[x].unpaid
    BY <1>1, <2>1 DEF Locals
  <2> QED
    BY <1>4, <2>2 DEF Moves, Ends, Cacheable
<1> QED
  BY <1>3, <1>4

RequestsMove ==
    \/ (\A x \in Request : Moves(req[x], req'[x])) /\ UNCHANGED counts
    \/ \E r \in Request : Payment(r)

\* The cache gains at most what a request at its commit stores.
CacheMoves ==
    \A row \in cache' : row \in cache \/ \E r \in Request : req[r].pc = "commit" /\ row = Stored(r)

LEMMA HandleMoves ==
    ASSUME IInv, NEW r \in Request, Handle(r) PROVE RequestsMove /\ CacheMoves
<1>1. \A x \in Request \ {r} : req'[x] = req[x]
  BY OthersStand
<1>2. CASE RecordGeneration(r)
  <2>1. Payment(r) \/ (Moves(req[r], req'[r]) /\ UNCHANGED counts)
    BY <1>2, RecordGenerationMoves
  <2>2. UNCHANGED cache
    BY <1>2 DEF RecordGeneration
  <2> QED
    BY <1>1, <2>1, <2>2 DEF RequestsMove, CacheMoves, Moves
<1>3. CASE StoreCommit(r)
  <2>1. Moves(req[r], req'[r]) /\ UNCHANGED counts
    BY <1>3, StoreMoves DEF StoreCommit
  <2>2. req[r].pc = "commit"
    BY <1>3 DEF StoreCommit, At
  <2>3. cache' = cache \/ cache' = (cache \ req[r].doomed) \cup {Stored(r)}
    BY <1>3 DEF StoreCommit, Stored, StoreVersion
  <2> QED
    BY <1>1, <2>1, <2>2, <2>3 DEF RequestsMove, CacheMoves, Moves
<1>4. ASSUME NEW q \in Question, Arrive(r, q) PROVE RequestsMove /\ CacheMoves
  <2>1. Arrives(req[r], req'[r]) /\ UNCHANGED <<counts, cache>>
    BY <1>4, ArriveMoves DEF Arrive
  <2> QED
    BY <1>1, <2>1 DEF RequestsMove, CacheMoves, Moves
<1>5. CASE \/ Classify(r) \/ Embed(r) \/ ReadVersion(r)
           \/ Lookup(r) \/ LookupFails(r) \/ Retrieve(r)
           \/ CheckBudget(r) \/ Generate(r) \/ Verify(r) \/ StoreDelete(r)
  <2>1. UNCHANGED <<counts, cache>>
    BY <1>5 DEF Classify, Embed, ReadVersion, Lookup, LookupFails, Retrieve, CheckBudget,
                Generate, Verify, StoreDelete
  <2>2. ASSUME LookupFails(r) PROVE Moves(req[r], req'[r])
    BY <2>2, GotoMoves DEF LookupFails, At
  <2>3. Moves(req[r], req'[r])
    BY <1>5, <2>2, ClassifyMoves, EmbedMoves, ReadVersionMoves, LookupMoves, RetrieveMoves,
       CheckBudgetMoves, GenerateMoves, VerifyMoves, StoreMoves
  <2> QED
    BY <1>1, <2>1, <2>3 DEF RequestsMove, CacheMoves, Moves
<1> QED
  BY <1>2, <1>3, <1>4, <1>5 DEF Handle

\* Either the requests and the tables move, or the world does.
LEMMA StepMoves ==
    ASSUME IInv, [Next]_vars
    PROVE  /\ RequestsMove /\ CacheMoves
           /\ \/ UNCHANGED world
              \/ (Write \/ NextDay) /\ UNCHANGED requestState
<1>1. ASSUME NEW r \in Request, Handle(r) PROVE UNCHANGED world
  BY <1>1 DEF Handle, Arrive, Classify, Embed, ReadVersion, Lookup, LookupFails, Retrieve,
              CheckBudget, Generate, RecordGeneration, Verify, StoreDelete, StoreCommit
<1>2. UNCHANGED requestState => RequestsMove /\ CacheMoves
  <2> SUFFICES ASSUME UNCHANGED requestState PROVE RequestsMove /\ CacheMoves
    OBVIOUS
  <2>1. req' = req /\ cache' = cache /\ counts' = counts
    BY DEF requestState
  <2>2. \A x \in Request : Moves(req[x], req'[x])
    BY <2>1 DEF Moves
  <2> QED
    BY <2>1, <2>2 DEF RequestsMove, CacheMoves
<1>3. CASE Restart
  BY <1>3, RestartMoves DEF Restart, RequestsMove, CacheMoves
<1>4. Write => UNCHANGED requestState
  BY DEF Write, BeginReindex, CommitReindex, WriteUnmarked
<1>5. NextDay => UNCHANGED requestState
  BY DEF NextDay
<1>6. Restart => UNCHANGED world
  BY DEF Restart
<1>7. Done \/ UNCHANGED vars => UNCHANGED world /\ UNCHANGED requestState
  BY DEF Done, vars, world, requestState
<1> QED
  BY <1>1, <1>2, <1>3, <1>4, <1>5, <1>6, <1>7, HandleMoves DEF Next

-----------------------------------------------------------------------------
(* What corpus_version's query returns.                                    *)

LEMMA LastChangeIs ==
    ASSUME NEW at \in [Source -> Nat]
    PROVE  /\ LastChange(at) \in Nat /\ \A s \in Source : at[s] <= LastChange(at)
           /\ \E s \in Source : at[s] = LastChange(at)
<1> DEFINE S == {at[s] : s \in Source}
<1>1. IsFiniteSet(S)
  <2>1. at \in Surjection(Source, S)
    BY DEF Surjection
  <2>2. IsFiniteSet(Source)
    BY ConstantsAssumption
  <2> HIDE DEF S
  <2> QED
    BY <2>1, <2>2, FS_Surjection
<1>2. S \subseteq Nat /\ S # {}
  BY ConstantsAssumption
<1>3. Max(S) \in S /\ \A k \in S : k <= Max(S)
  <2> HIDE DEF S
  <2> QED
    BY <1>1, <1>2, MaxType
<1>4. LastChange(at) = Max(S)
  BY DEF LastChange
<1> QED
  BY <1>2, <1>3, <1>4

LEMMA ChunkTotalType ==
    ASSUME NEW text \in [Source -> Version] PROVE ChunkTotal(text) \in Nat
<1> DEFINE w == [s \in Source |-> ChunkCount[text[s]]]
           Folds(f) == f = [s \in SUBSET Source |->
                              IF s = {} THEN 0
                              ELSE ChunkCount[text[Taken(s)]] + f[s \ {Taken(s)}]]
<1>1. ChunkTotal(text) = (CHOOSE f : Folds(f))[Source]
  BY DEF ChunkTotal, MapThenSumSet, MapThenFoldSet, Taken
<1>2. w \in [Source -> Nat] /\ IsFiniteSet(Source)
  BY ConstantsAssumption DEF Version
<1>3. \A f : Folds(f) <=> Adds(f, w, Source)
  <2>1. \A s \in SUBSET Source : s # {} => w[Taken(s)] = ChunkCount[text[Taken(s)]]
    BY DEF Taken
  <2> HIDE DEF w
  <2> QED
    BY <2>1 DEF Adds, Added
<1> HIDE DEF w, Folds
<1>4. PICK f : Adds(f, w, Source)
  BY <1>2, AddsExists
<1>5. Folds(CHOOSE g : Folds(g))
  BY <1>3, <1>4
<1> DEFINE h == CHOOSE g : Folds(g)
<1>6. Adds(h, w, Source)
  BY <1>3, <1>5
<1> HIDE DEF h
<1>7. h[Source] \in Nat
  BY <1>2, <1>6, AddsType
<1> QED
  BY <1>1, <1>7 DEF h

LEMMA CacheVersionType ==
    ASSUME CorpusTypes, NEW today \in Day
    PROVE  CorpusVersion(today) \in CacheVersion
<1>1. corpus.changedAt \in [Source -> Nat] /\ corpus.text \in [Source -> Version]
  BY DEF CorpusTypes
<1>2. LastChange(corpus.changedAt) \in Nat /\ ChunkTotal(corpus.text) \in Nat
  BY <1>1, LastChangeIs, ChunkTotalType
<1> QED
  BY <1>2 DEF CorpusVersion, CacheVersion

-----------------------------------------------------------------------------
(* Types in full: only a version that was read is looked up or stored      *)
(* under.                                                                  *)

LocalTyped(q) ==
    /\ q.version \in CacheVersion \cup {NoVersion} /\ q.doomed \subseteq CacheRow
    /\ q.pc \in {"version", "lookup"} \cup Verified => q.version # NoVersion

TypeInv == cache \subseteq CacheRow /\ \A r \in Request : LocalTyped(req[r])

LEMMA MovesTyped ==
    ASSUME IInv, TypeInv, NEW r \in Request, NEW n,
           Moves(req[r], n) \/ Pays(req[r], n)
    PROVE  LocalTyped(n)
<1> DEFINE q == req[r]
<1>1. LocalTyped(q)
  BY DEF TypeInv
<1>2. day \in Day /\ CorpusTypes /\ cache \subseteq CacheRow
  BY DEF IInv, Types, CorpusTypes, TypeInv
<1>3. NoVersion \notin CacheVersion /\ \A v \in CacheVersion : v.day \in Day
  BY DayType DEF NoVersion, CacheVersion
<1> HIDE DEF q
<1>4. CASE Dates(q, n)
  <2>1. CASE n.version = [q.version EXCEPT !.day = day]
    <3>1. n.version \in CacheVersion
      BY <1>1, <1>2, <2>1 DEF LocalTyped, CacheVersion, NoVersion
    <3> QED
      BY <1>1, <1>3, <1>4, <3>1 DEF Dates, LocalTyped
  <2>2. CASE q.pc = "version" /\ n.version = CorpusVersion(q.version.day)
    <3>1. q.version.day \in Day
      BY <1>1, <1>3, <2>2 DEF LocalTyped
    <3>2. n.version \in CacheVersion
      BY <1>2, <2>2, <3>1, CacheVersionType
    <3> QED
      BY <1>1, <1>3, <1>4, <3>2 DEF Dates, LocalTyped
  <2>3. CASE n.pc = "retrieve" /\ n.version = NoVersion
    BY <1>1, <1>4, <2>3 DEF Dates, LocalTyped, Verified
  <2> QED
    BY <1>4, <2>1, <2>2, <2>3 DEF Dates
<1>5. CASE Arrives(q, n) \/ Ends(q, n)
  BY <1>1, <1>5 DEF LocalTyped, Arrives, Ends, Verified
<1>6. CASE n = q \/ Pays(q, n)
  BY <1>1, <1>6 DEF LocalTyped, Pays, Verified
<1>7. CASE Hops(q, n)
  BY <1>1, <1>7 DEF LocalTyped, Hops, Verified
<1>8. CASE Retrieves(q, n) \/ Generates(q, n)
  BY <1>1, <1>8 DEF LocalTyped, Retrieves, Generates, Verified
<1>9. CASE Dooms(q, n)
  BY <1>1, <1>2, <1>9 DEF LocalTyped, Dooms, Verified
<1> QED
  BY <1>4, <1>5, <1>6, <1>7, <1>8, <1>9 DEF Moves, q

LEMMA TypeInvNext == IInv /\ TypeInv /\ [Next]_vars => TypeInv'
<1> SUFFICES ASSUME IInv, TypeInv, [Next]_vars PROVE TypeInv'
  OBVIOUS
<1>1. RequestsMove /\ CacheMoves
  BY StepMoves
<1>2. ASSUME NEW r \in Request PROVE Moves(req[r], req'[r]) \/ Pays(req[r], req'[r])
  BY <1>1 DEF RequestsMove, Payment, Moves
<1>3. \A r \in Request : LocalTyped(req'[r])
  BY <1>2, MovesTyped
<1>4. ASSUME NEW r \in Request, req[r].pc = "commit" PROVE Stored(r) \in CacheRow
  <2>1. req[r] \in Locals /\ req[r].answer \in Answer
    BY <1>4, LocalTypes DEF LocalOK, AnswerOK, HasAnswer
  <2>2. req[r].version \in CacheVersion
    BY <1>4 DEF TypeInv, LocalTyped, Verified
  <2>3. req[r].question \in Question
    BY <2>1 DEF Locals
  <2> QED
    BY <2>1, <2>2, <2>3 DEF Stored, CacheRow
<1>5. cache' \subseteq CacheRow
  BY <1>1, <1>4 DEF CacheMoves, TypeInv
<1> QED
  BY <1>3, <1>5 DEF TypeInv, LocalTyped

LEMMA TypeInvHolds == Spec => []TypeInv
<1>1. Init => TypeInv
  BY DEF Init, TypeInv, LocalTyped, Blank, Verified
<1> QED
  BY <1>1, TypeInvNext, IInvHolds, PTL DEF Spec

\* Every variable keeps its type (pipeline.py, cache.py, usage.py): a version that is
\* stored under was read, and no row is without one.
THEOREM TypeCorrect == Spec => []TypeOK
<1>1. IInv /\ TypeInv => TypeOK
  <2> SUFFICES ASSUME IInv, TypeInv PROVE TypeOK
    OBVIOUS
  <2>1. ASSUME NEW r \in Request PROVE req[r] \in Local
    <3>1. req[r] \in Locals /\ LocalTyped(req[r])
      BY LocalTypes DEF TypeInv
    <3> QED
      BY <3>1 DEF Locals, LocalTyped, Local, Starts
  <2>2. req \in [Request -> Local]
    BY <2>1 DEF IInv, Types
  <2> QED
    BY <2>2 DEF IInv, Types, CorpusTypes, TypeInv, TypeOK
<1> QED
  BY <1>1, TypeInvHolds, IInvHolds, PTL

-----------------------------------------------------------------------------
(* The counts.  A generation is of a request that had none, and enters     *)
(* those of its day at most once.                                          *)

Before == {"idle", "classify", "embed", "version", "lookup", "retrieve", "budget", "generate"}
Paid(d) == {r \in Request : req[r].generatedOn = d /\ ~req[r].unpaid}

GenerationOK(q) ==
    /\ q.pc \in Before => q.generatedOn = 0
    /\ q.pc = "record" => q.generatedOn # 0 /\ q.unpaid

CountInv ==
    /\ \A r \in Request : GenerationOK(req[r])
    /\ \A d \in Day : IsFiniteSet(Paid(d)) /\ counts[d] = Cardinality(Paid(d))

\* No step but a payment adds to what is paid.
LEMMA MovesGeneration ==
    ASSUME NEW q, NEW n, GenerationOK(q), Moves(q, n), day \in Day, NEW d \in Day
    PROVE  /\ GenerationOK(n)
           /\ n.generatedOn = d /\ ~n.unpaid <=> q.generatedOn = d /\ ~q.unpaid
<1>0. day # 0 /\ d # 0
  BY DayType
<1>1. CASE n = q
  BY <1>1
<1>2. CASE Arrives(q, n)
  BY <1>2 DEF Arrives, GenerationOK, Before
<1>3. CASE Ends(q, n)
  BY <1>3 DEF Ends, GenerationOK, Before
<1>4. CASE Hops(q, n)
  BY <1>4 DEF Hops, GenerationOK, Before
<1>5. CASE Dates(q, n)
  BY <1>5 DEF Dates, GenerationOK, Before
<1>6. CASE Retrieves(q, n)
  BY <1>6 DEF Retrieves, GenerationOK, Before
<1>7. CASE Generates(q, n)
  BY <1>0, <1>7 DEF Generates, GenerationOK, Before
<1>8. CASE Dooms(q, n)
  BY <1>8 DEF Dooms, GenerationOK, Before
<1> QED
  BY <1>1, <1>2, <1>3, <1>4, <1>5, <1>6, <1>7, <1>8 DEF Moves

LEMMA CountInvNext == IInv /\ CountInv /\ [Next]_vars => CountInv'
<1> SUFFICES ASSUME IInv, CountInv, [Next]_vars PROVE CountInv'
  OBVIOUS
<1>1. RequestsMove /\ day \in Day /\ counts \in [Day -> Nat]
  BY StepMoves DEF IInv, Types, CorpusTypes
<1>2. \A r \in Request : GenerationOK(req[r])
  BY DEF CountInv
<1>3. CASE (\A r \in Request : Moves(req[r], req'[r])) /\ UNCHANGED counts
  <2>1. \A r \in Request : GenerationOK(req'[r])
    BY <1>1, <1>2, <1>3, MovesGeneration
  <2>2. ASSUME NEW d \in Day PROVE Paid(d)' = Paid(d)
    <3>1. \A r \in Request : req'[r].generatedOn = d /\ ~req'[r].unpaid
                             <=> req[r].generatedOn = d /\ ~req[r].unpaid
      BY <1>1, <1>2, <1>3, MovesGeneration
    <3> QED
      BY <3>1 DEF Paid
  <2>3. ASSUME NEW d \in Day
        PROVE  IsFiniteSet(Paid(d)') /\ counts'[d] = Cardinality(Paid(d)')
    BY <1>3, <2>2 DEF CountInv
  <2> QED
    BY <2>1, <2>3 DEF CountInv, GenerationOK
<1>4. ASSUME NEW r \in Request, Payment(r) PROVE CountInv'
  <2>1. Pays(req[r], req'[r]) /\ \A x \in Request \ {r} : req'[x] = req[x]
    BY <1>4 DEF Payment
  <2>2. \A x \in Request : GenerationOK(req'[x])
    BY <1>2, <2>1 DEF Pays, GenerationOK, Before
  <2>4. PICK today \in Day : req[r].generatedOn = today
    BY <1>2, <2>1, LocalTypes, LocalFields DEF Pays, GenerationOK
  <2>3. req[r].unpaid /\ req'[r].generatedOn = today /\ ~req'[r].unpaid
    BY <1>2, <2>1, <2>4 DEF Pays, GenerationOK
  <2>5. counts' = [counts EXCEPT ![today] = @ + 1]
    BY <1>4, <2>4 DEF Payment
  <2>6. Paid(today)' = Paid(today) \cup {r} /\ r \notin Paid(today)
    BY <2>1, <2>3, <2>4 DEF Paid
  <2>7. \A d \in Day \ {today} : Paid(d)' = Paid(d)
    BY <2>1, <2>3, <2>4 DEF Paid
  <2>8. IsFiniteSet(Paid(today)') /\ counts'[today] = Cardinality(Paid(today)')
    <3>1. IsFiniteSet(Paid(today)) /\ counts[today] = Cardinality(Paid(today))
      BY <2>4 DEF CountInv
    <3>2. /\ IsFiniteSet(Paid(today) \cup {r})
          /\ Cardinality(Paid(today) \cup {r}) = Cardinality(Paid(today)) + 1
      BY <2>6, <3>1, FS_AddElement
    <3>3. counts'[today] = counts[today] + 1
      BY <1>1, <2>4, <2>5
    <3> QED
      BY <2>6, <3>1, <3>2, <3>3
  <2>9. ASSUME NEW d \in Day \ {today}
        PROVE  IsFiniteSet(Paid(d)') /\ counts'[d] = Cardinality(Paid(d)')
    <3>1. counts'[d] = counts[d]
      BY <1>1, <2>5
    <3> QED
      BY <2>7, <3>1 DEF CountInv
  <2>10. ASSUME NEW d \in Day
         PROVE  IsFiniteSet(Paid(d)') /\ counts'[d] = Cardinality(Paid(d)')
    <3>1. CASE d = today
      BY <2>8, <3>1
    <3>2. CASE d # today
      BY <2>9, <3>2
    <3> QED
      BY <3>1, <3>2
  <2> QED
    BY <2>2, <2>10 DEF CountInv, GenerationOK
<1> QED
  BY <1>1, <1>3, <1>4 DEF RequestsMove

\* What the counter of a day holds is what returned on that day and was recorded, each
\* call once (usage.py: record_generation_call).
THEOREM CountsCorrect == Spec => []CountsAreGenerations
<1>1. Init => CountInv
  <2> SUFFICES ASSUME Init PROVE CountInv
    OBVIOUS
  <2>1. \A r \in Request : req[r].generatedOn = 0 /\ req[r].pc = "idle"
    BY DEF Init, Blank
  <2>2. ASSUME NEW d \in Day PROVE Paid(d) = {} /\ counts[d] = 0
    BY <2>1, DayType DEF Paid, Init
  <2> QED
    BY <2>1, <2>2, FS_EmptySet DEF CountInv, GenerationOK
<1>2. CountInv => CountsAreGenerations
  BY DEF CountInv, CountsAreGenerations, Paid
<1>3. Spec => []CountInv
  BY <1>1, CountInvNext, IInvHolds, PTL DEF Spec
<1> QED
  BY <1>2, <1>3, PTL

-----------------------------------------------------------------------------
(* Freshness, with one re-index at a time.  Each commit raises the last     *)
(* change, so whatever is held under the last change, in the cache or by a *)
(* request on its way there, was retrieved since the last re-index.        *)

AtLeast(t, m) == \A s \in Source : m[s] <= t[s]
Latest == LastChange(corpus.changedAt)

MarkInv ==
    /\ AtLeast(corpus.text, corpus.marked)
    /\ \A s \in Source : corpus.changedAt[s] <= clock /\ pending[s] <= clock
    /\ \A s, x \in Source : pending[s] # 0 => /\ corpus.changedAt[x] < pending[s]
                                              /\ pending[x] # 0 => s = x

\* A commit raises the last change, and nothing else moves what it left.
Grows ==
    /\ AtLeast(corpus'.marked, corpus.marked) /\ Latest <= Latest'
    /\ Latest' = Latest => corpus'.marked = corpus.marked

LEMMA LatestIs ==
    ASSUME CorpusTypes
    PROVE  /\ Latest \in Nat /\ \A s \in Source : corpus.changedAt[s] <= Latest
           /\ \E s \in Source : corpus.changedAt[s] = Latest
<1>1. corpus.changedAt \in [Source -> Nat]
  BY DEF CorpusTypes
<1> QED
  BY <1>1, LastChangeIs DEF Latest

LEMMA VersionType == Version \subseteq Nat /\ \A v \in Version : v + 1 > v
<1>1. ChunkCount \in Seq(Nat)
  BY ConstantsAssumption
<1>2. Version = 1 .. Len(ChunkCount) /\ Len(ChunkCount) \in Nat
  BY <1>1 DEF Version
<1> QED
  BY <1>2

LEMMA BeginReindexMarks ==
    ASSUME CorpusTypes, MarkInv, RefreshJobs <= 1, NEW s \in Source, BeginReindex(s)
    PROVE  MarkInv' /\ Grows
<1>1. /\ clock \in Nat /\ pending \in [Source -> Nat] /\ corpus.changedAt \in [Source -> Nat]
      /\ corpus.marked \in [Source -> Version] /\ RefreshJobs \in Nat
  BY ConstantsAssumption DEF CorpusTypes
<1> DEFINE busy == {x \in Source : pending[x] # 0}
<1>2. busy = {}
  <2>1. IsFiniteSet(busy)
    BY ConstantsAssumption, FS_Subset
  <2>2. Cardinality(busy) < RefreshJobs
    BY DEF BeginReindex
  <2> HIDE DEF busy
  <2>3. Cardinality(busy) = 0
    BY <1>1, <2>1, <2>2, FS_CardinalityType
  <2> QED
    BY <2>1, <2>3, FS_EmptySet
<1>3. \A x \in Source : pending[x] = 0
  BY <1>2
<1>4. /\ clock' = clock + 1 /\ pending' = [pending EXCEPT ![s] = clock + 1]
      /\ corpus' = corpus
  BY DEF BeginReindex
<1>5. \A x \in Source : pending'[x] = IF x = s THEN clock + 1 ELSE 0
  BY <1>1, <1>3, <1>4
<1>6. \A x \in Source : corpus'.changedAt[x] <= clock' /\ pending'[x] <= clock'
                        /\ corpus'.changedAt[x] < clock + 1
  BY <1>1, <1>4, <1>5 DEF MarkInv
<1>7. MarkInv'
  BY <1>4, <1>5, <1>6 DEF MarkInv, AtLeast
<1>8. Grows
  BY <1>1, <1>4, LatestIs, VersionType DEF Grows, AtLeast, Latest
<1> QED
  BY <1>7, <1>8

LEMMA CommitReindexMarks ==
    ASSUME CorpusTypes, CorpusTypes', MarkInv, NEW s \in Source, CommitReindex(s)
    PROVE  MarkInv' /\ Grows
<1>1. /\ clock \in Nat /\ pending \in [Source -> Nat] /\ corpus.changedAt \in [Source -> Nat]
      /\ corpus.marked \in [Source -> Version] /\ corpus.text \in [Source -> Version]
  BY DEF CorpusTypes
<1>2. /\ pending[s] # 0 /\ pending' = [pending EXCEPT ![s] = 0] /\ clock' = clock
  BY DEF CommitReindex
<1>3. \A x \in Source : pending'[x] = 0
  BY <1>1, <1>2 DEF MarkInv
<1>4. /\ corpus'.text = [corpus.text EXCEPT ![s] = @ + 1]
      /\ corpus'.changedAt = [corpus.changedAt EXCEPT ![s] = pending[s]]
      /\ corpus'.marked = [corpus.marked EXCEPT ![s] = corpus.text[s] + 1]
  BY DEF CommitReindex, CorpusTypes
<1>5. \A x \in Source : /\ corpus.text[x] \in Nat /\ corpus.marked[x] \in Nat
                        /\ corpus.marked[x] <= corpus.text[x]
  BY <1>1, VersionType DEF MarkInv, AtLeast
<1>6. \A x \in Source : /\ corpus'.marked[x] <= corpus'.text[x]
                        /\ corpus.marked[x] <= corpus'.marked[x]
  BY <1>1, <1>4, <1>5
<1>7. \A x \in Source : corpus'.changedAt[x] <= clock
  BY <1>1, <1>4 DEF MarkInv
<1>8. MarkInv'
  BY <1>1, <1>2, <1>3, <1>6, <1>7 DEF MarkInv, AtLeast
<1>12. Latest' \in Nat /\ \A x \in Source : corpus'.changedAt[x] <= Latest'
  <2>1. Latest' = LastChange(corpus'.changedAt)
    BY DEF Latest
  <2>2. corpus'.changedAt \in [Source -> Nat]
    BY DEF CorpusTypes
  <2> QED
    BY <2>1, <2>2, LastChangeIs
<1>9. Latest < Latest'
  <2>1. Latest < pending[s] /\ Latest \in Nat /\ pending[s] \in Nat
    BY <1>1, <1>2, LatestIs DEF MarkInv
  <2>2. corpus'.changedAt[s] = pending[s]
    BY <1>1, <1>4
  <2>3. Latest' \in Nat /\ corpus'.changedAt[s] <= Latest'
    BY <1>12
  <2> QED
    BY <2>1, <2>2, <2>3
<1>10. Latest \in Nat /\ Latest' \in Nat
  BY <1>12, LatestIs
<1>11. Grows
  BY <1>6, <1>9, <1>10 DEF Grows, AtLeast
<1> QED
  BY <1>8, <1>11

\* A writer that leaves last_changed_at alone, and everything that writes no text.
LEMMA OthersMark ==
    ASSUME CorpusTypes, MarkInv, UNCHANGED <<pending, clock>>,
           \/ UNCHANGED corpus
           \/ \E s \in Source : WriteUnmarked(s)
    PROVE  MarkInv' /\ Grows
<1>1. /\ corpus.text \in [Source -> Version]
      /\ \A x \in Source : corpus.marked[x] \in Nat /\ corpus.text[x] \in Nat
  <2>1. corpus.marked \in [Source -> Version] /\ corpus.text \in [Source -> Version]
    BY DEF CorpusTypes
  <2>2. \A v \in Version : v \in Nat
    BY VersionType
  <2> QED
    BY <2>1, <2>2
<1>2. corpus'.marked = corpus.marked /\ corpus'.changedAt = corpus.changedAt
  BY DEF WriteUnmarked, CorpusTypes
<1>3. \A x \in Source : corpus'.text[x] \in Nat /\ corpus.text[x] <= corpus'.text[x]
  <2>1. CASE UNCHANGED corpus
    BY <1>1, <2>1
  <2>2. ASSUME NEW s \in Source, WriteUnmarked(s)
        PROVE  \A x \in Source : corpus'.text[x] \in Nat /\ corpus.text[x] <= corpus'.text[x]
    <3>1. corpus'.text = [corpus.text EXCEPT ![s] = @ + 1]
      BY <2>2 DEF WriteUnmarked, CorpusTypes
    <3>2. \A x \in Source : corpus'.text[x] = IF x = s THEN corpus.text[x] + 1 ELSE corpus.text[x]
      BY <1>1, <3>1
    <3> QED
      BY <1>1, <3>2
  <2> QED
    BY <2>1, <2>2
<1>4. \A x \in Source : corpus.marked[x] <= corpus'.text[x]
  <2> SUFFICES ASSUME NEW x \in Source PROVE corpus.marked[x] <= corpus'.text[x]
    OBVIOUS
  <2>1. corpus.marked[x] <= corpus.text[x]
    BY DEF MarkInv, AtLeast
  <2> QED
    BY <1>1, <1>3, <2>1
<1>5. MarkInv'
  BY <1>2, <1>4 DEF MarkInv, AtLeast
<1>6. Latest' = Latest
  <2>1. Latest' = LastChange(corpus'.changedAt)
    BY DEF Latest
  <2> QED
    BY <1>2, <2>1 DEF Latest
<1>7. Grows
  <2>1. Latest \in Nat
    BY LatestIs
  <2> QED
    BY <1>1, <1>2, <1>6, <2>1 DEF Grows, AtLeast
<1> QED
  BY <1>5, <1>7

LEMMA WorldMarks ==
    ASSUME IInv, MarkInv, RefreshJobs <= 1, [Next]_vars PROVE MarkInv' /\ Grows
<1>1. CorpusTypes /\ CorpusTypes'
  BY NextKeeps DEF IInv, Types
<1>2. ASSUME NEW s \in Source, BeginReindex(s) PROVE MarkInv' /\ Grows
  BY <1>1, <1>2, BeginReindexMarks
<1>3. ASSUME NEW s \in Source, CommitReindex(s) PROVE MarkInv' /\ Grows
  BY <1>1, <1>3, CommitReindexMarks
<1>4. ASSUME NEW s \in Source, WriteUnmarked(s) PROVE MarkInv' /\ Grows
  <2>1. UNCHANGED <<pending, clock>>
    BY <1>4 DEF WriteUnmarked
  <2> QED
    BY <1>1, <1>4, <2>1, OthersMark
<1>5. CASE UNCHANGED <<corpus, pending, clock>>
  BY <1>1, <1>5, OthersMark
<1>6. UNCHANGED world \/ Write \/ NextDay
  BY StepMoves
<1> QED
  BY <1>2, <1>3, <1>4, <1>5, <1>6 DEF world, Write, NextDay

-----------------------------------------------------------------------------
(* What is held: rows of the cache, and answers on their way there.        *)

Held ==
    {[changed |-> row.version.changed, text |-> row.answer.text] : row \in cache} \cup
    {[changed |-> req[r].version.changed, text |-> req[r].answer.text] :
        r \in {x \in Request : req[x].pc \in HasAnswer}}

HeldInv ==
    \A h \in Held : /\ h.changed <= Latest
                    /\ h.changed = Latest => AtLeast(h.text, corpus.marked)

\* A request is served nothing older than its arrival: neither what it holds, nor what
\* it may yet find.
ServedOK(q) ==
    /\ q.pc # "idle" => AtLeast(corpus.marked, q.start.marked)
    /\ q.version.changed <= Latest
    /\ q.pc \in HasAnswer \/ q.reply \in Cacheable => AtLeast(q.answer.text, q.start.marked)
    /\ q.pc = "lookup" => \A h \in Held : h.changed = q.version.changed
                                          => AtLeast(h.text, q.start.marked)

ServedInv == MarkInv /\ HeldInv /\ \A r \in Request : ServedOK(req[r])

\* A step holds what was held, or what documents hold.
LEMMA HeldMoves ==
    ASSUME IInv, [Next]_vars, NEW h \in Held'
    PROVE  \/ h \in Held
           \/ /\ h.text = corpus.text /\ UNCHANGED world
              /\ \E r \in Request : h.changed = req[r].version.changed
<1>1. RequestsMove /\ CacheMoves /\ (UNCHANGED world \/ UNCHANGED requestState)
  BY StepMoves
<1>2. CASE UNCHANGED requestState
  <2>1. cache' = cache /\ req' = req
    BY <1>2 DEF requestState
  <2> QED
    BY <2>1 DEF Held
<1>3. ASSUME NEW row \in cache',
             h = [changed |-> row.version.changed, text |-> row.answer.text]
      PROVE  h \in Held
  <2>1. CASE row \in cache
    BY <1>3, <2>1 DEF Held
  <2>2. ASSUME NEW r \in Request, req[r].pc = "commit", row = Stored(r) PROVE h \in Held
    <3>1. h = [changed |-> req[r].version.changed, text |-> req[r].answer.text]
      BY <1>3, <2>2 DEF Stored
    <3> QED
      BY <2>2, <3>1 DEF Held, HasAnswer
  <2> QED
    BY <1>1, <2>1, <2>2 DEF CacheMoves
<1>4. ASSUME NEW r \in Request, req'[r].pc \in HasAnswer, UNCHANGED world,
             h = [changed |-> req'[r].version.changed, text |-> req'[r].answer.text]
      PROVE  h \in Held \/ (h.text = corpus.text /\ h.changed = req[r].version.changed)
  <2> DEFINE q == req[r]
             n == req'[r]
  <2>1. Moves(q, n) \/ Pays(q, n)
    BY <1>1 DEF RequestsMove, Payment, Moves
  <2>2. n.pc \in HasAnswer /\ h = [changed |-> n.version.changed, text |-> n.answer.text]
    BY <1>4
  <2>3. CASE q.pc \in HasAnswer /\ n.version = q.version /\ n.answer.text = q.answer.text
    BY <2>2, <2>3 DEF Held
  <2>4. CASE Retrieves(q, n)
    BY <2>2, <2>4 DEF Retrieves
  <2> HIDE DEF q, n
  <2>5. \/ q.pc \in HasAnswer /\ n.version = q.version /\ n.answer.text = q.answer.text
        \/ Retrieves(q, n)
    BY <2>1, <2>2 DEF Moves, Pays, Arrives, Ends, Hops, Dates, Generates, Dooms, HasAnswer
  <2> QED
    BY <2>3, <2>4, <2>5
<1> QED
  BY <1>1, <1>2, <1>3, <1>4 DEF Held

LEMMA AtLeastTrans ==
    ASSUME NEW t \in [Source -> Version], NEW m \in [Source -> Version],
           NEW k \in [Source -> Version], AtLeast(t, m), AtLeast(m, k)
    PROVE  AtLeast(t, k)
<1> SUFFICES ASSUME NEW s \in Source PROVE k[s] <= t[s]
  BY DEF AtLeast
<1>1. t[s] \in Version /\ m[s] \in Version /\ k[s] \in Version
  OBVIOUS
<1>2. t[s] \in Nat /\ m[s] \in Nat /\ k[s] \in Nat
  BY <1>1, VersionType
<1>3. k[s] <= m[s] /\ m[s] <= t[s]
  BY DEF AtLeast
<1> QED
  BY <1>2, <1>3

LEMMA HeldType ==
    ASSUME IInv, TypeInv, NEW h \in Held
    PROVE  h.changed \in Nat /\ h.text \in [Source -> Version]
<1>1. \A v \in CacheVersion \cup {NoVersion} : v.changed \in Nat
  BY DEF CacheVersion, NoVersion
<1>2. \A a \in Answer : a.text \in [Source -> Version]
  BY DEF Answer
<1>3. ASSUME NEW row \in cache,
             h = [changed |-> row.version.changed, text |-> row.answer.text]
      PROVE  h.changed \in Nat /\ h.text \in [Source -> Version]
  <2>1. row.version \in CacheVersion /\ row.answer \in Answer
    BY DEF TypeInv, CacheRow
  <2> QED
    BY <1>1, <1>2, <1>3, <2>1
<1>4. ASSUME NEW r \in Request, req[r].pc \in HasAnswer,
             h = [changed |-> req[r].version.changed, text |-> req[r].answer.text]
      PROVE  h.changed \in Nat /\ h.text \in [Source -> Version]
  <2>1. req[r].version \in CacheVersion \cup {NoVersion} /\ req[r].answer \in Answer
    BY <1>4, LocalTypes DEF TypeInv, LocalTyped, LocalOK, AnswerOK
  <2> QED
    BY <1>1, <1>2, <1>4, <2>1
<1> QED
  BY <1>3, <1>4 DEF Held

\* The types that the steps below compare.
LEMMA MarkTypes ==
    ASSUME IInv, [Next]_vars
    PROVE  /\ corpus.text \in [Source -> Version] /\ corpus.marked \in [Source -> Version]
           /\ corpus'.marked \in [Source -> Version] /\ Latest \in Nat /\ Latest' \in Nat
           /\ \A r \in Request : req[r].start.marked \in [Source -> Version]
<1>1. CorpusTypes /\ CorpusTypes'
  BY NextKeeps DEF IInv, Types
<1>2. /\ corpus.text \in [Source -> Version] /\ corpus.marked \in [Source -> Version]
      /\ corpus'.marked \in [Source -> Version] /\ corpus'.changedAt \in [Source -> Nat]
  BY <1>1 DEF CorpusTypes
<1>3. Latest' = LastChange(corpus'.changedAt)
  BY DEF Latest
<1>4. Latest \in Nat /\ Latest' \in Nat
  BY <1>1, <1>2, <1>3, LatestIs, LastChangeIs
<1>5. \A r \in Request : req[r].start.marked \in [Source -> Version]
  BY LocalTypes, LocalFields DEF Starts
<1> QED
  BY <1>2, <1>4, <1>5

LEMMA HeldKeeps ==
    ASSUME IInv, TypeInv, ServedInv, Grows, [Next]_vars PROVE HeldInv'
<1>1. ASSUME NEW h \in Held'
      PROVE  h.changed <= Latest' /\ (h.changed = Latest' => AtLeast(h.text, corpus'.marked))
  <2>1. CASE h \in Held
    <3>1. h.changed <= Latest /\ (h.changed = Latest => AtLeast(h.text, corpus.marked))
      BY <2>1 DEF ServedInv, HeldInv
    <3>2. h.changed \in Nat /\ Latest \in Nat /\ Latest' \in Nat /\ Latest <= Latest'
      BY <2>1, HeldType, MarkTypes DEF Grows
    <3>3. h.changed <= Latest' /\ (h.changed = Latest' => h.changed = Latest /\ Latest' = Latest)
      BY <3>1, <3>2
    <3> QED
      BY <3>1, <3>3 DEF Grows
  <2>2. ASSUME NEW r \in Request, h.text = corpus.text, UNCHANGED world,
               h.changed = req[r].version.changed
        PROVE  h.changed <= Latest' /\ AtLeast(h.text, corpus'.marked)
    <3>1. corpus' = corpus
      BY <2>2 DEF world
    <3>2. Latest' = Latest
      BY <3>1 DEF Latest
    <3> QED
      BY <2>2, <3>1, <3>2 DEF ServedInv, ServedOK, MarkInv
  <2> QED
    BY <2>1, <2>2, HeldMoves
<1> QED
  BY <1>1 DEF HeldInv, AtLeast

\* A request that has arrived stays behind the marks, and its version behind the last
\* change.
LEMMA StartKeeps ==
    ASSUME IInv, TypeInv, ServedInv, Grows, [Next]_vars, NEW r \in Request
    PROVE  /\ req'[r].pc # "idle" => AtLeast(corpus'.marked, req'[r].start.marked)
           /\ req'[r].version.changed <= Latest'
<1> DEFINE q == req[r]
           n == req'[r]
<1>1. Moves(q, n) \/ Pays(q, n)
  <2>1. RequestsMove
    BY StepMoves
  <2> QED
    BY <2>1 DEF RequestsMove, Payment, Moves
<1>2. ServedOK(q) /\ LocalTyped(q)
  BY DEF ServedInv, TypeInv
<1>3. /\ corpus'.marked \in [Source -> Version] /\ corpus.marked \in [Source -> Version]
      /\ q.start.marked \in [Source -> Version] /\ Latest \in Nat /\ Latest' \in Nat
  BY MarkTypes
<1>4. AtLeast(corpus'.marked, corpus.marked) /\ Latest <= Latest'
  BY DEF Grows
<1>5. q.version.changed \in Nat
  BY <1>2 DEF LocalTyped, CacheVersion, NoVersion
<1>6. NoVersion.changed = 0
  BY DEF NoVersion
<1>7. \A d : CorpusVersion(d).changed = Latest
  BY DEF CorpusVersion, Latest
<1> HIDE DEF q, n
<1>8. q.pc # "idle" => AtLeast(corpus'.marked, q.start.marked)
  BY <1>2, <1>3, <1>4, AtLeastTrans DEF ServedOK
<1>9. n.pc # "idle" => AtLeast(corpus'.marked, n.start.marked)
  <2>1. CASE Arrives(q, n)
    BY <1>4, <2>1 DEF Arrives
  <2>2. CASE n = q
    BY <1>8, <2>2
  <2>3. CASE q.pc # "idle" /\ n.start = q.start
    BY <1>8, <2>3
  <2>4. Arrives(q, n) \/ n = q \/ (q.pc # "idle" /\ n.start = q.start)
    BY <1>1 DEF Moves, Keeps, Pays, Ends, Hops, Dates, Retrieves, Generates, Dooms
  <2> QED
    BY <2>1, <2>2, <2>3, <2>4
<1>10. n.version.changed \in {q.version.changed, 0, Latest}
  <2>1. CASE n.version = [q.version EXCEPT !.day = day]
    <3>1. n.version.changed = q.version.changed
      BY <1>2, <2>1 DEF LocalTyped, CacheVersion, NoVersion
    <3> QED
      BY <3>1
  <2>2. CASE n.version \in {q.version, NoVersion, CorpusVersion(q.version.day)}
    BY <1>6, <1>7, <2>2
  <2>3. \/ n.version = [q.version EXCEPT !.day = day]
        \/ n.version \in {q.version, NoVersion, CorpusVersion(q.version.day)}
    BY <1>1 DEF Moves, Pays, Arrives, Ends, Hops, Dates, Retrieves, Generates, Dooms
  <2> QED
    BY <2>1, <2>2, <2>3
<1>11. q.version.changed <= Latest
  BY <1>2 DEF ServedOK
<1>12. n.version.changed <= Latest'
  BY <1>3, <1>4, <1>5, <1>10, <1>11
<1> QED
  BY <1>9, <1>12 DEF n

\* What a request holds or is answered with: retrieved since, or found under a version
\* that nothing older is held under.
LEMMA TextKeeps ==
    ASSUME IInv, TypeInv, ServedInv, [Next]_vars, NEW r \in Request
    PROVE  (req'[r].pc \in HasAnswer \/ req'[r].reply \in Cacheable)
              => AtLeast(req'[r].answer.text, req'[r].start.marked)
<1> DEFINE q == req[r]
           n == req'[r]
<1>1. Moves(q, n) \/ Pays(q, n)
  <2>1. RequestsMove
    BY StepMoves
  <2> QED
    BY <2>1 DEF RequestsMove, Payment, Moves
<1>2. ServedOK(q)
  BY DEF ServedInv
<1>3. /\ corpus.text \in [Source -> Version] /\ corpus.marked \in [Source -> Version]
      /\ q.start.marked \in [Source -> Version]
  BY MarkTypes
<1>4. q.pc # "idle" => AtLeast(corpus.text, q.start.marked)
  <2>1. AtLeast(corpus.text, corpus.marked)
    BY DEF ServedInv, MarkInv
  <2> QED
    BY <1>2, <1>3, <2>1, AtLeastTrans DEF ServedOK
<1>5. \A row \in cache : q.pc = "lookup" /\ row.version = q.version
                         => AtLeast(row.answer.text, q.start.marked)
  <2> SUFFICES ASSUME NEW row \in cache, q.pc = "lookup", row.version = q.version
               PROVE  AtLeast(row.answer.text, q.start.marked)
    OBVIOUS
  <2> DEFINE h == [changed |-> row.version.changed, text |-> row.answer.text]
  <2>1. h \in Held /\ h.changed = q.version.changed /\ h.text = row.answer.text
    BY DEF Held
  <2> HIDE DEF h
  <2> QED
    BY <1>2, <2>1 DEF ServedOK
<1> HIDE DEF q, n
<1> DEFINE Answers(x) == x.pc \in HasAnswer \/ x.reply \in Cacheable
<1>6. Answers(q) => AtLeast(q.answer.text, q.start.marked)
  BY <1>2 DEF ServedOK
<1>7. Answers(n) => AtLeast(n.answer.text, n.start.marked)
  <2>1. CASE n = q
    BY <1>6, <2>1
  <2>2. CASE Arrives(q, n)
    BY <2>2 DEF Arrives, HasAnswer
  <2>3. CASE Keeps(q, n) /\ Retrieves(q, n)
    BY <1>4, <2>3 DEF Keeps, Retrieves
  <2>4. CASE Keeps(q, n) /\ (n.pc \in HasAnswer => q.pc \in HasAnswer)
             /\ n.answer.text = q.answer.text
    BY <1>6, <2>4 DEF Keeps
  <2>5. CASE Ends(q, n)
    <3>1. n.start = q.start /\ n.pc \notin HasAnswer
      BY <2>5 DEF Ends, HasAnswer
    <3>2. CASE n.reply \notin Cacheable
      BY <3>1, <3>2
    <3>3. CASE q.pc \in Verified \cup {"verify"} /\ n.answer = q.answer
      BY <1>6, <3>1, <3>3 DEF Verified, HasAnswer
    <3>4. CASE q.pc = "lookup" /\ \E row \in cache : row.version = q.version
                                                  /\ n.answer = row.answer
      BY <1>5, <3>1, <3>4
    <3> QED
      BY <2>5, <3>2, <3>3, <3>4 DEF Ends
  <2>6. \/ n = q \/ Arrives(q, n) \/ Ends(q, n)
        \/ Keeps(q, n) /\ Retrieves(q, n)
        \/ Keeps(q, n) /\ (n.pc \in HasAnswer => q.pc \in HasAnswer)
           /\ n.answer.text = q.answer.text
    BY <1>1 DEF Moves, Pays, Hops, Dates, Generates, Dooms, HasAnswer
  <2> QED
    BY <2>1, <2>2, <2>3, <2>4, <2>5, <2>6
<1> QED
  BY <1>7 DEF n

\* What a request may find: at the moment it reads its version nothing older than the
\* marks is held under that version, and nothing older comes to be held later.
LEMMA FindKeeps ==
    ASSUME IInv, TypeInv, ServedInv, [Next]_vars, NEW r \in Request, req'[r].pc = "lookup",
           NEW h \in Held', h.changed = req'[r].version.changed
    PROVE  AtLeast(h.text, req'[r].start.marked)
<1> DEFINE q == req[r]
           n == req'[r]
<1>1. Moves(q, n) \/ Pays(q, n)
  <2>1. RequestsMove
    BY StepMoves
  <2> QED
    BY <2>1 DEF RequestsMove, Payment, Moves
<1>2. ServedOK(q)
  BY DEF ServedInv
<1>3. /\ corpus.text \in [Source -> Version] /\ corpus.marked \in [Source -> Version]
      /\ q.start.marked \in [Source -> Version]
  BY MarkTypes
<1>4. n.pc = "lookup" /\ h.changed = n.version.changed
  OBVIOUS
<1>5. \A d : CorpusVersion(d).changed = Latest
  BY DEF CorpusVersion, Latest
<1> HIDE DEF q, n
<1>6. /\ n.start = q.start /\ q.pc # "idle"
      /\ \/ n = q
         \/ n.version.changed = Latest
  BY <1>1, <1>4, <1>5
     DEF Moves, Keeps, Pays, Arrives, Ends, Hops, Dates, Retrieves, Generates, Dooms
<1>7. AtLeast(corpus.marked, q.start.marked)
  BY <1>2, <1>6 DEF ServedOK
<1>8. CASE h \in Held
  <2>1. CASE n = q
    <3>1. AtLeast(h.text, q.start.marked)
      BY <1>2, <1>4, <1>8, <2>1 DEF ServedOK
    <3> QED
      BY <1>6, <3>1 DEF n
  <2>2. CASE n.version.changed = Latest
    <3>1. AtLeast(h.text, corpus.marked) /\ h.text \in [Source -> Version]
      BY <1>4, <1>8, <2>2, HeldType DEF ServedInv, HeldInv
    <3>2. AtLeast(h.text, q.start.marked)
      BY <1>3, <1>7, <3>1, AtLeastTrans
    <3> QED
      BY <1>6, <3>2 DEF n
  <2> QED
    BY <1>6, <2>1, <2>2 DEF n
<1>9. CASE h.text = corpus.text
  <2>1. AtLeast(corpus.text, corpus.marked)
    BY DEF ServedInv, MarkInv
  <2>2. AtLeast(corpus.text, q.start.marked)
    BY <1>3, <1>7, <2>1, AtLeastTrans
  <2> QED
    BY <1>6, <1>9, <2>2 DEF n
<1> QED
  BY <1>8, <1>9, HeldMoves

LEMMA ServedInvNext ==
    ASSUME RefreshJobs <= 1, IInv, TypeInv, ServedInv, [Next]_vars
    PROVE  ServedInv'
<1>1. MarkInv' /\ Grows
  BY WorldMarks DEF ServedInv
<1>2. HeldInv'
  BY <1>1, HeldKeeps
<1>3. ASSUME NEW r \in Request
      PROVE  /\ req'[r].pc # "idle" => AtLeast(corpus'.marked, req'[r].start.marked)
             /\ req'[r].version.changed <= Latest'
             /\ (req'[r].pc \in HasAnswer \/ req'[r].reply \in Cacheable)
                   => AtLeast(req'[r].answer.text, req'[r].start.marked)
             /\ req'[r].pc = "lookup" => \A h \in Held' : h.changed = req'[r].version.changed
                                             => AtLeast(h.text, req'[r].start.marked)
  BY <1>1, StartKeeps, TextKeeps, FindKeeps
<1>4. \A r \in Request : ServedOK(req[r])'
  BY <1>3 DEF ServedOK, AtLeast
<1> QED
  BY <1>1, <1>2, <1>4 DEF ServedInv

LEMMA ServedInvInit == Init => ServedInv
<1> SUFFICES ASSUME Init PROVE ServedInv
  OBVIOUS
<1>1. IInv
  BY InitHolds
<1>2. Latest \in Nat
  BY <1>1, LatestIs DEF IInv, Types
<1>3. \A r \in Request : /\ req[r].pc = "idle" /\ req[r].version.changed = 0
                         /\ req[r].reply = "none"
  BY DEF Init, Blank, NoVersion
<1>4. Held = {}
  BY <1>3 DEF Init, Held, HasAnswer
<1>5. MarkInv
  BY DEF Init, MarkInv, AtLeast
<1>6. HeldInv
  BY <1>4 DEF HeldInv
<1>7. \A r \in Request : ServedOK(req[r])
  BY <1>2, <1>3 DEF ServedOK, HasAnswer, Cacheable
<1> QED
  BY <1>5, <1>6, <1>7 DEF ServedInv

\* No request is answered from before the last re-index that was committed when it arrived
\* (cache.py: corpus_version, lookup, store), when sources are re-indexed one at a time.
THEOREM ServedCorrect ==
    ASSUME RefreshJobs <= 1
    PROVE  Spec => []ReindexIsServed
<1>1. ServedInv => ReindexIsServed
  <2> SUFFICES ASSUME ServedInv, NEW r \in Answered, NEW s \in Source
               PROVE  req[r].answer.text[s] >= req[r].start.marked[s]
    BY DEF ReindexIsServed
  <2>1. AtLeast(req[r].answer.text, req[r].start.marked)
    BY DEF ServedInv, ServedOK, Answered
  <2> QED
    BY <2>1 DEF AtLeast
<1>2. IInv /\ TypeInv /\ ServedInv /\ [Next]_vars => ServedInv'
  BY ServedInvNext
<1>3. Spec => []TypeInv
  BY TypeInvHolds
<1>4. Spec => []ServedInv
  BY <1>2, <1>3, ServedInvInit, IInvHolds, PTL DEF Spec
<1> QED
  BY <1>1, <1>4, PTL
=============================================================================
