------------------------- MODULE AnswerGuardsProofs -------------------------
(***************************************************************************)
(* What AnswerGuardsProperties promises a reader, for every corpus, every  *)
(* set of annotations and whatever texts the model generates.  The work is *)
(* in the step that renders an answer (Answer): what it shows, says and    *)
(* links is computed there from the passages and the text, and these are   *)
(* kept until the next question.                                           *)
(***************************************************************************)
EXTENDS AnswerGuardsProperties, SequenceTheorems, FiniteSetTheorems, WellFoundedInduction, TLAPS

-----------------------------------------------------------------------------
(* Sets of numbers.                                                        *)

LEMMA NatMin ==
    ASSUME NEW S \in SUBSET Nat, S # {}
    PROVE  Min(S) \in S /\ \A k \in S : Min(S) <= k
<1> DEFINE R == OpToRel(<, Nat)
<1>1. IsWellFoundedOn(R, Nat)
  BY NatLessThanWellFounded
<1>2. \A x, y \in Nat : y < x => <<y, x>> \in R
  BY DEF OpToRel
<1> HIDE DEF R
<1>3. PICK m \in S : \A y \in S : ~ (<<y, m>> \in R)
  BY <1>1, WFMin
<1>4. \A k \in S : m <= k
  <2> TAKE k \in S
  <2>1. m \in Nat /\ k \in Nat /\ ~(k < m)
    BY <1>2, <1>3
  <2> QED
    BY <2>1
<1> QED
  BY <1>4 DEF Min

-----------------------------------------------------------------------------
(* The texts.                                                              *)

LEMMA NormalizedType ==
    ASSUME NEW s \in Seq(Sentence)
    PROVE  /\ Normalized(s) \in Seq(Sentence) /\ DOMAIN Normalized(s) = DOMAIN s
           /\ \A i \in DOMAIN s : /\ ~Normalized(s)[i].native
                                  /\ Normalized(s)[i].cites = s[i].cites
                                  /\ Normalized(s)[i].marks = s[i].marks
<1>1. s \in [1 .. Len(s) -> Sentence] /\ Len(s) \in Nat
  OBVIOUS
<1>2. Normalized(s) = [i \in 1 .. Len(s) |-> [s[i] EXCEPT !.native = FALSE]]
  BY <1>1 DEF Normalized
<1>3. \A i \in 1 .. Len(s) : s[i] \in Sentence
  BY <1>1
<1>4. \A i \in 1 .. Len(s) : [s[i] EXCEPT !.native = FALSE] \in Sentence
  BY <1>3 DEF Sentence
<1>5. Normalized(s) \in [1 .. Len(s) -> Sentence]
  BY <1>2, <1>4
<1>6. Normalized(s) \in Seq(Sentence)
  BY <1>1, <1>5, SeqDef
<1>7. \A i \in DOMAIN s : /\ ~Normalized(s)[i].native
                          /\ Normalized(s)[i].cites = s[i].cites
                          /\ Normalized(s)[i].marks = s[i].marks
  BY <1>1, <1>2, <1>3 DEF Sentence
<1> QED
  BY <1>1, <1>5, <1>6, <1>7

LEMMA StrippedType ==
    ASSUME NEW text \in Text
    PROVE  /\ Stripped(text) \in Seq(Sentence)
           /\ \A i \in DOMAIN Stripped(text) : ~Stripped(text)[i].native
<1>1. text.sentences \in Seq(Sentence) /\ text.heading \in 0 .. Len(text.sentences)
  BY ConstantsAssumption
<1>2. SubSeq(text.sentences, 1, text.heading) \in Seq(Sentence)
  BY <1>1
<1> QED
  BY <1>2, NormalizedType DEF Stripped

LEMMA RedirectType == Redirect \in Sentence /\ ~Redirect.native /\ Redirect.cites = {}
                      /\ Redirect.marks = {"redirect"}
  BY DEF Redirect, Sentence

\* The pointer at the DSO adds no citation and no claim.
LEMMA RedirectedKeeps ==
    ASSUME NEW s \in Seq(Sentence), \A i \in DOMAIN s : ~s[i].native
    PROVE  /\ Redirected(s) \in Seq(Sentence)
           /\ \A i \in DOMAIN Redirected(s) : ~Redirected(s)[i].native
           /\ CitedIndices(Redirected(s)) = CitedIndices(s)
           /\ Marks(Redirected(s)) \subseteq Marks(s) \cup {"redirect"}
<1>1. CASE Redirected(s) = s
  BY <1>1
<1>2. CASE Redirected(s) = Append(s, Redirect)
  <2> DEFINE t == Append(s, Redirect)
             n == Len(s)
  <2>1. /\ t \in Seq(Sentence) /\ n \in Nat /\ DOMAIN s = 1 .. n /\ DOMAIN t = 1 .. (n + 1)
        /\ \A i \in 1 .. n : t[i] = s[i]
        /\ t[n + 1] = Redirect
    BY RedirectType
  <2> HIDE DEF t, n
  <2>2. \A i \in DOMAIN t : i \in DOMAIN s \/ i = n + 1
    BY <2>1
  <2>3. \A i \in DOMAIN t : ~t[i].native
    BY <2>1, <2>2, RedirectType
  <2>4. CitedIndices(t) = CitedIndices(s)
    BY <2>1, <2>2, RedirectType DEF CitedIndices
  <2>5. Marks(t) \subseteq Marks(s) \cup {"redirect"}
    BY <2>1, <2>2, RedirectType DEF Marks
  <2> QED
    BY <1>2, <2>1, <2>3, <2>4, <2>5 DEF t
<1> QED
  BY <1>1, <1>2 DEF Redirected

-----------------------------------------------------------------------------
(* The invariant.                                                          *)

RowType == [id : Chunk, note : Note]
ItemType == [said : Sentence, inserted : SUBSET Provenance]

Types ==
    /\ today \in Day /\ stored \in [Url -> Note] /\ edits \in 0 .. MaxEdits
    /\ DOMAIN asked = {"pc", "advice", "rows", "today", "prompt", "response"}
    /\ asked.pc \in {"idle", "retrieved", "generate", "done"}
    /\ asked.advice \in BOOLEAN
    /\ asked.rows \in Seq(RowType)
    /\ asked.today \in Day

\* What a note that was validated by day d may still say.
NoteOK(n, d) ==
    /\ n.status = "scheduled" => n.date # 0
    /\ n.status = "in_force" => n.date <= d

\* The passages are of one snapshot, no older than today is for the prompt.
RowsOK(rows, d) ==
    /\ \A i \in DOMAIN rows : NoteOK(rows[i].note, d)
    /\ \A i, j \in DOMAIN rows :
          UrlOf[rows[i].id] = UrlOf[rows[j].id] => rows[i].note = rows[j].note

\* What is promised of a response r to the passages rows with a prompt of day d.
LinesOK(lines, d) ==
    \A line \in lines :
       /\ line.status \in RuleStatus \cup {"null"} /\ line.date \in Nat
       /\ line.claim = NoticeClaim(line.status, line.date)
       /\ line.status = "in_force" => line.date <= d
       /\ line.status = "scheduled" => line.date # 0

ResponseOK(r, rows, advice, d) ==
    /\ r.type \in {"none", "ANSWER", "REFUSAL_ADVICE", "BLOCKED_UNVERIFIED"}
    /\ r.text \in Seq(ItemType)
    /\ DOMAIN r.notices \subseteq DOMAIN rows
    /\ r.urls \subseteq Url
    /\ LinesOK(r.lines, d)

\* ... and of one that is sent.
Shown(r, rows) ==
    LET shown == [i \in DOMAIN r.text |-> r.text[i].said]
    IN  /\ \A i \in DOMAIN shown : ~shown[i].native
        /\ CitedIndices(shown) \subseteq DOMAIN rows
        /\ r.type = "ANSWER" => CitedIndices(shown) # {}
        /\ Marks(shown) \cap {"authority", "leak"} = {}

Told(r, rows) ==
    \A row \in Range(rows) : Annotated(row.note) =>
        /\ \E n \in Range(r.notices) : n.url = UrlOf[row.id] /\ n.note = row.note
        /\ \E line \in r.lines :
              /\ <<line.status, line.date>> = <<row.note.status, row.note.date>>
              /\ IF Contested(row.note.status) /\ row.note.source # "null"
                 THEN row.note.source \in line.links
                 ELSE UrlOf[row.id] \in line.links \/ Contested(row.note.status)

\* The figures of rules in force, the passages of other rules that give a figure
\* of a sentence, and those whose date the sentence does not state.
Current(rows) ==
    UNION {FiguresOf[r.id] : r \in {x \in Range(rows) : x.note.status \in {"null", "in_force"}}}
Doubtful(rows, s) == {r \in Range(rows) : (FiguresOf[r.id] \cap s.figures) \ Current(rows) # {}}
Undated(rows, s) == {r \in Doubtful(rows, s) : r.note.date = 0 \/ r.note.date \notin s.dates}

Qualifies(r, rows) ==
    \A i \in DOMAIN r.text :
        Undated(rows, r.text[i].said) # {} =>
            /\ r.text[i].said.figures \cap Current(rows) # {}
            /\ \E row \in Undated(rows, r.text[i].said) :
                  r.text[i].inserted = {[status |-> row.note.status, date |-> row.note.date]}

SentOK(r, rows) == Shown(r, rows) /\ Told(r, rows) /\ Qualifies(r, rows)

Dated == IF asked.pc = "retrieved" THEN today ELSE asked.today

IInv ==
    /\ Types
    /\ asked.today <= today
    /\ \A u \in Url : NoteOK(stored[u], today)
    /\ RowsOK(asked.rows, Dated)
    /\ asked.prompt = IF asked.pc \in {"generate", "done"} THEN PromptNotes(asked.rows)
                      ELSE << >>
    /\ ResponseOK(asked.response, asked.rows, asked.advice, asked.today)
    /\ asked.pc # "done" => asked.response = Nothing
    /\ Sent => SentOK(asked.response, asked.rows)

LEMMA DayType == (\A d \in Day : d \in Nat) /\ 1 \in Day /\ MaxDay \in Nat
  BY ConstantsAssumption DEF Day

LEMMA NoteOKLater ==
    ASSUME NEW n \in Note, NEW d \in Nat, NEW e \in Nat, d <= e, NoteOK(n, d)
    PROVE  NoteOK(n, e)
<1>1. n.date \in Nat
  BY DEF Note, Date
<1> QED
  BY <1>1 DEF NoteOK

\* Nothing satisfies what is promised of a response.
LEMMA NothingOK ==
    ASSUME NEW rows \in Seq(RowType), NEW advice, NEW d
    PROVE  /\ ResponseOK(Nothing, rows, advice, d)
           /\ Nothing.type \notin {"ANSWER", "REFUSAL_ADVICE"}
<1>1. << >> \in Seq(ItemType)
  BY EmptySeq
<1>2. DOMAIN << >> = {}
  OBVIOUS
<1> QED
  BY <1>1, <1>2 DEF Nothing, ResponseOK, LinesOK

-----------------------------------------------------------------------------
(* The passages.                                                           *)

LEMMA NumberedType ==
    ASSUME NEW n \in Nat, NEW S, NEW s \in Numbered(n, S)
    PROVE  s \in Seq(S)
  BY SeqDef DEF Numbered

LEMMA FusedType ==
    ASSUME NEW top \in Fused PROVE top \in Seq(Chunk)
<1>1. TopK \in Nat /\ Cardinality(Chunk) \in Nat
  BY ConstantsAssumption, FS_CardinalityType
<1>2. Min({TopK, Cardinality(Chunk)}) \in Nat
  BY <1>1, NatMin
<1> QED
  BY <1>2, NumberedType DEF Fused

LEMMA CompanionsType ==
    ASSUME NEW top \in Fused, NEW more \in CompanionsOf(top) PROVE more \in Seq(Chunk)
<1> DEFINE dates == {stored[UrlOf[top[i]]].date : i \in DOMAIN top} \ {0}
           dated == {c \in Chunk \ Range(top) : stored[UrlOf[c]].date \in dates}
<1>1. more \in Numbered(Min({Companions, Cardinality(dated)}), dated)
  BY DEF CompanionsOf
<1>2. dated \subseteq Chunk
  OBVIOUS
<1> HIDE DEF dated
<1>3. Companions \in Nat /\ Cardinality(dated) \in Nat
  BY <1>2, ConstantsAssumption, FS_Subset, FS_CardinalityType
<1>4. Min({Companions, Cardinality(dated)}) \in Nat
  BY <1>3, NatMin
<1>5. more \in Seq(dated)
  BY <1>1, <1>4, NumberedType
<1> QED
  BY <1>2, <1>5, SeqMonotonic

LEMMA RowsType ==
    ASSUME Types, NEW cs \in Seq(Chunk), \A u \in Url : NoteOK(stored[u], today)
    PROVE  Rows(cs) \in Seq(RowType) /\ RowsOK(Rows(cs), today)
<1>1. cs \in [1 .. Len(cs) -> Chunk] /\ Len(cs) \in Nat
  OBVIOUS
<1>2. \A i \in 1 .. Len(cs) : cs[i] \in Chunk /\ UrlOf[cs[i]] \in Url
  BY <1>1, ConstantsAssumption
<1>3. Rows(cs) = [i \in 1 .. Len(cs) |-> [id |-> cs[i], note |-> stored[UrlOf[cs[i]]]]]
  BY <1>1 DEF Rows
<1>4. \A i \in 1 .. Len(cs) : [id |-> cs[i], note |-> stored[UrlOf[cs[i]]]] \in RowType
  BY <1>2 DEF Types, RowType
<1>5. Rows(cs) \in [1 .. Len(cs) -> RowType]
  BY <1>3, <1>4
<1>6. Rows(cs) \in Seq(RowType)
  BY <1>1, <1>5, SeqDef
<1>7. RowsOK(Rows(cs), today)
  BY <1>2, <1>3 DEF RowsOK
<1> QED
  BY <1>6, <1>7

-----------------------------------------------------------------------------
(* The temporal guard.                                                     *)

LEMMA RowsAt ==
    ASSUME NEW rows \in Seq(RowType)
    PROVE  /\ \A i \in DOMAIN rows : rows[i] \in Range(rows) /\ rows[i].id \in Chunk
                                     /\ rows[i].note \in Note /\ i \in Nat
           /\ \A r \in Range(rows) : \E i \in DOMAIN rows : r = rows[i]
           /\ DOMAIN rows = 1 .. Len(rows) /\ Len(rows) \in Nat
<1>1. \A i \in DOMAIN rows : rows[i] \in RowType /\ i \in Nat
  OBVIOUS
<1> QED
  BY <1>1 DEF Range, RowType

LEMMA CurrentIsCurrent ==
    ASSUME NEW rows \in Seq(RowType) PROVE CurrentFigures(rows) = Current(rows)
  BY RowsAt DEF CurrentFigures, Current, InForce

LEMMA DoubtfulIsNotInForce ==
    ASSUME NEW rows \in Seq(RowType), NEW s, NEW r \in Doubtful(rows, s)
    PROVE  ~InForce(r.note.status)
<1>1. PICK f \in FiguresOf[r.id] : f \notin Current(rows)
  BY DEF Doubtful
<1> QED
  BY <1>1 DEF Doubtful, Current, InForce

\* The guard fires for exactly the passages whose date is not stated.
LEMMA UnstatedIsUndated ==
    ASSUME NEW rows \in Seq(RowType), NEW s
    PROVE  /\ \A r \in Undated(rows, s) :
                 [status |-> r.note.status, date |-> r.note.date] \in Unstated(rows, s)
           /\ \A p \in Unstated(rows, s) : \E r \in Undated(rows, s) :
                 p = [status |-> r.note.status, date |-> r.note.date]
<1>1. ASSUME NEW r \in Undated(rows, s)
      PROVE  [status |-> r.note.status, date |-> r.note.date] \in Unstated(rows, s)
  <2>1. r \in Doubtful(rows, s) /\ (r.note.date = 0 \/ r.note.date \notin s.dates)
    BY DEF Undated
  <2>2. PICK f \in FiguresOf[r.id] \cap s.figures : f \notin Current(rows)
    BY <2>1 DEF Doubtful
  <2>3. PICK i \in DOMAIN rows : r = rows[i]
    BY <2>1, RowsAt DEF Doubtful
  <2>4. ~InForce(r.note.status)
    BY <2>1, DoubtfulIsNotInForce
  <2>5. [status |-> r.note.status, date |-> r.note.date] \in Provenances(rows, f)
    BY <2>2, <2>3, <2>4, CurrentIsCurrent DEF Provenances
  <2> QED
    BY <2>1, <2>2, <2>5 DEF Unstated
<1>2. ASSUME NEW p \in Unstated(rows, s)
      PROVE  \E r \in Undated(rows, s) : p = [status |-> r.note.status, date |-> r.note.date]
  <2>1. PICK f \in s.figures : p \in Provenances(rows, f)
    BY DEF Unstated
  <2>2. PICK i \in DOMAIN rows : /\ f \notin Current(rows) /\ f \in FiguresOf[rows[i].id]
                                 /\ p = [status |-> rows[i].note.status, date |-> rows[i].note.date]
    BY <2>1, CurrentIsCurrent DEF Provenances
  <2>3. rows[i] \in Doubtful(rows, s)
    BY <2>1, <2>2, RowsAt DEF Doubtful
  <2>4. p.date = 0 \/ p.date \notin s.dates
    BY DEF Unstated
  <2> QED
    BY <2>2, <2>3, <2>4 DEF Undated
<1> QED
  BY <1>1, <1>2

LEMMA UnstatedType ==
    ASSUME NEW rows \in Seq(RowType), NEW s, NEW p \in Unstated(rows, s)
    PROVE  p \in Provenance
<1>1. PICK r \in Undated(rows, s) : p = [status |-> r.note.status, date |-> r.note.date]
  BY UnstatedIsUndated
<1>2. ~InForce(r.note.status) /\ r.note \in Note
  BY DoubtfulIsNotInForce, RowsAt DEF Undated, Doubtful
<1> QED
  BY <1>1, <1>2 DEF InForce, Provenance, Note

\* The rendered text: every sentence as it was, and after those that fire a
\* sentence that names one of their rules.
LEMMA QualifiedType ==
    ASSUME NEW rows \in Seq(RowType), NEW s \in Seq(Sentence), NEW rendered \in Qualified(rows, s)
    PROVE  /\ rendered \in Seq(ItemType)
           /\ DOMAIN rendered = DOMAIN s
           /\ \A i \in DOMAIN s :
                 /\ rendered[i].said = s[i]
                 /\ Unstated(rows, s[i]) # {} =>
                       \E p \in Unstated(rows, s[i]) : rendered[i].inserted = {p}
<1> DEFINE firing == {i \in DOMAIN s : Unstated(rows, s[i]) # {}}
           rules == {[status |-> rows[j].note.status, date |-> rows[j].note.date] : j \in DOMAIN rows}
           item(c, i) == [said |-> s[i], inserted |-> IF i \in firing THEN {c[i]} ELSE {}]
<1>1. PICK c \in [firing -> rules] : /\ \A i \in firing : c[i] \in Foremost(Unstated(rows, s[i]))
                                     /\ rendered = [i \in DOMAIN s |-> item(c, i)]
  BY DEF Qualified
<1>2. \A i \in firing : c[i] \in Unstated(rows, s[i])
  BY <1>1 DEF Foremost
<1>3. DOMAIN s = 1 .. Len(s) /\ Len(s) \in Nat /\ \A i \in DOMAIN s : s[i] \in Sentence
  OBVIOUS
<1>4. \A i \in firing : {c[i]} \in SUBSET Provenance
  BY <1>2, UnstatedType
<1>5. \A i \in DOMAIN s : item(c, i) \in ItemType
  BY <1>3, <1>4 DEF ItemType
<1>6. rendered \in [1 .. Len(s) -> ItemType]
  BY <1>1, <1>3, <1>5
<1>7. rendered \in Seq(ItemType)
  BY <1>3, <1>6, SeqDef
<1>8. ASSUME NEW i \in DOMAIN s
      PROVE  /\ rendered[i].said = s[i]
             /\ Unstated(rows, s[i]) # {} =>
                   \E p \in Unstated(rows, s[i]) : rendered[i].inserted = {p}
  <2>1. rendered[i] = item(c, i)
    BY <1>1
  <2>2. i \in firing => rendered[i].inserted = {c[i]}
    BY <2>1
  <2> QED
    BY <1>2, <2>1, <2>2
<1> QED
  BY <1>3, <1>6, <1>7, <1>8

LEMMA QualifiedTells ==
    ASSUME NEW rows \in Seq(RowType), NEW s \in Seq(Sentence), NEW rendered \in Qualified(rows, s),
           Asserted(rows, s) = {}, NEW r, r.text = rendered
    PROVE  Qualifies(r, rows)
<1> SUFFICES ASSUME NEW i \in DOMAIN s, Undated(rows, s[i]) # {}
             PROVE  /\ s[i].figures \cap Current(rows) # {}
                    /\ \E row \in Undated(rows, s[i]) :
                          rendered[i].inserted = {[status |-> row.note.status, date |-> row.note.date]}
  BY QualifiedType DEF Qualifies
<1>1. Unstated(rows, s[i]) # {}
  BY UnstatedIsUndated
<1>2. s[i].figures \cap Current(rows) # {}
  BY <1>1, CurrentIsCurrent DEF Asserted
<1>3. PICK p \in Unstated(rows, s[i]) : rendered[i].inserted = {p}
  <2>1. \A k \in DOMAIN s : Unstated(rows, s[k]) # {} =>
           \E p \in Unstated(rows, s[k]) : rendered[k].inserted = {p}
    BY QualifiedType
  <2> QED
    BY <1>1, <2>1
<1> QED
  BY <1>2, <1>3, UnstatedIsUndated

-----------------------------------------------------------------------------
(* The three checks.                                                       *)

LEMMA VerifiedShows ==
    ASSUME NEW rows \in Seq(RowType), NEW text \in Text, NEW advice \in BOOLEAN,
           asked.advice = advice,
           BlockReason(Verified(text), Len(rows), advice) = "none",
           NEW rendered \in Qualified(rows, Redirected(Stripped(text))), NEW r, r.text = rendered,
           r.type = IF advice THEN "REFUSAL_ADVICE" ELSE "ANSWER"
    PROVE  Shown(r, rows)
<1> DEFINE s == Redirected(Stripped(text))
           shown == [i \in DOMAIN rendered |-> rendered[i].said]
<1>1. /\ s \in Seq(Sentence) /\ \A i \in DOMAIN s : ~s[i].native
      /\ CitedIndices(s) = CitedIndices(Verified(text))
      /\ Marks(s) \subseteq Marks(Verified(text)) \cup {"redirect"}
  BY StrippedType, RedirectedKeeps DEF Verified
<1>2. shown = s
  <2>1. DOMAIN rendered = DOMAIN s /\ \A i \in DOMAIN s : rendered[i].said = s[i]
    BY <1>1, QualifiedType
  <2>2. s = [i \in DOMAIN s |-> s[i]]
    BY <1>1
  <2> HIDE DEF s
  <2> QED
    BY <2>1, <2>2
<1> HIDE DEF s
<1>3. /\ CitedIndices(Verified(text)) \subseteq 1 .. Len(rows)
      /\ CitedIndices(Verified(text)) # {} \/ advice
      /\ Marks(Verified(text)) \cap {"authority", "leak"} = {}
  BY DEF BlockReason
<1>4. DOMAIN rows = 1 .. Len(rows)
  BY RowsAt
<1> QED
  BY <1>1, <1>2, <1>3, <1>4 DEF Shown

-----------------------------------------------------------------------------
(* The notice.                                                             *)

\* Every annotated passage is spoken for by the first one of its source.
LEMMA FirstOfSource ==
    ASSUME NEW rows \in Seq(RowType), NEW d, RowsOK(rows, d), NEW cited,
           NEW r \in Range(rows), Annotated(r.note)
    PROVE  \E j \in Noticed(rows, cited) : /\ UrlOf[rows[j].id] = UrlOf[r.id]
                                           /\ rows[j].note = r.note
<1>1. PICK i \in DOMAIN rows : r = rows[i]
  BY RowsAt
<1> DEFINE same == {k \in DOMAIN rows : UrlOf[rows[k].id] = UrlOf[r.id]}
           j == Min(same)
<1>2. same \in SUBSET Nat /\ same # {}
  BY <1>1, RowsAt
<1>3. j \in same /\ \A k \in same : j <= k
  BY <1>2, NatMin
<1> HIDE DEF j
<1>4. rows[j].note = r.note
  BY <1>1, <1>3 DEF RowsOK
<1>5. \A k \in 1 .. (j - 1) : UrlOf[rows[k].id] # UrlOf[rows[j].id]
  <2> SUFFICES ASSUME NEW k \in 1 .. (j - 1), UrlOf[rows[k].id] = UrlOf[rows[j].id] PROVE FALSE
    OBVIOUS
  <2>1. j \in 1 .. Len(rows) /\ DOMAIN rows = 1 .. Len(rows) /\ Len(rows) \in Nat
    BY <1>3, RowsAt
  <2>2. k \in DOMAIN rows /\ ~(j <= k)
    BY <2>1
  <2> QED
    BY <1>3, <2>2
<1> QED
  BY <1>3, <1>4, <1>5 DEF Noticed

LEMMA NoticesAt ==
    ASSUME NEW rows \in Seq(RowType), NEW cited
    PROVE  /\ DOMAIN Notices(rows, cited) = Noticed(rows, cited)
           /\ Noticed(rows, cited) \subseteq DOMAIN rows
           /\ \A i \in Noticed(rows, cited) :
                 /\ Notices(rows, cited)[i].url = UrlOf[rows[i].id]
                 /\ Notices(rows, cited)[i].note = rows[i].note
  BY DEF Notices, Noticed

\* A line is about the date and the status of every notice of its group.
LEMMA LineOfGroup ==
    ASSUME NEW notices, DOMAIN notices \subseteq Nat, NEW i \in DOMAIN notices
    PROVE  LET group == {j \in DOMAIN notices : <<notices[j].note.date, notices[j].note.status>>
                                                = <<notices[i].note.date, notices[i].note.status>>}
               line == Line(notices, group)
           IN  /\ line \in Lines(notices)
               /\ line.status = notices[i].note.status /\ line.date = notices[i].note.date
               /\ line.claim = NoticeClaim(line.status, line.date)
               /\ IF Contested(line.status) /\ notices[i].note.source # "null"
                  THEN notices[i].note.source \in line.links
                  ELSE notices[i].url \in line.links \/ Contested(line.status)
<1> DEFINE group == {j \in DOMAIN notices : <<notices[j].note.date, notices[j].note.status>>
                                            = <<notices[i].note.date, notices[i].note.status>>}
           line == Line(notices, group)
           first == Min(group)
<1>1. group \in SUBSET Nat /\ i \in group
  OBVIOUS
<1>2. first \in group
  BY <1>1, NatMin
<1>3. /\ notices[first].note.date = notices[i].note.date
      /\ notices[first].note.status = notices[i].note.status
  BY <1>2
<1>4. line \in Lines(notices)
  BY DEF Lines
<1> HIDE DEF group
<1>5. /\ line.status = notices[first].note.status /\ line.date = notices[first].note.date
      /\ line.claim = NoticeClaim(notices[first].note.status, notices[first].note.date)
      /\ line.links = IF Contested(notices[first].note.status)
                         /\ {notices[j].note.source : j \in group} \ {"null"} # {}
                      THEN {notices[j].note.source : j \in group} \ {"null"}
                      ELSE {notices[j].url : j \in group}
  BY DEF Line
<1> HIDE DEF line, first
<1>6. IF Contested(line.status) /\ notices[i].note.source # "null"
      THEN notices[i].note.source \in line.links
      ELSE notices[i].url \in line.links \/ Contested(line.status)
  BY <1>1, <1>3, <1>5
<1> QED
  BY <1>3, <1>4, <1>5, <1>6 DEF group, line

LEMMA LinesAreOK ==
    ASSUME NEW rows \in Seq(RowType), NEW d, RowsOK(rows, d), NEW cited
    PROVE  LinesOK(Lines(Notices(rows, cited)), d)
<1> DEFINE notices == Notices(rows, cited)
<1> SUFFICES ASSUME NEW line \in Lines(notices)
             PROVE  /\ line.status \in RuleStatus \cup {"null"} /\ line.date \in Nat
                    /\ line.claim = NoticeClaim(line.status, line.date)
                    /\ line.status = "in_force" => line.date <= d
                    /\ line.status = "scheduled" => line.date # 0
  BY DEF LinesOK
<1>1. PICK i \in DOMAIN notices :
         line = Line(notices, {j \in DOMAIN notices :
                                  <<notices[j].note.date, notices[j].note.status>>
                                  = <<notices[i].note.date, notices[i].note.status>>})
  BY DEF Lines
<1>2. /\ DOMAIN notices \subseteq Nat /\ i \in DOMAIN rows /\ notices[i].note = rows[i].note
      /\ rows[i].note \in Note
  BY NoticesAt, RowsAt
<1> HIDE DEF notices
<1>3. /\ line.status = notices[i].note.status /\ line.date = notices[i].note.date
      /\ line.claim = NoticeClaim(line.status, line.date)
  BY <1>1, <1>2, LineOfGroup
<1>4. NoteOK(rows[i].note, d)
  BY <1>2 DEF RowsOK
<1> QED
  BY <1>2, <1>3, <1>4 DEF NoteOK, Note, Date

LEMMA NoticesTell ==
    ASSUME NEW rows \in Seq(RowType), NEW d, RowsOK(rows, d), NEW cited, NEW r,
           r.notices = Notices(rows, cited), r.lines = Lines(Notices(rows, cited))
    PROVE  Told(r, rows)
<1> DEFINE notices == Notices(rows, cited)
<1> SUFFICES ASSUME NEW row \in Range(rows), Annotated(row.note)
             PROVE  /\ \E n \in Range(notices) : n.url = UrlOf[row.id] /\ n.note = row.note
                    /\ \E line \in Lines(notices) :
                          /\ <<line.status, line.date>> = <<row.note.status, row.note.date>>
                          /\ IF Contested(row.note.status) /\ row.note.source # "null"
                             THEN row.note.source \in line.links
                             ELSE UrlOf[row.id] \in line.links \/ Contested(row.note.status)
  BY DEF Told
<1>1. PICK j \in Noticed(rows, cited) : UrlOf[rows[j].id] = UrlOf[row.id] /\ rows[j].note = row.note
  BY FirstOfSource
<1>2. /\ j \in DOMAIN notices /\ DOMAIN notices \subseteq Nat
      /\ notices[j].url = UrlOf[row.id] /\ notices[j].note = row.note
  BY <1>1, NoticesAt, RowsAt
<1> HIDE DEF notices
<1>3. \E n \in Range(notices) : n.url = UrlOf[row.id] /\ n.note = row.note
  BY <1>2 DEF Range
<1> DEFINE group == {k \in DOMAIN notices : <<notices[k].note.date, notices[k].note.status>>
                                            = <<notices[j].note.date, notices[j].note.status>>}
           line == Line(notices, group)
<1>4. /\ line \in Lines(notices)
      /\ line.status = notices[j].note.status /\ line.date = notices[j].note.date
      /\ IF Contested(line.status) /\ notices[j].note.source # "null"
         THEN notices[j].note.source \in line.links
         ELSE notices[j].url \in line.links \/ Contested(line.status)
  BY <1>2, LineOfGroup
<1> HIDE DEF line
<1>5. \E l \in Lines(notices) :
         /\ <<l.status, l.date>> = <<row.note.status, row.note.date>>
         /\ IF Contested(row.note.status) /\ row.note.source # "null"
            THEN row.note.source \in l.links
            ELSE UrlOf[row.id] \in l.links \/ Contested(row.note.status)
  BY <1>2, <1>4
<1> QED
  BY <1>3, <1>5

-----------------------------------------------------------------------------
(* The steps.                                                              *)

LEMMA AnnotateKeeps ==
    ASSUME IInv, NEW u \in Url, Annotate(u) PROVE IInv'
<1>1. PICK n \in Entry, day \in 1 .. today :
         /\ ValidRuleStatus(n, day)
         /\ \/ stored' = [stored EXCEPT ![u] = n]
            \/ stored' = [stored EXCEPT ![u] = [n EXCEPT !.evidences = "null"]]
  BY DEF Annotate
<1>2. n \in Note /\ day \in Nat /\ today \in Nat /\ day <= today
  BY <1>1, DayType, ConstantsAssumption DEF IInv, Types
<1>3. PICK m \in Note : /\ m.status = n.status /\ m.date = n.date
                        /\ stored' = [stored EXCEPT ![u] = m]
  <2>1. [n EXCEPT !.evidences = "null"] \in Note
    BY <1>2 DEF Note
  <2>2. /\ [n EXCEPT !.evidences = "null"].status = n.status
        /\ [n EXCEPT !.evidences = "null"].date = n.date
    BY <1>2 DEF Note
  <2> QED
    BY <1>1, <1>2, <2>1, <2>2
<1>4. NoteOK(m, today)
  <2>1. n.date \in Nat
    BY <1>2 DEF Note, Date
  <2>2. /\ n.status = "scheduled" => n.date > day
        /\ n.status = "in_force" => n.date <= day
    BY <1>1 DEF ValidRuleStatus
  <2> QED
    BY <1>2, <1>3, <2>1, <2>2 DEF NoteOK
<1>5. stored' \in [Url -> Note] /\ \A x \in Url : NoteOK(stored'[x], today)
  BY <1>3, <1>4 DEF IInv, Types
<1>6. asked' = asked /\ today' = today /\ edits' \in 0 .. MaxEdits
  BY ConstantsAssumption DEF Annotate, IInv, Types
<1>7. Types' /\ (\A x \in Url : NoteOK(stored[x], today))'
  BY <1>5, <1>6 DEF IInv, Types, NoteOK
<1> QED
  BY <1>6, <1>7 DEF IInv, Dated, Sent, RowsOK, NoteOK, ResponseOK, LinesOK, SentOK

LEMMA MidnightKeeps ==
    ASSUME IInv, Midnight PROVE IInv'
<1>1. /\ today \in Nat /\ today' \in Day /\ today' = today + 1 /\ UNCHANGED <<stored, edits, asked>>
      /\ asked.today \in Nat /\ asked.today <= today
  BY ConstantsAssumption DEF Midnight, IInv, Types, Day
<1>2. ASSUME NEW u \in Url PROVE NoteOK(stored[u], today + 1)
  BY <1>1, NoteOKLater DEF IInv, Types
<1>3. RowsOK(asked.rows, Dated)'
  <2>1. RowsOK(asked.rows, Dated) /\ asked.rows \in Seq(RowType)
    BY DEF IInv, Types
  <2>2. Dated \in Nat /\ Dated' \in Nat /\ Dated <= Dated'
    BY <1>1 DEF Dated
  <2>3. \A i \in DOMAIN asked.rows : NoteOK(asked.rows[i].note, Dated')
    BY <2>1, <2>2, RowsAt, NoteOKLater DEF RowsOK
  <2>4. RowsOK(asked.rows, Dated')
    BY <2>1, <2>3 DEF RowsOK
  <2> QED
    BY <1>1, <2>4
<1>4. Types' /\ (asked.today <= today)' /\ (\A u \in Url : NoteOK(stored[u], today))'
  BY <1>1, <1>2 DEF IInv, Types
<1> QED
  BY <1>1, <1>3, <1>4 DEF IInv, Sent

LEMMA RetrieveKeeps ==
    ASSUME IInv, Retrieve PROVE IInv'
<1>1. PICK advice \in BOOLEAN, top \in Fused : \E more \in CompanionsOf(top) :
         asked' = [Idle EXCEPT !.pc = "retrieved", !.advice = advice, !.rows = Rows(top \o more)]
  BY DEF Retrieve
<1>2. PICK more \in CompanionsOf(top) :
         asked' = [Idle EXCEPT !.pc = "retrieved", !.advice = advice, !.rows = Rows(top \o more)]
  BY <1>1
<1>3. top \o more \in Seq(Chunk)
  BY FusedType, CompanionsType, ConcatProperties
<1>4. Rows(top \o more) \in Seq(RowType) /\ RowsOK(Rows(top \o more), today)
  BY <1>3, RowsType DEF IInv
<1>5. UNCHANGED world
  BY DEF Retrieve
<1>6. /\ asked'.pc = "retrieved" /\ asked'.advice = advice /\ asked'.rows = Rows(top \o more)
      /\ asked'.today = 1 /\ asked'.prompt = << >> /\ asked'.response = Nothing
      /\ DOMAIN asked' = {"pc", "advice", "rows", "today", "prompt", "response"}
  BY <1>2 DEF Idle
<1>7. today \in Nat /\ 1 <= today
  BY ConstantsAssumption DEF IInv, Types, Day
<1>8. Types'
  BY <1>4, <1>5, <1>6, DayType DEF IInv, Types, world
<1>9. RowsOK(asked.rows, Dated)'
  BY <1>4, <1>5, <1>6 DEF Dated, world, RowsOK, NoteOK
<1>10. ResponseOK(asked.response, asked.rows, asked.advice, asked.today)'
  BY <1>4, <1>6, NothingOK
<1>11. (\A u \in Url : NoteOK(stored[u], today))'
  BY <1>5 DEF IInv, world, NoteOK
<1> QED
  BY <1>5, <1>6, <1>7, <1>8, <1>9, <1>10, <1>11 DEF IInv, Sent, world

LEMMA PromptKeeps ==
    ASSUME IInv, Prompt PROVE IInv'
<1>1. /\ asked' = [asked EXCEPT !.pc = "generate", !.today = today,
                                !.prompt = PromptNotes(asked.rows)]
      /\ asked.pc = "retrieved" /\ UNCHANGED world
  BY DEF Prompt
<1>2. /\ asked'.pc = "generate" /\ asked'.advice = asked.advice /\ asked'.rows = asked.rows
      /\ asked'.today = today /\ asked'.prompt = PromptNotes(asked.rows)
      /\ asked'.response = asked.response /\ DOMAIN asked' = DOMAIN asked
  BY <1>1 DEF IInv, Types
<1>3. asked.response = Nothing /\ today \in Day /\ today \in Nat
  BY <1>1, DayType DEF IInv, Types
<1>4. Types'
  BY <1>1, <1>2, <1>3 DEF IInv, Types, world
<1>5. RowsOK(asked.rows, Dated)'
  BY <1>1, <1>2 DEF IInv, Dated, RowsOK, NoteOK
<1>6. ResponseOK(asked.response, asked.rows, asked.advice, asked.today)'
  BY <1>2, <1>3, NothingOK DEF IInv, Types
<1>7. (\A u \in Url : NoteOK(stored[u], today))' /\ today' = today
  BY <1>1 DEF IInv, world, NoteOK
<1> QED
  BY <1>2, <1>3, <1>4, <1>5, <1>6, <1>7 DEF IInv, Sent

\* A response that is right for the passages keeps the invariant.
LEMMA RespondKeeps ==
    ASSUME IInv, asked.pc = "generate", NEW r, Respond(r),
           ResponseOK(r, asked.rows, asked.advice, asked.today),
           r.type \in {"ANSWER", "REFUSAL_ADVICE"} => SentOK(r, asked.rows)
    PROVE  IInv'
<1>1. asked' = [asked EXCEPT !.pc = "done", !.response = r] /\ UNCHANGED world
  BY DEF Respond
<1>2. /\ asked'.pc = "done" /\ asked'.advice = asked.advice /\ asked'.rows = asked.rows
      /\ asked'.today = asked.today /\ asked'.prompt = asked.prompt
      /\ asked'.response = r /\ DOMAIN asked' = DOMAIN asked
  BY <1>1 DEF IInv, Types
<1>3. Types'
  BY <1>1, <1>2 DEF IInv, Types, world
<1>4. RowsOK(asked.rows, Dated)'
  BY <1>2 DEF IInv, Dated, RowsOK, NoteOK
<1>5. (\A u \in Url : NoteOK(stored[u], today))' /\ today' = today
  BY <1>1 DEF IInv, world, NoteOK
<1>6. ResponseOK(asked.response, asked.rows, asked.advice, asked.today)'
  BY <1>2
<1>7. (Sent => SentOK(asked.response, asked.rows))'
  BY <1>2 DEF Sent
<1> QED
  BY <1>2, <1>3, <1>4, <1>5, <1>6, <1>7 DEF IInv

LEMMA BlockedKeeps ==
    ASSUME IInv, NEW text \in Text, BlockUnverified(text) \/ BlockAsserted(text) PROVE IInv'
<1>1. CASE BlockUnverified(text)
  <2>1. PICK reason :
           Respond([Nothing EXCEPT !.type = "BLOCKED_UNVERIFIED", !.reason = reason])
    BY <1>1 DEF BlockUnverified
  <2> DEFINE r == [Nothing EXCEPT !.type = "BLOCKED_UNVERIFIED", !.reason = reason]
  <2>2. /\ r.type = "BLOCKED_UNVERIFIED" /\ r.text = << >> /\ r.notices = << >>
        /\ r.lines = {} /\ r.urls = {}
    BY DEF Nothing
  <2> HIDE DEF r
  <2>3. ResponseOK(r, asked.rows, asked.advice, asked.today)
    BY <2>2, EmptySeq DEF ResponseOK, LinesOK
  <2>4. asked.pc = "generate" /\ Respond(r)
    BY <1>1, <2>1 DEF BlockUnverified, r
  <2> QED
    BY <2>2, <2>3, <2>4, RespondKeeps
<1>2. CASE BlockAsserted(text)
  <2> DEFINE s == Redirected(Stripped(text))
             r == [Nothing EXCEPT !.type = "BLOCKED_UNVERIFIED",
                                  !.reason = "answer_states_not_in_force_rule_as_current",
                                  !.urls = BlockedUrls(asked.rows, s), !.says = BlockedClaim]
  <2>1. Respond(r) /\ asked.pc = "generate"
    BY <1>2 DEF BlockAsserted, Passes
  <2>2. /\ r.type = "BLOCKED_UNVERIFIED" /\ r.text = << >> /\ r.notices = << >>
        /\ r.lines = {} /\ r.urls = BlockedUrls(asked.rows, s)
    BY DEF Nothing
  <2>3. \A j \in DOMAIN asked.rows : UrlOf[asked.rows[j].id] \in Url
    BY ConstantsAssumption, RowsAt DEF IInv, Types
  <2>4. BlockedUrls(asked.rows, s) \subseteq Url
    BY <2>3 DEF BlockedUrls
  <2> HIDE DEF r, s
  <2>5. ResponseOK(r, asked.rows, asked.advice, asked.today)
    BY <2>2, <2>4, EmptySeq DEF ResponseOK, LinesOK
  <2> QED
    BY <2>1, <2>2, <2>5, RespondKeeps
<1> QED
  BY <1>1, <1>2

LEMMA AnswerKeeps ==
    ASSUME IInv, NEW text \in Text, Answer(text) PROVE IInv'
<1> DEFINE rows == asked.rows
           s == Redirected(Stripped(text))
           cited == CitedIndices(s)
           type == IF asked.advice THEN "REFUSAL_ADVICE" ELSE "ANSWER"
           response(t) == [Nothing EXCEPT !.type = type, !.text = t,
                              !.notices = Notices(rows, cited), !.lines = Lines(Notices(rows, cited))]
<1>1. /\ asked.pc = "generate" /\ BlockReason(Verified(text), Len(rows), asked.advice) = "none"
      /\ Asserted(rows, s) = {}
      /\ \E rendered \in Qualified(rows, s) : Respond(response(rendered))
  BY DEF Answer, Passes
<1>2. PICK rendered \in Qualified(rows, s) : Respond(response(rendered))
  BY <1>1
<1> DEFINE r == response(rendered)
<1>3. /\ r.type = type /\ r.text = rendered /\ r.notices = Notices(rows, cited)
      /\ r.lines = Lines(Notices(rows, cited)) /\ r.urls = {}
  BY DEF Nothing
<1>4. rows \in Seq(RowType) /\ RowsOK(rows, asked.today) /\ asked.advice \in BOOLEAN
  BY <1>1 DEF IInv, Types, Dated
<1>5. s \in Seq(Sentence)
  BY StrippedType, RedirectedKeeps
<1>6. Shown(r, rows)
  <2> HIDE DEF r
  <2> QED
    BY <1>1, <1>2, <1>3, <1>4, VerifiedShows
<1> HIDE DEF r, s, cited, rows
<1>7. Told(r, rows)
  BY <1>3, <1>4, NoticesTell
<1>8. Qualifies(r, rows)
  BY <1>1, <1>2, <1>3, <1>4, <1>5, QualifiedTells
<1>9. ResponseOK(r, rows, asked.advice, asked.today)
  <2>1. rendered \in Seq(ItemType)
    BY <1>2, <1>4, <1>5, QualifiedType
  <2>2. LinesOK(r.lines, asked.today)
    BY <1>3, <1>4, LinesAreOK
  <2>3. DOMAIN r.notices \subseteq DOMAIN rows
    BY <1>3, <1>4, NoticesAt
  <2> QED
    BY <1>3, <2>1, <2>2, <2>3 DEF ResponseOK
<1> QED
  BY <1>1, <1>2, <1>6, <1>7, <1>8, <1>9, RespondKeeps DEF r, rows, SentOK

LEMMA InitHolds == Init => IInv
<1> SUFFICES ASSUME Init PROVE IInv
  OBVIOUS
<1>1. /\ asked.pc = "idle" /\ asked.advice = FALSE /\ asked.rows = << >> /\ asked.today = 1
      /\ asked.prompt = << >> /\ asked.response = Nothing
      /\ DOMAIN asked = {"pc", "advice", "rows", "today", "prompt", "response"}
  BY DEF Init, Idle
<1>2. << >> \in Seq(RowType) /\ DOMAIN << >> = {}
  BY EmptySeq
<1>0. \A n \in Held : NoteOK(n, 1)
  BY HeldAssumption, Zenon DEF NoteOK
<1>7. stored \in [Url -> Held] /\ today = 1 /\ edits = 0
  BY DEF Init
<1>8. 0 \in 0 .. MaxEdits /\ 1 \in Day
  BY DayType, ConstantsAssumption
<1>9. stored \in [Url -> Note]
  <2>1. Held \subseteq Note
    BY ConstantsAssumption
  <2> QED
    BY <1>7, <2>1
<1>3. Types
  BY <1>1, <1>2, <1>7, <1>8, <1>9 DEF Types
<1>4. \A u \in Url : NoteOK(stored[u], today)
  BY <1>0, <1>7
<1>5. RowsOK(asked.rows, Dated)
  BY <1>1, <1>2 DEF RowsOK
<1>6. ResponseOK(asked.response, asked.rows, asked.advice, asked.today)
  BY <1>1, <1>2, NothingOK
<1> QED
  BY <1>1, <1>3, <1>4, <1>5, <1>6 DEF IInv, Sent, Init

LEMMA NextKeeps == IInv /\ [Next]_vars => IInv'
<1> SUFFICES ASSUME IInv, [Next]_vars PROVE IInv'
  OBVIOUS
<1>1. ASSUME NEW u \in Url, Annotate(u) PROVE IInv'
  BY <1>1, AnnotateKeeps
<1>2. CASE Midnight
  BY <1>2, MidnightKeeps
<1>3. CASE Retrieve
  BY <1>3, RetrieveKeeps
<1>4. CASE Prompt
  BY <1>4, PromptKeeps
<1>5. ASSUME NEW text \in Text, BlockUnverified(text) \/ BlockAsserted(text) PROVE IInv'
  BY <1>5, BlockedKeeps
<1>6. ASSUME NEW text \in Text, Answer(text) PROVE IInv'
  BY <1>6, AnswerKeeps
<1>7. CASE UNCHANGED vars
  BY <1>7 DEF vars, IInv, Types, RowsOK, NoteOK, Dated, ResponseOK, LinesOK, Sent
<1> QED
  BY <1>1, <1>2, <1>3, <1>4, <1>5, <1>6, <1>7 DEF Next

LEMMA IInvHolds == Spec => []IInv
  BY InitHolds, NextKeeps, PTL DEF Spec

-----------------------------------------------------------------------------
(* The theorems.                                                           *)

\* The type invariant: what is retrieved, rendered and noticed are passages of the
\* corpus, sentences and their positions.
THEOREM TypeCorrect == Spec => []TypeOK
<1>1. IInv => TypeOK
  <2> SUFFICES ASSUME IInv PROVE TypeOK
    OBVIOUS
  <2>1. DOMAIN asked.prompt \subseteq DOMAIN asked.rows
    BY DEF IInv, PromptNotes
  <2> QED
    BY <2>1 DEF IInv, Types, TypeOK, ResponseOK, RowType, ItemType
<1> QED
  BY <1>1, IInvHolds, PTL

\* What a reader is told of a figure that no rule in force gives (temporal.py,
\* freshness.py).
THEOREM ForceCorrect == Spec => []ForceIsTold
<1>1. IInv => ForceIsTold
  <2> SUFFICES ASSUME IInv, Sent, NEW i \in DOMAIN asked.response.text
               PROVE  LET s == asked.response.text[i]
                      IN  /\ Undated(asked.rows, s.said) # {} =>
                                /\ s.said.figures \cap Current(asked.rows) # {}
                                /\ \E r \in Undated(asked.rows, s.said) :
                                      s.inserted = {[status |-> r.note.status, date |-> r.note.date]}
                          /\ \A r \in Doubtful(asked.rows, s.said) :
                                \E line \in asked.response.lines :
                                   /\ <<line.status, line.date>> = <<r.note.status, r.note.date>>
                                   /\ line.claim \notin {"took effect", "in force today"}
    BY DEF ForceIsTold, Undated, Doubtful, Current
  <2>1. SentOK(asked.response, asked.rows) /\ LinesOK(asked.response.lines, asked.today)
        /\ asked.rows \in Seq(RowType)
    BY DEF IInv, ResponseOK, Types
  <2>2. ASSUME NEW r \in Doubtful(asked.rows, asked.response.text[i].said)
        PROVE  \E line \in asked.response.lines :
                  /\ <<line.status, line.date>> = <<r.note.status, r.note.date>>
                  /\ line.claim \notin {"took effect", "in force today"}
    <3>1. ~InForce(r.note.status) /\ r \in Range(asked.rows)
      BY <2>1, DoubtfulIsNotInForce DEF Doubtful
    <3>2. Annotated(r.note)
      BY <3>1 DEF Annotated, InForce
    <3>3. PICK line \in asked.response.lines :
             <<line.status, line.date>> = <<r.note.status, r.note.date>>
      BY <2>1, <3>1, <3>2 DEF SentOK, Told
    <3>4. /\ line.status \in RuleStatus \cup {"null"} /\ ~InForce(line.status)
          /\ line.claim = NoticeClaim(line.status, line.date)
          /\ line.status = "scheduled" => line.date # 0
      BY <2>1, <3>1, <3>3 DEF LinesOK
    <3>5. line.claim \notin {"took effect", "in force today"}
      BY <3>4 DEF NoticeClaim, Contested, InForce, RuleStatus
    <3> QED
      BY <3>3, <3>5
  <2> QED
    BY <2>1, <2>2 DEF SentOK, Qualifies
<1> QED
  BY <1>1, IInvHolds, PTL

\* What is shown is what was checked (citations.py, authority.py, prompt_leak.py).
THEOREM ShownCorrect == Spec => []ShownIsVerified
<1>1. IInv => ShownIsVerified
  BY DEF IInv, SentOK, Shown, ShownIsVerified
<1> QED
  BY <1>1, IInvHolds, PTL

\* Every annotated source is spoken for (freshness.py: build_freshness,
\* freshness_notice_text).
THEOREM NoticesCorrect == Spec => []EverySourceIsNoticed
<1>1. IInv => EverySourceIsNoticed
  BY DEF IInv, SentOK, Told, EverySourceIsNoticed
<1> QED
  BY <1>1, IInvHolds, PTL

\* Time does not put a rule into force: neither the prompt nor the notice says so
\* unless a curator did (rule_status.py, prompts.py, freshness.py).
THEOREM PromotionCorrect == Spec => []NothingIsPromoted
<1>1. IInv => NothingIsPromoted
  <2> SUFFICES ASSUME IInv PROVE NothingIsPromoted
    OBVIOUS
  <2>1. ASSUME NEW i \in DOMAIN asked.prompt, asked.rows[i].note.status # "null"
        PROVE  /\ asked.prompt[i] \in {"took effect", "in force today"}
                     => asked.rows[i].note.status = "in_force"
               /\ asked.prompt[i] = "took effect" => asked.rows[i].note.date <= asked.today
    <3> DEFINE n == asked.rows[i].note
    <3>1. asked.pc \in {"generate", "done"}
      BY <2>1 DEF IInv
    <3>2. asked.prompt[i] = PromptClaim(n) /\ i \in DOMAIN asked.rows
      BY <2>1, <3>1 DEF IInv, PromptNotes
    <3>3. n \in Note /\ NoteOK(n, asked.today)
      BY <3>1, <3>2, RowsAt DEF IInv, Types, RowsOK, Dated
    <3> HIDE DEF n
    <3>4. n.status \in RuleStatus \cup {"null"} /\ n.date \in Nat
      BY <3>3 DEF Note, Date
    <3> QED
      BY <2>1, <3>2, <3>3, <3>4 DEF n, PromptClaim, Contested, InForce, NoteOK, RuleStatus
  <2>2. ASSUME NEW line \in asked.response.lines, line.status # "null"
        PROVE  /\ line.claim \in {"took effect", "in force today"} => line.status = "in_force"
               /\ line.claim = "took effect" => line.date <= asked.today
    <3>1. /\ line.status \in RuleStatus \cup {"null"}
          /\ line.claim = NoticeClaim(line.status, line.date)
          /\ line.status = "in_force" => line.date <= asked.today
          /\ line.status = "scheduled" => line.date # 0
      BY DEF IInv, ResponseOK, LinesOK
    <3> QED
      BY <2>2, <3>1 DEF NoticeClaim, Contested, InForce, RuleStatus
  <2> QED
    BY <2>1, <2>2 DEF NothingIsPromoted
<1> QED
  BY <1>1, IInvHolds, PTL
=============================================================================
