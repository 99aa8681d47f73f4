--------------------------- MODULE MCAnswerGuards ---------------------------
(* An instance of AnswerGuardsProperties for TLC: a page in force that     *)
(* gives f60, a page of a contested rule that gives f30 in one chunk and   *)
(* both figures in the other.                                              *)
EXTENDS AnswerGuardsProperties, TLC

CONSTANTS f30, f60, u1, u2, c1, c2, c3, d1

MCUrlOf == (c1 :> u1) @@ (c2 :> u2) @@ (c3 :> u2)
MCFiguresOf == (c1 :> {f60}) @@ (c2 :> {f30}) @@ (c3 :> {f30, f60})

Entry1(status, date, source, evidences) ==
    [status |-> status, date |-> date, source |-> source, evidences |-> evidences]

MCEntry ==
    {NoNote,
     Entry1("scheduled", 2, "null", "null"), Entry1("scheduled", 0, "null", "null"),
     Entry1("in_force", 2, "null", "null"), Entry1("in_force", 0, "null", "null"),
     Entry1("enjoined", 2, d1, "true"), Entry1("enjoined", 0, "null", "null"),
     Entry1("not_in_force", 0, d1, "false")}

MCHeld == {NoNote, Entry1("null", 2, "null", "null"), Entry1("enjoined", 2, d1, "null"),
           Entry1("scheduled", 2, "null", "null")}

MCSentence ==
    [figures : {{}, {f30}, {f60}, {f30, f60}}, dates : {{}, {2}}, cites : {{}, {1}},
     native : {FALSE}, marks : {{}}]

Plain(figures, cites) == [figures |-> figures, dates |-> {}, cites |-> cites,
                          native |-> FALSE, marks |-> {}]

\* Texts of one sentence, of two with a citation in the first, and those the
\* checks are for.
MCText ==
    {[sentences |-> <<s>>, heading |-> 1] : s \in MCSentence} \cup
    {[sentences |-> <<Plain(f, {1}), Plain(g, {2})>>, heading |-> 2] :
        f, g \in {{f30}, {f60}, {f30, f60}}} \cup
    {[sentences |-> <<Plain({f60}, {}), Plain({}, {1})>>, heading |-> 1],
     [sentences |-> <<Plain({f60}, {4})>>, heading |-> 1],
     [sentences |-> <<[Plain({f60}, {3}) EXCEPT !.native = TRUE]>>, heading |-> 1],
     [sentences |-> <<[Plain({f60}, {1}) EXCEPT !.marks = {"authority"}]>>, heading |-> 1],
     [sentences |-> <<[Plain({f60}, {1}) EXCEPT !.marks = {"leak"}]>>, heading |-> 1],
     [sentences |-> <<[Plain({f60}, {2}) EXCEPT !.marks = {"redirect"}]>>, heading |-> 1]}
=============================================================================
