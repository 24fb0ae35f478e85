------------------------------- MODULE MCFlow --------------------------------
(***************************************************************************)
(* Programs of two nested blocks, with a statement that changes the flow   *)
(* of control in one of three places.                                      *)
(***************************************************************************)
EXTENDS FlowCompare

Kinds == {"for", "plain", "down", "empty", "while", "until", "lwhile",
          "if", "elseif", "select", "gosub", "on", "sub", "local"}

Main(m) == [main |-> m, tail |-> <<>>]

\* A block of the given kind around a body; v is its loop variable, w the
\* variable it tests, inner the variable of the loop inside, and x distinguishes
\* its prints and labels.
Wrap(kind, v, w, inner, x, body) ==
    LET around(a, b) == [body EXCEPT !.main = a \o @ \o b]
        away(m, a, b) == [main |-> m, tail |-> a \o body.main \o b \o body.tail]
        r == IF x = 10 THEN "R" ELSE "S"
        q == IF x = 10 THEN "Q" ELSE "T"
        Few == Cond(v, 0, 1)
    IN CASE kind = "for" -> around(<<FOR(v, 1, 2, 1)>>, <<NEXT(<<v>>)>>)
         [] kind = "plain" -> around(<<FOR(v, 1, 2, 1)>>, <<NEXT(<<>>)>>)
         [] kind = "down" -> around(<<FOR(v, 2, 1, -1)>>, <<NEXT(<<v>>)>>)
         [] kind = "wide" -> around(<<FOR(v, 255, 256, 1)>>, <<NEXT(<<v>>)>>)
         [] kind = "empty" -> around(<<FOR(v, 2, 1, 1)>>, <<NEXT(<<v>>)>>)
         [] kind = "while" -> around(<<DO("while", Few), INC(v)>>, <<LOOP("none", Few)>>)
         [] kind = "until" -> around(<<DO("none", Few), INC(v)>>, <<LOOP("until", Cond(v, 2, 9))>>)
         [] kind = "lwhile" -> around(<<DO("none", Few), INC(v)>>, <<LOOP("while", Few)>>)
         [] kind = "if" -> around(<<IF_(Cond(w, 1, 1))>>, <<Plain("else"), PRINT(x), Plain("endif")>>)
         [] kind = "elseif" -> around(<<IF_(Cond(w, 5, 5)), PRINT(x), ELSEIF(Cond(w, 1, 1))>>,
                                      <<Plain("else"), PRINT(x + 1), Plain("endif")>>)
         [] kind = "select" -> around(<<SELECT(w), CASE_(1, 1)>>,
                                      <<CASE_(2, 2), PRINT(x), Plain("caseelse"), PRINT(x + 1), Plain("endselect")>>)
         [] kind = "gosub" -> away(<<GOSUB(r)>>, <<LABEL(r)>>, <<Plain("return")>>)
         [] kind = "on" -> away(<<ON(w, TRUE, <<r, q>>)>>, <<LABEL(r)>>,
                                <<Plain("return"), LABEL(q), PRINT(x), Plain("return")>>)
         [] kind = "sub" -> away(<<Plain("call")>>, <<Plain("sub")>>, <<Plain("endsub")>>)
         [] kind = "local" -> away(<<Plain("call")>>, <<Plain("sub"), LOCAL_("i"), LOCAL_("j")>>, <<Plain("endsub")>>)
         [] kind = "half" -> around(<<FOR(v, 1, 2, 1)>>, <<>>)
         [] kind = "both" -> around(<<FOR(v, 1, 2, 1)>>, <<NEXT(<<inner, "i">>)>>)

\* Statements for a hole: they act the first two times they are reached.
Fire(s) == <<INC("n"), IFTHEN(Cond("n", 2, 3), s)>>
Exits == {Fire(Plain(op)) : op \in {"exitfor", "exitdo", "contfor", "contdo"}}
Jumps == {Fire(GOTO(l)) : l \in {"A", "M"}}
Fills == Exits \cup Jumps \cup {Fire(GOTO("Z"))}
           \cup {Fire(Plain(op)) : op \in {"exitsub", "return", "call", "end"}}
None == <<>>
Holes == {<<None, None, None>>}
           \cup {<<f, None, None>> : f \in Fills} \cup {<<None, f, None>> : f \in Fills} \cup {<<None, None, f>> : f \in Fills}
           \cup {<<e, g, None>> : e \in Exits, g \in Jumps} \cup {<<None, g, e>> : e \in Exits, g \in Jumps}

ProgramWith(outer, inner, v, h) ==
    LET core == Main(<<PRINT(2)>> \o h[2] \o <<PRINT(3)>>)
        in == Wrap(inner, v, "i", v, 10, core)
        body == [in EXCEPT !.main = <<LABEL("A"), PRINT(1)>> \o h[1] \o @ \o <<LABEL("M")>> \o h[3] \o <<PRINT(4)>>]
        out == Wrap(outer, "i", "n", v, 20, body)
    IN <<INC("n")>> \o out.main \o <<LABEL("Z"), PRINT(5), Plain("end")>> \o out.tail

Program(outer, inner, h) == ProgramWith(outer, inner, "j", h)

\* Names that begin and that end with the name of the outer loop's variable.
Loops == {"for", "plain", "down", "empty"}
LongNames == {"ij", "ji"}
MCWithin ==
    [p \in Vars \X Vars |->
        IF p[1] = p[2] \/ p \in {<<"i", "ji">>, <<"j", "ij">>} THEN "end"
        ELSE IF p \in {<<"i", "ij">>, <<"j", "ji">>} THEN "before" ELSE "no"]

\* Calls are made only in programs that have the SUB.
Subs == {"sub", "local"}
Calls == {Fire(Plain("call"))}
Uncalling == {h \in Holes : Calls \cap {h[1], h[2], h[3]} = {}}

MCPrograms == {Program(o, k, h) : o \in Subs, k \in Kinds \ Subs, h \in Holes}
                \cup {Program(o, k, h) : o \in Kinds \ Subs, k \in Subs, h \in Holes}
                \cup {Program(o, k, h) : o \in Kinds \ Subs, k \in Kinds \ Subs, h \in Uncalling}
                \cup {Program("both", "half", h) : h \in Uncalling}
                \cup {ProgramWith(o, k, v, h) : o \in Loops, k \in Loops, v \in LongNames, h \in Uncalling}
                \cup {ProgramWith("both", "half", v, h) : v \in LongNames, h \in Uncalling}
                \cup {Program("wide", "on", h) : h \in Uncalling}

\* A loop that leaves a FOR by EXIT FOR three times.
ExitPrograms ==
    {<<DO("none", Cond("n", 0, 0)), INC("n"), FOR("i", 1, 2, 1), Plain("exitfor"), NEXT(<<"i">>),
       LOOP("until", Cond("n", 3, 3)), Plain("end")>>}
=============================================================================
