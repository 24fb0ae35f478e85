----------------------------- MODULE InterpFlow ------------------------------
(***************************************************************************)
(* Control flow of the MMBasic interpreter (core/mmbasic/Commands.c and    *)
(* MMBasic.c): it has no parse tree, so every block command searches the   *)
(* program for the other end of its block, and FOR and DO keep what they   *)
(* found on two stacks that EXIT, CONTINUE, NEXT and LOOP consult.         *)
(***************************************************************************)
EXTENDS BasicFlow

CONSTANTS MAXFORLOOPS, MAXDOLOOPS, MAXGOSUB,
          Fuel          \* bound: statements executed before a run is cut off

ASSUME LimitsAssumption == MAXFORLOOPS \in Nat /\ MAXDOLOOPS \in Nat

VARIABLES
    nextstmt,     \* the line to execute
    g_forstack,   \* FOR loops in effect
    g_dostack,    \* DO loops in effect
    gosubstack,   \* return lines of GOSUBs and SUB calls
    g_vartbl,     \* value of every variable that exists, by name and level
    vtbl,         \* variables of a NEXT list still to be handled
    printed,      \* what the program has printed
    steps,        \* statements executed
    interp        \* "running", "ended", "error" or "fuel"

ivars == <<nextstmt, g_forstack, g_dostack, gosubstack, g_vartbl, vtbl, printed, steps, interp>>

-----------------------------------------------------------------------------
\* Every GOSUB and every call pushes a return line and raises the level by one.
g_LocalIndex == Len(gosubstack)

\* findvar: the variable of the running level if there is one, else the global.
findvar(v) == IF <<v, g_LocalIndex>> \in DOMAIN g_vartbl THEN <<v, g_LocalIndex>> ELSE <<v, 0>>

Value(v) == g_vartbl[findvar(v)]
Holds(c) == c.lo <= Value(c.v) /\ Value(c.v) <= c.hi

\* A FOR variable is past its limit: the test of FOR and of NEXT.
Past(val, to, step) == (step >= 0 /\ val > to) \/ (step < 0 /\ val < to)

\* The command on the line: a single-line IF whose condition holds is the
\* statement after its THEN.
cmd == LET s == prog[nextstmt] IN IF s.op = "ifthen" /\ Holds(s.c) THEN s.then ELSE s

First(S) == CHOOSE q \in S : \A r \in S : q <= r
Final(S) == CHOOSE q \in S : \A r \in S : r <= q

\* The stack without its first entry among those in S.
Without(stack, S) == IF S = {} THEN stack ELSE RemoveAt(stack, First(S))

-----------------------------------------------------------------------------
(***************************************************************************)
(* What every command does around its own work.                            *)
(***************************************************************************)
Running == interp = "running" /\ nextstmt \in Lines /\ steps < Fuel

Executing(op) == Running /\ cmd.op = op

\* Frame conditions: what a command leaves alone, and the error exit.
Goto(q) == nextstmt' = q /\ steps' = steps + 1 /\ UNCHANGED interp
Stop(how) == interp' = how /\ steps' = steps + 1 /\ UNCHANGED nextstmt
SameData == UNCHANGED <<g_vartbl, printed>>
SameStacks == UNCHANGED <<g_forstack, g_dostack, gosubstack, vtbl>>
error == Stop("error") /\ SameData /\ SameStacks

\* Go to the first line of S, or stop because there is none.
GotoFirst(S, d) == IF S = {} THEN Stop("error") ELSE Goto(First(S) + d)

-----------------------------------------------------------------------------
(***************************************************************************)
(* FOR and NEXT.                                                           *)
(***************************************************************************)

\* The list of a NEXT is searched for the first place where the variable's name
\* occurs, also within another name; what counts is that no name goes on there.
NamedIn(vs, v) ==
    LET hits == {i \in DOMAIN vs : Within[<<v, vs[i]>>] # "no"}
    IN hits # {} /\ Within[<<v, vs[First(hits)]>>] = "end"

\* The NEXT that belongs to a FOR: the first one that names the variable or
\* that closes as many FORs as were opened.
MatchingNext(k, v) ==
    {q \in k + 1 .. Len(prog) :
        prog[q].op = "next" /\ (NamedIn(prog[q].vs, v) \/ Level("for", "next", k, q) = 1)}

cmd_for ==
    /\ Executing("for")
    /\ LET s == cmd
           v == findvar(s.v)
           stack == Without(g_forstack, {i \in DOMAIN g_forstack :
                        g_forstack[i].var = v /\ g_forstack[i].level = g_LocalIndex})
           nexts == MatchingNext(nextstmt, s.v)
           loop == [var |-> v, level |-> g_LocalIndex, forptr |-> nextstmt + 1,
                    nextptr |-> First(nexts), to |-> s.b, step |-> s.s]
       IN IF Len(stack) >= MAXFORLOOPS \/ nexts = {} THEN error
          ELSE /\ g_vartbl' = [g_vartbl EXCEPT ![v] = s.a]
               /\ IF Past(s.a, s.b, s.s)
                  THEN g_forstack' = stack /\ Goto(loop.nextptr + 1)
                  ELSE g_forstack' = Append(stack, loop) /\ Goto(nextstmt + 1)
               /\ UNCHANGED <<g_dostack, gosubstack, vtbl, printed>>

\* One round of cmd_next's loopback: step the innermost loop among the listed
\* variables (or the loop whose NEXT this is), and either loop again or drop
\* it and turn to the next variable of the list.
cmd_next ==
    /\ Executing("next")
    /\ LET listed == {findvar(v) : v \in Range(cmd.vs)}
           vars == IF vtbl = {} THEN listed ELSE vtbl
           found == {i \in DOMAIN g_forstack :
                        IF listed = {} THEN g_forstack[i].nextptr = nextstmt
                                       ELSE g_forstack[i].var \in vars}
           i == IF listed = {} THEN First(found) ELSE Final(found)
           loop == g_forstack[i]
           val == g_vartbl[loop.var] + loop.step
           rest == vars \ {loop.var}
       IN IF found = {} THEN error
          ELSE /\ g_vartbl' = [g_vartbl EXCEPT ![loop.var] = val]
               /\ IF Past(val, loop.to, loop.step)
                  THEN /\ g_forstack' = RemoveAt(g_forstack, i)
                       /\ vtbl' = rest
                       /\ Goto(IF rest = {} THEN nextstmt + 1 ELSE nextstmt)
                  ELSE /\ vtbl' = {}
                       /\ Goto(loop.forptr)
                       /\ UNCHANGED g_forstack
               /\ UNCHANGED <<g_dostack, gosubstack, printed>>

cmd_exitfor ==
    /\ Executing("exitfor")
    /\ IF g_forstack = <<>> THEN error
       ELSE /\ g_forstack' = Front(g_forstack)
            /\ Goto(Last(g_forstack).nextptr + 1)
            /\ SameData /\ UNCHANGED <<g_dostack, gosubstack, vtbl>>

-----------------------------------------------------------------------------
(***************************************************************************)
(* DO and LOOP.                                                            *)
(***************************************************************************)
MatchingLoop_Unnested(k) == {q \in k + 1 .. Len(prog) : prog[q].op = "loop"}
MatchingLoop(k) ==
    {q \in k + 1 .. Len(prog) : prog[q].op = "loop" /\ Level("do", "loop", k, q) = 1}

cmd_do ==
    /\ Executing("do")
    /\ LET s == cmd
           stack == Without(g_dostack, {i \in DOMAIN g_dostack : g_dostack[i].doptr = nextstmt + 1})
           loops == MatchingLoop(nextstmt)
           loop == [test |-> s.test, c |-> s.c, doptr |-> nextstmt + 1,
                    loopptr |-> First(loops), level |-> g_LocalIndex]
       IN IF \/ s.test = "until"
             \/ Len(stack) >= MAXDOLOOPS
             \/ loops = {}
             \/ s.test = "while" /\ prog[First(loops)].test # "none"
          THEN error
          ELSE /\ IF s.test = "while" /\ ~Holds(s.c)
                  THEN g_dostack' = stack /\ Goto(loop.loopptr + 1)
                  ELSE g_dostack' = Append(stack, loop) /\ Goto(nextstmt + 1)
               /\ SameData /\ UNCHANGED <<g_forstack, gosubstack, vtbl>>

cmd_loop ==
    /\ Executing("loop")
    /\ LET found == {i \in DOMAIN g_dostack : g_dostack[i].loopptr = nextstmt}
           i == First(found)
           loop == g_dostack[i]
           tst == IF loop.test = "while" THEN Holds(loop.c)
                  ELSE CASE cmd.test = "while" -> Holds(cmd.c)
                         [] cmd.test = "until" -> ~Holds(cmd.c)
                         [] OTHER -> TRUE
       IN IF found = {} THEN error
          ELSE /\ IF tst THEN Goto(loop.doptr) /\ UNCHANGED g_dostack
                         ELSE Goto(nextstmt + 1) /\ g_dostack' = SubSeq(g_dostack, 1, i - 1)
               /\ SameData /\ UNCHANGED <<g_forstack, gosubstack, vtbl>>

cmd_exit ==
    /\ Executing("exitdo")
    /\ IF g_dostack = <<>> THEN error
       ELSE /\ g_dostack' = Front(g_dostack)
            /\ Goto(Last(g_dostack).loopptr + 1)
            /\ SameData /\ UNCHANGED <<g_forstack, gosubstack, vtbl>>

cmd_continue ==
    \/ /\ Executing("contfor")
       /\ IF g_forstack = <<>> THEN error
          ELSE Goto(Last(g_forstack).nextptr) /\ SameData /\ SameStacks
    \/ /\ Executing("contdo")
       /\ IF g_dostack = <<>> THEN error
          ELSE Goto(Last(g_dostack).loopptr) /\ SameData /\ SameStacks

-----------------------------------------------------------------------------
(***************************************************************************)
(* IF and SELECT.                                                          *)
(***************************************************************************)

\* A false condition looks for the clause to run: the first ELSE, ENDIF or
\* ELSEIF with a true condition at the level of this IF.
cmd_if ==
    /\ Executing("if")
    /\ IF Holds(cmd.c) THEN Goto(nextstmt + 1)
       ELSE GotoFirst({q \in nextstmt + 1 .. Len(prog) :
                         /\ Level("if", "endif", nextstmt, q) = 1
                         /\ \/ prog[q].op \in {"else", "endif"}
                            \/ prog[q].op = "elseif" /\ Holds(prog[q].c)}, 1)
    /\ SameData /\ SameStacks

\* A single-line IF whose condition is false.
SkipLine == Executing("ifthen") /\ Goto(nextstmt + 1) /\ SameData /\ SameStacks

\* Running into an ELSE or ELSEIF: the clause above it is done.
cmd_else ==
    /\ Executing("else") \/ Executing("elseif")
    /\ GotoFirst({q \in nextstmt + 1 .. Len(prog) :
                    prog[q].op = "endif" /\ Level("if", "endif", nextstmt, q) = 1}, 1)
    /\ SameData /\ SameStacks

cmd_select ==
    /\ Executing("select")
    /\ GotoFirst({q \in nextstmt + 1 .. Len(prog) :
                    /\ Level("select", "endselect", nextstmt, q) = 1
                    /\ \/ prog[q].op \in {"caseelse", "endselect"}
                       \/ prog[q].op = "case" /\ Value(cmd.v) \in prog[q].lo .. prog[q].hi}, 1)
    /\ SameData /\ SameStacks

\* Running into the next CASE: the case above it is done.
cmd_case ==
    /\ Executing("case") \/ Executing("caseelse")
    /\ GotoFirst({q \in nextstmt + 1 .. Len(prog) :
                    prog[q].op = "endselect" /\ Level("select", "endselect", nextstmt, q) = 1}, 1)
    /\ SameData /\ SameStacks

-----------------------------------------------------------------------------
(***************************************************************************)
(* GOTO, GOSUB, SUB calls and returns.                                     *)
(***************************************************************************)
cmd_goto == Executing("goto") /\ GotoFirst(LabelLines(cmd.l), 0) /\ SameData /\ SameStacks

\* Push the return line and go to one of the lines S.
EnterAt(S, d) ==
    IF Len(gosubstack) >= MAXGOSUB \/ S = {} THEN error
    ELSE /\ gosubstack' = Append(gosubstack, nextstmt + 1)
         /\ Goto(First(S) + d)
         /\ SameData /\ UNCHANGED <<g_forstack, g_dostack, vtbl>>

cmd_gosub == Executing("gosub") /\ EnterAt(LabelLines(cmd.l), 0)

DefinedSubFun == Executing("call") /\ EnterAt(SubLines, 1)

\* ON v GOTO or GOSUB: the v-th label, or the next statement.  The number is
\* one that getint(..., 0, 255) accepts.
OnRange == 0 .. 255
cmd_on ==
    /\ Executing("on")
    /\ LET r == Value(cmd.v)
           S == LabelLines(cmd.ls[r])
       IN IF r \notin OnRange THEN error
          ELSE IF r \notin DOMAIN cmd.ls THEN Goto(nextstmt + 1) /\ SameData /\ SameStacks
          ELSE IF cmd.sub THEN EnterAt(S, 0)
               ELSE GotoFirst(S, 0) /\ SameData /\ SameStacks

\* The part of a loop stack that ClearVars(level) keeps: all below the first
\* entry of that level or a deeper one.
Trim_Never(stack, level) == stack
Trim(stack, level) ==
    LET deep == {i \in DOMAIN stack : stack[i].level >= level}
    IN IF deep = {} THEN stack ELSE SubSeq(stack, 1, First(deep) - 1)

ClearVars(level) ==
    /\ g_vartbl' = [x \in {y \in DOMAIN g_vartbl : y[2] < level} |-> g_vartbl[x]]
    /\ g_forstack' = Trim(g_forstack, level)
    /\ g_dostack' = Trim(g_dostack, level)

\* RETURN, END SUB and EXIT SUB are the same command.
cmd_return ==
    /\ \E op \in {"return", "endsub", "exitsub"} : Executing(op)
    /\ IF gosubstack = <<>> THEN error
       ELSE /\ ClearVars(g_LocalIndex)
            /\ gosubstack' = Front(gosubstack)
            /\ Goto(Last(gosubstack))
            /\ UNCHANGED <<vtbl, printed>>

\* Running into a SUB: skip its body, unless inside a GOSUB or a call.
cmd_subfun ==
    /\ Executing("sub")
    /\ IF gosubstack # <<>> THEN Stop("error")
       ELSE GotoFirst({q \in nextstmt + 1 .. Len(prog) : prog[q].op = "endsub"}, 1)
    /\ SameData /\ SameStacks

-----------------------------------------------------------------------------
cmd_local ==
    /\ Executing("local")
    /\ LET x == <<cmd.v, g_LocalIndex>>
       IN IF x \in DOMAIN g_vartbl THEN error
          ELSE /\ g_vartbl' = [y \in DOMAIN g_vartbl \cup {x} |-> IF y = x THEN 0 ELSE g_vartbl[y]]
               /\ Goto(nextstmt + 1)
               /\ SameStacks /\ UNCHANGED printed

cmd_inc ==
    /\ Executing("inc")
    /\ g_vartbl' = [g_vartbl EXCEPT ![findvar(cmd.v)] = @ + 1]
    /\ Goto(nextstmt + 1)
    /\ SameStacks /\ UNCHANGED printed

cmd_print ==
    /\ Executing("print")
    /\ printed' = Append(printed, <<cmd.x, [v \in Vars |-> Value(v)]>>)
    /\ Goto(nextstmt + 1)
    /\ SameStacks /\ UNCHANGED g_vartbl

\* Labels, ENDIF and END SELECT do nothing.
NoCommand ==
    /\ \E op \in {"label", "endif", "endselect"} : Executing(op)
    /\ Goto(nextstmt + 1)
    /\ SameData /\ SameStacks

cmd_end ==
    /\ \/ Executing("end")
       \/ interp = "running" /\ nextstmt \notin Lines
    /\ Stop("ended") /\ SameData /\ SameStacks

\* The run is cut off.
OutOfFuel ==
    /\ interp = "running" /\ nextstmt \in Lines /\ steps >= Fuel
    /\ Stop("fuel") /\ SameData /\ SameStacks

InterpInit ==
    /\ nextstmt = 1
    /\ g_forstack = <<>> /\ g_dostack = <<>> /\ gosubstack = <<>>
    /\ g_vartbl = [x \in Vars \X {0} |-> 0]
    /\ vtbl = {} /\ printed = <<>> /\ steps = 0
    /\ interp = "running"

ExecuteProgram ==
    \/ cmd_for \/ cmd_next \/ cmd_exitfor
    \/ cmd_do \/ cmd_loop \/ cmd_exit \/ cmd_continue
    \/ cmd_if \/ SkipLine \/ cmd_else \/ cmd_select \/ cmd_case
    \/ cmd_goto \/ cmd_gosub \/ cmd_on \/ DefinedSubFun \/ cmd_return \/ cmd_subfun
    \/ cmd_local \/ cmd_inc \/ cmd_print \/ NoCommand \/ cmd_end \/ OutOfFuel
=============================================================================
