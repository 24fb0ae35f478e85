----------------------------- MODULE FlowCompare -----------------------------
(***************************************************************************)
(* The host test's comparison (ports/host_native/host_main.c): a program   *)
(* is run by the interpreter, then compiled and run by the bytecode        *)
(* engine, and what they printed is compared.  A program that the          *)
(* interpreter rejects is not compared.                                    *)
(***************************************************************************)
EXTENDS InterpFlow, VmFlow

VARIABLE strayed    \* the interpreter went where the text of the program does not lead

vars == <<prog, ivars, vm_vars, strayed>>

-----------------------------------------------------------------------------
(***************************************************************************)
(* What the text of a program says.                                        *)
(***************************************************************************)

\* The statement of a line, that of a single-line IF included.
Stmt(k) == IF prog[k].op = "ifthen" THEN prog[k].then ELSE prog[k]

\* The NEXT a reader of the text gives to a FOR.
TextNext(k, v) ==
    {q \in k + 1 .. Len(prog) :
        prog[q].op = "next" /\ (v \in Range(prog[q].vs) \/ Level("for", "next", k, q) = 1)}

\* The lines of the FORs, DOs and SUBs that line k stands in.
ForsAround(k) ==
    {q \in 1 .. k - 1 : prog[q].op = "for" /\ \A m \in TextNext(q, prog[q].v) : m > k}
DosAround(k) == {q \in 1 .. k - 1 : prog[q].op = "do" /\ \A m \in MatchingLoop(q) : m > k}
SubsAround(k) ==
    {q \in SubLines : q < k /\ \A m \in q .. k : prog[m].op # "endsub"}

\* Every EXIT and CONTINUE stands in a block of its kind.
WellPlaced ==
    \A k \in Lines :
        /\ Stmt(k).op \in {"exitfor", "contfor"} => ForsAround(k) # {}
        /\ Stmt(k).op \in {"exitdo", "contdo"} => DosAround(k) # {}
        /\ Stmt(k).op = "exitsub" => SubsAround(k) # {}

\* A SUB that calls itself.
Recursive == \E k \in Lines : Stmt(k).op = "call" /\ SubsAround(k) # {}

\* The name of a NEXT's variable ends with that of another loop's variable.
NamesClash ==
    \E k, q \in Lines :
        /\ prog[k].op = "for" /\ prog[q].op = "next"
        /\ \E w \in Range(prog[q].vs) : w # prog[k].v /\ Within[<<prog[k].v, w>>] = "end"

\* No GOTO, RETURN only at the end of the routines after END, and a NEXT of
\* its own for every loop.
Structured ==
    \A k \in Lines :
        /\ Stmt(k).op # "goto"
        /\ prog[k].op = "ifthen" => Stmt(k).op # "return"
        /\ prog[k].op = "next" => Len(prog[k].vs) <= 1

(***************************************************************************)
(* Steps on which the interpreter leaves the text: EXIT and CONTINUE take  *)
(* the loop on top of the stack, which a GOTO out of a loop left there;    *)
(* EXIT FOR and a FOR that is past its limit go behind the NEXT, also when *)
(* it closes further loops; the search for that NEXT takes one whose       *)
(* variable has a longer name; there is one stack for GOSUBs and calls;    *)
(* and a GOTO out of a SUB takes its local variables along.                *)
(***************************************************************************)
WrongLoop ==
    \/ /\ cmd.op \in {"exitfor", "contfor"} /\ g_forstack # <<>>
       /\ Last(g_forstack).forptr - 1 # Final(ForsAround(nextstmt) \cup {0})
    \/ /\ cmd.op \in {"exitdo", "contdo"} /\ g_dostack # <<>>
       /\ Last(g_dostack).doptr - 1 # Final(DosAround(nextstmt) \cup {0})

SharedNext ==
    \/ /\ cmd.op = "exitfor" /\ g_forstack # <<>>
       /\ Len(prog[Last(g_forstack).nextptr].vs) > 1
    \/ /\ cmd.op = "for" /\ Past(cmd.a, cmd.b, cmd.s)
       /\ \E m \in MatchingNext(nextstmt, cmd.v) : Len(prog[m].vs) > 1

WrongNext ==
    /\ cmd.op = "for"
    /\ MatchingNext(nextstmt, cmd.v) # {}
    /\ First(MatchingNext(nextstmt, cmd.v)) # First(TextNext(nextstmt, cmd.v))

WrongReturn ==
    /\ gosubstack # <<>>
    /\ LET caller == Stmt(Last(gosubstack) - 1).op
       IN \/ cmd.op = "return" /\ caller = "call"
          \/ cmd.op \in {"endsub", "exitsub"} /\ caller # "call"

LeftSub ==
    cmd.op = "goto" /\ \E q \in LabelLines(cmd.l) : SubsAround(q) # SubsAround(nextstmt)

Strays == WrongLoop \/ SharedNext \/ WrongNext \/ WrongReturn \/ LeftSub

-----------------------------------------------------------------------------
Interpret ==
    /\ ExecuteProgram
    /\ strayed' = (strayed \/ (nextstmt \in Lines /\ Strays))
    /\ UNCHANGED <<prog, vm_vars>>

\* The interpreter is done: the same program goes to the bytecode engine.
StartVm ==
    /\ interp = "ended" /\ vm = "idle"
    /\ vm' = "compiling"
    /\ UNCHANGED <<prog, ivars, line, cs, run_vars, strayed>>

RunVm == VmNext /\ UNCHANGED <<prog, ivars, strayed>>

Init == prog \in Programs /\ InterpInit /\ VmInit /\ strayed = FALSE

Next == Interpret \/ StartVm \/ RunVm

Spec == Init /\ [][Next]_vars

-----------------------------------------------------------------------------
\* No loop outlives its variable or the call it runs in, every entry knows a
\* NEXT or LOOP, and no variable drives two loops of one level: what makes the
\* pointers that NEXT and EXIT follow valid, and keeps loops left by jumps from
\* filling the stack.  cmd_for, cmd_do, ClearVars.
LoopsLive ==
    /\ Len(g_forstack) <= MAXFORLOOPS /\ Len(g_dostack) <= MAXDOLOOPS
    /\ \A i \in DOMAIN g_forstack :
         /\ g_forstack[i].var \in DOMAIN g_vartbl
         /\ g_forstack[i].level <= g_LocalIndex
         /\ prog[g_forstack[i].nextptr].op = "next"
         /\ \A k \in i + 1 .. Len(g_forstack) :
              /\ g_forstack[i].level <= g_forstack[k].level
              /\ g_forstack[i].level = g_forstack[k].level => g_forstack[i].var # g_forstack[k].var
    /\ \A i \in DOMAIN g_dostack :
         /\ g_dostack[i].level <= g_LocalIndex
         /\ prog[g_dostack[i].loopptr].op = "loop"
         /\ \A k \in i + 1 .. Len(g_dostack) : g_dostack[i].doptr # g_dostack[k].doptr

\* The searches of the interpreter always find the other end of a block: a
\* well placed program without GOTO that does not recurse is not stopped by
\* an error, other than an index that ON does not accept, unless the name of
\* one loop variable ends with the name of another.
StructuredRuns ==
    interp = "error" =>
        \/ ~WellPlaced \/ ~Structured \/ Recursive \/ NamesClash
        \/ cmd.op = "on" /\ Value(cmd.v) \notin OnRange

\* The compiler rejects a program exactly when an EXIT or CONTINUE is out of
\* place, whether or not it would be executed.
RejectsMisplaced == vm \notin {"idle", "compiling"} => (vm = "rejected" <=> ~WellPlaced)

\* A program that the interpreter runs to its end prints the same on the
\* bytecode engine and ends there too, unless the interpreter strayed from
\* the text of the program or the compiler rejects it.
SameOutput ==
    \/ strayed \/ vm = "rejected"
    \/ /\ IsPrefix(vmprinted, printed)
       /\ vm \notin {"idle", "compiling", "running"} => vm = "ended" /\ vmprinted = printed

\* A program whose loops fit the interpreter's FOR stack fits the FOR stack of
\* the bytecode machine when that is no smaller.  cmd_for takes care that
\* loops left by a jump do not pile up; EXIT FOR, compiled to a jump, leaves
\* the machine's entry where it is.
ForStackHolds == VM_MAX_FOR >= MAXFORLOOPS => vm # "overflow"
=============================================================================
