------------------------------- MODULE Calls -------------------------------
(***************************************************************************)
(* How the MMBasic interpreter runs commands, user defined subs and        *)
(* functions and BASIC interrupts, and what memory each of them holds      *)
(* (core/mmbasic/MMBasic.c: ExecuteProgram, DefinedSubFun, error,          *)
(* ClearVars; Memory.c; Commands.c; MM_Misc.c; runtime_interrupt.c).       *)
(*                                                                         *)
(* Values and program text are left out: a command is what it does to the  *)
(* call stack and the heap.  stack is the C stack: a frame for the command *)
(* each ExecuteProgram is in, and one for each DefinedSubFun.              *)
(***************************************************************************)
EXTENDS Heap, FiniteSets, Sequences

CONSTANTS
    ArgPages,       \* pages of the argument buffer of DefinedSubFun
    MaxGosub,       \* MAXGOSUB
    MaxTemps,       \* MAXTEMPSTRINGS
    MaxActs,        \* bound: commands a program runs and requests they make
    MaxInterrupts   \* bound: interrupts

ASSUME CallsAssumption ==
    /\ {ArgPages, MaxGosub, MaxTemps} \subseteq Nat \ {0}
    /\ {MaxActs, MaxInterrupts} \subseteq Nat

VARIABLES
    stack,      \* see Frame
    vars,       \* variables with heap memory: records of address and level
    strtmp,     \* g_StrTmp and g_StrTmpLocalIndex, up to g_StrTmpIndex
    changed,    \* g_TempMemoryIsChanged
    level,      \* g_LocalIndex
    gosub,      \* gosubstack, "fun" for a NULL entry
    mem,        \* DefinedSubFunMem
    memlevel,   \* DefinedSubFunLocalIndex
    errskip,    \* OptionErrorSkip
    inter,      \* the interrupt that is running: see NoInterrupt
    left,       \* history: mem is from a call that END or Ctrl-C left
    running,    \* the program runs; else the prompt waits for RUN
    owed,       \* history: errskip when an interrupt came, until the program goes on
    untidy,     \* history: what an error or a lost variable left behind
    acts, interrupts   \* how much of each bound is used

temps == <<strtmp, changed>>
depth == <<level, gosub>>
setup == <<mem, memlevel, left>>
mode == <<errskip, inter, running, owed>>
bounds == <<acts, interrupts>>
allVars == <<heapVars, stack, vars, temps, depth, setup, mode, untidy, bounds>>

-----------------------------------------------------------------------------
\* kind: "cmd" for a command, "done" for one that has changed nextstmt, or how
\* far DefinedSubFun is: "args" while it evaluates the arguments, "bind" while
\* it declares the parameters, and for a function "result", "body" and "end"
\* after END FUNCTION.  saved: g_LocalIndex before the frame; args: the copies
\* of string arguments; got: the temporaries the frame still uses.
Frame(kind, fun, argval) ==
    [kind |-> kind, fun |-> fun, saved |-> level, argval |-> argval, args |-> {}, got |-> {}]
FrameType == [kind : {"cmd", "done", "args", "bind", "result", "body", "end"},
              fun : BOOLEAN, saved : Nat, argval : Pages \cup {NoAddr},
              args : SUBSET Pages, got : SUBSET Pages]

NoInterrupt == [saved |-> 0, at |-> NoAddr, depth |-> 0]

Top == stack[Len(stack)]
In(kinds) == stack # <<>> /\ Top.kind \in kinds
Pop == SubSeq(stack, 1, Len(stack) - 1)
WithTop(f) == Append(Pop, f)
Done == WithTop([Top EXCEPT !.kind = "done"])

\* An ExecuteProgram is between two commands.
Idle == stack # <<>> => Top.kind \in {"body", "end"}

Act == acts < MaxActs /\ acts' = acts + 1

\* g_LocalIndex where the program of the running command began.  Programs are
\* well formed: they return from what they called.
Base == IF inter.depth = Len(stack) - 1 /\ inter # NoInterrupt THEN inter.at + 1
        ELSE IF Len(stack) = 1 THEN 0 ELSE stack[Len(stack) - 1].saved + 1

TempAddrs == {strtmp[i].at : i \in DOMAIN strtmp}

\* ClearTempMemory with g_LocalIndex = lv pops entries from the end.
Kept(lv) ==
    CHOOSE n \in 0 .. Len(strtmp) :
        /\ n > 0 => strtmp[n].level < lv
        /\ \A i \in n + 1 .. Len(strtmp) : strtmp[i].level >= lv
ClearTemps(lv) ==
    /\ strtmp' = SubSeq(strtmp, 1, Kept(lv))
    /\ changed' = (changed /\ Kept(lv) = Len(strtmp))
TempsFreed(lv) == {strtmp[i].at : i \in Kept(lv) + 1 .. Len(strtmp)}

\* ClearVars(lv) deletes the variables of that level or greater.  It tests for
\* an address above MMHeap, so the memory of one at MMHeap is not freed.
VarsCleared(lv) == {v \in vars : v.level >= lv}
VarsFreed(lv) == {v.at : v \in VarsCleared(lv)} \ {0}
PageZeroLost(lv) == IF 0 \in {v.at : v \in VarsCleared(lv)} THEN {"page0"} ELSE {}

-----------------------------------------------------------------------------
(* Commands *)

Since == IF inter = NoInterrupt THEN 0 ELSE owed

BeginCommand ==
    /\ Idle /\ running
    /\ In({"end"}) => inter.depth = Len(stack)
    /\ Act
    /\ stack' = Append(stack, Frame("cmd", FALSE, NoAddr))
    /\ owed' = Since
    /\ UNCHANGED <<heapVars, vars, temps, depth, setup, errskip, inter, running, untidy, interrupts>>

\* The rest of the loop in ExecuteProgram, for a command without an error, up to
\* CheckAbort (do_end) and check_interrupt (GotAnInterrupt).
EndCommand ==
    /\ In({"cmd", "done"})
    /\ stack' = Pop
    /\ errskip' = IF errskip > 0 THEN errskip - 1 ELSE errskip
    /\ IF changed
       THEN ClearTemps(level) /\ FreeMemory(TempsFreed(level))
       ELSE UNCHANGED <<temps, heapVars>>
    /\ UNCHANGED <<vars, depth, setup, inter, running, owed, untidy, bounds>>

\* GetTempMemory while an expression is evaluated.
GetTempMemory(s) ==
    /\ Act
    /\ In({"cmd", "args"})
    /\ Len(strtmp) < MaxTemps
    /\ GetSystemMemory(s, 1)
    /\ strtmp' = Append(strtmp, [at |-> s, level |-> level])
    /\ changed' = TRUE
    /\ stack' = WithTop([Top EXCEPT !.got = @ \cup {s}])
    /\ UNCHANGED <<vars, depth, setup, mode, untidy, interrupts>>

\* mutant: the entry stays in the table
ClearSpecificTempMemory_Keeps(i) ==
    /\ In({"cmd"})
    /\ i \in DOMAIN strtmp
    /\ strtmp[i].at \in Top.got
    /\ FreeMemory({strtmp[i].at})
    /\ stack' = WithTop([Top EXCEPT !.got = @ \ {strtmp[i].at}])
    /\ UNCHANGED <<vars, temps, depth, setup, mode, untidy, bounds>>

\* ClearSpecificTempMemory gives one back early.
ClearSpecificTempMemory(i) ==
    /\ In({"cmd"})
    /\ i \in DOMAIN strtmp
    /\ strtmp[i].at \in Top.got
    /\ FreeMemory({strtmp[i].at})
    /\ strtmp' = SubSeq(strtmp, 1, i - 1) \o SubSeq(strtmp, i + 1, Len(strtmp))
    /\ stack' = WithTop([Top EXCEPT !.got = @ \ {strtmp[i].at}])
    /\ UNCHANGED <<vars, changed, depth, setup, mode, untidy, bounds>>

\* DIM (level 0) and LOCAL, and ERASE, which finds global variables only.
Dim(s, k, lv) ==
    /\ Act
    /\ In({"cmd"})
    /\ GetMemory(s, k)
    /\ vars' = vars \cup {[at |-> s, level |-> lv]}
    /\ UNCHANGED <<stack, temps, depth, setup, mode, untidy, interrupts>>

Erase(v) ==
    /\ In({"cmd"})
    /\ v.level = 0
    /\ FreeMemory({v.at})
    /\ vars' = vars \ {v}
    /\ UNCHANGED <<stack, temps, depth, setup, mode, untidy, bounds>>

\* ON ERROR ABORT, IGNORE and SKIP 1.
OnError(n) ==
    /\ Act
    /\ In({"cmd"})
    /\ errskip' = n
    /\ stack' = Done
    /\ UNCHANGED <<heapVars, vars, temps, depth, setup, inter, running, owed, untidy, interrupts>>

\* GOSUB and ON n GOSUB.
cmd_gosub ==
    /\ In({"cmd"})
    /\ Len(gosub) < MaxGosub
    /\ gosub' = Append(gosub, "sub")
    /\ level' = level + 1
    /\ stack' = Done
    /\ UNCHANGED <<heapVars, vars, temps, setup, mode, untidy, bounds>>

\* mutant: the temporaries of the caller are not looked at again
Leave_Unchanged(lv) ==
    /\ FreeMemory(VarsFreed(lv))
    /\ vars' = vars \ VarsCleared(lv)
    /\ untidy' = untidy \cup PageZeroLost(lv)
    /\ level' = level - 1
    /\ UNCHANGED changed

\* ClearVars(g_LocalIndex--) of RETURN, END FUNCTION and IRETURN.
Leave(lv) ==
    /\ FreeMemory(VarsFreed(lv))
    /\ vars' = vars \ VarsCleared(lv)
    /\ untidy' = untidy \cup PageZeroLost(lv)
    /\ level' = level - 1
    /\ changed' = TRUE

\* RETURN and END SUB.  The SUB of an interrupt returns to an IRETURN.
cmd_return ==
    /\ In({"cmd"})
    /\ gosub # <<>> /\ gosub[Len(gosub)] = "sub"
    /\ level > Base
    /\ gosub' = SubSeq(gosub, 1, Len(gosub) - 1)
    /\ Leave(level)
    /\ stack' = Done
    /\ UNCHANGED <<strtmp, setup, mode, bounds>>

-----------------------------------------------------------------------------
(* DefinedSubFun *)

\* A sub is called by a command, a function from any expression.
StartCall(fun, s) ==
    /\ In({"cmd"}) \/ (In({"args"}) /\ fun)
    /\ Len(gosub) < MaxGosub
    /\ memlevel' = level
    /\ gosub' = Append(gosub, IF fun THEN "fun" ELSE "sub")
    /\ GetSystemMemory(s, ArgPages)
    /\ mem' = s /\ left' = FALSE
    /\ stack' = Append(stack, Frame("args", fun, s))
    /\ UNCHANGED <<vars, temps, level, mode, untidy, bounds>>

\* The copy of an argument that is a string expression.
StringArgument(s) ==
    /\ Act
    /\ In({"args"})
    /\ GetMemory(s, 1)
    /\ stack' = WithTop([Top EXCEPT !.args = @ \cup {s}])
    /\ UNCHANGED <<vars, temps, depth, setup, mode, untidy, interrupts>>

\* All arguments are evaluated: from here on variables are local to the call.
BeginBind ==
    /\ In({"args"})
    /\ level' = level + 1
    /\ stack' = WithTop([Top EXCEPT !.kind = "bind"])
    /\ UNCHANGED <<heapVars, vars, temps, gosub, setup, mode, untidy, bounds>>

\* findvar declares a string parameter, then the argument is copied into it.
DeclareParameter(s) ==
    /\ In({"bind"})
    /\ Top.args # {}
    /\ GetMemory(s, 1)
    /\ vars' = vars \cup {[at |-> s, level |-> level]}
    /\ UNCHANGED <<stack, temps, depth, setup, mode, untidy, bounds>>

CopyArgument(a) ==
    /\ In({"bind"})
    /\ \E v \in vars : v.level = level
    /\ a \in Top.args
    /\ FreeMemory({a})
    /\ stack' = WithTop([Top EXCEPT !.args = @ \ {a}])
    /\ UNCHANGED <<vars, temps, depth, setup, mode, untidy, bounds>>

\* mutant: the buffer is given back and still taken for this call's
Bound_KeepsMem ==
    /\ In({"bind"})
    /\ Top.args = {}
    /\ FreeMemory({Top.argval})
    /\ stack' = IF Top.fun THEN WithTop([Top EXCEPT !.kind = "result", !.argval = NoAddr])
                ELSE Append(SubSeq(stack, 1, Len(stack) - 2),
                            [stack[Len(stack) - 1] EXCEPT !.kind = "done"])
    /\ UNCHANGED <<vars, temps, depth, setup, mode, untidy, bounds>>

\* The argument buffer is given back.  A sub's body is run by the caller's own
\* ExecuteProgram.
Bound ==
    /\ In({"bind"})
    /\ Top.args = {}
    /\ FreeMemory({Top.argval})
    /\ mem' = NoAddr
    /\ stack' = IF Top.fun THEN WithTop([Top EXCEPT !.kind = "result", !.argval = NoAddr])
                ELSE Append(SubSeq(stack, 1, Len(stack) - 2),
                            [stack[Len(stack) - 1] EXCEPT !.kind = "done"])
    /\ UNCHANGED <<vars, temps, depth, memlevel, left, mode, untidy, bounds>>

\* A function that returns a number, and one that returns a string, whose
\* memory belongs to the caller's command.
NumberResult ==
    /\ In({"result"})
    /\ stack' = WithTop([Top EXCEPT !.kind = "body"])
    /\ UNCHANGED <<heapVars, vars, temps, depth, setup, mode, untidy, bounds>>

\* mutant: the memory is allocated at the function's own level
StringResult_OwnLevel(s) ==
    /\ In({"result"})
    /\ Len(strtmp) < MaxTemps
    /\ GetSystemMemory(s, 1)
    /\ strtmp' = Append(strtmp, [at |-> s, level |-> level])
    /\ changed' = TRUE
    /\ stack' = WithTop([Top EXCEPT !.kind = "body", !.got = {s}])
    /\ UNCHANGED <<vars, depth, setup, mode, untidy, bounds>>

StringResult(s) ==
    /\ In({"result"})
    /\ Len(strtmp) < MaxTemps
    /\ GetSystemMemory(s, 1)
    /\ strtmp' = Append(strtmp, [at |-> s, level |-> level - 1])
    /\ changed' = TRUE
    /\ stack' = WithTop([Top EXCEPT !.kind = "body", !.got = {s}])
    /\ UNCHANGED <<vars, depth, setup, mode, untidy, bounds>>

\* END FUNCTION ends the inner ExecuteProgram ...
cmd_endfun ==
    /\ In({"cmd"})
    /\ gosub # <<>> /\ gosub[Len(gosub)] = "fun"
    /\ level = Base /\ inter.depth # Len(stack) - 1
    /\ stack' = [Done EXCEPT ![Len(stack) - 1].kind = "end"]
    /\ UNCHANGED <<heapVars, vars, temps, depth, setup, mode, untidy, bounds>>

\* ... and the caller's expression goes on with the result.
ReturnValue ==
    LET caller == stack[Len(stack) - 1]
    IN  /\ In({"end"})
        /\ inter.depth # Len(stack)
        /\ Leave(level)
        /\ gosub' = SubSeq(gosub, 1, Len(gosub) - 1)
        /\ stack' = Append(SubSeq(stack, 1, Len(stack) - 2),
                           [caller EXCEPT !.got = @ \cup Top.got])
        /\ owed' = Since
        /\ UNCHANGED <<strtmp, setup, errskip, inter, running, bounds>>

-----------------------------------------------------------------------------
(* Errors: of any command or call, no memory left among them *)

Commands == {i \in DOMAIN stack : stack[i].kind = "cmd"}
Innermost == CHOOSE i \in Commands : \A j \in Commands : j <= i

\* The calls an error in the innermost command abandons.
Abandoned == {stack[i] : i \in Innermost + 1 .. Len(stack)}

\* What error() expects is one call at most, with its buffer and no copies of
\* string arguments.
LeftBehind ==
    (IF \E f \in Abandoned : f.args # {} THEN {"strings"} ELSE {})
    \cup IF Abandoned # {} /\ (mem = NoAddr \/ Len(stack) > Innermost + 1)
         THEN {"call"} ELSE {}

\* error(), and where it leads: ON ERROR SKIP or IGNORE leave the command, and
\* otherwise the program ends at the prompt.  calls and lv are gosubstack and
\* DefinedSubFunLocalIndex at the time of the error.
\* If DefinedSubFunMem is from a call that Ctrl-C left, error() takes a call that
\* is not there from gosubstack and frees an address that may be anybody's.  What
\* the program does after that is not followed: it is at the prompt, and RUN may
\* find DefinedSubFunMem with any value.
error(calls, lv) ==
    LET skip == errskip # 0 /\ ~left
        locals == mem # NoAddr /\ level # lv
        back == IF skip THEN stack[Innermost].saved ELSE 0
    IN  /\ FreeMemory(TempsFreed(back) \cup ({mem} \ {NoAddr})
                      \cup IF locals THEN VarsFreed(level) ELSE {})
        /\ ClearTemps(back)
        /\ vars' = IF locals THEN vars \ VarsCleared(level) ELSE vars
        /\ gosub' = IF mem = NoAddr THEN calls ELSE SubSeq(calls, 1, Len(calls) - 1)
        /\ mem' = NoAddr /\ memlevel' = lv /\ left' = FALSE
        /\ level' = back
        /\ stack' = IF skip THEN SubSeq(stack, 1, Innermost - 1) ELSE <<>>
        /\ running' = skip
        /\ errskip' = IF errskip > 0 THEN errskip - 1 ELSE errskip
        /\ UNCHANGED <<inter, owed, bounds>>

Stale == IF left THEN {"stale"} ELSE {}

Error ==
    /\ In({"cmd", "args", "bind", "result"})
    /\ error(gosub, memlevel)
    /\ untidy' = untidy \cup LeftBehind \cup Stale
                  \cup IF level # memlevel /\ mem # NoAddr THEN PageZeroLost(level) ELSE {}

\* The buffer of a call does not fit: the call is already on gosubstack.
NoRoomForCall(fun) ==
    /\ In({"cmd"}) \/ (In({"args"}) /\ fun)
    /\ Len(gosub) < MaxGosub
    /\ \A s \in Pages : ~(Fits(s, ArgPages) /\ s + ArgPages < NPages)
    /\ error(Append(gosub, IF fun THEN "fun" ELSE "sub"), level)
    /\ untidy' = untidy \cup LeftBehind \cup Stale \cup {"call"}

\* ON n GOSUB looks for its label when it is already on gosubstack; only
\* g_LocalIndex is put back.
NoLabel ==
    /\ In({"cmd"})
    /\ Len(gosub) < MaxGosub
    /\ error(Append(gosub, "sub"), memlevel)
    /\ untidy' = untidy \cup LeftBehind \cup Stale \cup {"label"}

\* END, and Ctrl-C, which CheckAbort finds after a command, in one that waits or
\* in an INKEY$ among the arguments of a call: a jump to the prompt, past error().
do_end ==
    /\ In({"cmd", "args"}) \/ (Idle /\ running)
    /\ stack' = <<>>
    /\ level' = 0
    /\ ClearTemps(0) /\ FreeMemory(TempsFreed(0))
    /\ inter' = NoInterrupt
    /\ running' = FALSE
    /\ owed' = 0
    /\ left' = (mem # NoAddr)
    /\ UNCHANGED <<vars, gosub, mem, memlevel, errskip, untidy, bounds>>

\* RUN: ClearRuntime, which ends with InitHeap and ClearVars(0).
ClearRuntime ==
    /\ ~running
    /\ InitHeap
    /\ stack' = <<>> /\ vars' = {} /\ strtmp' = <<>>
    /\ level' = 0 /\ gosub' = <<>>
    /\ \/ /\ "stale" \notin untidy
          /\ changed' = (changed /\ strtmp = <<>>)
          /\ UNCHANGED <<mem, left>>
       \/ /\ "stale" \in untidy
          /\ changed' \in BOOLEAN
          /\ mem' \in Pages \cup {NoAddr} /\ left' = (mem' # NoAddr)
    /\ errskip' = 0
    /\ inter' = NoInterrupt
    /\ running' = TRUE
    /\ owed' = 0 /\ untidy' = {}
    /\ UNCHANGED <<memlevel, bounds>>

-----------------------------------------------------------------------------
(* Interrupts *)

\* mutant: the SUB gets no level of its own
GotAnInterrupt_OneLevel(sub) ==
    /\ Idle /\ running
    /\ inter = NoInterrupt
    /\ interrupts < MaxInterrupts
    /\ sub => Len(gosub) < MaxGosub
    /\ interrupts' = interrupts + 1
    /\ level' = level + 1
    /\ gosub' = IF sub THEN Append(gosub, "sub") ELSE gosub
    /\ inter' = [saved |-> IF errskip > 0 THEN errskip ELSE 0, at |-> level,
                 depth |-> Len(stack)]
    /\ owed' = errskip
    /\ errskip' = 0
    /\ UNCHANGED <<heapVars, stack, vars, temps, setup, running, untidy, acts>>

\* check_interrupt after a command; a SUB is entered as if IRETURN called it.
GotAnInterrupt(sub) ==
    /\ Idle /\ running
    /\ inter = NoInterrupt
    /\ interrupts < MaxInterrupts
    /\ sub => Len(gosub) < MaxGosub
    /\ interrupts' = interrupts + 1
    /\ level' = level + IF sub THEN 2 ELSE 1
    /\ gosub' = IF sub THEN Append(gosub, "sub") ELSE gosub
    /\ inter' = [saved |-> IF errskip > 0 THEN errskip ELSE 0, at |-> level,
                 depth |-> Len(stack)]
    /\ owed' = errskip
    /\ errskip' = 0
    /\ UNCHANGED <<heapVars, stack, vars, temps, setup, running, untidy, acts>>

\* mutant: the count is restored without the command that restores it
Restored_Exact(saved) == saved

\* mmbasic_runtime_interrupt_restore_error_state: IRETURN itself counts as one.
Restored(saved) == IF saved > 0 THEN saved + 1 ELSE saved

\* mutant: no test that an interrupt is running
cmd_ireturn_Anywhere ==
    /\ In({"cmd"})
    /\ level = inter.at + 1 /\ inter.depth = Len(stack) - 1
    /\ Leave(level)
    /\ errskip' = Restored(inter.saved)
    /\ inter' = NoInterrupt
    /\ stack' = Done
    /\ UNCHANGED <<strtmp, gosub, setup, running, owed, bounds>>

cmd_ireturn ==
    /\ In({"cmd"})
    /\ inter # NoInterrupt
    /\ level = inter.at + 1 /\ inter.depth = Len(stack) - 1
    /\ Leave(level)
    /\ errskip' = Restored(inter.saved)
    /\ inter' = NoInterrupt
    /\ stack' = Done
    /\ UNCHANGED <<strtmp, gosub, setup, running, owed, bounds>>

-----------------------------------------------------------------------------
Init ==
    /\ HeapInit
    /\ stack = <<>> /\ vars = {} /\ strtmp = <<>>
    /\ changed = FALSE
    /\ level = 0 /\ gosub = <<>>
    /\ mem = NoAddr /\ memlevel = 0 /\ left = FALSE
    /\ errskip = 0
    /\ inter = NoInterrupt
    /\ running = TRUE
    /\ owed = 0 /\ untidy = {}
    /\ acts = 0 /\ interrupts = 0

Next ==
    \/ BeginCommand \/ EndCommand \/ cmd_gosub \/ cmd_return
    \/ \E s \in Pages : GetTempMemory(s) \/ StringArgument(s) \/ DeclareParameter(s)
                        \/ StringResult(s) \/ CopyArgument(s)
    \/ \E i \in DOMAIN strtmp : ClearSpecificTempMemory(i)
    \/ \E s \in Pages, k \in 1 .. ArgPages, lv \in {0, level} : Dim(s, k, lv)
    \/ \E v \in vars : Erase(v)
    \/ \E n \in {-1, 0, 2} : OnError(n)
    \/ \E fun \in BOOLEAN : NoRoomForCall(fun) \/ \E s \in Pages : StartCall(fun, s)
    \/ BeginBind \/ Bound \/ NumberResult \/ cmd_endfun \/ ReturnValue
    \/ Error \/ NoLabel \/ do_end \/ ClearRuntime
    \/ \E sub \in BOOLEAN : GotAnInterrupt(sub)
    \/ cmd_ireturn

Spec == Init /\ [][Next]_allVars

-----------------------------------------------------------------------------
(* Properties *)

\* Every variable has its type.
TypeOK ==
    /\ bits \in [Pages -> {"free", "used", "last"}] /\ live \subseteq Pages
    /\ stack \in Seq(FrameType)
    /\ vars \subseteq [at : Pages, level : Nat]
    /\ strtmp \in Seq([at : Pages, level : Nat])
    /\ {changed, running, left} \subseteq BOOLEAN
    /\ level \in Nat /\ memlevel \in Nat
    /\ gosub \in Seq({"sub", "fun"})
    /\ mem \in Pages \cup {NoAddr}
    /\ {errskip, owed} \subseteq Int
    /\ untidy \subseteq {"strings", "call", "label", "page0", "stale"}

\* Everybody who holds memory.
Holders == {v.at : v \in vars} \cup TempAddrs
           \cup {stack[i].argval : i \in {i \in DOMAIN stack : stack[i].kind \in {"args", "bind"}}}
           \cup UNION {stack[i].args : i \in DOMAIN stack}

\* No error has freed the buffer of a call that was no longer there.
Sound == "stale" \notin untidy

\* Nothing that is still held has been freed, by a command that ends, an error or
\* Ctrl-C, and nothing that was allocated is forgotten before RUN, unless an error
\* was skipped in the middle of nested calls or string arguments, or a variable
\* was at MMHeap itself; except when an error freed the buffer of a call that
\* Ctrl-C had left.
HeldIsLive ==
    /\ Sound => Holders \subseteq live
    /\ running /\ untidy = {} => live \subseteq Holders

\* Until such an error every page the map shows as used is in a block that can be
\* given back, with the calls FreeMemory gets from commands, errors and Ctrl-C.
PagesAreFound == Sound => NoPageLost

\* Until such an error the interpreter finds the heap to be the Allocator.
Promised == IF Sound THEN Blocks ELSE {}
Promise == INSTANCE Allocator WITH blocks <- Promised
CallsFindAllocator == Promise!AllocSpec

\* The temporaries of a command, the results of its functions among them, last
\* until it ends, whatever the commands inside those functions clear.
TempsLast == \A i \in DOMAIN stack : stack[i].got \subseteq TempAddrs

\* No temporary outlives a command of the main program: SUBs, functions,
\* interrupts, skipped errors and the flag that avoids needless scans included.
TempsEnd == stack = <<>> /\ level = 0 => strtmp = <<>>

\* What error() gives back is the buffer of the call that is being set up, or of
\* one that Ctrl-C left while it evaluated its arguments: neither the prompt nor
\* RUN clears DefinedSubFunMem, only the next call does.
MemIsCurrent == mem # NoAddr /\ ~left => In({"args", "bind"}) /\ Top.argval = mem

\* g_LocalIndex counts the calls on gosubstack that have their arguments, and
\* the interrupt.
Balanced ==
    LET waiting == {i \in DOMAIN stack : stack[i].kind = "args"}
        interrupt == IF inter = NoInterrupt THEN 0 ELSE 1
    IN  Len(gosub) + interrupt = level + Cardinality(waiting)

\* Between two commands g_LocalIndex and gosubstack agree, so that locals and
\* temporaries die with their call and RETURN finds its caller; except after the
\* skipped errors that SkipRecovers is about and the one of ON n GOSUB.
CallDepth == Idle /\ running /\ untidy \subseteq {"page0", "strings"} => Balanced

\* The comment in DefinedSubFun: errors after gosubindex is incremented need to
\* restore its value, so that a program recovers cleanly from skipped errors.
SkipRecovers == Idle /\ running /\ "label" \notin untidy => Balanced

\* After an interrupt the program finds its ON ERROR SKIP count as it was.
ErrorModeKept == Idle /\ running /\ inter = NoInterrupt /\ owed > 0 => errskip = owed
=============================================================================
