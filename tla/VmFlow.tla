------------------------------- MODULE VmFlow --------------------------------
(***************************************************************************)
(* Control flow of the bytecode engine: the one-pass compiler              *)
(* (runtime/vm/bc_source.c, bc_compiler_core.c), which turns every line    *)
(* into instructions and patches jumps when it reaches their targets, and  *)
(* the machine that runs them (bc_vm.c).                                   *)
(*                                                                         *)
(* An instruction stands for the bytes of one branch, store or statement   *)
(* together with the expression evaluated for it, an address is an index   *)
(* of the code and 0 a jump not yet patched.                               *)
(***************************************************************************)
EXTENDS BasicFlow

CONSTANTS VM_MAX_FOR, VM_MAX_GOSUB, VM_MAX_CALL,
          MaxExits,      \* jumps an open block can keep to be patched at its end
          MaxConts,      \* likewise for CONTINUE, and for the ends of CASEs
          VmFuel         \* bound: instructions executed before a run is cut off

VARIABLES
    line,         \* next line to compile
    cs,           \* the compiler's state
    pc,           \* next instruction to execute
    globals,      \* values of the global variables
    hidden,       \* limit and step of the FOR loops, by hidden slot (main program)
    frame,        \* local variables and hidden slots of the running SUB
    call_stack,   \* frames of SUB calls
    gosub_stack,  \* return addresses of GOSUBs
    fsp,          \* entries of the FOR stack
    vmprinted,    \* what the machine has printed
    vmsteps,      \* instructions executed
    vm            \* "idle", "compiling", "rejected", "running", "ended",
                  \* "error", "overflow" or "fuel"

run_vars == <<pc, globals, hidden, frame, call_stack, gosub_stack, fsp, vmprinted, vmsteps>>
vm_vars == <<line, cs, pc, globals, hidden, frame, call_stack, gosub_stack, fsp, vmprinted, vmsteps, vm>>

-----------------------------------------------------------------------------
(***************************************************************************)
(* Emitting and patching.                                                  *)
(***************************************************************************)
NewCompiler == [code |-> <<>>, nest |-> <<>>, labelmap |-> [l \in {} |-> 0], entry |-> 0,
                insub |-> FALSE, locals |-> {}, slots |-> 0, bad |-> FALSE]

\* The address of the next instruction.
Here(c) == Len(c.code) + 1

\* Names that resolve to locals at this point of the program.
Scope(c) == IF c.insub THEN c.locals ELSE {}

Emit(c, i) == [c EXCEPT !.code = Append(@, i)]
Jump(op, t) == [op |-> op, t |-> t]
Branch(c, op, cond, t) == [op |-> op, t |-> t, c |-> cond, scope |-> Scope(c)]

\* source_patch_jmp_here for every address of a set.
PatchHere(c, ps) ==
    [c EXCEPT !.code = [a \in DOMAIN c.code |->
        IF a \in ps THEN [c.code[a] EXCEPT !.t = Here(c)] ELSE c.code[a]]]

bc_set_error(c) == [c EXCEPT !.bad = TRUE]

(***************************************************************************)
(* The stack of open blocks.  addr1 and addr2 are jumps to patch or the    *)
(* top of the loop; exits, conts and ends are jumps to patch at the end.   *)
(***************************************************************************)
Block(type, addr1, addr2) ==
    [type |-> type, addr1 |-> addr1, addr2 |-> addr2, exits |-> {}, conts |-> {},
     ends |-> {}, v |-> "", slot |-> 0]

\* Remember a jump to patch later; one too many is forgotten.
Keep(fixups, a, max) == IF Cardinality(fixups) < max THEN fixups \cup {a} ELSE fixups

bc_nest_push(c, e) == [c EXCEPT !.nest = Append(@, e)]
bc_nest_pop(c) == [c EXCEPT !.nest = Front(@)]

\* The innermost open block of a type, 0 if there is none.
bc_nest_find(c, type) ==
    LET open == {n \in DOMAIN c.nest : c.nest[n].type = type}
    IN IF open = {} THEN 0 ELSE CHOOSE n \in open : \A m \in open : m <= n

\* The innermost open block is an IF (or a SUB): what ELSE, ENDIF and END SUB ask.
TopIs(c, type) == c.nest # <<>> /\ Last(c.nest).type = type

-----------------------------------------------------------------------------
(***************************************************************************)
(* One operator per statement: the compiler's state after it.              *)
(***************************************************************************)
source_compile_for(c, s) ==
    LET slot == c.slots + 1
        c1 == Emit([c EXCEPT !.slots = slot],
                   [op |-> "store", v |-> s.v, a |-> s.a, b |-> s.b, s |-> s.s,
                    slot |-> slot, insub |-> c.insub, scope |-> Scope(c)])
        c2 == Emit(c1, [op |-> "for_init", v |-> s.v, slot |-> slot, t |-> 0,
                        insub |-> c.insub, scope |-> Scope(c)])
    IN bc_nest_push(c2, [Block("FOR", Here(c2), Len(c2.code)) EXCEPT !.v = s.v, !.slot = slot])

\* Close the innermost FOR.
source_emit_for_next_close_ContsLate(c) ==
    LET n == bc_nest_find(c, "FOR")
        e == c.nest[n]
        c1 == Emit(c, [op |-> "for_next", v |-> e.v, slot |-> e.slot, t |-> e.addr1,
                       insub |-> c.insub, scope |-> Scope(c)])
    IN IF n = 0 THEN bc_set_error(c)
       ELSE bc_nest_pop(PatchHere(c1, e.exits \cup e.conts \cup {e.addr2}))

source_emit_for_next_close(c) ==
    LET n == bc_nest_find(c, "FOR")
        e == c.nest[n]
        c1 == Emit(PatchHere(c, e.conts),
                   [op |-> "for_next", v |-> e.v, slot |-> e.slot, t |-> e.addr1,
                    insub |-> c.insub, scope |-> Scope(c)])
    IN IF n = 0 THEN bc_set_error(c) ELSE bc_nest_pop(PatchHere(c1, e.exits \cup {e.addr2}))

\* NEXT closes one FOR, NEXT v1, v2, ... one for each variable.
source_compile_next(c, s) ==
    FoldLeft(LAMBDA x, v : source_emit_for_next_close(x),
             source_emit_for_next_close(c), IF s.vs = <<>> THEN s.vs ELSE Tail(s.vs))

source_compile_do(c, s) ==
    LET c1 == bc_nest_push(c, Block("DO", Here(c), IF s.test = "none" THEN 0 ELSE Here(c)))
    IN CASE s.test = "none" -> c1
         [] s.test = "while" -> Emit(c1, Branch(c, "jz", s.c, 0))
         [] s.test = "until" -> Emit(c1, Branch(c, "jnz", s.c, 0))

source_compile_loop(c, s) ==
    LET n == bc_nest_find(c, "DO")
        e == c.nest[n]
        c1 == PatchHere(c, e.conts)
        c2 == CASE s.test = "while" -> Emit(c1, Branch(c, "jnz", s.c, e.addr1))
                [] s.test = "until" -> Emit(c1, Branch(c, "jz", s.c, e.addr1))
                [] OTHER -> Emit(c1, Jump("jmp", e.addr1))
    IN IF n = 0 THEN bc_set_error(c) ELSE bc_nest_pop(PatchHere(c2, e.exits \cup {e.addr2}))

\* EXIT FOR and EXIT DO: a jump that the end of the loop will patch.
ExitLoop_Unplaced(c, type) ==
    LET n == bc_nest_find(c, type)
    IN IF n = 0 THEN Emit(c, Jump("jmp", 0))
       ELSE Emit([c EXCEPT !.nest[n].exits = Keep(@, Here(c), MaxExits)], Jump("jmp", 0))

ExitLoop(c, type) ==
    LET n == bc_nest_find(c, type)
    IN IF n = 0 THEN bc_set_error(c)
       ELSE Emit([c EXCEPT !.nest[n].exits = Keep(@, Here(c), MaxExits)], Jump("jmp", 0))

source_compile_exit(c, s) ==
    CASE s.op = "exitfor" -> ExitLoop(c, "FOR")
      [] s.op = "exitdo" -> ExitLoop(c, "DO")
      [] s.op = "exitsub" -> IF bc_nest_find(c, "SUB") = 0 THEN bc_set_error(c)
                             ELSE Emit(c, Jump("ret_sub", 0))

source_compile_continue(c, s) ==
    LET n == bc_nest_find(c, IF s.op = "contfor" THEN "FOR" ELSE "DO")
    IN IF n = 0 THEN bc_set_error(c)
       ELSE Emit([c EXCEPT !.nest[n].conts = Keep(@, Here(c), MaxConts)], Jump("jmp", 0))

source_compile_if(c, s) ==
    bc_nest_push(Emit(c, Branch(c, "jz", s.c, 0)), Block("IF", Here(c), 0))

\* End the clause above: jump to ENDIF, and let its false condition come here.
EndClause(c) ==
    LET n == Len(c.nest)
        c1 == Emit([c EXCEPT !.nest[n].exits = Keep(@, Here(c), MaxExits)], Jump("jmp", 0))
    IN [PatchHere(c1, {c.nest[n].addr1}) EXCEPT !.nest[n].addr1 = 0]

source_compile_elseif(c, s) ==
    LET c1 == EndClause(c)
    IN IF ~TopIs(c, "IF") THEN bc_set_error(c)
       ELSE Emit([c1 EXCEPT !.nest[Len(c1.nest)].addr1 = Here(c1)], Branch(c, "jz", s.c, 0))

source_compile_else(c) == IF TopIs(c, "IF") THEN EndClause(c) ELSE bc_set_error(c)

\* A stray ENDIF is ignored.
source_compile_endif(c) ==
    LET e == Last(c.nest)
    IN IF TopIs(c, "IF") THEN bc_nest_pop(PatchHere(c, e.exits \cup {e.addr1})) ELSE c

source_compile_select_case(c, s) == bc_nest_push(c, [Block("SELECT", 0, 0) EXCEPT !.v = s.v])

\* CASE ends the case above it, then tests the value: the jump taken when it
\* does not match goes to the next CASE.
source_compile_case(c, s) ==
    LET n == bc_nest_find(c, "SELECT")
        e == c.nest[n]
        c1 == IF e.addr1 = 0 THEN c
              ELSE PatchHere(Emit([c EXCEPT !.nest[n].ends = Keep(@, Here(c), MaxConts),
                                            !.nest[n].addr1 = 0], Jump("jmp", 0)), {e.addr1})
    IN IF n = 0 THEN bc_set_error(c)
       ELSE IF s.op = "caseelse" THEN c1
       ELSE Emit([c1 EXCEPT !.nest[n].addr1 = Here(c1)],
                 Branch(c, "jz", Cond(e.v, s.lo, s.hi), 0))

source_compile_end_select(c) ==
    LET n == bc_nest_find(c, "SELECT")
    IN IF n = 0 THEN bc_set_error(c)
       ELSE bc_nest_pop(PatchHere(c, c.nest[n].ends \cup {c.nest[n].addr1}))

\* GOTO and GOSUB name a label, which may not be known yet.
source_compile_goto(c, op, l) == Emit(c, [op |-> op, t |-> 0, l |-> l])

\* ON v GOTO|GOSUB l1, l2, ...: a test and a jump for every label; after a
\* GOSUB the rest of the tests is jumped over.
source_compile_on(c, s) ==
    LET slot == c.slots + 1
        c0 == Emit([c EXCEPT !.slots = slot],
                   [op |-> "index", v |-> s.v, slot |-> slot, insub |-> c.insub, scope |-> Scope(c)])
        Test(x, k) ==
            LET c1 == Emit(x.c, [op |-> "jne", k |-> k, slot |-> slot, insub |-> c.insub, t |-> 0])
                c2 == source_compile_goto(c1, IF s.sub THEN "gosub" ELSE "jmp_abs", s.ls[k])
                c3 == IF s.sub THEN Emit(c2, Jump("jmp", 0)) ELSE c2
            IN [c |-> PatchHere(c3, {Len(c1.code)}),
                ends |-> IF s.sub THEN x.ends \cup {Len(c3.code)} ELSE x.ends]
        all == FoldLeft(Test, [c |-> c0, ends |-> {}], [k \in DOMAIN s.ls |-> k])
    IN PatchHere(all.c, all.ends)

\* SUB: the main program jumps over it.
source_compile_sub(c) ==
    LET c1 == Emit(c, Jump("jmp", 0))
    IN bc_nest_push([c1 EXCEPT !.entry = Here(c1), !.insub = TRUE], Block("SUB", Here(c), 0))

source_compile_end_sub(c) ==
    LET e == Last(c.nest)
    IN IF ~TopIs(c, "SUB") THEN bc_set_error(c)
       ELSE bc_nest_pop([PatchHere(Emit(c, Jump("ret_sub", 0)), {e.addr1}) EXCEPT !.insub = FALSE])

\* Statements that can follow the THEN of a single-line IF.
source_compile_simple(c, s) ==
    CASE s.op \in {"exitfor", "exitdo", "exitsub"} -> source_compile_exit(c, s)
      [] s.op \in {"contfor", "contdo"} -> source_compile_continue(c, s)
      [] s.op = "goto" -> source_compile_goto(c, "jmp_abs", s.l)
      [] s.op = "gosub" -> source_compile_goto(c, "gosub", s.l)
      [] s.op = "on" -> source_compile_on(c, s)
      [] s.op \in {"return", "end", "call"} -> Emit(c, Jump(s.op, 0))
      [] s.op = "inc" -> Emit(c, [op |-> "inc", v |-> s.v, scope |-> Scope(c)])
      [] s.op = "print" -> Emit(c, [op |-> "print", x |-> s.x, scope |-> Scope(c)])

source_compile_statement(c, s) ==
    CASE s.op = "for" -> source_compile_for(c, s)
      [] s.op = "next" -> source_compile_next(c, s)
      [] s.op = "do" -> source_compile_do(c, s)
      [] s.op = "loop" -> source_compile_loop(c, s)
      [] s.op = "if" -> source_compile_if(c, s)
      [] s.op = "elseif" -> source_compile_elseif(c, s)
      [] s.op = "else" -> source_compile_else(c)
      [] s.op = "endif" -> source_compile_endif(c)
      [] s.op = "select" -> source_compile_select_case(c, s)
      [] s.op \in {"case", "caseelse"} -> source_compile_case(c, s)
      [] s.op = "endselect" -> source_compile_end_select(c)
      [] s.op = "sub" -> source_compile_sub(c)
      [] s.op = "endsub" -> source_compile_end_sub(c)
      [] s.op = "local" -> IF c.insub THEN [c EXCEPT !.locals = @ \cup {s.v}] ELSE bc_set_error(c)
      [] s.op = "label" -> [c EXCEPT !.labelmap = (s.l :> Here(c)) @@ @]
      [] s.op = "ifthen" ->
            PatchHere(source_compile_simple(Emit(c, Branch(c, "jz", s.c, 0)), s.then), {Here(c)})
      [] OTHER -> source_compile_simple(c, s)

\* bc_resolve_fixups: jumps to labels get their addresses.
bc_resolve_fixups(c) ==
    LET named == {a \in DOMAIN c.code : c.code[a].op \in {"jmp_abs", "gosub"}}
    IN IF \E a \in named : c.code[a].l \notin DOMAIN c.labelmap THEN bc_set_error(c)
       ELSE [c EXCEPT !.code = [a \in DOMAIN c.code |->
                IF a \in named THEN [c.code[a] EXCEPT !.t = c.labelmap[c.code[a].l]] ELSE c.code[a]]]

-----------------------------------------------------------------------------
(***************************************************************************)
(* The compiler's loop over the lines.                                     *)
(***************************************************************************)
CompileLine ==
    /\ vm = "compiling" /\ ~cs.bad /\ line \in Lines
    /\ cs' = source_compile_statement(cs, prog[line])
    /\ line' = line + 1
    /\ UNCHANGED <<vm, run_vars>>

CompileEnd ==
    /\ vm = "compiling" /\ (cs.bad \/ line \notin Lines)
    /\ cs' = IF cs.bad THEN cs ELSE bc_resolve_fixups(Emit(cs, Jump("end", 0)))
    /\ vm' = IF cs'.bad THEN "rejected" ELSE "running"
    /\ UNCHANGED <<line, run_vars>>

-----------------------------------------------------------------------------
(***************************************************************************)
(* The machine.                                                            *)
(***************************************************************************)
ins == cs.code[pc]

VarValue(scope, v) == IF v \in scope THEN frame.var[v] ELSE globals[v]
True(i) == i.c.lo <= VarValue(i.scope, i.c.v) /\ VarValue(i.scope, i.c.v) <= i.c.hi
Slot(i) == (IF i.insub THEN frame.slot ELSE hidden)[i.slot]

\* A jump that was never patched has offset 0 and falls through.
Target == IF ins.t = 0 THEN pc + 1 ELSE ins.t

Step(op) == vm = "running" /\ vmsteps < VmFuel /\ ins.op = op

\* Go on at an address; fail.
At(a) == pc' = a /\ vmsteps' = vmsteps + 1 /\ UNCHANGED <<line, cs, vm>>
Fail(how) == vm' = how /\ vmsteps' = vmsteps + 1 /\ UNCHANGED <<line, cs, pc, globals, hidden, frame, call_stack, gosub_stack, fsp, vmprinted>>

SameStore == UNCHANGED <<globals, hidden, frame, vmprinted>>
SameCalls == UNCHANGED <<call_stack, gosub_stack, fsp>>

\* Store into a variable and into a hidden slot.
SetVar(i, val) ==
    IF i.v \in i.scope THEN frame' = [frame EXCEPT !.var[i.v] = val] /\ UNCHANGED <<globals, hidden>>
    ELSE globals' = [globals EXCEPT ![i.v] = val] /\ UNCHANGED <<frame, hidden>>
WithSlot(i, f, val) == (i.slot :> val) @@ f

op_jump ==
    /\ \/ Step("jmp") /\ At(Target)
       \/ Step("jmp_abs") /\ At(Target)
       \/ Step("jz") /\ At(IF True(ins) THEN pc + 1 ELSE Target)
       \/ Step("jnz") /\ At(IF True(ins) THEN Target ELSE pc + 1)
       \/ Step("jne") /\ At(IF Slot(ins)[1] = ins.k THEN pc + 1 ELSE Target)
    /\ SameStore /\ SameCalls

op_gosub ==
    /\ Step("gosub")
    /\ IF Len(gosub_stack) >= VM_MAX_GOSUB THEN Fail("error")
       ELSE /\ gosub_stack' = Append(gosub_stack, pc + 1)
            /\ At(Target) /\ SameStore /\ UNCHANGED <<call_stack, fsp>>

op_return ==
    /\ Step("return")
    /\ IF gosub_stack = <<>> THEN Fail("error")
       ELSE /\ gosub_stack' = Front(gosub_stack)
            /\ At(Last(gosub_stack)) /\ SameStore /\ UNCHANGED <<call_stack, fsp>>

\* The stores of FOR: start value, limit and step; and of ON: its index.
op_store ==
    \/ /\ Step("store")
       /\ LET i == ins
              g == IF i.v \in i.scope THEN globals ELSE [globals EXCEPT ![i.v] = i.a]
              f == IF i.v \in i.scope THEN [frame EXCEPT !.var[i.v] = i.a] ELSE frame
          IN /\ globals' = g
             /\ frame' = IF i.insub THEN [f EXCEPT !.slot = WithSlot(i, @, <<i.b, i.s>>)] ELSE f
             /\ hidden' = IF i.insub THEN hidden ELSE WithSlot(i, hidden, <<i.b, i.s>>)
       /\ At(pc + 1) /\ SameCalls /\ UNCHANGED vmprinted
    \/ /\ Step("index")
       /\ LET i == ins
              val == <<VarValue(i.scope, i.v), 0>>
          IN IF val[1] \notin 0 .. 255 THEN Fail("error")
             ELSE /\ frame' = IF i.insub THEN [frame EXCEPT !.slot = WithSlot(i, @, val)] ELSE frame
                  /\ hidden' = IF i.insub THEN hidden ELSE WithSlot(i, hidden, val)
                  /\ At(pc + 1) /\ SameCalls /\ UNCHANGED <<globals, vmprinted>>

\* Enter a FOR loop, or jump over it when its variable is past the limit.
op_for_init ==
    /\ Step("for_init")
    /\ LET val == VarValue(ins.scope, ins.v)
           lim == Slot(ins)[1]
           step == Slot(ins)[2]
           skip == (step > 0 /\ val > lim) \/ (step < 0 /\ val < lim)
       IN IF fsp >= VM_MAX_FOR THEN Fail("overflow")
          ELSE IF step = 0 THEN Fail("error")
          ELSE /\ fsp' = IF skip THEN fsp ELSE fsp + 1
               /\ At(IF skip THEN Target ELSE pc + 1)
               /\ SameStore /\ UNCHANGED <<call_stack, gosub_stack>>

op_for_next ==
    /\ Step("for_next")
    /\ LET lim == Slot(ins)[1]
           step == Slot(ins)[2]
           val == VarValue(ins.scope, ins.v) + step
           past == IF step > 0 THEN val > lim ELSE val < lim
       IN /\ SetVar(ins, val)
          /\ fsp' = IF past /\ fsp > 0 THEN fsp - 1 ELSE fsp
          /\ At(IF past THEN pc + 1 ELSE Target)
    /\ UNCHANGED <<call_stack, gosub_stack, vmprinted>>

\* CALL_SUB and ENTER_FRAME: locals start at zero.
op_call_sub ==
    /\ Step("call")
    /\ IF Len(call_stack) >= VM_MAX_CALL THEN Fail("error")
       ELSE /\ call_stack' = Append(call_stack, [return_pc |-> pc + 1, frame |-> frame, for_sp |-> fsp])
            /\ frame' = [var |-> [v \in cs.locals |-> 0], slot |-> <<>>]
            /\ At(cs.entry)
            /\ UNCHANGED <<globals, hidden, vmprinted, gosub_stack, fsp>>

\* LEAVE_FRAME and RET_SUB.
op_ret_sub ==
    /\ Step("ret_sub")
    /\ IF call_stack = <<>> THEN Fail("error")
       ELSE LET cf == Last(call_stack)
            IN /\ call_stack' = Front(call_stack)
               /\ frame' = cf.frame
               /\ fsp' = cf.for_sp
               /\ At(cf.return_pc)
               /\ UNCHANGED <<globals, hidden, vmprinted, gosub_stack>>

op_inc ==
    /\ Step("inc")
    /\ SetVar(ins, VarValue(ins.scope, ins.v) + 1)
    /\ At(pc + 1) /\ SameCalls /\ UNCHANGED vmprinted

op_print ==
    /\ Step("print")
    /\ vmprinted' = Append(vmprinted, <<ins.x, [v \in Vars |-> VarValue(ins.scope, v)]>>)
    /\ At(pc + 1) /\ SameCalls /\ UNCHANGED <<globals, hidden, frame>>

op_end == Step("end") /\ Fail("ended")

VmOutOfFuel == vm = "running" /\ vmsteps >= VmFuel /\ Fail("fuel")

VmInit ==
    /\ line = 1 /\ cs = NewCompiler /\ pc = 1
    /\ globals = [v \in Vars |-> 0] /\ hidden = <<>>
    /\ frame = [var |-> [v \in {} |-> 0], slot |-> <<>>]
    /\ call_stack = <<>> /\ gosub_stack = <<>> /\ fsp = 0
    /\ vmprinted = <<>> /\ vmsteps = 0 /\ vm = "idle"

VmNext ==
    \/ CompileLine \/ CompileEnd
    \/ op_jump \/ op_gosub \/ op_return \/ op_store \/ op_for_init \/ op_for_next
    \/ op_call_sub \/ op_ret_sub \/ op_inc \/ op_print \/ op_end \/ VmOutOfFuel
=============================================================================
