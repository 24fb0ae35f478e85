------------------------------ MODULE BasicFlow ------------------------------
(***************************************************************************)
(* The BASIC programs that the interpreter (InterpFlow) and the bytecode   *)
(* compiler and machine (VmFlow) both run: a sequence of statements, one   *)
(* to a line, reduced to what decides where control goes.                  *)
(*                                                                         *)
(* A statement is a record whose field op names the command.  Conditions   *)
(* test that a variable lies in a range; FOR bounds are constants; PRINT   *)
(* writes a tag and the values of all variables; INC is v = v + 1.  The    *)
(* statement "ifthen" is the single-line IF c THEN s, all the others stand *)
(* on a line of their own.  Labels are statements that do nothing.  A      *)
(* program has at most one SUB, without parameters, which "call" calls.    *)
(***************************************************************************)
EXTENDS Integers, Sequences, FiniteSets, TLC, SequencesExt

CONSTANTS Vars,       \* names of the program's numeric variables
          Within,     \* where one name first occurs in another: see NamesAssumption
          Programs    \* the programs to run

VARIABLE prog         \* the program in memory

(***************************************************************************)
(* Constructors, for writing programs down.                                *)
(***************************************************************************)
Cond(v, lo, hi) == [v |-> v, lo |-> lo, hi |-> hi]
PRINT(x) == [op |-> "print", x |-> x]
INC(v) == [op |-> "inc", v |-> v]
FOR(v, a, b, s) == [op |-> "for", v |-> v, a |-> a, b |-> b, s |-> s]
NEXT(vs) == [op |-> "next", vs |-> vs]
DO(test, c) == [op |-> "do", test |-> test, c |-> c]
LOOP(test, c) == [op |-> "loop", test |-> test, c |-> c]
IFTHEN(c, s) == [op |-> "ifthen", c |-> c, then |-> s]
IF_(c) == [op |-> "if", c |-> c]
ELSEIF(c) == [op |-> "elseif", c |-> c]
SELECT(v) == [op |-> "select", v |-> v]
CASE_(lo, hi) == [op |-> "case", lo |-> lo, hi |-> hi]
LABEL(l) == [op |-> "label", l |-> l]
GOTO(l) == [op |-> "goto", l |-> l]
GOSUB(l) == [op |-> "gosub", l |-> l]
ON(v, sub, ls) == [op |-> "on", v |-> v, sub |-> sub, ls |-> ls]
LOCAL_(v) == [op |-> "local", v |-> v]
Plain(op) == [op |-> op]

(***************************************************************************)
(* What the parser guarantees: a command has the operands it needs, and    *)
(* they name variables of the program.                                     *)
(***************************************************************************)
Condition == [v : Vars, lo : Int, hi : Int]
Tests == {"none", "while", "until"}

WellFormed(s) ==
    /\ s.op = "for" => s.v \in Vars /\ {s.a, s.b, s.s} \subseteq Int
    /\ s.op = "next" => Range(s.vs) \subseteq Vars
    /\ s.op \in {"do", "loop"} => s.test \in Tests /\ s.c \in Condition
    /\ s.op \in {"if", "elseif", "ifthen"} => s.c \in Condition
    /\ s.op \in {"inc", "select", "on", "local"} => s.v \in Vars

\* The name v occurs nowhere in the name w, at its end, or before its end.
ASSUME NamesAssumption ==
    /\ Within \in [Vars \X Vars -> {"no", "end", "before"}]
    /\ \A v \in Vars : Within[<<v, v>>] = "end"

ASSUME ProgramsAssumption ==
    \A p \in Programs :
        /\ p \in Seq(Range(p))
        /\ \A k \in DOMAIN p : WellFormed(p[k]) /\ (p[k].op = "ifthen" => WellFormed(p[k].then))

Lines == DOMAIN prog

\* How many statements of the given kind lie between two lines.
Count(op, from, to) == Cardinality({q \in from .. to : prog[q].op = op})

\* The nesting level of line q as seen from line k, inside the block k opens.
Level(open, close, k, q) == 1 + Count(open, k + 1, q - 1) - Count(close, k + 1, q - 1)

\* The line that carries a label (there is at most one), none for an unknown one.
LabelLines(l) == {q \in Lines : prog[q].op = "label" /\ prog[q].l = l}

SubLines == {q \in Lines : prog[q].op = "sub"}
=============================================================================
