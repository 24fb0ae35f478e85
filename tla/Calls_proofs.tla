---------------------------- MODULE Calls_proofs ----------------------------
(***************************************************************************)
(* What Calls guarantees for heaps, call stacks, tables of temporaries and *)
(* programs of any size: who holds memory has it, and levels, temporaries, *)
(* gosubstack and the error mode are right after every command.            *)
(***************************************************************************)
EXTENDS Calls, Heap_proofs, FiniteSetTheorems, WellFoundedInduction

-----------------------------------------------------------------------------
(* The inductive invariant.                                                *)

InterType == [saved : Nat, at : Nat \cup {NoAddr}, depth : Nat]
TempType == [at : Pages, level : Nat]

\* Types, and what a program that Ctrl-C did no harm to has left behind.
Shaped ==
    /\ bits \in [Pages -> {"free", "used", "last"}] /\ live \subseteq Pages
    /\ stack \in Seq(FrameType)
    /\ vars \subseteq [at : Pages, level : Nat]
    /\ strtmp \in Seq([at : Pages, level : Nat])
    /\ {changed, running} \subseteq BOOLEAN
    /\ level \in Nat /\ memlevel \in Nat
    /\ gosub \in Seq({"sub", "fun"})
    /\ mem \in Pages \cup {NoAddr}
    /\ {errskip, owed} \subseteq Int
    /\ acts \in Nat /\ interrupts \in Nat

Typed ==
    /\ Shaped
    /\ untidy \subseteq {"strings", "call", "label", "page0"}

\* What a frame holds.
Buffer(f) == IF f.kind \in {"args", "bind"} THEN {f.argval} ELSE {}
Own(f) == f.args \cup Buffer(f)
StackHolds(s) == UNION {Own(s[i]) : i \in DOMAIN s}

Running == {"body", "end"}
Calling == {"cmd", "args"}
Command == {"cmd", "done"}

\* A frame by itself: strings and a buffer while the arguments are bound.
FrameOk(f) ==
    /\ f.kind \in {"args", "bind"} => f.argval \in Pages
    /\ f.kind \notin {"args", "bind"} => f.args = {}
    /\ f.args \cap Buffer(f) = {}

\* f on top of e: DefinedSubFun is called by a command or for an argument, and
\* commands are run by the program or for the body of a function.
Above(e, f) ==
    \/ /\ e.kind \in Running /\ f.kind \in Command
       /\ e.saved < f.saved
    \/ /\ e.kind \in Calling /\ f.kind \notin Command
       /\ f.fun \/ e.kind = "cmd"
       /\ e.saved = f.saved

\* The C stack: frames hold different memory and use different temporaries, and
\* g_LocalIndex grew with them.
StackInv(s) ==
    /\ s # <<>> => s[1].kind \in Command
    /\ \A i \in 1 .. Len(s) : FrameOk(s[i])
    /\ \A i \in 1 .. Len(s) : i + 1 \in 1 .. Len(s) => Above(s[i], s[i + 1])
    /\ \A i, j \in 1 .. Len(s) : i < j =>
           /\ s[i].saved <= s[j].saved
           /\ Own(s[i]) \cap Own(s[j]) = {}
           /\ s[i].got \cap s[j].got = {}

\* The table of temporaries, and what it says of the entries in it.
Entries(t) == {t[i] : i \in DOMAIN t}
TableInv(t) ==
    /\ t \in Seq(TempType)
    /\ \A i, j \in 1 .. Len(t) : i < j => t[i].level <= t[j].level /\ t[i].at # t[j].at

\* Who holds memory has it, nothing is held twice, and a tidy program forgets
\* nothing.
Addrs(S) == {e.at : e \in S}
HoldInv ==
    /\ Addrs(vars) \cup Addrs(Entries(strtmp)) \cup StackHolds(stack) \subseteq live
    /\ \A v, w \in vars : v.at = w.at => v = w
    /\ Addrs(vars) \cap Addrs(Entries(strtmp)) = {}
    /\ Addrs(vars) \cap StackHolds(stack) = {}
    /\ Addrs(Entries(strtmp)) \cap StackHolds(stack) = {}
    /\ running /\ untidy = {} =>
           live \subseteq Addrs(vars) \cup Addrs(Entries(strtmp)) \cup StackHolds(stack)

\* g_LocalIndex of the frame on top, and of functions that have ended.
LevelInv ==
    /\ ~running => stack = <<>>
    /\ In(Calling) => level = Top.saved
    /\ In({"bind", "result"}) => level = Top.saved + 1
    /\ In(Running) => level > Top.saved
    /\ In({"done"}) /\ Len(stack) > 1 => level > stack[Len(stack) - 1].saved
    /\ \A i \in 1 .. Len(stack) : stack[i].kind = "end" =>
           IF inter # NoInterrupt /\ inter.depth = i THEN inter.at = stack[i].saved + 1
           ELSE /\ level = stack[i].saved + 1
                /\ i = Len(stack) \/ (i = Len(stack) - 1 /\ In({"done"}))

\* An interrupt runs on top of what it interrupted.
InterInv ==
    /\ inter \in InterType /\ (inter # NoInterrupt => inter.at \in Nat)
    /\ running /\ inter # NoInterrupt =>
        /\ inter.depth <= Len(stack) /\ level > inter.at
        /\ inter.depth > 0 => stack[inter.depth].kind \in Running /\ inter.at > stack[inter.depth].saved
        /\ \A i \in 1 .. Len(stack) : i > inter.depth => stack[i].saved > inter.at

\* What a frame uses is as old as the frame, and what is due for the next scan
\* has set the flag.
TempInv ==
    /\ \A e \in Entries(strtmp) : e.level <= level \/ In({"done"})
    /\ ~changed \/ Idle \/ In({"bind", "result"}) =>
           \A e \in Entries(strtmp) : e.level < level
    /\ \A i \in 1 .. Len(stack) : \A a \in stack[i].got :
           \E e \in Entries(strtmp) : e.at = a /\ e.level <= stack[i].saved

\* The error mode an interrupt owes, and IRETURN counts for one command.
ErrorMode ==
    /\ inter # NoInterrupt => inter.saved = IF owed > 0 THEN owed ELSE 0
    /\ inter = NoInterrupt /\ owed > 0 =>
         IF Idle THEN errskip = owed ELSE In({"done"}) /\ errskip = owed + 1

Depth == running /\ "call" \notin untidy /\ "label" \notin untidy => Balanced

\* All of it, for a program in which no error freed the buffer of a call that
\* Ctrl-C had left.
ProgramInv ==
    /\ Typed /\ HeapInv /\ StackInv(stack) /\ TableInv(strtmp) /\ HoldInv
    /\ MemIsCurrent /\ LevelInv /\ InterInv /\ TempInv /\ ErrorMode /\ Depth

\* After such an error nothing is said of the heap until RUN.
LostInv ==
    /\ Shaped
    /\ untidy \subseteq {"strings", "call", "label", "page0", "stale"} /\ "stale" \in untidy
    /\ ~running /\ stack = <<>> /\ strtmp = <<>> /\ mem = NoAddr

CallsInv == left \in BOOLEAN /\ (ProgramInv \/ LostInv)

-----------------------------------------------------------------------------
(* The C stack.                                                            *)

\* stack' is the first n frames with f on top, or the first n frames.
Puts(n, f) ==
    /\ n \in 0 .. Len(stack) /\ f \in FrameType
    /\ stack' \in Seq(FrameType) /\ Len(stack') = n + 1
    /\ stack'[n + 1] = f
    /\ \A i \in 1 .. n : stack'[i] = stack[i]

Cuts(n) ==
    /\ n \in 0 .. Len(stack)
    /\ stack' \in Seq(FrameType) /\ Len(stack') = n
    /\ \A i \in 1 .. n : stack'[i] = stack[i]

LEMMA PutsFrame ==
    ASSUME stack \in Seq(FrameType), NEW n \in 0 .. Len(stack), NEW f \in FrameType,
           stack' = Append(SubSeq(stack, 1, n), f)
    PROVE  Puts(n, f)
<1>1. n \in Nat /\ Len(stack) \in Nat /\ n <= Len(stack)
  OBVIOUS
<1>2. \A i \in 1 .. n : i \in 1 .. Len(stack) /\ stack[i] \in FrameType
  BY <1>1
<1> DEFINE s == SubSeq(stack, 1, n)
<1>3. s \in Seq(FrameType) /\ Len(s) = n /\ \A i \in 1 .. n : s[i] = stack[i]
  BY <1>1, <1>2
<1> HIDE DEF s
<1>4. stack' = Append(s, f)
  BY DEF s
<1> QED
  BY <1>1, <1>3, <1>4 DEF Puts

LEMMA CutsFrames ==
    ASSUME stack \in Seq(FrameType), NEW n \in 0 .. Len(stack), stack' = SubSeq(stack, 1, n)
    PROVE  Cuts(n)
<1>1. n \in Nat /\ Len(stack) \in Nat /\ n <= Len(stack)
  OBVIOUS
<1>2. \A i \in 1 .. n : i \in 1 .. Len(stack) /\ stack[i] \in FrameType
  BY <1>1
<1> QED
  BY <1>1, <1>2 DEF Cuts

LEMMA PushPuts ==
    ASSUME stack \in Seq(FrameType), NEW f \in FrameType, stack' = Append(stack, f)
    PROVE  Puts(Len(stack), f)
BY DEF Puts

LEMMA TopPuts ==
    ASSUME stack \in Seq(FrameType), stack # <<>>, NEW f \in FrameType, stack' = WithTop(f)
    PROVE  /\ Len(stack) \in Nat /\ Len(stack) >= 1 /\ Top \in FrameType
           /\ Puts(Len(stack) - 1, f)
<1>1. Len(stack) \in Nat /\ Len(stack) >= 1 /\ Len(stack) - 1 \in 0 .. Len(stack)
  OBVIOUS
<1>2. Top \in FrameType
  BY <1>1 DEF Top
<1> QED
  BY <1>1, <1>2, PutsFrame DEF WithTop, Pop

\* A frame that may stand on the first n keeps the stack in order.
LEMMA StackPuts ==
    ASSUME stack \in Seq(FrameType), StackInv(stack), NEW n, NEW f, Puts(n, f), FrameOk(f),
           n = 0 => f.kind \in Command,
           n > 0 => Above(stack[n], f),
           \A i \in 1 .. n : Own(stack[i]) \cap Own(f) = {} /\ stack[i].got \cap f.got = {}
    PROVE  StackInv(stack)'
<1>1. /\ n \in Nat /\ Len(stack) \in Nat /\ n <= Len(stack) /\ f \in FrameType
      /\ stack' \in Seq(FrameType) /\ Len(stack') = n + 1
      /\ stack'[n + 1] = f
      /\ \A i \in 1 .. n : stack'[i] = stack[i]
  BY DEF Puts
<1>2. \A i \in 1 .. n : i \in 1 .. Len(stack) /\ stack[i] \in FrameType
  BY <1>1
<1>3. \A i \in 1 .. n + 1 : i = n + 1 \/ i \in 1 .. n
  BY <1>1
<1>4. stack' # <<>> => stack'[1].kind \in Command
  BY <1>1, <1>2 DEF StackInv
<1>5. \A i \in 1 .. Len(stack') : FrameOk(stack'[i])
  BY <1>1, <1>2, <1>3 DEF StackInv
<1>6. ASSUME NEW i \in 1 .. Len(stack'), i + 1 \in 1 .. Len(stack')
      PROVE  Above(stack'[i], stack'[i + 1])
  <2>1. i \in 1 .. n
    BY <1>1, <1>6
  <2>2. CASE i = n
    BY <1>1, <2>1, <2>2
  <2>3. CASE i # n
    <3>1. i + 1 \in 1 .. n /\ i + 1 \in 1 .. Len(stack) /\ i \in 1 .. Len(stack)
      BY <1>1, <2>1, <2>3
    <3> QED
      BY <1>1, <2>1, <3>1 DEF StackInv
  <2> QED
    BY <2>2, <2>3
<1>7. ASSUME NEW i \in 1 .. n PROVE stack[i].saved <= f.saved
  <2>1. n \in 1 .. Len(stack) /\ i \in 1 .. Len(stack) /\ n > 0 /\ i <= n
    BY <1>1, <1>2
  <2>2. stack[i].saved \in Nat /\ stack[n].saved \in Nat /\ f.saved \in Nat
    BY <1>1, <1>2, <2>1 DEF FrameType
  <2>3. stack[n].saved <= f.saved
    BY <2>1, <2>2 DEF Above
  <2>4. stack[i].saved <= stack[n].saved
    BY <2>1, <2>2 DEF StackInv
  <2> QED
    BY <2>2, <2>3, <2>4
<1>8. ASSUME NEW i \in 1 .. Len(stack'), NEW j \in 1 .. Len(stack'), i < j
      PROVE  /\ stack'[i].saved <= stack'[j].saved
             /\ Own(stack'[i]) \cap Own(stack'[j]) = {}
             /\ stack'[i].got \cap stack'[j].got = {}
  <2>1. i \in 1 .. n
    BY <1>1, <1>8
  <2>2. CASE j = n + 1
    BY <1>1, <1>7, <2>1, <2>2
  <2>3. CASE j \in 1 .. n
    BY <1>1, <1>2, <1>8, <2>1, <2>3 DEF StackInv
  <2> QED
    BY <1>1, <1>3, <2>2, <2>3
<1> QED
  BY <1>4, <1>5, <1>6, <1>8 DEF StackInv

LEMMA StackCuts ==
    ASSUME stack \in Seq(FrameType), StackInv(stack), NEW n, Cuts(n)
    PROVE  StackInv(stack)'
<1>1. /\ n \in Nat /\ Len(stack) \in Nat /\ n <= Len(stack)
      /\ stack' \in Seq(FrameType) /\ Len(stack') = n
      /\ \A i \in 1 .. n : stack'[i] = stack[i]
  BY DEF Cuts
<1>2. \A i \in 1 .. n : i \in 1 .. Len(stack)
  BY <1>1
<1>3. stack' # <<>> => stack'[1].kind \in Command
  BY <1>1, <1>2 DEF StackInv
<1> QED
  BY <1>1, <1>2, <1>3 DEF StackInv

-----------------------------------------------------------------------------
(* What the frames hold.                                                   *)

LEMMA StackHolder ==
    ASSUME NEW s \in Seq(FrameType), NEW a
    PROVE  a \in StackHolds(s) <=> \E i \in 1 .. Len(s) : a \in Own(s[i])
BY DEF StackHolds

\* The frame on top and one below it.
LEMMA TopApart ==
    ASSUME stack \in Seq(FrameType), StackInv(stack), NEW i \in 1 .. Len(stack), i < Len(stack)
    PROVE  /\ Own(stack[i]) \cap Own(Top) = {}
           /\ stack[i].got \cap Top.got = {}
           /\ stack[i].saved <= Top.saved
<1>1. Len(stack) \in 1 .. Len(stack)
  OBVIOUS
<1> QED
  BY <1>1 DEF StackInv, Top

LEMMA PushHolds ==
    ASSUME stack \in Seq(FrameType), NEW f, Puts(Len(stack), f)
    PROVE  StackHolds(stack)' = StackHolds(stack) \cup Own(f)
<1>1. /\ stack' \in Seq(FrameType) /\ Len(stack) \in Nat /\ Len(stack') = Len(stack) + 1
      /\ stack'[Len(stack) + 1] = f
      /\ \A i \in 1 .. Len(stack) : stack'[i] = stack[i]
  BY DEF Puts
<1>2. \A i \in 1 .. Len(stack') : i = Len(stack) + 1 \/ i \in 1 .. Len(stack)
  BY <1>1
<1>3. 1 .. Len(stack) \subseteq 1 .. Len(stack') /\ Len(stack) + 1 \in 1 .. Len(stack')
  BY <1>1
<1>4. ASSUME NEW a PROVE a \in StackHolds(stack') <=> a \in StackHolds(stack) \cup Own(f)
  BY <1>1, <1>2, <1>3, StackHolder
<1> QED
  BY <1>4

LEMMA TopHolds ==
    ASSUME stack \in Seq(FrameType), StackInv(stack), stack # <<>>,
           NEW f, Puts(Len(stack) - 1, f)
    PROVE  StackHolds(stack)' = (StackHolds(stack) \ Own(Top)) \cup Own(f)
<1> DEFINE n == Len(stack)
<1>1. /\ stack' \in Seq(FrameType) /\ n \in Nat /\ n >= 1 /\ Len(stack') = n
      /\ stack'[n] = f
      /\ \A i \in 1 .. n - 1 : stack'[i] = stack[i]
  BY DEF Puts
<1>2. \A i \in 1 .. n : i = n \/ i \in 1 .. n - 1
  BY <1>1
<1>3. 1 .. n - 1 \subseteq 1 .. n /\ n \in 1 .. n
  BY <1>1
<1>4. \A i \in 1 .. n - 1 : i < n /\ Own(stack[i]) \cap Own(Top) = {}
  BY <1>1, <1>3, TopApart
<1>5. Top = stack[n]
  BY DEF Top
<1> HIDE DEF n
<1>6. \A a : a \in StackHolds(stack) <=> \E i \in 1 .. n : a \in Own(stack[i])
  BY StackHolder DEF n
<1>7. \A a : a \in StackHolds(stack') <=> \E i \in 1 .. n : a \in Own(stack'[i])
  BY <1>1, StackHolder
<1>8. ASSUME NEW a
      PROVE  a \in StackHolds(stack') <=> a \in (StackHolds(stack) \ Own(Top)) \cup Own(f)
  BY <1>1, <1>2, <1>3, <1>4, <1>5, <1>6, <1>7
<1> QED
  BY <1>8

\* The frame on top is gone, and the one below it holds what it held.
LEMMA UnderHolds ==
    ASSUME stack \in Seq(FrameType), StackInv(stack), Len(stack) >= 2,
           NEW f, Puts(Len(stack) - 2, f), Own(f) = Own(stack[Len(stack) - 1])
    PROVE  StackHolds(stack)' = StackHolds(stack) \ Own(Top)
<1> DEFINE n == Len(stack)
<1>1. /\ stack' \in Seq(FrameType) /\ n \in Nat /\ n >= 2 /\ Len(stack') = n - 1
      /\ stack'[n - 1] = f
      /\ \A i \in 1 .. n - 2 : stack'[i] = stack[i]
  BY DEF Puts
<1>2. \A i \in 1 .. n : i = n \/ i \in 1 .. n - 1
  BY <1>1
<1>3. \A i \in 1 .. n - 1 : i \in 1 .. n /\ (i = n - 1 \/ i \in 1 .. n - 2)
  BY <1>1
<1>4. \A i \in 1 .. n - 1 : i < n /\ Own(stack[i]) \cap Own(Top) = {}
  BY <1>1, <1>3, TopApart
<1>5. Top = stack[n] /\ n \in 1 .. n
  BY <1>1 DEF Top
<1>6. \A i \in 1 .. n - 1 : Own(stack'[i]) = Own(stack[i])
  BY <1>1, <1>3
<1> HIDE DEF n
<1>7. \A a : a \in StackHolds(stack) <=> \E i \in 1 .. n : a \in Own(stack[i])
  BY StackHolder DEF n
<1>8. \A a : a \in StackHolds(stack') <=> \E i \in 1 .. n - 1 : a \in Own(stack'[i])
  BY <1>1, StackHolder
<1>9. ASSUME NEW a
      PROVE  a \in StackHolds(stack') <=> a \in StackHolds(stack) \ Own(Top)
  BY <1>2, <1>3, <1>4, <1>5, <1>6, <1>7, <1>8
<1> QED
  BY <1>9

LEMMA CutHolds ==
    ASSUME stack \in Seq(FrameType), StackInv(stack), NEW n, Cuts(n)
    PROVE  /\ StackHolds(stack)' \subseteq StackHolds(stack)
           /\ \A a \in StackHolds(stack) \ StackHolds(stack)' :
                  \E i \in n + 1 .. Len(stack) : a \in Own(stack[i])
           /\ n < Len(stack) => StackHolds(stack)' \cap Own(Top) = {}
<1>1. /\ stack' \in Seq(FrameType) /\ n \in Nat /\ Len(stack) \in Nat /\ n <= Len(stack)
      /\ Len(stack') = n
      /\ \A i \in 1 .. n : stack'[i] = stack[i]
  BY DEF Cuts
<1>2. \A i \in 1 .. Len(stack) : i \in 1 .. n \/ i \in n + 1 .. Len(stack)
  BY <1>1
<1>3. \A i \in 1 .. n : i \in 1 .. Len(stack)
  BY <1>1
<1>4. \A a : a \in StackHolds(stack) <=> \E i \in 1 .. Len(stack) : a \in Own(stack[i])
  BY StackHolder
<1>5. \A a : a \in StackHolds(stack') <=> \E i \in 1 .. n : a \in Own(stack[i])
  BY <1>1, StackHolder
<1>6. n < Len(stack) => \A i \in 1 .. n : Own(stack[i]) \cap Own(Top) = {}
  BY <1>1, <1>3, TopApart
<1> QED
  BY <1>2, <1>3, <1>4, <1>5, <1>6

-----------------------------------------------------------------------------
(* The heap and the table of temporaries.                                  *)

\* What an allocation returns was not in use.
LEMMA Allocates ==
    ASSUME HeapInv, NEW s \in Pages, NEW k \in Nat, GetMemory(s, k) \/ GetSystemMemory(s, k)
    PROVE  HeapInv' /\ s \notin live /\ live' = live \cup {s}
<1>1. Fits(s, k) /\ Take(s, k)
  BY DEF GetMemory, GetSystemMemory
<1>2. s \in Int /\ NPages \in Nat /\ s >= 0
  BY HeapAssumption DEF Pages
<1>3. k \in 1 .. NPages
  BY <1>1, <1>2 DEF Fits
<1>4. HeapInv'
  BY <1>1, <1>3, TakeInv
<1>5. s \notin live
  <2> SUFFICES ASSUME s \in live PROVE FALSE
    OBVIOUS
  <2>1. PICK e \in Pages : Block(s, e)
    BY DEF HeapInv, Whole
  <2>2. s \in s .. e
    BY <1>2, <2>1, HeapAssumption DEF Block, Pages
  <2>3. bits[s] # "free"
    BY <2>1, <2>2, BlockIsUsed
  <2>4. s \in s .. s + k - 1
    BY <1>2, <1>3
  <2> QED
    BY <1>1, <2>3, <2>4 DEF Fits
<1> QED
  BY <1>1, <1>4, <1>5 DEF Take

LEMMA Frees ==
    ASSUME HeapInv, NEW S, S \subseteq live, FreeMemory(S)
    PROVE  HeapInv' /\ live' = live \ S
BY FreeInv DEF FreeMemory

\* A set of naturals that is not empty has a smallest element.
LEMMA Least ==
    ASSUME NEW S, S \subseteq Nat, S # {}
    PROVE  \E x \in S : \A y \in S : x <= y
<1>1. PICK x \in S : \A y \in S : ~(<<y, x>> \in OpToRel(<, Nat))
  BY NatLessThanWellFounded, WFMin, Zenon
<1>2. ASSUME NEW y \in S PROVE ~(y < x)
  <2>1. y < x => <<y, x>> \in OpToRel(<, Nat)
    BY Zenon DEF OpToRel
  <2> QED
    BY <1>1, <2>1, Zenon
<1>3. \A y \in S : x <= y
  BY <1>2
<1> QED
  BY <1>3

LEMMA EntryTyped ==
    ASSUME NEW t \in Seq(TempType), NEW i \in 1 .. Len(t)
    PROVE  t[i] \in TempType /\ t[i].level \in Nat /\ t[i].at \in Pages
<1>1. t[i] \in TempType
  OBVIOUS
<1> QED
  BY <1>1 DEF TempType

LEMMA EntryAt ==
    ASSUME NEW t \in Seq(TempType), NEW e
    PROVE  e \in Entries(t) <=> \E i \in 1 .. Len(t) : e = t[i]
BY DEF Entries

LEMMA EntriesTyped ==
    ASSUME NEW t, TableInv(t)
    PROVE  /\ Entries(t) \subseteq TempType
           /\ \A e, f \in Entries(t) : e.at = f.at => e = f
<1>1. t \in Seq(TempType) /\ Len(t) \in Nat
  BY DEF TableInv
<1>2. ASSUME NEW e \in Entries(t) PROVE e \in TempType
  BY <1>1, EntryAt
<1>3. ASSUME NEW e \in Entries(t), NEW f \in Entries(t), e.at = f.at PROVE e = f
  <2>1. PICK i \in 1 .. Len(t) : e = t[i]
    BY <1>1, EntryAt
  <2>2. PICK j \in 1 .. Len(t) : f = t[j]
    BY <1>1, EntryAt
  <2>3. ~(i < j) /\ ~(j < i)
    BY <1>3, <2>1, <2>2 DEF TableInv
  <2> QED
    BY <1>1, <2>1, <2>2, <2>3
<1> QED
  BY <1>2, <1>3

LEMMA TempAddrsAre ==
    ASSUME TableInv(strtmp)
    PROVE  TempAddrs = Addrs(Entries(strtmp))
BY DEF TempAddrs, Addrs, Entries

LEMMA TableAppend ==
    ASSUME TableInv(strtmp), NEW e \in TempType, strtmp' = Append(strtmp, e),
           \A d \in Entries(strtmp) : d.level <= e.level /\ d.at # e.at
    PROVE  TableInv(strtmp)' /\ Entries(strtmp)' = Entries(strtmp) \cup {e}
<1> DEFINE n == Len(strtmp)
<1>1. strtmp \in Seq(TempType) /\ n \in Nat
  BY DEF TableInv
<1>2. /\ strtmp' \in Seq(TempType) /\ Len(strtmp') = n + 1 /\ strtmp'[n + 1] = e
      /\ \A i \in 1 .. n : strtmp'[i] = strtmp[i]
  BY <1>1
<1>3. \A i \in 1 .. n + 1 : i = n + 1 \/ i \in 1 .. n
  BY <1>1
<1>4. 1 .. n \subseteq 1 .. n + 1 /\ n + 1 \in 1 .. n + 1
  BY <1>1
<1>5. \A i \in 1 .. n : strtmp[i] \in Entries(strtmp)
  BY <1>1, EntryAt
<1>6. ASSUME NEW i \in 1 .. Len(strtmp'), NEW j \in 1 .. Len(strtmp'), i < j
      PROVE  strtmp'[i].level <= strtmp'[j].level /\ strtmp'[i].at # strtmp'[j].at
  <2>1. i \in 1 .. n
    BY <1>1, <1>2, <1>6
  <2>2. CASE j = n + 1
    BY <1>2, <1>5, <2>1, <2>2
  <2>3. CASE j \in 1 .. n
    BY <1>2, <1>6, <2>1, <2>3 DEF TableInv
  <2> QED
    BY <1>2, <1>3, <2>2, <2>3
<1>7. ASSUME NEW d PROVE d \in Entries(strtmp') <=> d \in Entries(strtmp) \cup {e}
  <2> HIDE DEF n
  <2>1. d \in Entries(strtmp) <=> \E i \in 1 .. n : d = strtmp[i]
    BY <1>1, EntryAt DEF n
  <2>2. d \in Entries(strtmp') <=> \E i \in 1 .. n + 1 : d = strtmp'[i]
    <3>1. d \in Entries(strtmp') <=> \E i \in 1 .. Len(strtmp') : d = strtmp'[i]
      BY ZenonT(30), <1>2, EntryAt
    <3> QED
      BY <1>2, <3>1
  <2> QED
    BY <1>2, <1>3, <1>4, <2>1, <2>2
<1> QED
  BY <1>2, <1>6, <1>7 DEF TableInv

LEMMA JoinLow ==
    ASSUME NEW T, NEW a \in Seq(T), NEW b \in Seq(T), NEW i \in 1 .. Len(a)
    PROVE  (a \o b)[i] = a[i]
OBVIOUS

LEMMA JoinHigh ==
    ASSUME NEW T, NEW a \in Seq(T), NEW b \in Seq(T), NEW i \in Nat, i > Len(a), i <= Len(a) + Len(b)
    PROVE  (a \o b)[i] = b[i - Len(a)]
OBVIOUS

LEMMA JoinLen ==
    ASSUME NEW T, NEW a \in Seq(T), NEW b \in Seq(T)
    PROVE  a \o b \in Seq(T) /\ Len(a \o b) = Len(a) + Len(b)
OBVIOUS

\* A sequence without its element k.
LEMMA Without ==
    ASSUME NEW T, NEW t \in Seq(T), NEW k \in 1 .. Len(t)
    PROVE  LET u == SubSeq(t, 1, k - 1) \o SubSeq(t, k + 1, Len(t))
           IN  /\ u \in Seq(T) /\ Len(u) = Len(t) - 1
               /\ \A i \in 1 .. Len(t) - 1 : u[i] = t[IF i < k THEN i ELSE i + 1]
<1> DEFINE a == SubSeq(t, 1, k - 1)
           b == SubSeq(t, k + 1, Len(t))
           u == a \o b
<1>0. Len(t) \in Nat /\ k \in Nat /\ k >= 1 /\ k <= Len(t)
  OBVIOUS
<1>1. a \in Seq(T) /\ Len(a) = k - 1 /\ \A i \in 1 .. k - 1 : a[i] = t[i]
  OBVIOUS
<1>2. b \in Seq(T) /\ Len(b) = Len(t) - k /\ \A i \in 1 .. Len(t) - k : b[i] = t[k + i]
  OBVIOUS
<1> HIDE DEF a, b
<1>3. u \in Seq(T) /\ Len(u) = Len(a) + Len(b)
  BY <1>1, <1>2, JoinLen, Zenon
<1>4. ASSUME NEW i \in 1 .. Len(t) - 1, i < k PROVE u[i] = t[i]
  <2>1. i \in 1 .. k - 1 /\ i \in 1 .. Len(a)
    BY <1>1, <1>4
  <2>2. u[i] = a[i]
    BY <1>1, <1>2, <2>1, JoinLow, Zenon
  <2> QED
    BY <1>1, <2>1, <2>2
<1>5. ASSUME NEW i \in 1 .. Len(t) - 1, ~(i < k) PROVE u[i] = t[i + 1]
  <2>1. i \in Nat /\ i > Len(a) /\ i <= Len(a) + Len(b)
    BY <1>0, <1>1, <1>2, <1>5
  <2>2. u[i] = b[i - Len(a)]
    BY <1>1, <1>2, <2>1, JoinHigh, Zenon
  <2>3. i - Len(a) \in 1 .. Len(t) - k /\ k + (i - Len(a)) = i + 1
    BY <1>0, <1>1, <1>2, <2>1
  <2>4. b[i - Len(a)] = t[k + (i - Len(a))]
    BY <1>2, <2>3, Zenon
  <2> QED
    BY <2>2, <2>3, <2>4
<1> HIDE DEF u
<1>6. /\ u \in Seq(T) /\ Len(u) = Len(t) - 1
      /\ \A i \in 1 .. Len(t) - 1 : u[i] = t[IF i < k THEN i ELSE i + 1]
  BY <1>0, <1>1, <1>2, <1>3, <1>4, <1>5
<1> QED
  BY <1>6, Zenon DEF u, a, b

LEMMA TableRemoves ==
    ASSUME TableInv(strtmp), NEW k \in 1 .. Len(strtmp), NEW u \in Seq(TempType),
           Len(u) = Len(strtmp) - 1,
           \A i \in 1 .. Len(strtmp) - 1 : u[i] = strtmp[IF i < k THEN i ELSE i + 1]
    PROVE  TableInv(u) /\ Entries(u) = Entries(strtmp) \ {strtmp[k]}
<1> DEFINE n == Len(strtmp)
           from(i) == IF i < k THEN i ELSE i + 1
<1>1. strtmp \in Seq(TempType) /\ n \in Nat /\ k \in Nat /\ k >= 1 /\ k <= n
  BY DEF TableInv
<1>4. /\ u \in Seq(TempType) /\ Len(u) = n - 1
      /\ \A i \in 1 .. n - 1 : u[i] = strtmp[from(i)]
  OBVIOUS
<1>5. ASSUME NEW i \in 1 .. n - 1 PROVE from(i) \in 1 .. n /\ u[i] = strtmp[from(i)]
  BY <1>1, <1>4
<1>6. ASSUME NEW i \in 1 .. n - 1, NEW j \in 1 .. n - 1, i < j
      PROVE  from(i) < from(j)
  BY <1>1, <1>6
<1>7. \A i \in 1 .. n - 1 : from(i) # k
  BY <1>1
<1>8. \A i \in 1 .. n : i # k => \E j \in 1 .. n - 1 : from(j) = i
  <2> SUFFICES ASSUME NEW i \in 1 .. n, i # k PROVE \E j \in 1 .. n - 1 : from(j) = i
    OBVIOUS
  <2>1. CASE i < k
    <3>1. i \in 1 .. n - 1 /\ from(i) = i
      BY <1>1, <2>1
    <3> QED
      BY <3>1
  <2>2. CASE i > k
    <3>1. i - 1 \in 1 .. n - 1 /\ from(i - 1) = i
      BY <1>1, <2>2
    <3> QED
      BY <3>1
  <2> QED
    BY <1>1, <2>1, <2>2
<1> HIDE DEF from
<1>9. TableInv(u)
  <2> SUFFICES ASSUME NEW i \in 1 .. n - 1, NEW j \in 1 .. n - 1, i < j
               PROVE  u[i].level <= u[j].level /\ u[i].at # u[j].at
    BY <1>4 DEF TableInv
  <2>1. from(i) \in 1 .. n /\ from(j) \in 1 .. n /\ from(i) < from(j)
    BY <1>5, <1>6
  <2> QED
    BY <1>5, <2>1 DEF TableInv
<1>10. ASSUME NEW d PROVE d \in Entries(u) <=> d \in Entries(strtmp) \ {strtmp[k]}
  <2>1. d \in Entries(strtmp) <=> \E i \in 1 .. n : d = strtmp[i]
    BY <1>1, EntryAt
  <2>2. d \in Entries(u) <=> \E i \in 1 .. n - 1 : d = u[i]
    <3>1. d \in Entries(u) <=> \E i \in 1 .. Len(u) : d = u[i]
      BY <1>4, EntryAt
    <3> QED
      BY <1>4, <3>1
  <2>3. ASSUME NEW i \in 1 .. n, i # k PROVE strtmp[i] # strtmp[k]
    <3>1. i < k \/ k < i
      BY <1>1, <2>3
    <3> QED
      BY <3>1 DEF TableInv
  <2>4. d \in Entries(u) => d \in Entries(strtmp) \ {strtmp[k]}
    BY <1>5, <1>7, <2>1, <2>2, <2>3
  <2>5. d \in Entries(strtmp) \ {strtmp[k]} => d \in Entries(u)
    <3> SUFFICES ASSUME d \in Entries(strtmp), d # strtmp[k] PROVE d \in Entries(u)
      OBVIOUS
    <3>1. PICK i \in 1 .. n : d = strtmp[i] /\ i # k
      BY <2>1
    <3>2. PICK j \in 1 .. n - 1 : from(j) = i
      BY <1>8, <3>1
    <3> QED
      BY <1>5, <2>2, <3>1, <3>2
  <2> QED
    BY <2>4, <2>5
<1> QED
  BY <1>9, <1>10

LEMMA TableRemove ==
    ASSUME TableInv(strtmp), NEW k \in 1 .. Len(strtmp),
           strtmp' = SubSeq(strtmp, 1, k - 1) \o SubSeq(strtmp, k + 1, Len(strtmp))
    PROVE  TableInv(strtmp)' /\ Entries(strtmp)' = Entries(strtmp) \ {strtmp[k]}
<1>1. strtmp \in Seq(TempType)
  BY DEF TableInv
<1>2. /\ strtmp' \in Seq(TempType) /\ Len(strtmp') = Len(strtmp) - 1
      /\ \A i \in 1 .. Len(strtmp) - 1 : strtmp'[i] = strtmp[IF i < k THEN i ELSE i + 1]
  BY <1>1, Without, Zenon
<1>3. TableInv(strtmp') /\ Entries(strtmp') = Entries(strtmp) \ {strtmp[k]}
  BY <1>2, TableRemoves, Zenon
<1> QED
  BY <1>3

\* The scan from the end stops at the last entry of a lower level.
LEMMA KeptIs ==
    ASSUME TableInv(strtmp), NEW lv \in Nat
    PROVE  /\ Kept(lv) \in 0 .. Len(strtmp)
           /\ Kept(lv) > 0 => strtmp[Kept(lv)].level < lv
           /\ \A i \in Kept(lv) + 1 .. Len(strtmp) : strtmp[i].level >= lv
<1> DEFINE Stop(n) == /\ n > 0 => strtmp[n].level < lv
                      /\ \A i \in n + 1 .. Len(strtmp) : strtmp[i].level >= lv
           S == {n \in 0 .. Len(strtmp) : \A i \in n + 1 .. Len(strtmp) : strtmp[i].level >= lv}
<1>1. Len(strtmp) \in Nat /\ \A i \in 1 .. Len(strtmp) : strtmp[i].level \in Nat
  <2>1. strtmp \in Seq(TempType)
    BY DEF TableInv
  <2> QED
    BY <2>1, EntryTyped
<1>2. S \subseteq Nat /\ Len(strtmp) \in S
  BY <1>1
<1>3. PICK n \in S : \A m \in S : n <= m
  BY <1>2, Least
<1>4. n \in 0 .. Len(strtmp) /\ n \in Nat /\ \A i \in n + 1 .. Len(strtmp) : strtmp[i].level >= lv
  BY <1>1, <1>3
<1>5. ASSUME n > 0, ~(strtmp[n].level < lv) PROVE FALSE
  <2>1. n - 1 \in 0 .. Len(strtmp) /\ n \in 1 .. Len(strtmp)
    BY <1>1, <1>4, <1>5
  <2>2. strtmp[n].level >= lv
    BY <1>1, <1>5, <2>1
  <2>3. \A i \in (n - 1) + 1 .. Len(strtmp) : i = n \/ i \in n + 1 .. Len(strtmp)
    BY <1>1, <1>4
  <2>4. n - 1 \in S
    BY <1>4, <2>1, <2>2, <2>3
  <2>5. n <= n - 1
    <3> HIDE DEF S
    <3> QED
      BY <1>3, <2>4
  <2> QED
    BY <1>4, <2>5
<1>6. Stop(n)
  BY <1>4, <1>5
<1> HIDE DEF Stop
<1>7. \E m \in 0 .. Len(strtmp) : Stop(m)
  BY <1>4, <1>6
<1>8. Kept(lv) = CHOOSE m \in 0 .. Len(strtmp) : Stop(m)
  BY Zenon DEF Kept, Stop
<1>9. Kept(lv) \in 0 .. Len(strtmp) /\ Stop(Kept(lv))
  BY <1>7, <1>8, Zenon
<1> QED
  BY <1>9 DEF Stop

\* ClearTempMemory clears the entries of its level and above.
LEMMA TableCut ==
    ASSUME TableInv(strtmp), NEW lv \in Nat, ClearTemps(lv)
    PROVE  /\ TableInv(strtmp)'
           /\ Entries(strtmp)' = {e \in Entries(strtmp) : e.level < lv}
           /\ TempsFreed(lv) = Addrs({e \in Entries(strtmp) : ~(e.level < lv)})
<1> DEFINE n == Kept(lv)
<1>1. strtmp \in Seq(TempType)
  BY DEF TableInv
<1>2. /\ n \in 0 .. Len(strtmp)
      /\ n > 0 => strtmp[n].level < lv
      /\ \A i \in n + 1 .. Len(strtmp) : strtmp[i].level >= lv
  BY KeptIs
<1> HIDE DEF n
<1>3. n \in Nat /\ Len(strtmp) \in Nat /\ n <= Len(strtmp)
  BY <1>1, <1>2
<1>4. \A i \in 1 .. Len(strtmp) : strtmp[i] \in TempType /\ strtmp[i].level \in Nat
  BY <1>1, EntryTyped
<1>5. strtmp' = SubSeq(strtmp, 1, n)
  BY DEF ClearTemps, n
<1>6. \A i \in 1 .. n : i \in 1 .. Len(strtmp)
  BY <1>3
<1>7. /\ strtmp' \in Seq(TempType) /\ Len(strtmp') = n
      /\ \A i \in 1 .. n : strtmp'[i] = strtmp[i]
  BY <1>1, <1>3, <1>4, <1>5, <1>6
<1>8. TableInv(strtmp')
  BY <1>6, <1>7 DEF TableInv
<1>9. ASSUME NEW i \in 1 .. n PROVE strtmp[i].level < lv
  <2>1. n \in 1 .. Len(strtmp) /\ i \in 1 .. Len(strtmp) /\ i <= n /\ n > 0
    BY <1>3
  <2>2. i < n => strtmp[i].level <= strtmp[n].level
    BY <2>1 DEF TableInv
  <2> QED
    BY <1>2, <1>3, <1>4, <2>1, <2>2
<1>10. \A i \in 1 .. Len(strtmp) : i \in 1 .. n \/ i \in n + 1 .. Len(strtmp)
  BY <1>3
<1>11. \A i \in n + 1 .. Len(strtmp) : i \in 1 .. Len(strtmp) /\ ~(strtmp[i].level < lv)
  BY <1>2, <1>3, <1>4
<1>12. \A e : e \in Entries(strtmp) <=> \E i \in 1 .. Len(strtmp) : e = strtmp[i]
  BY <1>1, EntryAt
<1>13. \A e : e \in Entries(strtmp') <=> \E i \in 1 .. n : e = strtmp[i]
  <2>1. \A e : e \in Entries(strtmp') <=> \E i \in 1 .. Len(strtmp') : e = strtmp'[i]
    BY <1>7, EntryAt
  <2> QED
    BY <1>7, <2>1
<1>14. ASSUME NEW e PROVE e \in Entries(strtmp') <=> e \in {d \in Entries(strtmp) : d.level < lv}
  BY <1>6, <1>9, <1>10, <1>11, <1>12, <1>13
<1>15. ASSUME NEW a
       PROVE  a \in TempsFreed(lv) <=> a \in Addrs({e \in Entries(strtmp) : ~(e.level < lv)})
  <2>1. a \in TempsFreed(lv) <=> \E i \in n + 1 .. Len(strtmp) : a = strtmp[i].at
    BY DEF TempsFreed, n
  <2>2. a \in Addrs({e \in Entries(strtmp) : ~(e.level < lv)}) <=>
            \E e \in Entries(strtmp) : ~(e.level < lv) /\ a = e.at
    BY DEF Addrs
  <2>3. a \in TempsFreed(lv) => a \in Addrs({e \in Entries(strtmp) : ~(e.level < lv)})
    BY <1>11, <1>12, <2>1, <2>2
  <2>4. ASSUME NEW e \in Entries(strtmp), ~(e.level < lv), a = e.at PROVE a \in TempsFreed(lv)
    <3>1. PICK i \in 1 .. Len(strtmp) : e = strtmp[i]
      BY <1>12
    <3>2. i \in n + 1 .. Len(strtmp)
      BY <1>9, <1>10, <2>4, <3>1
    <3> QED
      BY <2>1, <2>4, <3>1, <3>2
  <2> QED
    BY <2>2, <2>3, <2>4
<1>16. Entries(strtmp') = {d \in Entries(strtmp) : d.level < lv}
  BY <1>14
<1>17. TempsFreed(lv) = Addrs({e \in Entries(strtmp) : ~(e.level < lv)})
  BY <1>15
<1> QED
  BY <1>8, <1>16, <1>17

-----------------------------------------------------------------------------
(* Where the commands and calls are on the stack.                          *)

LEMMA TopIs ==
    ASSUME stack \in Seq(FrameType), stack # <<>>
    PROVE  /\ Len(stack) \in Nat /\ Len(stack) >= 1 /\ Len(stack) \in 1 .. Len(stack)
           /\ Top = stack[Len(stack)] /\ Top \in FrameType
BY DEF Top

LEMMA FrameAt ==
    ASSUME stack \in Seq(FrameType), NEW i \in 1 .. Len(stack)
    PROVE  stack[i] \in FrameType /\ stack[i].saved \in Nat
<1>1. stack[i] \in FrameType
  OBVIOUS
<1> QED
  BY <1>1 DEF FrameType

\* The frame below the top.
LEMMA BelowTop ==
    ASSUME stack \in Seq(FrameType), StackInv(stack), Len(stack) >= 2
    PROVE  /\ Len(stack) \in Nat /\ Len(stack) - 1 \in 1 .. Len(stack)
           /\ stack[Len(stack) - 1] \in FrameType /\ stack[Len(stack) - 1].saved \in Nat
           /\ Above(stack[Len(stack) - 1], Top)
<1>1. /\ Len(stack) \in Nat /\ Len(stack) - 1 \in 1 .. Len(stack)
      /\ (Len(stack) - 1) + 1 = Len(stack) /\ Len(stack) \in 1 .. Len(stack)
  OBVIOUS
<1>2. Above(stack[Len(stack) - 1], Top)
  BY <1>1 DEF StackInv, Top
<1> QED
  BY <1>1, <1>2, FrameAt

\* What runs a program runs a command, unless that has just ended.
LEMMA RunsCommand ==
    ASSUME stack \in Seq(FrameType), StackInv(stack), In({"cmd", "args", "bind", "result"}),
           NEW d \in 1 .. Len(stack), stack[d].kind \in Running
    PROVE  d + 1 \in 1 .. Len(stack) /\ stack[d + 1].kind = "cmd"
<1>1. stack # <<>> /\ Top.kind \in {"cmd", "args", "bind", "result"}
  BY DEF In
<1>2. Len(stack) \in Nat /\ Len(stack) >= 1 /\ Top = stack[Len(stack)]
  BY <1>1, TopIs
<1>3. d # Len(stack)
  BY <1>1, <1>2 DEF Running
<1>4. d + 1 \in 1 .. Len(stack) /\ d \in Nat
  BY <1>2, <1>3
<1>5. Above(stack[d], stack[d + 1])
  BY <1>4 DEF StackInv
<1>6. stack[d + 1].kind \in Command
  BY <1>5 DEF Above, Running, Calling
<1>7. ASSUME d + 1 # Len(stack) PROVE stack[d + 1].kind \in Running \cup Calling
  <2>1. (d + 1) + 1 \in 1 .. Len(stack)
    BY <1>2, <1>4, <1>7
  <2>2. Above(stack[d + 1], stack[(d + 1) + 1])
    BY <1>4, <2>1 DEF StackInv
  <2> QED
    BY <2>2 DEF Above
<1>8. stack[d + 1].kind = "cmd"
  BY <1>1, <1>2, <1>6, <1>7 DEF Command, Running, Calling
<1> QED
  BY <1>4, <1>8

\* A set of numbers up to n that is not empty has a greatest element.
LEMMA Greatest ==
    ASSUME NEW n \in Nat, NEW S, S \subseteq 1 .. n, S # {}
    PROVE  \E x \in S : \A y \in S : y <= x
<1> DEFINE U == {m \in Nat : \A y \in S : y <= m}
<1>1. U \subseteq Nat /\ n \in U
  OBVIOUS
<1>2. PICK x \in U : \A m \in U : x <= m
  BY <1>1, Least
<1>3. x \in Nat /\ \A y \in S : y <= x
  BY <1>2
<1>4. ASSUME x \notin S PROVE FALSE
  <2>1. \A y \in S : y <= x - 1 /\ y >= 1
    BY <1>3, <1>4
  <2>4. x - 1 \in Nat
    <3>1. PICK y \in S : TRUE
      OBVIOUS
    <3>2. y \in 1 .. n /\ y <= x - 1
      BY <2>1
    <3> QED
      BY <1>3, <3>2
  <2>2. x - 1 \in U
    BY <2>1, <2>4
  <2>3. x <= x - 1
    <3> HIDE DEF U
    <3> QED
      BY <1>2, <2>2
  <2> QED
    BY <1>3, <2>3
<1> QED
  BY <1>3, <1>4

\* The command an error leaves, and what ran it.
LEMMA InnermostIs ==
    ASSUME stack \in Seq(FrameType), StackInv(stack), In({"cmd", "args", "bind", "result"})
    PROVE  /\ Innermost \in 1 .. Len(stack) /\ stack[Innermost].kind = "cmd"
           /\ \A i \in 1 .. Len(stack) : stack[i].kind = "cmd" => i <= Innermost
           /\ \A i \in 1 .. Len(stack) : i < Innermost => stack[i].saved < stack[Innermost].saved
           /\ \A i \in 1 .. Len(stack) : stack[i].kind \in Running => i < Innermost
<1>1. stack # <<>> /\ Top.kind \in {"cmd", "args", "bind", "result"}
  BY DEF In
<1>2. Len(stack) \in Nat /\ Len(stack) >= 1 /\ Top = stack[Len(stack)] /\ 1 \in 1 .. Len(stack)
  BY <1>1, TopIs
<1>3. 1 \in Commands
  <2>1. stack[1].kind \in Command
    BY <1>1 DEF StackInv
  <2>2. CASE Len(stack) = 1
    BY <1>1, <1>2, <2>1, <2>2 DEF Command, Commands
  <2>3. CASE Len(stack) >= 2
    <3>1. 1 + 1 \in 1 .. Len(stack)
      BY <1>2, <2>3
    <3>2. Above(stack[1], stack[1 + 1])
      BY <1>2, <3>1 DEF StackInv
    <3>3. stack[1].kind \in Running \cup Calling
      BY <3>2 DEF Above
    <3>4. stack[1].kind = "cmd"
      BY <2>1, <3>3 DEF Command, Running, Calling
    <3>5. 1 \in DOMAIN stack
      BY <1>2
    <3> QED
      BY <3>4, <3>5, Zenon DEF Commands
  <2>4. Len(stack) = 1 \/ Len(stack) >= 2
    <3>1. \A k \in Nat : k >= 1 => k = 1 \/ k >= 2
      OBVIOUS
    <3> QED
      BY <1>2, <3>1, Zenon
  <2> QED
    BY <2>2, <2>3, <2>4
<1>4. Commands \subseteq 1 .. Len(stack)
  BY DEF Commands
<1>5. \E x \in Commands : \A y \in Commands : y <= x
  BY <1>2, <1>3, <1>4, Greatest
<1>6. Innermost \in Commands /\ \A y \in Commands : y <= Innermost
  BY <1>5, Zenon DEF Innermost
<1> DEFINE m == Innermost
<1> HIDE DEF m
<1>7. m \in 1 .. Len(stack) /\ stack[m].kind = "cmd" /\ m \in Nat
  BY <1>2, <1>4, <1>6 DEF Commands, m
<1>8. \A i \in 1 .. Len(stack) : stack[i].kind = "cmd" => i <= m
  BY <1>6 DEF Commands, m
<1>9. ASSUME NEW i \in 1 .. Len(stack), i < m PROVE stack[i].saved < stack[m].saved
  <2>1. m - 1 \in 1 .. Len(stack) /\ (m - 1) + 1 = m
    BY <1>2, <1>7, <1>9
  <2>2. Above(stack[m - 1], stack[m])
    BY <1>7, <2>1 DEF StackInv
  <2>3. stack[m - 1].saved < stack[m].saved
    BY <1>7, <2>2 DEF Above, Command
  <2>4. stack[i].saved \in Nat /\ stack[m - 1].saved \in Nat /\ stack[m].saved \in Nat
    BY <1>7, <2>1, FrameAt
  <2>5. i < m - 1 => stack[i].saved <= stack[m - 1].saved
    BY <2>1 DEF StackInv
  <2> QED
    BY <1>7, <1>9, <2>1, <2>3, <2>4, <2>5
<1>10. ASSUME NEW i \in 1 .. Len(stack), stack[i].kind \in Running PROVE i < m
  <2>1. i + 1 \in 1 .. Len(stack) /\ stack[i + 1].kind = "cmd"
    BY <1>10, RunsCommand
  <2>2. i + 1 <= m
    BY <1>8, <2>1
  <2> QED
    BY <1>7, <2>2
<1> QED
  BY <1>7, <1>8, <1>9, <1>10 DEF m

-----------------------------------------------------------------------------
(* Steps that change what a frame holds, and not where the program is.     *)

SameShape ==
    /\ stack' \in Seq(FrameType) /\ Len(stack') = Len(stack)
    /\ \A i \in 1 .. Len(stack) : /\ stack'[i].kind = stack[i].kind
                                  /\ stack'[i].saved = stack[i].saved
                                  /\ stack'[i].argval = stack[i].argval

Waiting(s) == {i \in DOMAIN s : s[i].kind = "args"}

LEMMA DepthIs ==
    Balanced <=> Len(gosub) + (IF inter = NoInterrupt THEN 0 ELSE 1) = level + Cardinality(Waiting(stack))
BY DEF Balanced, Waiting

LEMMA DepthNext ==
    Balanced' <=> Len(gosub') + (IF inter' = NoInterrupt THEN 0 ELSE 1)
                      = level' + Cardinality(Waiting(stack'))
BY DEF Balanced, Waiting

LEMMA ShapeKept ==
    ASSUME stack \in Seq(FrameType), SameShape,
           UNCHANGED <<level, gosub, mem, left, errskip, inter, running, owed, untidy>>,
           MemIsCurrent, LevelInv, InterInv, ErrorMode, Depth
    PROVE  MemIsCurrent' /\ LevelInv' /\ InterInv' /\ ErrorMode' /\ Depth'
<1>1. /\ stack' \in Seq(FrameType) /\ Len(stack') = Len(stack) /\ Len(stack) \in Nat
      /\ stack' = <<>> <=> stack = <<>>
  BY DEF SameShape
<1>2. stack # <<>> => Top'.kind = Top.kind /\ Top'.saved = Top.saved /\ Top'.argval = Top.argval
  BY <1>1 DEF SameShape, Top
<1>3. /\ In({"args", "bind"})' <=> In({"args", "bind"})
      /\ In(Calling)' <=> In(Calling)
      /\ In({"bind", "result"})' <=> In({"bind", "result"})
      /\ In(Running)' <=> In(Running)
      /\ In({"done"})' <=> In({"done"})
      /\ Idle' <=> Idle
  BY <1>1, <1>2 DEF In, Idle
<1>4. MemIsCurrent'
  BY <1>2, <1>3 DEF MemIsCurrent, In
<1>5. LevelInv'
  <2>1. ~running' => stack' = <<>>
    BY <1>1 DEF LevelInv
  <2>2. /\ In(Calling)' => level' = Top'.saved
        /\ In({"bind", "result"})' => level' = Top'.saved + 1
        /\ In(Running)' => level' > Top'.saved
    BY <1>2, <1>3 DEF LevelInv, In
  <2>3. In({"done"})' /\ Len(stack') > 1 => level' > stack'[Len(stack') - 1].saved
    <3> SUFFICES ASSUME In({"done"}), Len(stack) > 1
                 PROVE  level > stack'[Len(stack) - 1].saved
      BY <1>1, <1>3
    <3>1. Len(stack) - 1 \in 1 .. Len(stack)
      BY <1>1
    <3> QED
      BY <3>1 DEF SameShape, LevelInv
  <2>4. \A i \in 1 .. Len(stack') : stack'[i].kind = "end" =>
           IF inter' # NoInterrupt /\ inter'.depth = i THEN inter'.at = stack'[i].saved + 1
           ELSE /\ level' = stack'[i].saved + 1
                /\ i = Len(stack') \/ (i = Len(stack') - 1 /\ In({"done"})')
    BY <1>1, <1>3 DEF SameShape, LevelInv
  <2> QED
    BY <2>1, <2>2, <2>3, <2>4 DEF LevelInv
<1>6. InterInv'
  <2>1. ASSUME running, inter # NoInterrupt, inter.depth > 0, inter \in InterType
        PROVE  stack'[inter.depth].kind \in Running /\ inter.at > stack'[inter.depth].saved
    <3>1. inter.depth \in 1 .. Len(stack)
      BY <1>1, <2>1 DEF InterInv, InterType
    <3> QED
      BY <2>1, <3>1 DEF InterInv, SameShape
  <2> QED
    BY <1>1, <2>1 DEF InterInv, SameShape
<1>7. ErrorMode'
  BY <1>3 DEF ErrorMode
<1>8. Depth'
  <2>1. Waiting(stack') = Waiting(stack)
    BY <1>1 DEF Waiting, SameShape
  <2> QED
    BY <2>1, DepthIs DEF Depth, Balanced, Waiting
<1> QED
  BY <1>4, <1>5, <1>6, <1>7, <1>8

LEMMA Types ==
    ASSUME Typed
    PROVE  /\ stack \in Seq(FrameType) /\ vars \subseteq [at : Pages, level : Nat]
           /\ level \in Nat /\ memlevel \in Nat /\ gosub \in Seq({"sub", "fun"})
           /\ mem \in Pages \cup {NoAddr} /\ errskip \in Int /\ owed \in Int
           /\ untidy \subseteq {"strings", "call", "label", "page0"}
           /\ acts \in Nat /\ interrupts \in Nat
BY DEF Typed, Shaped

LEMMA FlagTypes ==
    ASSUME Typed
    PROVE  changed \in BOOLEAN /\ running \in BOOLEAN
BY Zenon DEF Typed, Shaped

\* The types after a step, from what the step's lemmas say.
LEMMA TypesAre ==
    ASSUME HeapInv', TableInv(strtmp)', changed' \in BOOLEAN, running' \in BOOLEAN,
           stack' \in Seq(FrameType), vars' \subseteq [at : Pages, level : Nat],
           level' \in Nat, memlevel' \in Nat, gosub' \in Seq({"sub", "fun"}),
           mem' \in Pages \cup {NoAddr}, errskip' \in Int, owed' \in Int,
           untidy' \subseteq {"strings", "call", "label", "page0"},
           acts' \in Nat, interrupts' \in Nat
    PROVE  Typed'
<1>1. bits' \in [Pages -> {"free", "used", "last"}] /\ live' \subseteq Pages
  BY DEF HeapInv, HeapType
<1>2. strtmp' \in Seq([at : Pages, level : Nat])
  BY DEF TableInv, TempType
<1>3. {changed', running'} \subseteq BOOLEAN
  BY Zenon
<1>4. {errskip', owed'} \subseteq Int
  OBVIOUS
<1>5. Shaped'
  BY <1>1, <1>2, <1>3, <1>4, Zenon DEF Shaped
<1> QED
  BY <1>5 DEF Typed

LEMMA AddrsAdd ==
    ASSUME NEW S, NEW e
    PROVE  Addrs(S \cup {e}) = Addrs(S) \cup {e.at}
BY DEF Addrs

LEMMA AddrsDrop ==
    ASSUME NEW S, NEW e \in S, \A c, d \in S : c.at = d.at => c = d
    PROVE  Addrs(S \ {e}) = Addrs(S) \ {e.at}
BY DEF Addrs

\* A new frame in place of the one on top, for the same call or command.
LEMMA SameTop ==
    ASSUME stack \in Seq(FrameType), StackInv(stack), stack # <<>>,
           NEW f \in FrameType, stack' = WithTop(f),
           f.kind = Top.kind, f.fun = Top.fun, f.saved = Top.saved, f.argval = Top.argval,
           FrameOk(f),
           \A a \in f.args : a \in Top.args \/ a \notin StackHolds(stack),
           \A a \in f.got : a \in Top.got \/ \A i \in 1 .. Len(stack) : a \notin stack[i].got
    PROVE  /\ StackInv(stack)' /\ SameShape
           /\ \A i \in 1 .. Len(stack) : i < Len(stack) => stack'[i] = stack[i]
           /\ stack'[Len(stack)] = f
           /\ StackHolds(stack)' = (StackHolds(stack) \ Own(Top)) \cup Own(f)
<1> DEFINE n == Len(stack)
<1>1. n \in Nat /\ n >= 1 /\ n \in 1 .. n /\ Top = stack[n] /\ Top \in FrameType
  BY TopIs
<1>2. Puts(n - 1, f)
  BY TopPuts
<1>3. /\ stack' \in Seq(FrameType) /\ Len(stack') = (n - 1) + 1 /\ stack'[(n - 1) + 1] = f
      /\ \A i \in 1 .. n - 1 : stack'[i] = stack[i]
  BY <1>2 DEF Puts
<1>4. (n - 1) + 1 = n
  BY <1>1
<1>5. n - 1 = 0 => f.kind \in Command
  <2>1. stack[1].kind \in Command
    BY DEF StackInv
  <2> HIDE DEF n
  <2> QED
    BY <1>1, <2>1
<1>6. n - 1 > 0 => Above(stack[n - 1], f)
  <2> SUFFICES ASSUME n - 1 > 0 PROVE Above(stack[n - 1], f)
    OBVIOUS
  <2>1. Above(stack[n - 1], Top)
    BY <1>1, BelowTop
  <2> QED
    BY <2>1 DEF Above
<1>7. ASSUME NEW i \in 1 .. n - 1
      PROVE  Own(stack[i]) \cap Own(f) = {} /\ stack[i].got \cap f.got = {}
  <2>1. i \in 1 .. n /\ i < n
    BY <1>1
  <2>2. Own(stack[i]) \cap Own(Top) = {} /\ stack[i].got \cap Top.got = {}
    BY <2>1, TopApart
  <2>3. \A a \in Own(stack[i]) : a \in StackHolds(stack)
    BY <2>1, StackHolder
  <2>4. Buffer(f) = Buffer(Top)
    BY DEF Buffer
  <2>5. \A a \in Own(f) : a \in Own(Top) \/ a \notin StackHolds(stack)
    BY <2>4 DEF Own
  <2> QED
    BY <2>1, <2>2, <2>3, <2>5
<1>8. StackInv(stack)'
  BY <1>1, <1>2, <1>5, <1>6, <1>7, StackPuts
<1>9. SameShape
  <2>1. \A i \in 1 .. n : i = n \/ i \in 1 .. n - 1
    BY <1>1
  <2> QED
    BY <1>1, <1>3, <1>4, <2>1 DEF SameShape
<1>10. StackHolds(stack)' = (StackHolds(stack) \ Own(Top)) \cup Own(f)
  BY <1>2, TopHolds
<1>11. \A i \in 1 .. n : i < n => i \in 1 .. n - 1
  BY <1>1
<1> QED
  BY <1>3, <1>4, <1>8, <1>9, <1>10, <1>11

LEMMA ShapeTemps ==
    ASSUME stack \in Seq(FrameType), SameShape, UNCHANGED <<strtmp, changed, level>>, TempInv,
           \A i \in 1 .. Len(stack) : stack'[i].got = stack[i].got
    PROVE  TempInv'
<1>1. /\ stack' \in Seq(FrameType) /\ Len(stack') = Len(stack) /\ Len(stack) \in Nat
      /\ stack' = <<>> <=> stack = <<>>
  BY DEF SameShape
<1>2. stack # <<>> => Top'.kind = Top.kind
  BY <1>1 DEF SameShape, Top
<1>3. /\ In({"bind", "result"})' <=> In({"bind", "result"})
      /\ In({"done"})' <=> In({"done"})
      /\ Idle' <=> Idle
  BY <1>1, <1>2 DEF In, Idle
<1>4. Entries(strtmp)' = Entries(strtmp)
  BY DEF Entries
<1>5. \A i \in 1 .. Len(stack') : stack'[i].got = stack[i].got /\ stack'[i].saved = stack[i].saved
  BY <1>1 DEF SameShape
<1> QED
  BY <1>1, <1>3, <1>4, <1>5 DEF TempInv

\* What a frame uses is in the table.
LEMMA GotIsHeld ==
    ASSUME TempInv, HoldInv, NEW i \in 1 .. Len(stack), NEW a \in stack[i].got
    PROVE  a \in Addrs(Entries(strtmp)) /\ a \in live
<1>1. PICK e \in Entries(strtmp) : e.at = a
  BY DEF TempInv
<1>2. a \in Addrs(Entries(strtmp))
  BY <1>1 DEF Addrs
<1> QED
  BY <1>2 DEF HoldInv

LEMMA GetTempMemoryInv ==
    ASSUME ProgramInv, NEW s \in Pages, GetTempMemory(s)
    PROVE  ProgramInv'
<1>1. /\ Typed /\ HeapInv /\ StackInv(stack) /\ TableInv(strtmp) /\ HoldInv
      /\ MemIsCurrent /\ LevelInv /\ InterInv /\ TempInv /\ ErrorMode /\ Depth
  BY DEF ProgramInv
<1>2. stack \in Seq(FrameType) /\ level \in Nat /\ In({"cmd", "args"}) /\ stack # <<>>
  BY <1>1, Types DEF GetTempMemory, In
<1>3. HeapInv' /\ s \notin live /\ live' = live \cup {s}
  BY <1>1, Allocates DEF GetTempMemory
<1>4. Top \in FrameType /\ Top.kind \in {"cmd", "args"} /\ Top = stack[Len(stack)]
      /\ Len(stack) \in Nat /\ Len(stack) \in 1 .. Len(stack)
  BY <1>2, TopIs DEF In
<1>5. level = Top.saved
  BY <1>1, <1>2 DEF LevelInv, Calling
<1> DEFINE f == [Top EXCEPT !.got = @ \cup {s}]
<1>6. /\ f \in FrameType /\ stack' = WithTop(f)
      /\ f.kind = Top.kind /\ f.fun = Top.fun /\ f.saved = Top.saved /\ f.argval = Top.argval
      /\ f.args = Top.args /\ f.got = Top.got \cup {s}
  BY <1>4 DEF FrameType, GetTempMemory
<1> HIDE DEF f
<1>7. FrameOk(Top)
  BY <1>1, <1>4 DEF StackInv
<1>8. FrameOk(f) /\ Own(f) = Own(Top)
  BY <1>6, <1>7 DEF FrameOk, Own, Buffer
<1>9. \A i \in 1 .. Len(stack) : s \notin stack[i].got
  BY <1>1, <1>3, GotIsHeld
<1>10. /\ StackInv(stack)' /\ SameShape
       /\ \A i \in 1 .. Len(stack) : i < Len(stack) => stack'[i] = stack[i]
       /\ stack'[Len(stack)] = f
       /\ StackHolds(stack)' = (StackHolds(stack) \ Own(Top)) \cup Own(f)
  BY <1>1, <1>2, <1>6, <1>8, <1>9, SameTop
<1>11. StackHolds(stack)' = StackHolds(stack)
  <2>1. \A a \in Own(Top) : a \in StackHolds(stack)
    BY <1>2, <1>4, StackHolder
  <2> QED
    BY <1>8, <1>10, <2>1
<1> DEFINE e == [at |-> s, level |-> level]
<1>12. e \in TempType /\ e.at = s /\ e.level = level
  BY <1>2 DEF TempType
<1>13. strtmp' = Append(strtmp, e)
  BY DEF GetTempMemory
<1> HIDE DEF e
<1>14. ~In({"done"})
  BY <1>4 DEF In
<1>15. \A d \in Entries(strtmp) : d.level <= level /\ d.at \in live
  BY <1>1, <1>14 DEF TempInv, HoldInv, Addrs
<1>16. TableInv(strtmp)' /\ Entries(strtmp)' = Entries(strtmp) \cup {e}
  <2>1. \A d \in Entries(strtmp) : d.level <= e.level /\ d.at # e.at
    BY <1>3, <1>12, <1>15
  <2> QED
    BY <1>1, <1>12, <1>13, <2>1, TableAppend
<1>17. UNCHANGED <<vars, level, gosub, mem, memlevel, left, errskip, inter, running, owed, untidy, interrupts>>
       /\ changed' = TRUE /\ acts' = acts + 1
  BY DEF GetTempMemory, depth, setup, mode, Act
<1>18. HoldInv'
  <2>1. Addrs(Entries(strtmp))' = Addrs(Entries(strtmp)) \cup {s}
    BY <1>12, <1>16, AddrsAdd
  <2>2. Addrs(vars)' = Addrs(vars)
    BY <1>17
  <2> QED
    BY <1>1, <1>3, <1>11, <1>17, <2>1, <2>2 DEF HoldInv
<1>19. TempInv'
  <2>1. stack' # <<>> /\ Top'.kind = Top.kind
    BY <1>2, <1>4, <1>6, <1>10 DEF SameShape, Top
  <2>2. ~Idle' /\ ~In({"bind", "result"})'
    BY <1>4, <2>1 DEF Idle, In
  <2>3. \A d \in Entries(strtmp') : d.level <= level'
    BY <1>2, <1>12, <1>15, <1>16, <1>17
  <2>4. ASSUME NEW i \in 1 .. Len(stack'), NEW a \in stack'[i].got
        PROVE  \E d \in Entries(strtmp') : d.at = a /\ d.level <= stack'[i].saved
    <3>1. i \in 1 .. Len(stack) /\ stack'[i].saved = stack[i].saved
      BY <1>10 DEF SameShape
    <3>2. CASE a \in stack[i].got
      BY <1>1, <1>16, <3>1, <3>2 DEF TempInv
    <3>3. CASE a \notin stack[i].got
      <4>1. i = Len(stack) /\ a = s
        BY <1>4, <1>6, <1>10, <2>4, <3>1, <3>3
      <4> QED
        BY <1>2, <1>4, <1>5, <1>12, <1>16, <3>1, <4>1
    <3> QED
      BY <3>2, <3>3
  <2> QED
    BY <1>17, <2>2, <2>3, <2>4 DEF TempInv
<1>20. MemIsCurrent' /\ LevelInv' /\ InterInv' /\ ErrorMode' /\ Depth'
  BY <1>1, <1>2, <1>10, <1>17, ShapeKept
<1>21. Typed'
  <2>1. stack' \in Seq(FrameType)
    BY <1>10 DEF SameShape
  <2>2. changed' \in BOOLEAN /\ running' \in BOOLEAN
    BY <1>1, <1>17, FlagTypes, Zenon
  <2> QED
    BY <1>1, <1>3, <1>16, <1>17, <2>1, <2>2, Types, TypesAre
<1> QED
  BY <1>3, <1>10, <1>16, <1>18, <1>19, <1>20, <1>21 DEF ProgramInv

LEMMA ClearSpecificInv ==
    ASSUME ProgramInv, NEW k \in DOMAIN strtmp, ClearSpecificTempMemory(k)
    PROVE  ProgramInv'
<1>1. /\ Typed /\ HeapInv /\ StackInv(stack) /\ TableInv(strtmp) /\ HoldInv
      /\ MemIsCurrent /\ LevelInv /\ InterInv /\ TempInv /\ ErrorMode /\ Depth
  BY DEF ProgramInv
<1>2. stack \in Seq(FrameType) /\ level \in Nat /\ In({"cmd"}) /\ stack # <<>>
  BY <1>1, Types DEF ClearSpecificTempMemory, In
<1>3. Top \in FrameType /\ Top.kind = "cmd" /\ Top = stack[Len(stack)]
      /\ Len(stack) \in Nat /\ Len(stack) \in 1 .. Len(stack)
  BY <1>2, TopIs DEF In
<1> DEFINE e == strtmp[k]
           f == [Top EXCEPT !.got = @ \ {e.at}]
<1>4. k \in 1 .. Len(strtmp) /\ e \in Entries(strtmp)
  <2>1. strtmp \in Seq(TempType)
    BY <1>1 DEF TableInv
  <2> QED
    BY <2>1, EntryAt
<1>5. e.at \in Addrs(Entries(strtmp)) /\ e.at \in Top.got
  BY <1>4 DEF Addrs, ClearSpecificTempMemory
<1>6. HeapInv' /\ live' = live \ {e.at}
  <2>1. {e.at} \subseteq live
    BY <1>1, <1>5 DEF HoldInv
  <2>2. FreeMemory({e.at})
    BY DEF ClearSpecificTempMemory
  <2> QED
    BY <1>1, <2>1, <2>2, Frees
<1>7. TableInv(strtmp)' /\ Entries(strtmp)' = Entries(strtmp) \ {e}
  <2>1. strtmp' = SubSeq(strtmp, 1, k - 1) \o SubSeq(strtmp, k + 1, Len(strtmp))
    BY DEF ClearSpecificTempMemory
  <2> QED
    BY <1>1, <1>4, <2>1, TableRemove, Zenon
<1>8. Addrs(Entries(strtmp))' = Addrs(Entries(strtmp)) \ {e.at}
  BY <1>1, <1>4, <1>7, AddrsDrop, EntriesTyped
<1>9. /\ f \in FrameType /\ stack' = WithTop(f)
      /\ f.kind = Top.kind /\ f.fun = Top.fun /\ f.saved = Top.saved /\ f.argval = Top.argval
      /\ f.args = Top.args /\ f.got = Top.got \ {e.at}
  BY <1>3 DEF FrameType, ClearSpecificTempMemory
<1> HIDE DEF f, e
<1>10. FrameOk(f) /\ Own(f) = Own(Top)
  <2>1. FrameOk(Top)
    BY <1>1, <1>3 DEF StackInv
  <2> QED
    BY <1>9, <2>1 DEF FrameOk, Own, Buffer
<1>11. /\ StackInv(stack)' /\ SameShape
       /\ \A i \in 1 .. Len(stack) : i < Len(stack) => stack'[i] = stack[i]
       /\ stack'[Len(stack)] = f
       /\ StackHolds(stack)' = (StackHolds(stack) \ Own(Top)) \cup Own(f)
  BY <1>1, <1>2, <1>9, <1>10, SameTop
<1>12. StackHolds(stack)' = StackHolds(stack)
  <2>1. \A a \in Own(Top) : a \in StackHolds(stack)
    BY <1>2, <1>3, StackHolder
  <2> QED
    BY <1>10, <1>11, <2>1
<1>13. UNCHANGED <<vars, changed, level, gosub, mem, memlevel, left, errskip, inter, running, owed,
                  untidy, acts, interrupts>>
  BY DEF ClearSpecificTempMemory, depth, setup, mode, bounds
<1>14. HoldInv'
  <2>1. Addrs(vars)' = Addrs(vars)
    BY <1>13
  <2> QED
    BY <1>1, <1>5, <1>6, <1>8, <1>12, <1>13, <2>1 DEF HoldInv
<1>15. TempInv'
  <2>1. stack' # <<>> /\ Top'.kind = Top.kind
    BY <1>2, <1>3, <1>9, <1>11 DEF SameShape, Top
  <2>2. ~Idle' /\ ~In({"bind", "result"})' /\ ~In({"done"})
    BY <1>3, <2>1 DEF Idle, In
  <2>3. /\ \A d \in Entries(strtmp') : d.level <= level'
        /\ ~changed' => \A d \in Entries(strtmp') : d.level < level'
    BY <1>1, <1>7, <1>13, <2>2 DEF TempInv
  <2>4. ASSUME NEW i \in 1 .. Len(stack'), NEW a \in stack'[i].got
        PROVE  \E d \in Entries(strtmp') : d.at = a /\ d.level <= stack'[i].saved
    <3>1. i \in 1 .. Len(stack) /\ stack'[i].saved = stack[i].saved
      BY <1>11 DEF SameShape
    <3>2. a \in stack[i].got /\ a # e.at
      <4>1. CASE i = Len(stack)
        BY <1>3, <1>9, <1>11, <2>4, <4>1
      <4>2. CASE i < Len(stack)
        <5>1. stack[i].got \cap Top.got = {}
          BY <1>1, <1>2, <3>1, <4>2, TopApart
        <5> QED
          BY <1>5, <1>11, <2>4, <3>1, <4>2, <5>1
      <4> QED
        BY <1>3, <3>1, <4>1, <4>2
    <3>3. PICK d \in Entries(strtmp) : d.at = a /\ d.level <= stack[i].saved
      BY <1>1, <3>1, <3>2 DEF TempInv
    <3> QED
      BY <1>7, <3>1, <3>2, <3>3
  <2> QED
    BY <2>2, <2>3, <2>4 DEF TempInv
<1>16. MemIsCurrent' /\ LevelInv' /\ InterInv' /\ ErrorMode' /\ Depth'
  BY <1>1, <1>2, <1>11, <1>13, ShapeKept
<1>17. Typed'
  <2>1. stack' \in Seq(FrameType)
    BY <1>11 DEF SameShape
  <2>2. changed' \in BOOLEAN /\ running' \in BOOLEAN
    BY <1>1, <1>13, FlagTypes, Zenon
  <2> QED
    BY <1>1, <1>6, <1>7, <1>13, <2>1, <2>2, Types, TypesAre
<1> QED
  BY <1>6, <1>7, <1>11, <1>14, <1>15, <1>16, <1>17 DEF ProgramInv

\* A step that leaves the temporaries and what frames use of them alone.
LEMMA ShapeStep ==
    ASSUME ProgramInv, HeapInv', StackInv(stack)', SameShape, HoldInv',
           \A i \in 1 .. Len(stack) : stack'[i].got = stack[i].got,
           UNCHANGED <<strtmp, changed, level, gosub, mem, memlevel, left, errskip, inter, running,
                       owed, untidy, interrupts>>,
           vars' \subseteq [at : Pages, level : Nat], acts' \in Nat
    PROVE  ProgramInv'
<1>1. /\ Typed /\ HeapInv /\ StackInv(stack) /\ TableInv(strtmp) /\ HoldInv
      /\ MemIsCurrent /\ LevelInv /\ InterInv /\ TempInv /\ ErrorMode /\ Depth
  BY DEF ProgramInv
<1>2. stack \in Seq(FrameType)
  BY <1>1, Types
<1>3. TempInv'
  BY <1>1, <1>2, ShapeTemps
<1>4. MemIsCurrent' /\ LevelInv' /\ InterInv' /\ ErrorMode' /\ Depth'
  BY <1>1, <1>2, ShapeKept
<1>5. TableInv(strtmp)'
  BY <1>1
<1>6. Typed'
  <2>1. stack' \in Seq(FrameType)
    BY DEF SameShape
  <2>2. changed' \in BOOLEAN /\ running' \in BOOLEAN
    BY <1>1, FlagTypes, Zenon
  <2> QED
    BY <1>1, <1>5, <2>1, <2>2, Types, TypesAre
<1> QED
  BY <1>3, <1>4, <1>5, <1>6 DEF ProgramInv

\* A variable is declared, by DIM, LOCAL or as a parameter.
Declares(s, k, lv) ==
    /\ GetMemory(s, k)
    /\ vars' = vars \cup {[at |-> s, level |-> lv]}
    /\ UNCHANGED <<stack, strtmp, changed, level, gosub, mem, memlevel, left, errskip, inter,
                   running, owed, untidy, interrupts>>
    /\ acts' \in Nat

LEMMA DeclareInv ==
    ASSUME ProgramInv, NEW s \in Pages, NEW k \in Nat, NEW lv \in Nat, Declares(s, k, lv)
    PROVE  ProgramInv'
<1>9. /\ UNCHANGED <<stack, strtmp, changed, level, gosub, mem, memlevel, left, errskip, inter,
                    running, owed, untidy, interrupts>>
      /\ acts' \in Nat
  BY DEF Declares
<1>1. Typed /\ HeapInv /\ StackInv(stack) /\ HoldInv
  BY DEF ProgramInv
<1>2. HeapInv' /\ s \notin live /\ live' = live \cup {s}
  BY <1>1, Allocates DEF Declares
<1>3. stack \in Seq(FrameType) /\ vars \subseteq [at : Pages, level : Nat]
  BY <1>1, Types
<1>4. SameShape /\ StackInv(stack)'
  BY <1>1, <1>3, <1>9 DEF SameShape
<1> DEFINE v == [at |-> s, level |-> lv]
<1>5. v.at = s /\ v \in [at : Pages, level : Nat]
  OBVIOUS
<1>6. vars' = vars \cup {v}
  BY DEF Declares
<1> HIDE DEF v
<1>7. HoldInv'
  <2>1. Addrs(vars)' = Addrs(vars) \cup {s}
    BY <1>5, <1>6, AddrsAdd
  <2>2. Addrs(Entries(strtmp))' = Addrs(Entries(strtmp)) /\ StackHolds(stack)' = StackHolds(stack)
    BY <1>9
  <2>3. \A w \in vars : w.at # s
    BY <1>1, <1>2 DEF HoldInv, Addrs
  <2>4. \A u, w \in vars' : u.at = w.at => u = w
    BY <1>1, <1>5, <1>6, <2>3 DEF HoldInv
  <2> QED
    BY <1>1, <1>2, <1>9, <2>1, <2>2, <2>4 DEF HoldInv
<1>8. vars' \subseteq [at : Pages, level : Nat]
  BY <1>3, <1>5, <1>6
<1> QED
  BY <1>2, <1>4, <1>7, <1>8, <1>9, ShapeStep

LEMMA EraseInv ==
    ASSUME ProgramInv, NEW v \in vars, Erase(v)
    PROVE  ProgramInv'
<1>1. Typed /\ HeapInv /\ StackInv(stack) /\ HoldInv
  BY DEF ProgramInv
<1>2. UNCHANGED <<stack, strtmp, changed, level, gosub, mem, memlevel, left, errskip, inter,
                  running, owed, untidy, acts, interrupts>> /\ vars' = vars \ {v}
  BY DEF Erase, temps, depth, setup, mode, bounds
<1>3. v.at \in Addrs(vars)
  BY DEF Addrs
<1>4. HeapInv' /\ live' = live \ {v.at}
  <2>1. {v.at} \subseteq live
    BY <1>1, <1>3 DEF HoldInv
  <2>2. FreeMemory({v.at})
    BY DEF Erase
  <2> QED
    BY <1>1, <2>1, <2>2, Frees
<1>5. stack \in Seq(FrameType) /\ vars \subseteq [at : Pages, level : Nat] /\ acts \in Nat
  BY <1>1, Types
<1>6. SameShape /\ StackInv(stack)'
  BY <1>1, <1>2, <1>5 DEF SameShape
<1>7. HoldInv'
  <2>1. Addrs(vars)' = Addrs(vars) \ {v.at}
    BY <1>1, <1>2, AddrsDrop DEF HoldInv
  <2>2. Addrs(Entries(strtmp))' = Addrs(Entries(strtmp)) /\ StackHolds(stack)' = StackHolds(stack)
    BY <1>2
  <2> QED
    BY <1>1, <1>2, <1>3, <1>4, <2>1, <2>2 DEF HoldInv
<1> QED
  BY <1>2, <1>4, <1>5, <1>6, <1>7, ShapeStep

LEMMA StringArgumentInv ==
    ASSUME ProgramInv, NEW s \in Pages, StringArgument(s)
    PROVE  ProgramInv'
<1>1. Typed /\ HeapInv /\ StackInv(stack) /\ HoldInv
  BY DEF ProgramInv
<1>2. /\ stack \in Seq(FrameType) /\ vars \subseteq [at : Pages, level : Nat] /\ acts \in Nat
      /\ In({"args"}) /\ stack # <<>>
  BY <1>1, Types DEF StringArgument, In
<1>3. HeapInv' /\ s \notin live /\ live' = live \cup {s}
  BY <1>1, Allocates DEF StringArgument
<1>4. /\ Top \in FrameType /\ Top.kind = "args" /\ Top = stack[Len(stack)]
      /\ Len(stack) \in Nat /\ Len(stack) \in 1 .. Len(stack)
  BY <1>2, TopIs DEF In
<1> DEFINE f == [Top EXCEPT !.args = @ \cup {s}]
<1>5. /\ f \in FrameType /\ stack' = WithTop(f)
      /\ f.kind = Top.kind /\ f.fun = Top.fun /\ f.saved = Top.saved /\ f.argval = Top.argval
      /\ f.args = Top.args \cup {s} /\ f.got = Top.got
  BY <1>4 DEF FrameType, StringArgument
<1> HIDE DEF f
<1>6. \A a \in Own(Top) : a \in StackHolds(stack)
  BY <1>2, <1>4, StackHolder
<1>7. s \notin StackHolds(stack)
  BY <1>1, <1>3 DEF HoldInv
<1>8. FrameOk(f) /\ Own(f) = Own(Top) \cup {s}
  <2>1. FrameOk(Top) /\ s \notin Buffer(Top)
    BY <1>1, <1>4, <1>6, <1>7 DEF StackInv, Own
  <2> QED
    BY <1>4, <1>5, <2>1 DEF FrameOk, Own, Buffer
<1>9. /\ StackInv(stack)' /\ SameShape
      /\ \A i \in 1 .. Len(stack) : i < Len(stack) => stack'[i] = stack[i]
      /\ stack'[Len(stack)] = f
      /\ StackHolds(stack)' = (StackHolds(stack) \ Own(Top)) \cup Own(f)
  BY <1>1, <1>2, <1>5, <1>7, <1>8, SameTop
<1>10. StackHolds(stack)' = StackHolds(stack) \cup {s}
  BY <1>6, <1>8, <1>9
<1>11. UNCHANGED <<vars, strtmp, changed, level, gosub, mem, memlevel, left, errskip, inter,
                   running, owed, untidy, interrupts>> /\ acts' = acts + 1
  BY DEF StringArgument, temps, depth, setup, mode, Act
<1>12. HoldInv'
  <2>1. Addrs(Entries(strtmp))' = Addrs(Entries(strtmp)) /\ Addrs(vars)' = Addrs(vars)
    BY <1>11
  <2> QED
    BY <1>1, <1>3, <1>10, <1>11, <2>1 DEF HoldInv
<1>13. \A i \in 1 .. Len(stack) : stack'[i].got = stack[i].got
  BY <1>4, <1>5, <1>9
<1>14. vars' \subseteq [at : Pages, level : Nat] /\ acts' \in Nat
  BY <1>2, <1>11
<1> QED
  BY <1>3, <1>9, <1>11, <1>12, <1>13, <1>14, ShapeStep

LEMMA CopyArgumentInv ==
    ASSUME ProgramInv, NEW s \in Pages, CopyArgument(s)
    PROVE  ProgramInv'
<1>1. Typed /\ HeapInv /\ StackInv(stack) /\ HoldInv
  BY DEF ProgramInv
<1>2. /\ stack \in Seq(FrameType) /\ vars \subseteq [at : Pages, level : Nat] /\ acts \in Nat
      /\ In({"bind"}) /\ stack # <<>> /\ s \in Top.args
  BY <1>1, Types DEF CopyArgument, In
<1>3. /\ Top \in FrameType /\ Top.kind = "bind" /\ Top = stack[Len(stack)]
      /\ Len(stack) \in Nat /\ Len(stack) \in 1 .. Len(stack)
  BY <1>2, TopIs DEF In
<1> DEFINE f == [Top EXCEPT !.args = @ \ {s}]
<1>4. /\ f \in FrameType /\ stack' = WithTop(f)
      /\ f.kind = Top.kind /\ f.fun = Top.fun /\ f.saved = Top.saved /\ f.argval = Top.argval
      /\ f.args = Top.args \ {s} /\ f.got = Top.got
  BY <1>3 DEF FrameType, CopyArgument
<1> HIDE DEF f
<1>5. \A a \in Own(Top) : a \in StackHolds(stack)
  BY <1>2, <1>3, StackHolder
<1>6. s \in Own(Top)
  BY <1>2 DEF Own
<1>7. HeapInv' /\ live' = live \ {s}
  <2>1. {s} \subseteq live
    BY <1>1, <1>5, <1>6 DEF HoldInv
  <2>2. FreeMemory({s})
    BY DEF CopyArgument
  <2> QED
    BY <1>1, <2>1, <2>2, Frees
<1>8. FrameOk(f) /\ Own(f) = Own(Top) \ {s}
  <2>1. FrameOk(Top)
    BY <1>1, <1>3 DEF StackInv
  <2>2. Buffer(f) = Buffer(Top) /\ s \notin Buffer(Top)
    BY <1>2, <1>4, <2>1 DEF FrameOk, Buffer
  <2> QED
    BY <1>3, <1>4, <2>1, <2>2 DEF FrameOk, Own
<1>9. /\ StackInv(stack)' /\ SameShape
      /\ \A i \in 1 .. Len(stack) : i < Len(stack) => stack'[i] = stack[i]
      /\ stack'[Len(stack)] = f
      /\ StackHolds(stack)' = (StackHolds(stack) \ Own(Top)) \cup Own(f)
  BY <1>1, <1>2, <1>4, <1>8, SameTop
<1>10. StackHolds(stack)' = StackHolds(stack) \ {s}
  BY <1>5, <1>6, <1>8, <1>9
<1>11. UNCHANGED <<vars, strtmp, changed, level, gosub, mem, memlevel, left, errskip, inter,
                   running, owed, untidy, acts, interrupts>>
  BY DEF CopyArgument, temps, depth, setup, mode, bounds
<1>12. HoldInv'
  <2>1. Addrs(Entries(strtmp))' = Addrs(Entries(strtmp)) /\ Addrs(vars)' = Addrs(vars)
    BY <1>11
  <2> QED
    BY <1>1, <1>5, <1>6, <1>7, <1>10, <1>11, <2>1 DEF HoldInv
<1>13. \A i \in 1 .. Len(stack) : stack'[i].got = stack[i].got
  BY <1>3, <1>4, <1>9
<1>14. vars' \subseteq [at : Pages, level : Nat] /\ acts' \in Nat
  BY <1>2, <1>11
<1> QED
  BY <1>7, <1>9, <1>11, <1>12, <1>13, <1>14, ShapeStep

-----------------------------------------------------------------------------
(* Commands that change where the program goes on.                         *)

LEMMA DoneStack ==
    ASSUME stack \in Seq(FrameType), StackInv(stack), In({"cmd"}), stack' = Done
    PROVE  /\ stack' \in Seq(FrameType) /\ Len(stack') = Len(stack) /\ stack' # <<>>
           /\ StackInv(stack)' /\ StackHolds(stack)' = StackHolds(stack)
           /\ Top'.kind = "done" /\ Waiting(stack)' = Waiting(stack)
           /\ \A i \in 1 .. Len(stack) : i < Len(stack) => stack'[i] = stack[i]
           /\ \A i \in 1 .. Len(stack) : /\ stack'[i].saved = stack[i].saved
                                         /\ stack'[i].got = stack[i].got
<1> DEFINE n == Len(stack)
           f == [Top EXCEPT !.kind = "done"]
<1>1. stack # <<>> /\ Top.kind = "cmd"
  BY DEF In
<1>2. n \in Nat /\ n >= 1 /\ n \in 1 .. n /\ Top = stack[n] /\ Top \in FrameType
  BY <1>1, TopIs
<1>3. /\ f \in FrameType /\ f.kind = "done" /\ f.saved = Top.saved /\ f.args = Top.args
      /\ f.got = Top.got
  BY <1>2 DEF FrameType
<1>4. stack' = WithTop(f)
  BY DEF Done
<1> HIDE DEF f
<1>5. Puts(n - 1, f)
  BY <1>1, <1>3, <1>4, TopPuts
<1>6. /\ stack' \in Seq(FrameType) /\ Len(stack') = (n - 1) + 1 /\ stack'[(n - 1) + 1] = f
      /\ \A i \in 1 .. n - 1 : stack'[i] = stack[i]
  BY <1>5 DEF Puts
<1>7. (n - 1) + 1 = n /\ (\A i \in 1 .. n : i < n => i \in 1 .. n - 1) /\ stack' # <<>>
  BY <1>2, <1>6
<1>8. FrameOk(Top)
  BY <1>1, <1>2 DEF StackInv
<1>9. FrameOk(f) /\ Own(f) = {} /\ Own(Top) = {}
  BY <1>1, <1>3, <1>8 DEF FrameOk, Own, Buffer
<1>10. n - 1 > 0 => Above(stack[n - 1], f)
  <2> SUFFICES ASSUME n - 1 > 0 PROVE Above(stack[n - 1], f)
    OBVIOUS
  <2>1. Above(stack[n - 1], Top)
    BY <1>2, BelowTop
  <2> QED
    BY <1>1, <1>3, <2>1 DEF Above, Command
<1>11. ASSUME NEW i \in 1 .. n - 1
       PROVE  Own(stack[i]) \cap Own(f) = {} /\ stack[i].got \cap f.got = {}
  <2>1. i \in 1 .. n /\ i < n
    BY <1>2
  <2> QED
    BY <1>3, <1>9, <2>1, TopApart
<1>12. f.kind \in Command
  BY <1>3 DEF Command
<1>13. StackInv(stack)'
  BY <1>5, <1>9, <1>10, <1>11, <1>12, StackPuts
<1>14. StackHolds(stack)' = StackHolds(stack)
  BY <1>1, <1>5, <1>9, TopHolds
<1>15. Top'.kind = "done"
  BY <1>3, <1>6, <1>7 DEF Top
<1>16. \A i \in 1 .. n : i < n => stack'[i] = stack[i]
  BY <1>6, <1>7
<1>17. \A i \in 1 .. n : i = n \/ i < n
  BY <1>2
<1>18. \A i \in 1 .. n : stack'[i].saved = stack[i].saved /\ stack'[i].got = stack[i].got
  BY <1>2, <1>3, <1>6, <1>7, <1>16, <1>17
<1>19. Waiting(stack)' = Waiting(stack)
  <2>1. \A i \in 1 .. n : stack'[i].kind = "args" <=> stack[i].kind = "args"
    BY <1>1, <1>2, <1>3, <1>6, <1>7, <1>16, <1>17
  <2>2. DOMAIN stack' = 1 .. n /\ DOMAIN stack = 1 .. n
    BY <1>6, <1>7
  <2> QED
    BY <2>1, <2>2 DEF Waiting
<1> QED
  BY <1>6, <1>7, <1>13, <1>14, <1>15, <1>16, <1>18, <1>19

LEMMA WaitingCount ==
    ASSUME NEW s \in Seq(FrameType)
    PROVE  IsFiniteSet(Waiting(s)) /\ Cardinality(Waiting(s)) \in Nat
<1>1. IsFiniteSet(1 .. Len(s))
  BY FS_Interval
<1>2. Waiting(s) \subseteq 1 .. Len(s)
  BY DEF Waiting
<1>3. IsFiniteSet(Waiting(s))
  BY <1>1, <1>2, FS_Subset
<1> QED
  BY <1>3, FS_CardinalityType

LEMMA EntryLevels ==
    ASSUME TableInv(strtmp)
    PROVE  \A e \in Entries(strtmp) : e.level \in Nat /\ e.at \in Pages
BY EntriesTyped DEF TempType

\* The mode of errors is settled before a command changes it.
LEMMA ModeSettled ==
    ASSUME ErrorMode, Typed, In({"cmd", "args", "bind", "result"})
    PROVE  inter # NoInterrupt \/ ~(owed > 0)
BY DEF ErrorMode, In, Idle

\* The frame an interrupt stopped at lies below the frames of its commands.
LEMMA InterBelow ==
    ASSUME Typed, StackInv(stack), LevelInv, InterInv, inter # NoInterrupt,
           In({"cmd", "args", "bind", "result", "done"})
    PROVE  /\ inter.depth \in Nat /\ inter.at \in Nat /\ inter.depth < Len(stack)
           /\ level > inter.at
           /\ inter.depth > 0 => stack[inter.depth].kind \in Running
           /\ \A i \in 1 .. Len(stack) : i > inter.depth => stack[i].saved > inter.at
<1>1. stack \in Seq(FrameType) /\ stack # <<>>
  BY Types DEF In
<1>2. running
  BY <1>1 DEF LevelInv
<1>3. Len(stack) \in Nat /\ Len(stack) >= 1 /\ Top = stack[Len(stack)]
  BY <1>1, TopIs
<1>4. inter.depth \in Nat /\ inter.at \in Nat /\ inter.depth <= Len(stack)
  BY <1>2 DEF InterInv, InterType
<1>5. inter.depth > 0 => stack[inter.depth].kind \in Running
  BY <1>2 DEF InterInv
<1>6. inter.depth # Len(stack)
  BY <1>3, <1>5 DEF In, Running
<1> QED
  BY <1>2, <1>3, <1>4, <1>5, <1>6 DEF InterInv

LEMMA DoneStep ==
    ASSUME ProgramInv, In({"cmd"}), stack' = Done,
           UNCHANGED <<strtmp, mem, memlevel, left, inter, running, owed>>,
           HeapInv', HoldInv', Depth',
           level' \in Nat, errskip' \in Int, changed' \in BOOLEAN,
           gosub' \in Seq({"sub", "fun"}), vars' \subseteq [at : Pages, level : Nat],
           untidy' \subseteq {"strings", "call", "label", "page0"}, acts' \in Nat, interrupts' \in Nat,
           ~changed' => \A e \in Entries(strtmp) : e.level < level',
           Len(stack) > 1 => level' > stack[Len(stack) - 1].saved,
           inter # NoInterrupt => level' > inter.at
    PROVE  ProgramInv'
<1>1. /\ Typed /\ HeapInv /\ StackInv(stack) /\ TableInv(strtmp) /\ HoldInv
      /\ MemIsCurrent /\ LevelInv /\ InterInv /\ TempInv /\ ErrorMode /\ Depth
  BY DEF ProgramInv
<1>2. stack \in Seq(FrameType) /\ stack # <<>> /\ Top.kind = "cmd" /\ Len(stack) \in Nat
  BY <1>1, Types DEF In
<1>3. /\ stack' \in Seq(FrameType) /\ Len(stack') = Len(stack) /\ stack' # <<>>
      /\ StackInv(stack)' /\ Top'.kind = "done"
      /\ \A i \in 1 .. Len(stack) : i < Len(stack) => stack'[i] = stack[i]
      /\ \A i \in 1 .. Len(stack) : /\ stack'[i].saved = stack[i].saved
                                    /\ stack'[i].got = stack[i].got
  BY <1>1, <1>2, DoneStack
<1>4. /\ In({"done"})' /\ ~Idle' /\ ~In(Calling)' /\ ~In({"bind", "result"})' /\ ~In(Running)'
      /\ ~In({"args", "bind"})'
  BY <1>3 DEF In, Idle, Calling, Running
<1>5. ~In({"args", "bind"}) /\ ~In({"done"}) /\ In({"cmd", "args", "bind", "result"})
  BY <1>2 DEF In
<1>6. MemIsCurrent'
  BY <1>1, <1>5 DEF MemIsCurrent
<1>7. LevelInv'
  <2>1. running'
    BY <1>1, <1>2 DEF LevelInv
  <2>2. Len(stack') > 1 => level' > stack'[Len(stack') - 1].saved
    <3> SUFFICES ASSUME Len(stack) > 1 PROVE level' > stack'[Len(stack) - 1].saved
      BY <1>3
    <3>1. Len(stack) - 1 \in 1 .. Len(stack)
      BY <1>2
    <3> QED
      BY <1>3, <3>1
  <2>3. ASSUME NEW i \in 1 .. Len(stack'), stack'[i].kind = "end"
        PROVE  inter # NoInterrupt /\ inter.depth = i /\ inter.at = stack'[i].saved + 1
    <3>1. i \in 1 .. Len(stack) /\ i < Len(stack)
      BY <1>2, <1>3, <2>3 DEF Top
    <3>2. stack[i].kind = "end"
      BY <1>3, <2>3, <3>1
    <3> QED
      BY <1>1, <1>2, <1>3, <1>5, <3>1, <3>2 DEF LevelInv
  <2> QED
    BY <1>4, <2>1, <2>2, <2>3 DEF LevelInv
<1>8. InterInv'
  <2>1. ASSUME inter # NoInterrupt
        PROVE  /\ inter.depth \in Nat /\ inter.depth < Len(stack)
               /\ \A i \in 1 .. Len(stack) : i > inter.depth => stack[i].saved > inter.at
    BY <1>1, <2>1, <1>2, InterBelow DEF In
  <2>2. ASSUME inter # NoInterrupt, inter.depth > 0
        PROVE  stack'[inter.depth].kind \in Running /\ inter.at > stack'[inter.depth].saved
    <3>1. inter.depth \in 1 .. Len(stack) /\ inter.depth < Len(stack)
      BY <1>2, <2>1, <2>2
    <3>2. running
      BY <1>1, <1>2 DEF LevelInv
    <3> QED
      BY <1>1, <1>3, <2>2, <3>1, <3>2 DEF InterInv
  <2> QED
    BY <1>1, <1>3, <2>1, <2>2 DEF InterInv
<1>9. TempInv'
  <2>1. Entries(strtmp)' = Entries(strtmp)
    OBVIOUS
  <2>2. ~changed' => \A e \in Entries(strtmp)' : e.level < level'
    BY <2>1
  <2>3. \A i \in 1 .. Len(stack') : \A a \in stack'[i].got :
           \E e \in Entries(strtmp)' : e.at = a /\ e.level <= stack'[i].saved
    BY <1>1, <1>3, <2>1 DEF TempInv
  <2> QED
    BY <1>4, <2>2, <2>3 DEF TempInv
<1>10. ErrorMode'
  <2>1. inter # NoInterrupt \/ ~(owed > 0)
    BY <1>1, <1>5, ModeSettled
  <2> QED
    BY <1>1, <2>1 DEF ErrorMode
<1>11. TableInv(strtmp)'
  BY <1>1
<1>12. Typed'
  <2>1. running' \in BOOLEAN
    BY <1>1, FlagTypes, Zenon
  <2> QED
    BY <1>1, <1>3, <1>11, <2>1, Types, TypesAre
<1> QED
  BY <1>3, <1>6, <1>7, <1>8, <1>9, <1>10, <1>11, <1>12 DEF ProgramInv

LEMMA PopGosub ==
    ASSUME NEW T, NEW g \in Seq(T), g # <<>>
    PROVE  /\ SubSeq(g, 1, Len(g) - 1) \in Seq(T)
           /\ Len(SubSeq(g, 1, Len(g) - 1)) = Len(g) - 1 /\ Len(g) \in Nat
<1> DEFINE n == Len(g) - 1
<1>1. Len(g) \in Nat /\ n \in Nat /\ n <= Len(g)
  OBVIOUS
<1> HIDE DEF n
<1>2. \A i \in 1 .. n : i \in 1 .. Len(g) /\ g[i] \in T
  BY <1>1
<1>3. SubSeq(g, 1, n) \in Seq(T) /\ Len(SubSeq(g, 1, n)) = n
  BY <1>1, <1>2
<1> QED
  BY <1>1, <1>3 DEF n

\* ClearVars gives back the memory of the variables it deletes; if one was at
\* MMHeap the program is no longer tidy.
LEMMA LeaveHolds ==
    ASSUME Typed, HeapInv, HoldInv, Leave(level), level > 0,
           StackHolds(stack)' = StackHolds(stack), strtmp' = strtmp, running' = running
    PROVE  /\ HeapInv' /\ HoldInv'
           /\ vars' \subseteq [at : Pages, level : Nat]
           /\ untidy' \subseteq {"strings", "call", "label", "page0"}
           /\ untidy \subseteq untidy'
           /\ level' = level - 1 /\ level' \in Nat /\ changed' = TRUE
<1> DEFINE C == VarsCleared(level)
           lost == PageZeroLost(level)
<1>1. level \in Nat /\ vars \subseteq [at : Pages, level : Nat]
      /\ untidy \subseteq {"strings", "call", "label", "page0"}
  BY Types
<1>2. /\ FreeMemory(VarsFreed(level)) /\ vars' = vars \ C /\ untidy' = untidy \cup lost
      /\ level' = level - 1 /\ changed' = TRUE
  BY DEF Leave
<1>3. C \subseteq vars
  BY DEF VarsCleared
<1>4. VarsFreed(level) = Addrs(C) \ {0}
  BY DEF VarsFreed, Addrs
<1>5. lost \subseteq {"page0"} /\ (0 \in Addrs(C) => lost # {})
  BY DEF PageZeroLost, Addrs
<1> HIDE DEF C, lost
<1>6. Addrs(C) \subseteq Addrs(vars)
  BY <1>3 DEF Addrs
<1>7. Addrs(vars') = Addrs(vars) \ Addrs(C)
  BY <1>2, <1>3 DEF Addrs, HoldInv
<1>8. HeapInv' /\ live' = live \ VarsFreed(level)
  <2>1. VarsFreed(level) \subseteq live
    BY <1>4, <1>6 DEF HoldInv
  <2> QED
    BY <1>2, <2>1, Frees
<1>9. HoldInv'
  <2>1. Addrs(Entries(strtmp))' = Addrs(Entries(strtmp))
    OBVIOUS
  <2>2. /\ Addrs(vars)' \cup Addrs(Entries(strtmp))' \cup StackHolds(stack)' \subseteq live'
        /\ Addrs(vars)' \cap Addrs(Entries(strtmp))' = {}
        /\ Addrs(vars)' \cap StackHolds(stack)' = {}
        /\ Addrs(Entries(strtmp))' \cap StackHolds(stack)' = {}
    BY <1>4, <1>6, <1>7, <1>8, <2>1 DEF HoldInv
  <2>3. \A v, w \in vars' : v.at = w.at => v = w
    BY <1>2 DEF HoldInv
  <2>4. ASSUME running', untidy' = {}
        PROVE  live' \subseteq Addrs(vars)' \cup Addrs(Entries(strtmp))' \cup StackHolds(stack)'
    <3>1. untidy = {} /\ 0 \notin Addrs(C) /\ running
      BY <1>2, <1>5, <2>4
    <3> QED
      BY <1>4, <1>7, <1>8, <2>1, <3>1 DEF HoldInv
  <2> QED
    BY <2>2, <2>3, <2>4 DEF HoldInv
<1> QED
  BY <1>1, <1>2, <1>5, <1>8, <1>9

LEMMA OnErrorInv ==
    ASSUME ProgramInv, NEW n \in {-1, 0, 2}, OnError(n)
    PROVE  ProgramInv'
<1>1. Typed /\ HeapInv /\ StackInv(stack) /\ HoldInv /\ LevelInv /\ InterInv /\ TempInv /\ Depth
  BY DEF ProgramInv
<1>2. /\ In({"cmd"}) /\ stack' = Done /\ errskip' = n /\ acts' = acts + 1
      /\ UNCHANGED <<bits, live, vars, strtmp, changed, level, gosub, mem, memlevel, left, inter,
                     running, owed, untidy, interrupts>>
  BY DEF OnError, heapVars, temps, depth, setup, Act
<1>3. /\ stack \in Seq(FrameType) /\ level \in Nat /\ Len(stack) \in Nat /\ stack # <<>>
      /\ Top.kind = "cmd"
  BY <1>1, <1>2, Types DEF In
<1>4. StackHolds(stack)' = StackHolds(stack) /\ Waiting(stack)' = Waiting(stack)
  BY <1>1, <1>2, <1>3, DoneStack
<1>5. HeapInv'
  BY <1>1, <1>2 DEF HeapInv, HeapType, Whole, Apart, NoPageLost, Block
<1>6. HoldInv'
  <2>1. Addrs(Entries(strtmp))' = Addrs(Entries(strtmp)) /\ Addrs(vars)' = Addrs(vars)
    BY <1>2
  <2> QED
    BY <1>1, <1>2, <1>4, <2>1 DEF HoldInv
<1>7. Depth'
  BY <1>1, <1>2, <1>4 DEF Depth, Balanced, Waiting
<1>8. ~changed' => \A e \in Entries(strtmp) : e.level < level'
  BY <1>1, <1>2 DEF TempInv
<1>9. level = Top.saved
  BY <1>1, <1>2, <1>3 DEF LevelInv, In, Calling
<1>10. Len(stack) > 1 => level' > stack[Len(stack) - 1].saved
  <2> SUFFICES ASSUME Len(stack) > 1 PROVE level > stack[Len(stack) - 1].saved
    BY <1>2
  <2>1. Above(stack[Len(stack) - 1], Top) /\ stack[Len(stack) - 1].saved \in Nat
    BY <1>1, <1>3, BelowTop
  <2> QED
    BY <1>3, <1>9, <2>1 DEF Above, Command
<1>11. inter # NoInterrupt => level' > inter.at
  BY <1>1, <1>2, <1>3, InterBelow DEF In
<1>12. changed' \in BOOLEAN
  BY <1>1, <1>2, FlagTypes, Zenon
<1>13. /\ level' \in Nat /\ errskip' \in Int /\ gosub' \in Seq({"sub", "fun"})
       /\ vars' \subseteq [at : Pages, level : Nat]
       /\ untidy' \subseteq {"strings", "call", "label", "page0"} /\ acts' \in Nat /\ interrupts' \in Nat
  BY <1>1, <1>2, Types
<1> QED
  BY <1>2, <1>5, <1>6, <1>7, <1>8, <1>10, <1>11, <1>12, <1>13, DoneStep

LEMMA GosubInv ==
    ASSUME ProgramInv, cmd_gosub
    PROVE  ProgramInv'
<1>1. Typed /\ HeapInv /\ StackInv(stack) /\ HoldInv /\ LevelInv /\ InterInv /\ TempInv /\ Depth
  BY DEF ProgramInv
<1>2. /\ In({"cmd"}) /\ stack' = Done /\ gosub' = Append(gosub, "sub") /\ level' = level + 1
      /\ UNCHANGED <<bits, live, vars, strtmp, changed, errskip, mem, memlevel, left, inter,
                     running, owed, untidy, acts, interrupts>>
  BY DEF cmd_gosub, heapVars, temps, setup, mode, bounds
<1>3. /\ stack \in Seq(FrameType) /\ level \in Nat /\ Len(stack) \in Nat /\ stack # <<>>
      /\ Top.kind = "cmd" /\ gosub \in Seq({"sub", "fun"})
  BY <1>1, <1>2, Types DEF In
<1>4. StackHolds(stack)' = StackHolds(stack) /\ Waiting(stack)' = Waiting(stack)
  BY <1>1, <1>2, <1>3, DoneStack
<1>5. HeapInv'
  BY <1>1, <1>2 DEF HeapInv, HeapType, Whole, Apart, NoPageLost, Block
<1>6. HoldInv'
  <2>1. Addrs(Entries(strtmp))' = Addrs(Entries(strtmp)) /\ Addrs(vars)' = Addrs(vars)
    BY <1>2
  <2> QED
    BY <1>1, <1>2, <1>4, <2>1 DEF HoldInv
<1>7. Depth'
  <2>1. Len(gosub') = Len(gosub) + 1 /\ Len(gosub) \in Nat
    BY <1>2, <1>3
  <2>2. Cardinality(Waiting(stack')) = Cardinality(Waiting(stack)) /\ Cardinality(Waiting(stack)) \in Nat
    BY <1>3, <1>4, WaitingCount
  <2>3. Balanced => Balanced'
    BY <1>2, <1>3, <2>1, <2>2, DepthIs, DepthNext
  <2> QED
    BY <1>1, <1>2, <2>3 DEF Depth
<1>8. ~changed' => \A e \in Entries(strtmp) : e.level < level'
  BY <1>1, <1>2, <1>3, EntryLevels DEF TempInv, ProgramInv
<1>9. level = Top.saved
  BY <1>1, <1>2, <1>3 DEF LevelInv, In, Calling
<1>10. Len(stack) > 1 => level' > stack[Len(stack) - 1].saved
  <2> SUFFICES ASSUME Len(stack) > 1 PROVE level' > stack[Len(stack) - 1].saved
    OBVIOUS
  <2>1. Above(stack[Len(stack) - 1], Top) /\ stack[Len(stack) - 1].saved \in Nat
    BY <1>1, <1>3, BelowTop
  <2> QED
    BY <1>2, <1>3, <1>9, <2>1 DEF Above, Command
<1>11. inter # NoInterrupt => level' > inter.at
  <2>1. inter # NoInterrupt => level > inter.at /\ inter.at \in Nat
    BY <1>1, <1>2, <1>3, InterBelow DEF In
  <2> QED
    BY <1>2, <1>3, <2>1
<1>12. changed' \in BOOLEAN
  BY <1>1, <1>2, FlagTypes, Zenon
<1>13. /\ level' \in Nat /\ errskip' \in Int /\ gosub' \in Seq({"sub", "fun"})
       /\ vars' \subseteq [at : Pages, level : Nat]
       /\ untidy' \subseteq {"strings", "call", "label", "page0"} /\ acts' \in Nat /\ interrupts' \in Nat
  BY <1>1, <1>2, <1>3, Types
<1> QED
  BY <1>2, <1>5, <1>6, <1>7, <1>8, <1>10, <1>11, <1>12, <1>13, DoneStep

LEMMA ReturnInv ==
    ASSUME ProgramInv, cmd_return
    PROVE  ProgramInv'
<1>1. Typed /\ HeapInv /\ StackInv(stack) /\ HoldInv /\ LevelInv /\ InterInv /\ TempInv /\ Depth
  BY DEF ProgramInv
<1>2. /\ In({"cmd"}) /\ stack' = Done /\ gosub # <<>> /\ level > Base /\ Leave(level)
      /\ gosub' = SubSeq(gosub, 1, Len(gosub) - 1)
      /\ UNCHANGED <<strtmp, errskip, mem, memlevel, left, inter, running, owed, acts, interrupts>>
  BY DEF cmd_return, setup, mode, bounds
<1>3. /\ stack \in Seq(FrameType) /\ level \in Nat /\ Len(stack) \in Nat /\ stack # <<>>
      /\ Top.kind = "cmd" /\ gosub \in Seq({"sub", "fun"}) /\ Len(stack) >= 1
  BY <1>1, <1>2, Types DEF In
<1>4. StackHolds(stack)' = StackHolds(stack) /\ Waiting(stack)' = Waiting(stack)
  BY <1>1, <1>2, <1>3, DoneStack
<1>5. inter # NoInterrupt =>
          /\ inter.depth \in Nat /\ inter.at \in Nat /\ inter.depth < Len(stack)
          /\ \A i \in 1 .. Len(stack) : i > inter.depth => stack[i].saved > inter.at
  BY <1>1, <1>2, <1>3, InterBelow DEF In
<1>6. running
  BY <1>1, <1>3 DEF LevelInv
<1>7. /\ level > 0
      /\ Len(stack) > 1 => level - 1 > stack[Len(stack) - 1].saved
      /\ inter # NoInterrupt => level - 1 > inter.at
  <2>1. CASE inter # NoInterrupt /\ inter.depth = Len(stack) - 1
    <3>1. Base = inter.at + 1
      BY <2>1 DEF Base
    <3>2. Len(stack) > 1 => inter.at > stack[Len(stack) - 1].saved /\ stack[Len(stack) - 1].saved \in Nat
      <4> SUFFICES ASSUME Len(stack) > 1
                   PROVE  inter.at > stack[Len(stack) - 1].saved /\ stack[Len(stack) - 1].saved \in Nat
        OBVIOUS
      <4>1. inter.depth > 0
        BY <1>3, <2>1
      <4> QED
        BY <1>1, <1>3, <1>6, <2>1, <4>1, BelowTop DEF InterInv
    <3> QED
      BY <1>2, <1>3, <1>5, <2>1, <3>1, <3>2
  <2>2. CASE ~(inter # NoInterrupt /\ inter.depth = Len(stack) - 1) /\ Len(stack) = 1
    <3>1. Base = 0
      BY <2>2 DEF Base
    <3>2. inter = NoInterrupt
      BY <1>5, <2>2
    <3> QED
      BY <1>2, <1>3, <2>2, <3>1, <3>2
  <2>3. CASE ~(inter # NoInterrupt /\ inter.depth = Len(stack) - 1) /\ Len(stack) >= 2
    <3>1. Base = stack[Len(stack) - 1].saved + 1
      <4>1. Len(stack) # 1
        <5>1. \A k \in Nat : k >= 2 => k # 1
          OBVIOUS
        <5> QED
          BY <1>3, <2>3, <5>1, Zenon
      <4> QED
        BY <2>3, <4>1 DEF Base
    <3>2. Len(stack) - 1 \in 1 .. Len(stack) /\ stack[Len(stack) - 1].saved \in Nat
      BY <1>1, <1>3, <2>3, BelowTop
    <3>3. inter # NoInterrupt => stack[Len(stack) - 1].saved > inter.at
      BY <1>3, <1>5, <2>3, <3>2
    <3> QED
      BY SMTT(30), <1>2, <1>3, <1>5, <3>1, <3>2, <3>3
  <2>4. Len(stack) = 1 \/ Len(stack) >= 2
    <3>1. \A k \in Nat : k >= 1 => k = 1 \/ k >= 2
      OBVIOUS
    <3> QED
      BY <1>3, <3>1, Zenon
  <2> QED
    BY <2>1, <2>2, <2>3, <2>4
<1>8. /\ HeapInv' /\ HoldInv'
      /\ vars' \subseteq [at : Pages, level : Nat]
      /\ untidy' \subseteq {"strings", "call", "label", "page0"}
      /\ untidy \subseteq untidy'
      /\ level' = level - 1 /\ level' \in Nat /\ changed' = TRUE
  BY <1>1, <1>2, <1>4, <1>7, LeaveHolds
<1>9. gosub' \in Seq({"sub", "fun"}) /\ Len(gosub') = Len(gosub) - 1 /\ Len(gosub) \in Nat
  BY <1>2, <1>3, PopGosub
<1>10. Depth'
  <2>1. Cardinality(Waiting(stack')) = Cardinality(Waiting(stack)) /\ Cardinality(Waiting(stack)) \in Nat
    BY <1>3, <1>4, WaitingCount
  <2>3. inter' = inter /\ level' = level - 1 /\ level \in Nat
    BY <1>2, <1>3, <1>8
  <2>2. Balanced => Balanced'
    BY <1>9, <2>1, <2>3, DepthIs, DepthNext
  <2> QED
    BY <1>1, <1>2, <1>8, <2>2 DEF Depth
<1>11. errskip' \in Int /\ acts' \in Nat /\ interrupts' \in Nat
  BY <1>1, <1>2, Types
<1>12. changed' \in BOOLEAN /\ ~(~changed')
  BY <1>8, Zenon
<1> QED
  BY <1>2, <1>7, <1>8, <1>9, <1>10, <1>11, <1>12, DoneStep

LEMMA IreturnInv ==
    ASSUME ProgramInv, cmd_ireturn
    PROVE  ProgramInv'
<1>1. /\ Typed /\ HeapInv /\ StackInv(stack) /\ TableInv(strtmp) /\ HoldInv
      /\ MemIsCurrent /\ LevelInv /\ InterInv /\ TempInv /\ ErrorMode /\ Depth
  BY DEF ProgramInv
<1>2. /\ In({"cmd"}) /\ stack' = Done /\ inter # NoInterrupt /\ level = inter.at + 1
      /\ inter.depth = Len(stack) - 1 /\ Leave(level) /\ errskip' = Restored(inter.saved)
      /\ inter' = NoInterrupt
      /\ UNCHANGED <<strtmp, gosub, mem, memlevel, left, running, owed, acts, interrupts>>
  BY DEF cmd_ireturn, setup, bounds
<1>3. /\ stack \in Seq(FrameType) /\ level \in Nat /\ Len(stack) \in Nat /\ stack # <<>>
      /\ Top.kind = "cmd" /\ gosub \in Seq({"sub", "fun"}) /\ Len(stack) >= 1
      /\ Top = stack[Len(stack)]
  BY <1>1, <1>2, Types DEF In, Top
<1>4. /\ stack' \in Seq(FrameType) /\ Len(stack') = Len(stack) /\ stack' # <<>>
      /\ StackInv(stack)' /\ StackHolds(stack)' = StackHolds(stack)
      /\ Top'.kind = "done" /\ Waiting(stack)' = Waiting(stack)
      /\ \A i \in 1 .. Len(stack) : i < Len(stack) => stack'[i] = stack[i]
      /\ \A i \in 1 .. Len(stack) : /\ stack'[i].saved = stack[i].saved
                                    /\ stack'[i].got = stack[i].got
  BY <1>1, <1>2, <1>3, DoneStack
<1>5. inter.at \in Nat /\ inter.saved \in Nat /\ running
  BY <1>1, <1>2, <1>3 DEF InterInv, InterType, LevelInv
<1>6. /\ HeapInv' /\ HoldInv'
      /\ vars' \subseteq [at : Pages, level : Nat]
      /\ untidy' \subseteq {"strings", "call", "label", "page0"}
      /\ untidy \subseteq untidy'
      /\ level' = level - 1 /\ level' \in Nat /\ changed' = TRUE
  <2>1. level > 0
    BY <1>2, <1>5
  <2> QED
    BY <1>1, <1>2, <1>4, <2>1, LeaveHolds
<1>7. /\ In({"done"})' /\ ~Idle' /\ ~In(Calling)' /\ ~In({"bind", "result"})' /\ ~In(Running)'
      /\ ~In({"args", "bind"})'
  BY <1>4 DEF In, Idle, Calling, Running
<1>8. ~In({"args", "bind"}) /\ ~In({"done"})
  BY <1>3 DEF In
<1>9. MemIsCurrent'
  BY <1>1, <1>2, <1>8 DEF MemIsCurrent
<1>10. LevelInv'
  <2>1. ASSUME Len(stack) > 1
        PROVE  /\ Len(stack) - 1 \in 1 .. Len(stack) /\ Len(stack) - 1 < Len(stack)
               /\ inter.at > stack[Len(stack) - 1].saved
    BY <1>1, <1>2, <1>3, <1>5, <2>1 DEF InterInv
  <2>2. Len(stack') > 1 => level' > stack'[Len(stack') - 1].saved
    <3> SUFFICES ASSUME Len(stack) > 1 PROVE level' > stack'[Len(stack) - 1].saved
      BY <1>4
    <3>1. stack'[Len(stack) - 1].saved = stack[Len(stack) - 1].saved
      BY <1>4, <2>1
    <3>2. level' = inter.at
      BY <1>2, <1>5, <1>6
    <3> QED
      BY <2>1, <3>1, <3>2
  <2>3. ASSUME NEW i \in 1 .. Len(stack'), stack'[i].kind = "end"
        PROVE  level' = stack'[i].saved + 1 /\ i = Len(stack') - 1
    <3>1. i \in 1 .. Len(stack) /\ i < Len(stack)
      BY <1>3, <1>4, <2>3 DEF Top
    <3>2. stack[i].kind = "end"
      BY <1>4, <2>3, <3>1
    <3>3. inter.depth = i /\ inter.at = stack[i].saved + 1
      BY <1>1, <1>8, <3>1, <3>2 DEF LevelInv
    <3> QED
      BY <1>2, <1>4, <1>5, <1>6, <3>1, <3>3
  <2> QED
    BY <1>2, <1>5, <1>7, <2>2, <2>3 DEF LevelInv
<1>11. InterInv'
  BY <1>2 DEF InterInv, InterType, NoInterrupt
<1>12. TempInv'
  <2>1. Entries(strtmp)' = Entries(strtmp)
    BY <1>2
  <2>2. \A i \in 1 .. Len(stack') : \A a \in stack'[i].got :
           \E e \in Entries(strtmp)' : e.at = a /\ e.level <= stack'[i].saved
    BY <1>1, <1>4, <2>1 DEF TempInv
  <2> QED
    BY <1>6, <1>7, <2>2 DEF TempInv
<1>13. ErrorMode'
  <2>1. inter.saved = IF owed > 0 THEN owed ELSE 0
    BY <1>1, <1>2 DEF ErrorMode
  <2>2. owed > 0 => errskip' = owed + 1
    BY <1>2, <1>5, <2>1 DEF Restored
  <2> QED
    BY <1>2, <1>7, <2>2 DEF ErrorMode
<1>14. Depth'
  <2>1. Cardinality(Waiting(stack')) = Cardinality(Waiting(stack)) /\ Cardinality(Waiting(stack)) \in Nat
    BY <1>3, <1>4, WaitingCount
  <2>2. Len(gosub) \in Nat
    BY <1>3
  <2>3. Balanced => Balanced'
    BY SMTT(30), <1>2, <1>3, <1>6, <2>1, <2>2, DepthIs, DepthNext
  <2> QED
    BY <1>1, <1>2, <1>6, <2>3 DEF Depth
<1>15. TableInv(strtmp)'
  BY <1>1, <1>2
<1>16. Typed'
  <2>1. changed' \in BOOLEAN /\ running' \in BOOLEAN
    BY <1>1, <1>2, <1>6, FlagTypes, Zenon
  <2>2. errskip' \in Int
    BY <1>2, <1>5 DEF Restored
  <2> QED
    BY <1>1, <1>2, <1>4, <1>6, <1>15, <2>1, <2>2, Types, TypesAre
<1> QED
  BY <1>4, <1>6, <1>9, <1>10, <1>11, <1>12, <1>13, <1>14, <1>15, <1>16 DEF ProgramInv

-----------------------------------------------------------------------------
(* Commands and calls begin.                                               *)

LEMMA Pushed ==
    ASSUME stack \in Seq(FrameType), NEW f, Puts(Len(stack), f)
    PROVE  /\ stack' \in Seq(FrameType) /\ stack' # <<>> /\ f \in FrameType
           /\ Len(stack) \in Nat /\ Len(stack') = Len(stack) + 1
           /\ Top' = f /\ stack'[Len(stack) + 1] = f
           /\ \A i \in 1 .. Len(stack) : stack'[i] = stack[i]
           /\ \A i \in 1 .. Len(stack') : i = Len(stack) + 1 \/ i \in 1 .. Len(stack)
           /\ f.kind # "args" => Waiting(stack') = Waiting(stack)
           /\ f.kind = "args" =>
                  Cardinality(Waiting(stack')) = Cardinality(Waiting(stack)) + 1
<1> DEFINE n == Len(stack)
<1>1. /\ stack' \in Seq(FrameType) /\ n \in Nat /\ Len(stack') = n + 1 /\ f \in FrameType
      /\ stack'[n + 1] = f
      /\ \A i \in 1 .. n : stack'[i] = stack[i]
  BY DEF Puts
<1>2. stack' # <<>> /\ Top' = f
  BY <1>1 DEF Top
<1>3. \A i \in 1 .. n + 1 : i = n + 1 \/ i \in 1 .. n
  BY <1>1
<1>4. DOMAIN stack' = 1 .. n + 1 /\ DOMAIN stack = 1 .. n /\ 1 .. n \subseteq 1 .. n + 1
      /\ n + 1 \in 1 .. n + 1 /\ n + 1 \notin 1 .. n
  BY <1>1
<1>5. f.kind # "args" => Waiting(stack') = Waiting(stack)
  BY <1>1, <1>3, <1>4 DEF Waiting
<1>6. ASSUME f.kind = "args"
      PROVE  Cardinality(Waiting(stack')) = Cardinality(Waiting(stack)) + 1
  <2>1. Waiting(stack') = Waiting(stack) \cup {n + 1} /\ n + 1 \notin Waiting(stack)
    BY <1>1, <1>3, <1>4, <1>6 DEF Waiting
  <2>2. IsFiniteSet(Waiting(stack))
    BY WaitingCount
  <2> QED
    BY <2>1, <2>2, FS_AddElement
<1> QED
  BY <1>1, <1>2, <1>3, <1>5, <1>6

\* A frame on top of the others leaves the interrupt where it is.
LEMMA PushInter ==
    ASSUME Typed, InterInv, running, NEW f, Puts(Len(stack), f), f.saved = level,
           UNCHANGED <<level, inter, running>>
    PROVE  InterInv'
<1> DEFINE n == Len(stack)
<1>1. stack \in Seq(FrameType)
  BY Types
<1>2. /\ n \in Nat /\ Len(stack') = n + 1 /\ stack'[n + 1] = f
      /\ \A i \in 1 .. n : stack'[i] = stack[i]
      /\ \A i \in 1 .. Len(stack') : i = n + 1 \/ i \in 1 .. n
  BY <1>1, Pushed
<1>3. ASSUME inter # NoInterrupt
      PROVE  /\ inter.depth \in Nat /\ inter.depth <= n /\ level > inter.at /\ inter.at \in Nat
             /\ inter.depth > 0 => inter.depth \in 1 .. n
  BY <1>2, <1>3 DEF InterInv, InterType
<1>4. inter # NoInterrupt => inter.depth <= Len(stack')
  BY <1>2, <1>3
<1>5. inter # NoInterrupt /\ inter.depth > 0 =>
          stack'[inter.depth].kind \in Running /\ inter.at > stack'[inter.depth].saved
  BY <1>2, <1>3 DEF InterInv
<1>6. ASSUME inter # NoInterrupt, NEW i \in 1 .. Len(stack'), i > inter.depth
      PROVE  stack'[i].saved > inter.at
  BY <1>2, <1>3, <1>6 DEF InterInv
<1> QED
  BY <1>3, <1>4, <1>5, <1>6 DEF InterInv

\* ... and the temporaries, which are not younger than the frame.
LEMMA PushTemps ==
    ASSUME Typed, TableInv(strtmp), TempInv, ~In({"done"}), NEW f, Puts(Len(stack), f),
           f.kind \in Calling, f.got = {}, UNCHANGED <<strtmp, level, changed>>
    PROVE  TempInv'
<1> DEFINE n == Len(stack)
<1>1. stack \in Seq(FrameType)
  BY Types
<1>2. /\ n \in Nat /\ stack' # <<>> /\ Top' = f /\ stack'[n + 1] = f
      /\ \A i \in 1 .. n : stack'[i] = stack[i]
      /\ \A i \in 1 .. Len(stack') : i = n + 1 \/ i \in 1 .. n
  BY <1>1, Pushed
<1>3. ~In({"bind", "result"})' /\ ~In({"done"})' /\ ~Idle'
  BY <1>2 DEF In, Calling, Idle
<1>4. Entries(strtmp)' = Entries(strtmp)
  OBVIOUS
<1>5. ASSUME NEW i \in 1 .. Len(stack'), NEW a \in stack'[i].got
      PROVE  \E e \in Entries(strtmp) : e.at = a /\ e.level <= stack'[i].saved
  <2>1. i \in 1 .. n /\ stack'[i] = stack[i]
    BY <1>2, <1>5
  <2> QED
    BY <1>5, <2>1 DEF TempInv
<1> QED
  BY <1>3, <1>4, <1>5 DEF TempInv

LEMMA BeginCommandInv ==
    ASSUME ProgramInv, BeginCommand
    PROVE  ProgramInv'
<1>1. /\ Typed /\ HeapInv /\ StackInv(stack) /\ TableInv(strtmp) /\ HoldInv
      /\ MemIsCurrent /\ LevelInv /\ InterInv /\ TempInv /\ ErrorMode /\ Depth
  BY DEF ProgramInv
<1>2. /\ Idle /\ running /\ (In({"end"}) => inter.depth = Len(stack))
      /\ acts' = acts + 1 /\ stack' = Append(stack, Frame("cmd", FALSE, NoAddr)) /\ owed' = Since
      /\ UNCHANGED <<bits, live, vars, strtmp, changed, level, gosub, mem, memlevel, left, errskip,
                     inter, running, untidy, interrupts>>
  BY DEF BeginCommand, heapVars, temps, depth, setup, Act
<1>3. stack \in Seq(FrameType) /\ level \in Nat
  BY <1>1, Types
<1> DEFINE f == Frame("cmd", FALSE, NoAddr)
           n == Len(stack)
<1>4. /\ f \in FrameType /\ f.kind = "cmd" /\ f.saved = level /\ f.args = {} /\ f.got = {}
  BY <1>3 DEF Frame, FrameType, NoAddr
<1>5. stack' = Append(stack, f)
  BY <1>2
<1> HIDE DEF f
<1>6. Puts(n, f)
  BY <1>3, <1>4, <1>5, PushPuts
<1>7. /\ stack' \in Seq(FrameType) /\ stack' # <<>> /\ n \in Nat /\ Len(stack') = n + 1
      /\ Top' = f /\ stack'[n + 1] = f
      /\ \A i \in 1 .. n : stack'[i] = stack[i]
      /\ \A i \in 1 .. Len(stack') : i = n + 1 \/ i \in 1 .. n
      /\ Waiting(stack') = Waiting(stack)
  BY <1>3, <1>4, <1>6, Pushed
<1>8. FrameOk(f) /\ Own(f) = {}
  BY <1>4 DEF FrameOk, Own, Buffer
<1>9. ASSUME n > 0 PROVE In(Running) /\ Top = stack[n] /\ Top.kind \in Running /\ level > Top.saved
  <2>1. stack # <<>>
    BY <1>3, <1>9
  <2> QED
    BY <1>1, <1>2, <2>1 DEF In, Idle, Running, LevelInv, Top
<1>10. n > 0 => Above(stack[n], f)
  <2> SUFFICES ASSUME n > 0 PROVE Above(stack[n], f)
    OBVIOUS
  <2>1. stack[n].saved \in Nat
    BY <1>3, <1>7, FrameAt
  <2> QED
    BY <1>3, <1>4, <1>9, <2>1 DEF Above, Command
<1>11. StackInv(stack)'
  BY <1>1, <1>3, <1>4, <1>6, <1>8, <1>10, StackPuts DEF Command
<1>12. StackHolds(stack)' = StackHolds(stack)
  BY <1>3, <1>6, <1>8, PushHolds
<1>13. HeapInv'
  BY <1>1, <1>2 DEF HeapInv, HeapType, Whole, Apart, NoPageLost, Block
<1>14. HoldInv'
  <2>1. Addrs(Entries(strtmp))' = Addrs(Entries(strtmp)) /\ Addrs(vars)' = Addrs(vars)
    BY <1>2
  <2> QED
    BY <1>1, <1>2, <1>12, <2>1 DEF HoldInv
<1>15. /\ In(Calling)' /\ ~In({"args", "bind"})' /\ ~In({"bind", "result"})' /\ ~In(Running)'
       /\ ~In({"done"})' /\ ~Idle'
  BY <1>4, <1>7 DEF In, Calling, Running, Idle
<1>16. ~In({"args", "bind"}) /\ ~In({"done"})
  BY <1>2 DEF In, Idle
<1>17. MemIsCurrent'
  BY <1>1, <1>2, <1>16 DEF MemIsCurrent
<1>18. LevelInv'
  <2>1. ASSUME NEW i \in 1 .. Len(stack'), stack'[i].kind = "end"
        PROVE  inter # NoInterrupt /\ inter.depth = i /\ inter.at = stack'[i].saved + 1
    <3>1. i \in 1 .. n /\ stack'[i] = stack[i]
      BY <1>4, <1>7, <2>1
    <3>2. CASE inter # NoInterrupt /\ inter.depth = i
      BY <1>1, <2>1, <3>1, <3>2 DEF LevelInv
    <3>3. CASE ~(inter # NoInterrupt /\ inter.depth = i)
      <4>1. i = n
        BY <1>1, <1>16, <2>1, <3>1, <3>3 DEF LevelInv
      <4>2. In({"end"})
        BY <1>3, <1>7, <2>1, <3>1, <4>1 DEF In, Top
      <4>3. inter.depth = i /\ i > 0
        BY <1>2, <1>7, <3>1, <4>1, <4>2
      <4>4. inter # NoInterrupt
        BY <4>3 DEF NoInterrupt
      <4> QED
        BY <3>3, <4>3, <4>4
    <3> QED
      BY <3>2, <3>3
  <2> QED
    BY <1>2, <1>4, <1>7, <1>15, <2>1 DEF LevelInv
<1>19. InterInv'
  BY <1>1, <1>2, <1>4, <1>6, PushInter
<1>20. TempInv'
  BY <1>1, <1>2, <1>4, <1>6, <1>16, PushTemps DEF Calling
<1>21. ErrorMode'
  <2>1. inter' = inter /\ owed' = (IF inter = NoInterrupt THEN 0 ELSE owed)
    BY <1>2 DEF Since
  <2> QED
    BY <1>1, <2>1 DEF ErrorMode
<1>22. Depth'
  <2>1. inter' = inter /\ level' = level /\ gosub' = gosub /\ running' = running /\ untidy' = untidy
    BY <1>2
  <2>2. Balanced => Balanced'
    BY <1>7, <2>1, DepthIs, DepthNext
  <2> QED
    BY <1>1, <2>1, <2>2 DEF Depth
<1>23. TableInv(strtmp)'
  BY <1>1, <1>2
<1>24. Typed'
  <2>1. changed' \in BOOLEAN /\ running' \in BOOLEAN
    BY <1>1, <1>2, FlagTypes, Zenon
  <2>2. owed' \in Int
    BY <1>1, <1>2, Types DEF Since
  <2>3. /\ vars' \subseteq [at : Pages, level : Nat] /\ level' \in Nat /\ memlevel' \in Nat
        /\ gosub' \in Seq({"sub", "fun"}) /\ mem' \in Pages \cup {NoAddr} /\ errskip' \in Int
        /\ untidy' \subseteq {"strings", "call", "label", "page0"} /\ acts' \in Nat /\ interrupts' \in Nat
    BY <1>1, <1>2, Types
  <2> QED
    BY <1>7, <1>13, <1>23, <2>1, <2>2, <2>3, TypesAre
<1> QED
  BY <1>11, <1>13, <1>14, <1>17, <1>18, <1>19, <1>20, <1>21, <1>22, <1>23, <1>24 DEF ProgramInv

LEMMA StartCallInv ==
    ASSUME ProgramInv, NEW fun \in BOOLEAN, NEW s \in Pages, StartCall(fun, s)
    PROVE  ProgramInv'
<1>1. /\ Typed /\ HeapInv /\ StackInv(stack) /\ TableInv(strtmp) /\ HoldInv
      /\ MemIsCurrent /\ LevelInv /\ InterInv /\ TempInv /\ ErrorMode /\ Depth
  BY DEF ProgramInv
<1>2. /\ In({"cmd"}) \/ (In({"args"}) /\ fun)
      /\ memlevel' = level /\ gosub' = Append(gosub, IF fun THEN "fun" ELSE "sub")
      /\ mem' = s /\ left' = FALSE /\ stack' = Append(stack, Frame("args", fun, s))
      /\ UNCHANGED <<vars, strtmp, changed, level, errskip, inter, running, owed, untidy,
                     acts, interrupts>>
  BY DEF StartCall, temps, mode, bounds
<1>3. stack \in Seq(FrameType) /\ level \in Nat /\ gosub \in Seq({"sub", "fun"})
  BY <1>1, Types
<1>4. stack # <<>> /\ Top.kind \in Calling /\ (fun \/ Top.kind = "cmd") /\ In(Calling)
  BY <1>2 DEF In, Calling
<1>5. running /\ level = Top.saved
  BY <1>1, <1>4 DEF LevelInv
<1> DEFINE f == Frame("args", fun, s)
           n == Len(stack)
<1>6. /\ f \in FrameType /\ f.kind = "args" /\ f.saved = level /\ f.args = {} /\ f.got = {}
      /\ f.argval = s /\ f.fun = fun
  BY <1>3 DEF Frame, FrameType
<1>7. stack' = Append(stack, f)
  BY <1>2
<1> HIDE DEF f
<1>8. Puts(n, f)
  BY <1>3, <1>6, <1>7, PushPuts
<1>9. /\ stack' \in Seq(FrameType) /\ stack' # <<>> /\ n \in Nat /\ Len(stack') = n + 1
      /\ Top' = f /\ stack'[n + 1] = f
      /\ \A i \in 1 .. n : stack'[i] = stack[i]
      /\ \A i \in 1 .. Len(stack') : i = n + 1 \/ i \in 1 .. n
      /\ Cardinality(Waiting(stack')) = Cardinality(Waiting(stack)) + 1
  BY <1>3, <1>6, <1>8, Pushed
<1>10. HeapInv' /\ s \notin live /\ live' = live \cup {s}
  <2>1. GetSystemMemory(s, ArgPages) /\ ArgPages \in Nat
    BY CallsAssumption DEF StartCall
  <2> QED
    BY <1>1, <2>1, Allocates
<1>11. FrameOk(f) /\ Own(f) = {s}
  BY <1>6 DEF FrameOk, Own, Buffer
<1>12. n > 0 /\ Above(stack[n], f)
  <2>1. n >= 1 /\ Top = stack[n]
    BY <1>3, <1>4, TopIs
  <2> QED
    BY <1>4, <1>5, <1>6, <1>9, <2>1 DEF Above, Command
<1>13. s \notin StackHolds(stack)
  BY <1>1, <1>10 DEF HoldInv
<1>14. StackInv(stack)'
  <2>1. \A i \in 1 .. n : Own(stack[i]) \cap Own(f) = {} /\ stack[i].got \cap f.got = {}
    BY <1>3, <1>6, <1>11, <1>13, StackHolder
  <2>2. n # 0
    BY <1>9, <1>12
  <2> QED
    BY <1>1, <1>3, <1>8, <1>11, <1>12, <2>1, <2>2, StackPuts
<1>15. StackHolds(stack)' = StackHolds(stack) \cup {s}
  BY <1>3, <1>8, <1>11, PushHolds
<1>16. HoldInv'
  <2>1. Addrs(Entries(strtmp))' = Addrs(Entries(strtmp)) /\ Addrs(vars)' = Addrs(vars)
    BY <1>2
  <2> QED
    BY <1>1, <1>2, <1>10, <1>15, <2>1 DEF HoldInv
<1>17. /\ In(Calling)' /\ In({"args", "bind"})' /\ ~In({"bind", "result"})' /\ ~In(Running)'
       /\ ~In({"done"})' /\ ~Idle'
  BY <1>6, <1>9 DEF In, Calling, Running, Idle
<1>18. ~In({"done"}) /\ In({"cmd", "args", "bind", "result"})
  BY <1>4 DEF In, Calling
<1>19. MemIsCurrent'
  BY <1>2, <1>6, <1>9, <1>17 DEF MemIsCurrent
<1>20. LevelInv'
  <2>1. ASSUME NEW i \in 1 .. Len(stack'), stack'[i].kind = "end"
        PROVE  inter # NoInterrupt /\ inter.depth = i /\ inter.at = stack'[i].saved + 1
    <3>1. i \in 1 .. n /\ stack'[i] = stack[i]
      BY <1>6, <1>9, <2>1
    <3>2. i # n
      BY <1>4, <2>1, <3>1 DEF Top, Calling
    <3> QED
      BY <1>1, <1>18, <2>1, <3>1, <3>2 DEF LevelInv
  <2> QED
    BY <1>2, <1>5, <1>6, <1>9, <1>17, <2>1 DEF LevelInv
<1>21. InterInv'
  BY <1>1, <1>2, <1>5, <1>6, <1>8, PushInter
<1>22. TempInv'
  BY <1>1, <1>2, <1>6, <1>8, <1>18, PushTemps DEF Calling
<1>23. ErrorMode'
  <2>1. inter # NoInterrupt \/ ~(owed > 0)
    BY <1>1, <1>18, ModeSettled
  <2> QED
    BY <1>1, <1>2, <2>1 DEF ErrorMode
<1>24. gosub' \in Seq({"sub", "fun"}) /\ Len(gosub') = Len(gosub) + 1 /\ Len(gosub) \in Nat
  BY <1>2, <1>3
<1>25. Depth'
  <2>1. inter' = inter /\ level' = level /\ running' = running /\ untidy' = untidy
    BY <1>2
  <2>2. Cardinality(Waiting(stack)) \in Nat
    BY <1>3, WaitingCount
  <2>4. Cardinality(Waiting(stack')) = Cardinality(Waiting(stack)) + 1 /\ level \in Nat
    BY <1>3, <1>9
  <2>5. Len(gosub') = Len(gosub) + 1 /\ Len(gosub) \in Nat
    BY <1>24
  <2>3. Balanced => Balanced'
    BY <2>1, <2>2, <2>4, <2>5, DepthIs, DepthNext
  <2> QED
    BY <1>1, <2>1, <2>3 DEF Depth
<1>26. TableInv(strtmp)'
  BY <1>1, <1>2
<1>27. Typed'
  <2>1. changed' \in BOOLEAN /\ running' \in BOOLEAN
    BY <1>1, <1>2, FlagTypes, Zenon
  <2>3. /\ vars' \subseteq [at : Pages, level : Nat] /\ level' \in Nat /\ memlevel' \in Nat
        /\ mem' \in Pages \cup {NoAddr} /\ errskip' \in Int /\ owed' \in Int
        /\ untidy' \subseteq {"strings", "call", "label", "page0"} /\ acts' \in Nat /\ interrupts' \in Nat
    BY <1>1, <1>2, Types
  <2> QED
    BY <1>9, <1>10, <1>24, <1>26, <2>1, <2>3, TypesAre
<1> QED
  BY <1>10, <1>14, <1>16, <1>19, <1>20, <1>21, <1>22, <1>23, <1>25, <1>26, <1>27 DEF ProgramInv

-----------------------------------------------------------------------------
(* A call goes on, from its arguments to its body.                         *)

LEMMA CallGoesOn ==
    ASSUME stack \in Seq(FrameType), StackInv(stack), stack # <<>>, Top.kind \notin Command,
           NEW f \in FrameType, stack' = WithTop(f), f.kind \notin Command,
           f.fun = Top.fun, f.saved = Top.saved, FrameOk(f), Own(f) \subseteq Own(Top),
           \A a \in f.got : a \in Top.got \/ \A i \in 1 .. Len(stack) : a \notin stack[i].got
    PROVE  /\ stack' \in Seq(FrameType) /\ Len(stack') = Len(stack) /\ stack' # <<>>
           /\ StackInv(stack)' /\ Top' = f /\ stack'[Len(stack)] = f
           /\ \A i \in 1 .. Len(stack) : i < Len(stack) => stack'[i] = stack[i]
           /\ StackHolds(stack)' = (StackHolds(stack) \ Own(Top)) \cup Own(f)
           /\ (Top.kind = "args" <=> f.kind = "args") => Waiting(stack') = Waiting(stack)
           /\ Top.kind = "args" /\ f.kind # "args" =>
                  Cardinality(Waiting(stack')) = Cardinality(Waiting(stack)) - 1
<1> DEFINE n == Len(stack)
<1>1. n \in Nat /\ n >= 1 /\ n \in 1 .. n /\ Top = stack[n] /\ Top \in FrameType
  BY TopIs
<1>2. Puts(n - 1, f)
  BY TopPuts
<1>3. /\ stack' \in Seq(FrameType) /\ Len(stack') = (n - 1) + 1 /\ stack'[(n - 1) + 1] = f
      /\ \A i \in 1 .. n - 1 : stack'[i] = stack[i]
  BY <1>2 DEF Puts
<1>4. (n - 1) + 1 = n /\ (\A i \in 1 .. n : i < n => i \in 1 .. n - 1) /\ stack' # <<>>
  BY <1>1, <1>3
<1>5. n - 1 = 0 => f.kind \in Command
  <2>1. stack[1].kind \in Command
    BY DEF StackInv
  <2> HIDE DEF n
  <2> QED
    BY <1>1, <2>1
<1>6. n - 1 > 0 => Above(stack[n - 1], f)
  <2> SUFFICES ASSUME n - 1 > 0 PROVE Above(stack[n - 1], f)
    OBVIOUS
  <2>1. Above(stack[n - 1], Top)
    BY <1>1, BelowTop
  <2> QED
    BY <2>1 DEF Above
<1>7. ASSUME NEW i \in 1 .. n - 1
      PROVE  Own(stack[i]) \cap Own(f) = {} /\ stack[i].got \cap f.got = {}
  <2>1. i \in 1 .. n /\ i < n
    BY <1>1
  <2>2. Own(stack[i]) \cap Own(Top) = {} /\ stack[i].got \cap Top.got = {}
    BY <2>1, TopApart
  <2> QED
    BY <2>1, <2>2
<1>8. StackInv(stack)'
  BY <1>1, <1>2, <1>5, <1>6, <1>7, StackPuts
<1>9. StackHolds(stack)' = (StackHolds(stack) \ Own(Top)) \cup Own(f)
  BY <1>2, TopHolds
<1>10. Top' = f
  BY <1>3, <1>4 DEF Top
<1>11. \A i \in 1 .. n : i < n => stack'[i] = stack[i]
  BY <1>3, <1>4
<1>12. DOMAIN stack' = 1 .. n /\ DOMAIN stack = 1 .. n /\ \A i \in 1 .. n : i = n \/ i < n
  BY <1>1, <1>3, <1>4
<1>13. (Top.kind = "args" <=> f.kind = "args") => Waiting(stack') = Waiting(stack)
  BY <1>1, <1>3, <1>4, <1>11, <1>12 DEF Waiting
<1>14. ASSUME Top.kind = "args", f.kind # "args"
       PROVE  Cardinality(Waiting(stack')) = Cardinality(Waiting(stack)) - 1
  <2>3. stack'[n].kind # "args" /\ stack[n].kind = "args" /\ n \in 1 .. n
    BY <1>1, <1>3, <1>4, <1>14
  <2>4. \A i : i \in Waiting(stack') <=> i \in 1 .. n /\ stack'[i].kind = "args"
    BY <1>12 DEF Waiting
  <2>5. \A i : i \in Waiting(stack) <=> i \in 1 .. n /\ stack[i].kind = "args"
    BY <1>12 DEF Waiting
  <2>6. \A i \in 1 .. n : i # n => stack'[i] = stack[i]
    BY <1>11, <1>12
  <2>1. Waiting(stack') = Waiting(stack) \ {n} /\ n \in Waiting(stack)
    <3> HIDE DEF n
    <3> QED
      BY <2>3, <2>4, <2>5, <2>6
  <2>2. IsFiniteSet(Waiting(stack))
    BY WaitingCount
  <2> QED
    BY <2>1, <2>2, FS_RemoveElement
<1> QED
  BY <1>3, <1>4, <1>8, <1>9, <1>10, <1>11, <1>13, <1>14

LEMMA CallStep ==
    ASSUME ProgramInv, In({"args", "bind", "result"}),
           NEW f \in FrameType, stack' = WithTop(f), f.kind \in {"bind", "result", "body"},
           f.kind = "body" => Top.kind = "result",
           f.fun = Top.fun, f.saved = Top.saved, FrameOk(f), Own(f) \subseteq Own(Top),
           \A a \in f.got : \/ a \in Top.got
                            \/ /\ \A i \in 1 .. Len(stack) : a \notin stack[i].got
                               /\ \E e \in Entries(strtmp') : e.at = a /\ e.level <= f.saved,
           UNCHANGED <<gosub, memlevel, left, errskip, inter, running, owed, untidy, acts, interrupts>>,
           level' = Top.saved + 1, changed' \in BOOLEAN,
           vars' \subseteq [at : Pages, level : Nat], mem' \in Pages \cup {NoAddr},
           mem' # NoAddr /\ ~left => f.kind = "bind" /\ f.argval = mem',
           HeapInv', TableInv(strtmp)', HoldInv',
           Entries(strtmp) \subseteq Entries(strtmp'),
           \A e \in Entries(strtmp') : e.level <= Top.saved
    PROVE  ProgramInv'
<1>1. /\ Typed /\ HeapInv /\ StackInv(stack) /\ TableInv(strtmp) /\ HoldInv
      /\ MemIsCurrent /\ LevelInv /\ InterInv /\ TempInv /\ ErrorMode /\ Depth
  BY DEF ProgramInv
<1>2. /\ stack \in Seq(FrameType) /\ stack # <<>> /\ Top.kind \in {"args", "bind", "result"}
      /\ Top.kind \notin Command /\ f.kind \notin Command /\ level \in Nat
      /\ gosub \in Seq({"sub", "fun"})
  BY <1>1, Types DEF In, Command
<1>3. /\ stack' \in Seq(FrameType) /\ Len(stack') = Len(stack) /\ stack' # <<>>
      /\ StackInv(stack)' /\ Top' = f /\ stack'[Len(stack)] = f
      /\ \A i \in 1 .. Len(stack) : i < Len(stack) => stack'[i] = stack[i]
      /\ (Top.kind = "args" <=> f.kind = "args") => Waiting(stack') = Waiting(stack)
      /\ Top.kind = "args" /\ f.kind # "args" =>
             Cardinality(Waiting(stack')) = Cardinality(Waiting(stack)) - 1
  BY <1>1, <1>2, CallGoesOn
<1>4. /\ Len(stack) \in Nat /\ Len(stack) >= 1 /\ Top = stack[Len(stack)]
      /\ \A i \in 1 .. Len(stack) : i = Len(stack) \/ i < Len(stack)
      /\ Top.saved \in Nat
  BY <1>2, TopIs DEF FrameType
<1>5. running
  BY <1>1, <1>2 DEF LevelInv
<1>6. /\ ~In(Calling)' /\ ~In({"done"})' /\ (In({"bind", "result"})' <=> f.kind # "body")
      /\ (Idle' <=> f.kind = "body") /\ (In(Running)' <=> f.kind = "body")
      /\ (In({"args", "bind"})' <=> f.kind = "bind")
  BY <1>3 DEF In, Calling, Running, Idle
<1>7. ~In({"done"}) /\ In({"cmd", "args", "bind", "result"})
  BY <1>2 DEF In
<1>8. MemIsCurrent'
  BY <1>3, <1>6 DEF MemIsCurrent
<1>9. LevelInv'
  <2>1. ASSUME NEW i \in 1 .. Len(stack'), stack'[i].kind = "end"
        PROVE  inter # NoInterrupt /\ inter.depth = i /\ inter.at = stack'[i].saved + 1
    <3>1. i \in 1 .. Len(stack) /\ i # Len(stack) /\ stack'[i] = stack[i]
      BY <1>3, <1>4, <2>1
    <3> QED
      BY <1>1, <1>7, <2>1, <3>1 DEF LevelInv
  <2>2. level' > Top'.saved
    BY <1>3, <1>4
  <2> QED
    BY <1>3, <1>5, <1>6, <2>1, <2>2 DEF LevelInv
<1>10. /\ Top.kind = "args" => level = Top.saved
       /\ Top.kind # "args" => level = Top.saved + 1
  BY <1>1, <1>2 DEF LevelInv, In, Calling
<1>11. InterInv'
  <2>1. ASSUME inter # NoInterrupt
        PROVE  /\ inter.depth \in Nat /\ inter.at \in Nat /\ inter.depth < Len(stack)
               /\ level > inter.at
               /\ \A i \in 1 .. Len(stack) : i > inter.depth => stack[i].saved > inter.at
    BY <1>1, <1>2, <2>1, InterBelow DEF In
  <2>2. ASSUME inter # NoInterrupt, inter.depth > 0
        PROVE  stack'[inter.depth].kind \in Running /\ inter.at > stack'[inter.depth].saved
    <3>1. inter.depth \in 1 .. Len(stack) /\ inter.depth < Len(stack)
      BY <1>4, <2>1, <2>2
    <3> QED
      BY <1>1, <1>3, <1>5, <2>2, <3>1 DEF InterInv
  <2>3. inter # NoInterrupt => level' > inter.at
    BY <1>2, <1>4, <1>10, <2>1
  <2>4. \A i \in 1 .. Len(stack) : stack'[i].saved = stack[i].saved
    BY <1>3, <1>4
  <2> QED
    BY <1>1, <1>3, <2>1, <2>2, <2>3, <2>4 DEF InterInv
<1>12. TempInv'
  <2>1. \A e \in Entries(strtmp') : e.level \in Nat
    <3>1. strtmp' \in Seq(TempType)
      BY DEF TableInv
    <3> QED
      BY <3>1, EntryAt, EntryTyped
  <2>2. \A e \in Entries(strtmp') : e.level < level'
    BY <1>4, <2>1
  <2>3. \A e \in Entries(strtmp') : e.level <= level'
    BY <1>4, <2>1
  <2>4. ASSUME NEW i \in 1 .. Len(stack'), NEW a \in stack'[i].got
        PROVE  \E e \in Entries(strtmp') : e.at = a /\ e.level <= stack'[i].saved
    <3>1. i \in 1 .. Len(stack) /\ stack'[i].saved = stack[i].saved
      BY <1>3, <1>4
    <3>2. CASE a \in stack[i].got
      BY <1>1, <3>1, <3>2 DEF TempInv
    <3>3. CASE a \notin stack[i].got
      <4>1. i = Len(stack) /\ a \in f.got /\ a \notin Top.got
        BY <1>3, <1>4, <2>4, <3>1, <3>3
      <4> QED
        BY <1>3, <4>1
    <3> QED
      BY <3>2, <3>3
  <2> QED
    BY <2>2, <2>3, <2>4 DEF TempInv
<1>13. ErrorMode'
  <2>1. inter # NoInterrupt \/ ~(owed > 0)
    BY <1>1, <1>7, ModeSettled
  <2> QED
    BY <1>1, <2>1 DEF ErrorMode
<1>14. Depth'
  <2>1. Cardinality(Waiting(stack)) \in Nat /\ Len(gosub) \in Nat
    BY <1>2, WaitingCount
  <2>2. level' + Cardinality(Waiting(stack')) = level + Cardinality(Waiting(stack))
    BY SMTT(30), <1>3, <1>4, <1>10, <2>1
  <2>3. gosub' = gosub /\ inter' = inter /\ running' = running /\ untidy' = untidy
    OBVIOUS
  <2>4. Balanced => Balanced'
    BY <2>2, <2>3, DepthIs, DepthNext
  <2> QED
    BY <1>1, <2>3, <2>4 DEF Depth
<1>15. Typed'
  <2>1. running' \in BOOLEAN
    BY <1>1, FlagTypes, Zenon
  <2>2. level' \in Nat
    BY <1>4
  <2>3. /\ memlevel' \in Nat /\ gosub' \in Seq({"sub", "fun"}) /\ errskip' \in Int /\ owed' \in Int
        /\ untidy' \subseteq {"strings", "call", "label", "page0"} /\ acts' \in Nat /\ interrupts' \in Nat
    BY <1>1, Types
  <2> QED
    BY <1>3, <2>1, <2>2, <2>3, TypesAre
<1> QED
  BY <1>3, <1>8, <1>9, <1>11, <1>12, <1>13, <1>14, <1>15 DEF ProgramInv

\* What a call knows while it is on top.
LEMMA CallOnTop ==
    ASSUME ProgramInv, In({"args", "bind", "result"})
    PROVE  /\ stack \in Seq(FrameType) /\ stack # <<>> /\ Top \in FrameType /\ FrameOk(Top)
           /\ Top.kind \in {"args", "bind", "result"} /\ Top.kind \notin Command
           /\ Top.saved \in Nat /\ level \in Nat
           /\ level = IF Top.kind = "args" THEN Top.saved ELSE Top.saved + 1
           /\ \A e \in Entries(strtmp) : e.level \in Nat /\ e.level <= Top.saved
           /\ \A a \in Own(Top) : a \in StackHolds(stack)
           /\ mem # NoAddr /\ ~left => Top.kind \in {"args", "bind"} /\ Top.argval = mem
<1>1. /\ Typed /\ StackInv(stack) /\ TableInv(strtmp) /\ MemIsCurrent /\ LevelInv /\ TempInv
  BY DEF ProgramInv
<1>2. /\ stack \in Seq(FrameType) /\ stack # <<>> /\ level \in Nat
      /\ Top.kind \in {"args", "bind", "result"} /\ Top.kind \notin Command
  BY <1>1, Types DEF In, Command
<1>3. Top \in FrameType /\ Len(stack) \in 1 .. Len(stack) /\ Top = stack[Len(stack)]
  BY <1>2, TopIs
<1>4. FrameOk(Top) /\ Top.saved \in Nat
  BY <1>1, <1>3 DEF StackInv, FrameType
<1>5. level = IF Top.kind = "args" THEN Top.saved ELSE Top.saved + 1
  BY <1>1, <1>2 DEF LevelInv, In, Calling
<1>6. ASSUME NEW e \in Entries(strtmp) PROVE e.level \in Nat /\ e.level <= Top.saved
  <2>1. e.level \in Nat
    BY <1>1, EntryLevels
  <2>2. e.level <= level /\ (Top.kind # "args" => e.level < level)
    BY <1>1, <1>2 DEF TempInv, In
  <2> QED
    BY <1>4, <1>5, <2>1, <2>2
<1>7. \A a \in Own(Top) : a \in StackHolds(stack)
  BY <1>2, <1>3, StackHolder
<1>8. mem # NoAddr /\ ~left => Top.kind \in {"args", "bind"} /\ Top.argval = mem
  BY <1>1 DEF MemIsCurrent, In
<1> QED
  BY <1>2, <1>3, <1>4, <1>5, <1>6, <1>7, <1>8

LEMMA BeginBindInv ==
    ASSUME ProgramInv, BeginBind
    PROVE  ProgramInv'
<1>1. Typed /\ HeapInv /\ StackInv(stack) /\ TableInv(strtmp) /\ HoldInv
  BY DEF ProgramInv
<1> DEFINE f == [Top EXCEPT !.kind = "bind"]
<1>2. /\ In({"args", "bind", "result"}) /\ Top.kind = "args" /\ stack' = WithTop(f)
      /\ level' = level + 1
      /\ UNCHANGED <<bits, live, vars, strtmp, changed, gosub, mem, memlevel, left, errskip, inter,
                     running, owed, untidy, acts, interrupts>>
  BY DEF BeginBind, In, heapVars, temps, setup, mode, bounds
<1>3. /\ stack \in Seq(FrameType) /\ stack # <<>> /\ Top \in FrameType /\ FrameOk(Top)
      /\ Top.saved \in Nat /\ level = Top.saved /\ Top.kind \notin Command
      /\ \A e \in Entries(strtmp) : e.level \in Nat /\ e.level <= Top.saved
      /\ \A a \in Own(Top) : a \in StackHolds(stack)
      /\ mem # NoAddr /\ ~left => Top.argval = mem
  BY <1>2, CallOnTop
<1>4. /\ f \in FrameType /\ f.kind = "bind" /\ f.fun = Top.fun /\ f.saved = Top.saved
      /\ f.argval = Top.argval /\ f.args = Top.args /\ f.got = Top.got
  BY <1>3 DEF FrameType
<1> HIDE DEF f
<1>5. FrameOk(f) /\ Own(f) = Own(Top)
  BY <1>2, <1>3, <1>4 DEF FrameOk, Own, Buffer
<1>6. StackHolds(stack)' = (StackHolds(stack) \ Own(Top)) \cup Own(f)
  BY <1>1, <1>2, <1>3, <1>4, <1>5, CallGoesOn DEF Command
<1>7. StackHolds(stack)' = StackHolds(stack)
  BY <1>3, <1>5, <1>6
<1>8. HeapInv'
  BY <1>1, <1>2 DEF HeapInv, HeapType, Whole, Apart, NoPageLost, Block
<1>9. HoldInv'
  <2>1. Addrs(Entries(strtmp))' = Addrs(Entries(strtmp)) /\ Addrs(vars)' = Addrs(vars)
    BY <1>2
  <2> QED
    BY <1>1, <1>2, <1>7, <2>1 DEF HoldInv
<1>10. TableInv(strtmp)' /\ Entries(strtmp') = Entries(strtmp)
  BY <1>1, <1>2
<1>11. changed' \in BOOLEAN
  BY <1>1, <1>2, FlagTypes, Zenon
<1>12. /\ level' = Top.saved + 1 /\ vars' \subseteq [at : Pages, level : Nat]
       /\ mem' \in Pages \cup {NoAddr} /\ (mem' # NoAddr /\ ~left => f.argval = mem')
  BY <1>1, <1>2, <1>3, <1>4, Types
<1> QED
  BY <1>2, <1>3, <1>4, <1>5, <1>8, <1>9, <1>10, <1>11, <1>12, CallStep

LEMMA NumberResultInv ==
    ASSUME ProgramInv, NumberResult
    PROVE  ProgramInv'
<1>1. Typed /\ HeapInv /\ StackInv(stack) /\ TableInv(strtmp) /\ HoldInv
  BY DEF ProgramInv
<1> DEFINE f == [Top EXCEPT !.kind = "body"]
<1>2. /\ In({"args", "bind", "result"}) /\ Top.kind = "result" /\ stack' = WithTop(f)
      /\ UNCHANGED <<bits, live, vars, strtmp, changed, level, gosub, mem, memlevel, left, errskip,
                     inter, running, owed, untidy, acts, interrupts>>
  BY DEF NumberResult, In, heapVars, temps, depth, setup, mode, bounds
<1>3. /\ stack \in Seq(FrameType) /\ stack # <<>> /\ Top \in FrameType /\ FrameOk(Top)
      /\ Top.saved \in Nat /\ level = Top.saved + 1 /\ Top.kind \notin Command
      /\ \A e \in Entries(strtmp) : e.level \in Nat /\ e.level <= Top.saved
      /\ mem = NoAddr \/ left
  BY <1>2, CallOnTop
<1>4. /\ f \in FrameType /\ f.kind = "body" /\ f.fun = Top.fun /\ f.saved = Top.saved
      /\ f.args = Top.args /\ f.got = Top.got
  BY <1>3 DEF FrameType
<1> HIDE DEF f
<1>5. FrameOk(f) /\ Own(f) = {} /\ Own(Top) = {}
  BY <1>2, <1>3, <1>4 DEF FrameOk, Own, Buffer
<1>6. StackHolds(stack)' = (StackHolds(stack) \ Own(Top)) \cup Own(f)
  BY <1>1, <1>2, <1>3, <1>4, <1>5, CallGoesOn DEF Command
<1>7. StackHolds(stack)' = StackHolds(stack)
  BY <1>5, <1>6
<1>8. HeapInv'
  BY <1>1, <1>2 DEF HeapInv, HeapType, Whole, Apart, NoPageLost, Block
<1>9. HoldInv'
  <2>1. Addrs(Entries(strtmp))' = Addrs(Entries(strtmp)) /\ Addrs(vars)' = Addrs(vars)
    BY <1>2
  <2> QED
    BY <1>1, <1>2, <1>7, <2>1 DEF HoldInv
<1>10. TableInv(strtmp)' /\ Entries(strtmp') = Entries(strtmp)
  BY <1>1, <1>2
<1>11. changed' \in BOOLEAN
  BY <1>1, <1>2, FlagTypes, Zenon
<1>12. /\ level' = Top.saved + 1 /\ vars' \subseteq [at : Pages, level : Nat]
       /\ mem' \in Pages \cup {NoAddr} /\ (mem' = NoAddr \/ left)
  BY <1>1, <1>2, <1>3, Types
<1> QED
  BY <1>2, <1>3, <1>4, <1>5, <1>8, <1>9, <1>10, <1>11, <1>12, CallStep

LEMMA StringResultInv ==
    ASSUME ProgramInv, NEW s \in Pages, StringResult(s)
    PROVE  ProgramInv'
<1>1. Typed /\ HeapInv /\ StackInv(stack) /\ TableInv(strtmp) /\ HoldInv /\ TempInv
  BY DEF ProgramInv
<1> DEFINE f == [Top EXCEPT !.kind = "body", !.got = {s}]
           e == [at |-> s, level |-> level - 1]
<1>2. /\ In({"args", "bind", "result"}) /\ Top.kind = "result" /\ stack' = WithTop(f)
      /\ GetSystemMemory(s, 1) /\ strtmp' = Append(strtmp, e) /\ changed' = TRUE
      /\ UNCHANGED <<vars, level, gosub, mem, memlevel, left, errskip, inter, running, owed, untidy,
                     acts, interrupts>>
  BY DEF StringResult, In, depth, setup, mode, bounds
<1>3. /\ stack \in Seq(FrameType) /\ stack # <<>> /\ Top \in FrameType /\ FrameOk(Top)
      /\ Top.saved \in Nat /\ level = Top.saved + 1 /\ Top.kind \notin Command
      /\ \A d \in Entries(strtmp) : d.level \in Nat /\ d.level <= Top.saved
      /\ mem = NoAddr \/ left
  BY <1>2, CallOnTop
<1>4. /\ f \in FrameType /\ f.kind = "body" /\ f.fun = Top.fun /\ f.saved = Top.saved
      /\ f.args = Top.args /\ f.got = {s}
  BY <1>3 DEF FrameType
<1>5. e \in TempType /\ e.at = s /\ e.level = Top.saved
  BY <1>3 DEF TempType
<1> HIDE DEF f, e
<1>6. FrameOk(f) /\ Own(f) = {} /\ Own(Top) = {}
  BY <1>2, <1>3, <1>4 DEF FrameOk, Own, Buffer
<1>7. HeapInv' /\ s \notin live /\ live' = live \cup {s}
  BY <1>1, <1>2, Allocates
<1>8. \A i \in 1 .. Len(stack) : s \notin stack[i].got
  BY <1>1, <1>7, GotIsHeld
<1>9. StackHolds(stack)' = (StackHolds(stack) \ Own(Top)) \cup Own(f)
  BY ZenonT(30), <1>1, <1>2, <1>3, <1>4, <1>6, <1>8, CallGoesOn DEF Command
<1>10. StackHolds(stack)' = StackHolds(stack)
  BY <1>6, <1>9
<1>11. TableInv(strtmp)' /\ Entries(strtmp') = Entries(strtmp) \cup {e}
  <2>1. \A d \in Entries(strtmp) : d.level <= e.level /\ d.at # e.at
    BY <1>1, <1>3, <1>5, <1>7 DEF HoldInv, Addrs
  <2> QED
    BY <1>1, <1>2, <1>5, <2>1, TableAppend
<1>12. HoldInv'
  <2>1. Addrs(Entries(strtmp))' = Addrs(Entries(strtmp)) \cup {s}
    BY <1>5, <1>11, AddrsAdd
  <2>2. Addrs(vars)' = Addrs(vars)
    BY <1>2
  <2> QED
    BY <1>1, <1>2, <1>7, <1>10, <2>1, <2>2 DEF HoldInv
<1>13. changed' \in BOOLEAN
  BY <1>2, Zenon
<1>14. /\ level' = Top.saved + 1 /\ vars' \subseteq [at : Pages, level : Nat]
       /\ mem' \in Pages \cup {NoAddr} /\ (mem' = NoAddr \/ left)
  BY <1>1, <1>2, <1>3, Types
<1>15. \A a \in f.got : /\ \A i \in 1 .. Len(stack) : a \notin stack[i].got
                        /\ \E d \in Entries(strtmp') : d.at = a /\ d.level <= f.saved
  BY <1>3, <1>4, <1>5, <1>8, <1>11
<1>16. /\ Entries(strtmp) \subseteq Entries(strtmp')
       /\ \A d \in Entries(strtmp') : d.level <= Top.saved
  BY <1>3, <1>5, <1>11
<1> QED
  BY <1>2, <1>3, <1>4, <1>6, <1>7, <1>11, <1>12, <1>13, <1>14, <1>15, <1>16, CallStep

\* A call is left, and its caller is on top.
LEMMA BackToCaller ==
    ASSUME stack \in Seq(FrameType), StackInv(stack), stack # <<>>, Top.kind \notin Command,
           Top.kind # "args", NEW f \in FrameType,
           stack' = Append(SubSeq(stack, 1, Len(stack) - 2), f),
           f.fun = stack[Len(stack) - 1].fun, f.saved = stack[Len(stack) - 1].saved,
           f.args = stack[Len(stack) - 1].args, f.argval = stack[Len(stack) - 1].argval,
           \/ f.kind = stack[Len(stack) - 1].kind
           \/ f.kind = "done" /\ stack[Len(stack) - 1].kind = "cmd",
           f.got \subseteq stack[Len(stack) - 1].got \cup Top.got
    PROVE  /\ Len(stack) \in Nat /\ Len(stack) >= 2 /\ Len(stack) - 1 \in 1 .. Len(stack)
           /\ stack[Len(stack) - 1].kind \in Calling /\ stack[Len(stack) - 1].saved = Top.saved
           /\ (Top.fun \/ stack[Len(stack) - 1].kind = "cmd")
           /\ stack' \in Seq(FrameType) /\ Len(stack') = Len(stack) - 1 /\ stack' # <<>>
           /\ StackInv(stack)' /\ Top' = f
           /\ \A i \in 1 .. Len(stack) - 1 : i # Len(stack) - 1 => stack'[i] = stack[i]
           /\ stack'[Len(stack) - 1] = f
           /\ StackHolds(stack)' = StackHolds(stack) \ Own(Top)
           /\ Waiting(stack') = Waiting(stack)
<1> DEFINE n == Len(stack)
           m == n - 1
           k == n - 2
           c == stack[m]
<1>1. n \in Nat /\ n >= 1 /\ n \in 1 .. n /\ Top = stack[n] /\ Top \in FrameType
  BY TopIs
<1>2. n >= 2
  <2>1. stack[1].kind \in Command
    BY DEF StackInv
  <2>2. \A j \in Nat : j >= 1 => j = 1 \/ j >= 2
    OBVIOUS
  <2>3. n = 1 \/ n >= 2
    BY <1>1, <2>2, Zenon
  <2>4. n # 1
    <3> HIDE DEF n
    <3> QED
      BY <1>1, <2>1
  <2> QED
    BY <2>3, <2>4, Zenon
<1>3. /\ m \in 1 .. n /\ c \in FrameType /\ Above(c, Top)
  BY <1>2, BelowTop
<1>4. c.kind \in Calling /\ c.saved = Top.saved /\ (Top.fun \/ c.kind = "cmd")
  BY <1>3 DEF Above
<1>5. k \in 0 .. n /\ k \in Nat /\ k + 1 = m /\ k + 1 \in 1 .. n
  BY <1>1, <1>2
<1>6. Puts(k, f)
  BY <1>5, PutsFrame
<1>7. /\ stack' \in Seq(FrameType) /\ Len(stack') = k + 1 /\ stack'[k + 1] = f
      /\ \A i \in 1 .. k : stack'[i] = stack[i]
  BY <1>6 DEF Puts
<1>8. stack' # <<>> /\ Top' = f /\ Len(stack') = m /\ stack'[m] = f
  <2> HIDE DEF k, m
  <2>1. Len(stack') = m /\ stack'[m] = f
    BY <1>5, <1>7
  <2>2. stack' # <<>>
    <3>1. Len(stack') > 0
      BY <1>5, <1>7
    <3> QED
      BY <1>7, <3>1
  <2> QED
    BY <2>1, <2>2 DEF Top
<1>9. FrameOk(c)
  BY <1>3 DEF StackInv
<1>10. f.kind # "args" \/ c.kind = "args"
  OBVIOUS
<1>11. Buffer(f) = Buffer(c) /\ (f.kind \in {"args", "bind"} <=> c.kind \in {"args", "bind"})
  BY DEF Buffer
<1>12. FrameOk(f) /\ Own(f) = Own(c)
  BY <1>9, <1>11 DEF FrameOk, Own
<1>13. f.kind \in Command <=> c.kind \in Command
  BY DEF Command
<1>14. k = 0 => f.kind \in Command
  <2>1. stack[1].kind \in Command
    BY DEF StackInv
  <2> SUFFICES ASSUME k = 0 PROVE f.kind \in Command
    OBVIOUS
  <2>2. m = 1
    BY <1>5
  <2> QED
    BY <1>13, <2>1, <2>2
<1>15. k > 0 => Above(stack[k], f)
  <2> SUFFICES ASSUME k > 0 PROVE Above(stack[k], f)
    OBVIOUS
  <2>1. k \in 1 .. n /\ k + 1 \in 1 .. n
    BY <1>1, <1>5
  <2>2. Above(stack[k], stack[k + 1])
    BY <2>1 DEF StackInv
  <2>3. Above(stack[k], c)
    BY <1>5, <2>2
  <2> HIDE DEF c
  <2>4. f.saved = c.saved /\ f.fun = c.fun
    BY DEF c
  <2> QED
    BY <1>13, <2>3, <2>4 DEF Above
<1>16. ASSUME NEW i \in 1 .. k
       PROVE  Own(stack[i]) \cap Own(f) = {} /\ stack[i].got \cap f.got = {}
  <2>1. i \in 1 .. n /\ i < m /\ i < n
    BY <1>1, <1>5
  <2>2. Own(stack[i]) \cap Own(c) = {} /\ stack[i].got \cap c.got = {}
    BY <1>3, <2>1 DEF StackInv
  <2>3. stack[i].got \cap Top.got = {}
    BY <2>1, TopApart
  <2> QED
    BY <1>12, <2>2, <2>3
<1>17. StackInv(stack)'
  BY <1>6, <1>12, <1>14, <1>15, <1>16, StackPuts
<1>18. StackHolds(stack)' = StackHolds(stack) \ Own(Top)
  BY <1>2, <1>6, <1>12, UnderHolds
<1>19. \A i \in 1 .. m : i # m => i \in 1 .. k
  BY <1>1, <1>2
<1>20. Waiting(stack') = Waiting(stack)
  <2>1. DOMAIN stack' = 1 .. m /\ DOMAIN stack = 1 .. n
    BY <1>7, <1>8
  <2>2. \A i \in 1 .. n : i = n \/ i \in 1 .. m
    BY <1>1, <1>2
  <2>3. \A i \in 1 .. m : i \in 1 .. n
    BY <1>1, <1>2
  <2>4. \A i \in 1 .. m : stack'[i].kind = "args" <=> stack[i].kind = "args"
    BY <1>7, <1>8, <1>19
  <2>5. stack[n].kind # "args"
    BY <1>1
  <2>6. \A i : i \in Waiting(stack') <=> i \in 1 .. m /\ stack'[i].kind = "args"
    BY <2>1 DEF Waiting
  <2>7. \A i : i \in Waiting(stack) <=> i \in 1 .. n /\ stack[i].kind = "args"
    BY <2>1 DEF Waiting
  <2> HIDE DEF n, m
  <2> QED
    BY ZenonT(30), <2>2, <2>3, <2>4, <2>5, <2>6, <2>7
<1>21. \A i \in 1 .. m : i # m => stack'[i] = stack[i]
  BY <1>7, <1>19
<1> QED
  BY <1>1, <1>2, <1>3, <1>4, <1>7, <1>8, <1>17, <1>18, <1>20, <1>21

\* What is true on top of the caller, whatever the caller goes on with.
LEMMA CallerInter ==
    ASSUME ProgramInv, stack # <<>>, Top.kind \notin Command, running,
           inter = NoInterrupt \/ inter.depth # Len(stack),
           NEW f \in FrameType, Len(stack) >= 2, Len(stack') = Len(stack) - 1,
           stack[Len(stack) - 1].kind \in Calling, f.saved = stack[Len(stack) - 1].saved,
           \A i \in 1 .. Len(stack) - 1 : i # Len(stack) - 1 => stack'[i] = stack[i],
           stack'[Len(stack) - 1] = f,
           inter' = inter, running' = running, level' \in Nat, level' >= f.saved
    PROVE  InterInv'
<1> DEFINE n == Len(stack)
<1>1. Typed /\ InterInv
  BY DEF ProgramInv
<1>2. stack \in Seq(FrameType) /\ n \in Nat /\ n >= 2 /\ f.saved \in Nat
  BY SMTT(30), <1>1, Types DEF FrameType
<1>3. ASSUME inter # NoInterrupt
      PROVE  /\ inter.depth \in Nat /\ inter.depth <= n - 2 /\ inter.at \in Nat
             /\ inter.depth > 0 => inter.depth \in 1 .. n - 1 /\ inter.depth # n - 1
             /\ f.saved > inter.at
  <2>1. /\ inter.depth \in Nat /\ inter.depth <= n /\ inter.depth # n /\ inter.at \in Nat
        /\ inter.depth > 0 => stack[inter.depth].kind \in Running
        /\ \A i \in 1 .. n : i > inter.depth => stack[i].saved > inter.at
    BY <1>1, <1>3 DEF InterInv, InterType
  <2>2. inter.depth # n - 1
    BY <1>2, <2>1 DEF Running, Calling
  <2>3. n - 1 \in 1 .. n /\ n - 1 > inter.depth
    BY <1>2, <2>1, <2>2
  <2>4. f.saved > inter.at
    BY <2>1, <2>3
  <2> QED
    BY <1>2, <2>1, <2>2, <2>4
<1>4. inter # NoInterrupt => inter.depth <= Len(stack') /\ level' > inter.at
  BY <1>2, <1>3
<1>5. ASSUME inter # NoInterrupt, inter.depth > 0
      PROVE  stack'[inter.depth].kind \in Running /\ inter.at > stack'[inter.depth].saved
  BY <1>1, <1>3, <1>5 DEF InterInv
<1>6. ASSUME inter # NoInterrupt, NEW i \in 1 .. Len(stack'), i > inter.depth
      PROVE  stack'[i].saved > inter.at
  <2>1. i \in 1 .. n - 1 /\ i \in 1 .. n
    BY <1>2, <1>6
  <2>2. CASE i = n - 1
    BY <1>3, <1>6, <2>2
  <2>3. CASE i # n - 1
    BY <1>1, <1>6, <2>1, <2>3 DEF InterInv
  <2> QED
    BY <2>2, <2>3
<1> QED
  BY <1>1, <1>4, <1>5, <1>6 DEF InterInv

LEMMA BoundSubInv ==
    ASSUME ProgramInv, Bound, ~Top.fun
    PROVE  ProgramInv'
<1>1. /\ Typed /\ HeapInv /\ StackInv(stack) /\ TableInv(strtmp) /\ HoldInv
      /\ MemIsCurrent /\ LevelInv /\ InterInv /\ TempInv /\ ErrorMode /\ Depth
  BY DEF ProgramInv
<1> DEFINE n == Len(stack)
           c == stack[n - 1]
           f == [c EXCEPT !.kind = "done"]
<1>2. /\ In({"args", "bind", "result"}) /\ Top.kind = "bind" /\ Top.args = {}
      /\ FreeMemory({Top.argval}) /\ mem' = NoAddr
      /\ stack' = Append(SubSeq(stack, 1, Len(stack) - 2), f)
      /\ UNCHANGED <<vars, strtmp, changed, level, gosub, memlevel, left, errskip, inter, running,
                     owed, untidy, acts, interrupts>>
  BY DEF Bound, In, temps, depth, mode, bounds
<1>3. /\ stack \in Seq(FrameType) /\ stack # <<>> /\ Top \in FrameType /\ FrameOk(Top)
      /\ Top.saved \in Nat /\ level \in Nat /\ level = Top.saved + 1 /\ Top.kind \notin Command
      /\ \A a \in Own(Top) : a \in StackHolds(stack)
  BY <1>2, CallOnTop
<1>4. n \in Nat /\ n >= 2 /\ n - 1 \in 1 .. n /\ c \in FrameType /\ Above(c, Top)
  <2>1. stack[1].kind \in Command /\ n \in Nat /\ n >= 1 /\ Top = stack[n]
    BY <1>1, <1>3, TopIs DEF StackInv
  <2>2. \A j \in Nat : j >= 1 => j = 1 \/ j >= 2
    OBVIOUS
  <2>3. n >= 2
    <3> HIDE DEF n
    <3> QED
      BY <1>3, <2>1, <2>2
  <2> QED
    BY <1>1, <1>3, <2>3, BelowTop
<1>5. c.kind = "cmd" /\ c.saved = Top.saved
  BY <1>3, <1>4 DEF Above
<1>6. /\ f \in FrameType /\ f.kind = "done" /\ f.fun = c.fun /\ f.saved = c.saved
      /\ f.args = c.args /\ f.argval = c.argval /\ f.got = c.got
  BY <1>4 DEF FrameType
<1> HIDE DEF f
<1>7. /\ stack' \in Seq(FrameType) /\ Len(stack') = Len(stack) - 1 /\ stack' # <<>>
      /\ StackInv(stack)' /\ Top' = f
      /\ \A i \in 1 .. Len(stack) - 1 : i # Len(stack) - 1 => stack'[i] = stack[i]
      /\ stack'[Len(stack) - 1] = f
      /\ StackHolds(stack)' = StackHolds(stack) \ Own(Top)
      /\ Waiting(stack') = Waiting(stack)
  BY <1>1, <1>2, <1>3, <1>5, <1>6, BackToCaller
<1>8. running
  BY <1>1, <1>3 DEF LevelInv
<1>9. ~In({"done"}) /\ In({"cmd", "args", "bind", "result", "done"}) /\ In({"cmd", "args", "bind", "result"})
  BY <1>2, <1>3 DEF In
<1>10. /\ In({"done"})' /\ ~Idle' /\ ~In(Calling)' /\ ~In({"bind", "result"})' /\ ~In(Running)'
  BY <1>6, <1>7 DEF In, Idle, Calling, Running
<1>11. Own(Top) = {Top.argval}
  BY <1>2, <1>3 DEF Own, Buffer
<1>12. HeapInv' /\ live' = live \ {Top.argval}
  <2>1. {Top.argval} \subseteq live
    BY <1>1, <1>3, <1>11 DEF HoldInv
  <2> QED
    BY <1>1, <1>2, <2>1, Frees
<1>13. HoldInv'
  <2>1. Addrs(Entries(strtmp))' = Addrs(Entries(strtmp)) /\ Addrs(vars)' = Addrs(vars)
    BY <1>2
  <2>2. StackHolds(stack)' = StackHolds(stack) \ {Top.argval} /\ Top.argval \in StackHolds(stack)
    BY <1>3, <1>7, <1>11
  <2> QED
    BY <1>1, <1>2, <1>12, <2>1, <2>2 DEF HoldInv
<1>14. MemIsCurrent'
  BY <1>2 DEF MemIsCurrent
<1>15. \A i \in 1 .. n - 1 : stack'[i].saved = stack[i].saved /\ stack'[i].got = stack[i].got
  BY <1>6, <1>7
<1>16. LevelInv'
  <2>1. Len(stack') > 1 => level' > stack'[Len(stack') - 1].saved
    <3> SUFFICES ASSUME n - 1 > 1 PROVE level > stack'[(n - 1) - 1].saved
      BY <1>2, <1>7
    <3>1. (n - 1) - 1 \in 1 .. n - 1 /\ (n - 1) - 1 \in 1 .. n /\ (n - 1) - 1 < n
      BY <1>4
    <3>2. stack'[(n - 1) - 1].saved = stack[(n - 1) - 1].saved /\ stack[(n - 1) - 1].saved \in Nat
      BY <1>3, <1>15, <3>1, FrameAt
    <3>3. stack[(n - 1) - 1].saved <= Top.saved
      BY <1>1, <1>3, <3>1, TopApart
    <3> QED
      BY <1>3, <3>2, <3>3
  <2>2. ASSUME NEW i \in 1 .. Len(stack'), stack'[i].kind = "end"
        PROVE  inter # NoInterrupt /\ inter.depth = i /\ inter.at = stack'[i].saved + 1
    <3>1. i \in 1 .. n - 1 /\ i \in 1 .. n /\ i # n
      BY <1>4, <1>7
    <3>2. i # n - 1 /\ stack'[i] = stack[i]
      BY <1>6, <1>7, <2>2, <3>1
    <3> QED
      BY <1>1, <1>9, <2>2, <3>1, <3>2 DEF LevelInv
  <2> QED
    BY <1>2, <1>8, <1>10, <2>1, <2>2 DEF LevelInv
<1>17. InterInv'
  <2>1. inter = NoInterrupt \/ inter.depth # n
    <3>1. inter # NoInterrupt => inter.depth \in Nat /\ inter.depth < n
      BY <1>1, <1>9, InterBelow
    <3> QED
      BY <1>4, <3>1
  <2>2. level' \in Nat /\ level' >= f.saved
    BY <1>2, <1>3, <1>5, <1>6
  <2>3. c.kind \in Calling
    BY <1>5 DEF Calling
  <2> QED
    BY <1>2, <1>3, <1>4, <1>6, <1>7, <1>8, <2>1, <2>2, <2>3, CallerInter
<1>18. TempInv'
  <2>1. Entries(strtmp)' = Entries(strtmp)
    BY <1>2
  <2>2. ASSUME NEW i \in 1 .. Len(stack'), NEW a \in stack'[i].got
        PROVE  \E e \in Entries(strtmp) : e.at = a /\ e.level <= stack'[i].saved
    <3>1. i \in 1 .. n - 1 /\ i \in 1 .. n
      BY <1>4, <1>7
    <3> QED
      BY <1>1, <1>15, <2>2, <3>1 DEF TempInv
  <2>3. ~changed' => \A e \in Entries(strtmp) : e.level < level'
    BY <1>1, <1>2 DEF TempInv
  <2> QED
    BY <1>10, <2>1, <2>2, <2>3 DEF TempInv
<1>19. ErrorMode'
  <2>1. inter # NoInterrupt \/ ~(owed > 0)
    BY <1>1, <1>9, ModeSettled
  <2> QED
    BY <1>1, <1>2, <2>1 DEF ErrorMode
<1>20. Depth'
  <2>1. inter' = inter /\ level' = level /\ gosub' = gosub /\ running' = running /\ untidy' = untidy
    BY <1>2
  <2>2. Balanced => Balanced'
    BY <1>7, <2>1, DepthIs, DepthNext
  <2> QED
    BY <1>1, <2>1, <2>2 DEF Depth
<1>21. TableInv(strtmp)'
  BY <1>1, <1>2
<1>22. Typed'
  <2>1. changed' \in BOOLEAN /\ running' \in BOOLEAN
    BY <1>1, <1>2, FlagTypes, Zenon
  <2>2. /\ vars' \subseteq [at : Pages, level : Nat] /\ level' \in Nat /\ memlevel' \in Nat
        /\ gosub' \in Seq({"sub", "fun"}) /\ mem' \in Pages \cup {NoAddr} /\ errskip' \in Int
        /\ owed' \in Int
        /\ untidy' \subseteq {"strings", "call", "label", "page0"} /\ acts' \in Nat /\ interrupts' \in Nat
    BY <1>1, <1>2, Types
  <2> QED
    BY <1>7, <1>12, <1>21, <2>1, <2>2, TypesAre
<1> QED
  BY <1>7, <1>12, <1>13, <1>14, <1>16, <1>17, <1>18, <1>19, <1>20, <1>21, <1>22 DEF ProgramInv

LEMMA BoundFunInv ==
    ASSUME ProgramInv, Bound, Top.fun
    PROVE  ProgramInv'
<1>1. Typed /\ HeapInv /\ StackInv(stack) /\ TableInv(strtmp) /\ HoldInv
  BY DEF ProgramInv
<1> DEFINE f == [Top EXCEPT !.kind = "result", !.argval = NoAddr]
<1>2. /\ In({"args", "bind", "result"}) /\ Top.kind = "bind" /\ Top.args = {}
      /\ FreeMemory({Top.argval}) /\ mem' = NoAddr /\ stack' = WithTop(f)
      /\ UNCHANGED <<vars, strtmp, changed, level, gosub, memlevel, left, errskip, inter, running,
                     owed, untidy, acts, interrupts>>
  BY DEF Bound, In, temps, depth, mode, bounds
<1>3. /\ stack \in Seq(FrameType) /\ stack # <<>> /\ Top \in FrameType /\ FrameOk(Top)
      /\ Top.saved \in Nat /\ level = Top.saved + 1 /\ Top.kind \notin Command
      /\ \A e \in Entries(strtmp) : e.level \in Nat /\ e.level <= Top.saved
      /\ \A a \in Own(Top) : a \in StackHolds(stack)
  BY <1>2, CallOnTop
<1>4. /\ f \in FrameType /\ f.kind = "result" /\ f.fun = Top.fun /\ f.saved = Top.saved
      /\ f.args = Top.args /\ f.got = Top.got
  BY <1>3 DEF FrameType
<1> HIDE DEF f
<1>5. FrameOk(f) /\ Own(f) = {} /\ Own(Top) = {Top.argval}
  BY <1>2, <1>3, <1>4 DEF FrameOk, Own, Buffer
<1>6. StackHolds(stack)' = (StackHolds(stack) \ Own(Top)) \cup Own(f)
  BY <1>1, <1>2, <1>3, <1>4, <1>5, CallGoesOn DEF Command
<1>7. StackHolds(stack)' = StackHolds(stack) \ {Top.argval} /\ Top.argval \in StackHolds(stack)
  BY <1>3, <1>5, <1>6
<1>8. HeapInv' /\ live' = live \ {Top.argval}
  <2>1. {Top.argval} \subseteq live
    BY <1>1, <1>7 DEF HoldInv
  <2> QED
    BY <1>1, <1>2, <2>1, Frees
<1>9. HoldInv'
  <2>1. Addrs(Entries(strtmp))' = Addrs(Entries(strtmp)) /\ Addrs(vars)' = Addrs(vars)
    BY <1>2
  <2> QED
    BY <1>1, <1>2, <1>7, <1>8, <2>1 DEF HoldInv
<1>10. TableInv(strtmp)' /\ Entries(strtmp') = Entries(strtmp)
  BY <1>1, <1>2
<1>11. changed' \in BOOLEAN
  BY <1>1, <1>2, FlagTypes, Zenon
<1>12. /\ level' = Top.saved + 1 /\ vars' \subseteq [at : Pages, level : Nat]
       /\ mem' \in Pages \cup {NoAddr} /\ mem' = NoAddr
  BY <1>1, <1>2, <1>3, Types
<1> QED
  BY <1>2, <1>3, <1>4, <1>5, <1>8, <1>9, <1>10, <1>11, <1>12, CallStep

LEMMA PopAny ==
    ASSUME NEW T, NEW g \in Seq(T)
    PROVE  SubSeq(g, 1, Len(g) - 1) \in Seq(T)
<1>1. CASE g = <<>>
  BY <1>1
<1>2. CASE g # <<>>
  BY <1>2, PopGosub
<1> QED
  BY <1>1, <1>2

LEMMA ReturnValueInv ==
    ASSUME ProgramInv, ReturnValue
    PROVE  ProgramInv'
<1>1. /\ Typed /\ HeapInv /\ StackInv(stack) /\ TableInv(strtmp) /\ HoldInv
      /\ MemIsCurrent /\ LevelInv /\ InterInv /\ TempInv /\ ErrorMode /\ Depth
  BY DEF ProgramInv
<1> DEFINE n == Len(stack)
           c == stack[n - 1]
           f == [c EXCEPT !.got = @ \cup Top.got]
<1>2. /\ In({"end"}) /\ Top.kind = "end" /\ stack # <<>> /\ inter.depth # n /\ Leave(level)
      /\ gosub' = SubSeq(gosub, 1, Len(gosub) - 1)
      /\ stack' = Append(SubSeq(stack, 1, Len(stack) - 2), f) /\ owed' = Since
      /\ UNCHANGED <<strtmp, mem, memlevel, left, errskip, inter, running, acts, interrupts>>
  BY DEF ReturnValue, In, setup, bounds
<1>3. /\ stack \in Seq(FrameType) /\ level \in Nat /\ gosub \in Seq({"sub", "fun"})
      /\ Top \in FrameType /\ Top = stack[n] /\ n \in 1 .. n /\ n \in Nat /\ n >= 1
      /\ Top.saved \in Nat /\ Top.kind \notin Command
  BY <1>1, <1>2, Types, TopIs DEF FrameType, Command
<1>4. running
  BY <1>1, <1>2 DEF LevelInv
<1>5. level = Top.saved + 1
  BY <1>1, <1>2, <1>3 DEF LevelInv
<1>6. n >= 2 /\ n - 1 \in 1 .. n /\ c \in FrameType /\ Above(c, Top)
  <2>1. stack[1].kind \in Command
    BY <1>1, <1>2 DEF StackInv
  <2>2. \A j \in Nat : j >= 1 => j = 1 \/ j >= 2
    OBVIOUS
  <2>3. n >= 2
    <3> HIDE DEF n
    <3> QED
      BY <1>3, <2>1, <2>2
  <2> QED
    BY <1>1, <1>3, <2>3, BelowTop
<1>7. c.kind \in Calling /\ c.saved = Top.saved
  BY <1>3, <1>6 DEF Above
<1>8. /\ f \in FrameType /\ f.kind = c.kind /\ f.fun = c.fun /\ f.saved = c.saved
      /\ f.args = c.args /\ f.argval = c.argval /\ f.got = c.got \cup Top.got
  BY <1>3, <1>6 DEF FrameType
<1> HIDE DEF f
<1>9. /\ stack' \in Seq(FrameType) /\ Len(stack') = Len(stack) - 1 /\ stack' # <<>>
      /\ StackInv(stack)' /\ Top' = f
      /\ \A i \in 1 .. Len(stack) - 1 : i # Len(stack) - 1 => stack'[i] = stack[i]
      /\ stack'[Len(stack) - 1] = f
      /\ StackHolds(stack)' = StackHolds(stack) \ Own(Top)
      /\ Waiting(stack') = Waiting(stack)
  BY <1>1, <1>2, <1>3, <1>8, BackToCaller
<1>10. StackHolds(stack)' = StackHolds(stack)
  <2>1. FrameOk(Top)
    BY <1>1, <1>3 DEF StackInv
  <2>2. Own(Top) = {}
    BY <1>2, <2>1 DEF FrameOk, Own, Buffer
  <2> QED
    BY <1>9, <2>2
<1>11. /\ HeapInv' /\ HoldInv'
       /\ vars' \subseteq [at : Pages, level : Nat]
       /\ untidy' \subseteq {"strings", "call", "label", "page0"}
       /\ untidy \subseteq untidy'
       /\ level' = level - 1 /\ level' \in Nat /\ changed' = TRUE
  <2>1. level > 0
    BY <1>3, <1>5
  <2> QED
    BY <1>1, <1>2, <1>10, <2>1, LeaveHolds
<1>12. level' = f.saved /\ level' = Top.saved
  BY <1>3, <1>5, <1>7, <1>8, <1>11
<1>13. /\ In(Calling)' /\ ~In({"done"})' /\ ~Idle' /\ ~In({"bind", "result"})' /\ ~In(Running)'
  BY <1>7, <1>8, <1>9 DEF In, Idle, Calling, Running
<1>14. MemIsCurrent'
  BY <1>1, <1>2 DEF MemIsCurrent, In
<1>15. LevelInv'
  <2>1. ASSUME NEW i \in 1 .. Len(stack'), stack'[i].kind = "end"
        PROVE  inter # NoInterrupt /\ inter.depth = i /\ inter.at = stack'[i].saved + 1
    <3>1. i \in 1 .. n - 1 /\ i \in 1 .. n /\ i # n
      BY <1>6, <1>9
    <3>2. i # n - 1 /\ stack'[i] = stack[i]
      BY <1>7, <1>8, <1>9, <2>1, <3>1 DEF Calling
    <3>3. ~In({"done"})
      BY <1>2 DEF In
    <3> QED
      BY <1>1, <2>1, <3>1, <3>2, <3>3 DEF LevelInv
  <2> QED
    BY <1>2, <1>4, <1>9, <1>12, <1>13, <2>1 DEF LevelInv
<1>16. InterInv'
  <2>1. level' \in Nat /\ level' >= f.saved
    BY <1>3, <1>11, <1>12
  <2> QED
    BY <1>2, <1>3, <1>4, <1>6, <1>7, <1>8, <1>9, <2>1, CallerInter
<1>17. TempInv'
  <2>1. Entries(strtmp)' = Entries(strtmp)
    BY <1>2
  <2>2. ASSUME NEW e \in Entries(strtmp) PROVE e.level <= level'
    <3>1. Idle
      BY <1>2 DEF Idle
    <3>2. e.level < level /\ e.level \in Nat
      BY <1>1, <3>1, EntryLevels DEF TempInv
    <3> QED
      BY <1>3, <1>11, <3>2
  <2>3. ASSUME NEW i \in 1 .. Len(stack'), NEW a \in stack'[i].got
        PROVE  \E e \in Entries(strtmp) : e.at = a /\ e.level <= stack'[i].saved
    <3>1. i \in 1 .. n - 1 /\ i \in 1 .. n
      BY <1>6, <1>9
    <3>2. CASE i # n - 1
      BY <1>1, <1>9, <2>3, <3>1, <3>2 DEF TempInv
    <3>3. CASE i = n - 1
      <4>1. a \in c.got \/ a \in Top.got
        BY <1>8, <1>9, <2>3, <3>3
      <4>2. \E e \in Entries(strtmp) : e.at = a /\ e.level <= Top.saved
        BY <1>1, <1>3, <1>6, <1>7, <4>1 DEF TempInv
      <4> QED
        BY <1>7, <1>8, <1>9, <3>3, <4>2
    <3> QED
      BY <3>2, <3>3
  <2> QED
    BY <1>11, <1>13, <2>1, <2>2, <2>3 DEF TempInv
<1>18. ErrorMode'
  <2>1. inter' = inter /\ owed' = (IF inter = NoInterrupt THEN 0 ELSE owed)
    BY <1>2 DEF Since
  <2> QED
    BY <1>1, <2>1 DEF ErrorMode
<1>19. Depth'
  <2>1. Cardinality(Waiting(stack)) \in Nat /\ Cardinality(Waiting(stack')) = Cardinality(Waiting(stack))
    BY <1>3, <1>9, WaitingCount
  <2>2. inter # NoInterrupt => Top.saved > 0
    <3> SUFFICES ASSUME inter # NoInterrupt PROVE Top.saved > 0
      OBVIOUS
    <3>1. /\ inter.at \in Nat /\ inter.depth \in Nat /\ inter.depth <= n
          /\ \A i \in 1 .. n : i > inter.depth => stack[i].saved > inter.at
      BY <1>1, <1>4 DEF InterInv, InterType
    <3>2. n > inter.depth
      BY <1>2, <1>3, <3>1
    <3>3. Top.saved > inter.at
      BY <1>3, <3>1, <3>2
    <3> QED
      BY <1>3, <3>1, <3>3
  <2>3. ASSUME Balanced PROVE Balanced'
    <3>1. Len(gosub) \in Nat /\ Len(gosub) > 0
      <4>1. Len(gosub) \in Nat
        BY <1>3
      <4>2. Len(gosub) + (IF inter = NoInterrupt THEN 0 ELSE 1) = level + Cardinality(Waiting(stack))
        BY <2>3, DepthIs
      <4> QED
        BY <1>3, <1>5, <2>1, <2>2, <4>1, <4>2
    <3>2. Len(gosub') = Len(gosub) - 1
      <4>1. gosub # <<>>
        BY <1>3, <3>1
      <4> QED
        BY <1>2, <1>3, <4>1, PopGosub
    <3>3. inter' = inter /\ level' = level - 1 /\ level \in Nat
      BY <1>2, <1>3, <1>11
    <3> QED
      BY <2>1, <2>3, <3>1, <3>2, <3>3, DepthIs, DepthNext
  <2> QED
    BY <1>1, <1>2, <1>11, <2>3 DEF Depth
<1>20. TableInv(strtmp)'
  BY <1>1, <1>2
<1>21. Typed'
  <2>1. changed' \in BOOLEAN /\ running' \in BOOLEAN
    BY <1>1, <1>2, <1>11, FlagTypes, Zenon
  <2>2. gosub' \in Seq({"sub", "fun"})
    BY <1>2, <1>3, PopAny
  <2>3. /\ memlevel' \in Nat /\ mem' \in Pages \cup {NoAddr} /\ errskip' \in Int
        /\ acts' \in Nat /\ interrupts' \in Nat
    BY <1>1, <1>2, Types
  <2>4. owed' \in Int
    BY <1>1, <1>2, Types DEF Since
  <2> QED
    BY <1>9, <1>11, <1>20, <2>1, <2>2, <2>3, <2>4, TypesAre
<1> QED
  BY <1>9, <1>11, <1>14, <1>15, <1>16, <1>17, <1>18, <1>19, <1>20, <1>21 DEF ProgramInv

-----------------------------------------------------------------------------
(* Commands and functions end.                                             *)

\* What a scan of the temporaries frees is what it takes out of the table.
LEMMA ScanFrees ==
    ASSUME TableInv(strtmp), NEW lv \in Nat,
           Entries(strtmp)' = {e \in Entries(strtmp) : e.level < lv}
    PROVE  LET out == Addrs({e \in Entries(strtmp) : ~(e.level < lv)})
           IN  /\ out \subseteq Addrs(Entries(strtmp))
               /\ Addrs(Entries(strtmp))' = Addrs(Entries(strtmp)) \ out
BY EntriesTyped DEF Addrs

LEMMA EndCommandInv ==
    ASSUME ProgramInv, EndCommand
    PROVE  ProgramInv'
<1>1. /\ Typed /\ HeapInv /\ StackInv(stack) /\ TableInv(strtmp) /\ HoldInv
      /\ MemIsCurrent /\ LevelInv /\ InterInv /\ TempInv /\ ErrorMode /\ Depth
  BY DEF ProgramInv
<1> DEFINE n == Len(stack)
           out == Addrs({e \in Entries(strtmp) : ~(e.level < level)})
<1>2. /\ stack # <<>> /\ Top.kind \in Command /\ In(Command) /\ stack' = SubSeq(stack, 1, n - 1)
      /\ errskip' = IF errskip > 0 THEN errskip - 1 ELSE errskip
      /\ UNCHANGED <<vars, level, gosub, mem, memlevel, left, inter, running, owed, untidy,
                     acts, interrupts>>
  BY DEF EndCommand, Pop, In, Command, depth, setup, bounds
<1>3. /\ stack \in Seq(FrameType) /\ level \in Nat /\ gosub \in Seq({"sub", "fun"})
      /\ Top \in FrameType /\ Top = stack[n] /\ n \in 1 .. n /\ n \in Nat /\ n >= 1
      /\ Top.saved \in Nat
  BY <1>1, <1>2, Types, TopIs DEF FrameType
<1>4. running
  BY <1>1, <1>2 DEF LevelInv
<1>5. Cuts(n - 1)
  <2>1. n - 1 \in 0 .. n
    BY <1>3
  <2> QED
    BY <1>2, <1>3, <2>1, CutsFrames
<1>6. /\ stack' \in Seq(FrameType) /\ Len(stack') = n - 1
      /\ \A i \in 1 .. n - 1 : stack'[i] = stack[i]
  BY <1>5 DEF Cuts
<1>7. StackInv(stack)'
  BY <1>1, <1>3, <1>5, StackCuts
<1>8. StackHolds(stack)' = StackHolds(stack)
  <2>1. FrameOk(Top)
    BY <1>1, <1>3 DEF StackInv
  <2>2. Own(Top) = {}
    BY <1>2, <2>1 DEF FrameOk, Own, Buffer, Command
  <2>3. /\ StackHolds(stack)' \subseteq StackHolds(stack)
        /\ \A a \in StackHolds(stack) \ StackHolds(stack)' :
               \E i \in (n - 1) + 1 .. n : a \in Own(stack[i])
    BY <1>1, <1>3, <1>5, CutHolds
  <2>4. \A i \in (n - 1) + 1 .. n : i = n
    BY <1>3
  <2>5. \A i \in (n - 1) + 1 .. n : Own(stack[i]) = {}
    BY <1>3, <2>2, <2>4
  <2> QED
    BY <2>3, <2>5
<1>9. /\ HeapInv' /\ TableInv(strtmp)' /\ live' = live \ out
      /\ Entries(strtmp)' = {e \in Entries(strtmp) : e.level < level}
  <2>1. CASE changed
    <3>1. ClearTemps(level) /\ FreeMemory(TempsFreed(level))
      BY <2>1 DEF EndCommand
    <3>2. /\ TableInv(strtmp)' /\ TempsFreed(level) = out
          /\ Entries(strtmp)' = {e \in Entries(strtmp) : e.level < level}
      BY <1>1, <1>3, <3>1, TableCut
    <3>3. out \subseteq live
      BY <1>1 DEF HoldInv, Addrs
    <3> HIDE DEF out
    <3> QED
      BY <1>1, <3>1, <3>2, <3>3, Frees
  <2>2. CASE ~changed
    <3>1. UNCHANGED <<strtmp, bits, live>>
      BY <2>2 DEF EndCommand, temps, heapVars
    <3>2. \A e \in Entries(strtmp) : e.level < level
      BY <1>1, <2>2 DEF TempInv
    <3>3. out = {}
      BY <3>2 DEF Addrs
    <3>4. HeapInv'
      BY <1>1, <3>1 DEF HeapInv, HeapType, Whole, Apart, NoPageLost, Block
    <3>5. TableInv(strtmp)' /\ Entries(strtmp)' = Entries(strtmp)
      BY <1>1, <3>1
    <3> QED
      BY <3>1, <3>2, <3>3, <3>4, <3>5
  <2> QED
    BY <2>1, <2>2
<1>10. HoldInv'
  <2>1. out \subseteq Addrs(Entries(strtmp)) /\ Addrs(Entries(strtmp))' = Addrs(Entries(strtmp)) \ out
    BY <1>1, <1>3, <1>9, ScanFrees
  <2>2. Addrs(vars)' = Addrs(vars)
    BY <1>2
  <2> HIDE DEF out
  <2> QED
    BY <1>1, <1>2, <1>8, <1>9, <2>1, <2>2 DEF HoldInv
<1>11. MemIsCurrent'
  <2>1. ~In({"args", "bind"})
    BY <1>2 DEF In, Command
  <2> QED
    BY <1>1, <1>2, <2>1 DEF MemIsCurrent
<1>12. ASSUME n >= 2
       PROVE  /\ n - 1 \in 1 .. n /\ stack[n - 1].kind \in Running
              /\ stack[n - 1].saved \in Nat /\ stack[n - 1].saved < level
  <2>1. n - 1 \in 1 .. n /\ stack[n - 1].saved \in Nat /\ Above(stack[n - 1], Top)
    BY <1>1, <1>3, <1>12, BelowTop
  <2>2. stack[n - 1].kind \in Running /\ stack[n - 1].saved < Top.saved
    BY <1>2, <2>1 DEF Above
  <2>3. CASE Top.kind = "cmd"
    <3>1. level = Top.saved
      BY <1>1, <1>2, <2>3 DEF LevelInv, In, Calling
    <3> QED
      BY <1>3, <2>1, <2>2, <3>1
  <2>4. CASE Top.kind = "done"
    <3>1. In({"done"}) /\ n > 1
      BY <1>2, <1>3, <1>12, <2>4 DEF In
    <3> QED
      BY <1>1, <1>3, <2>1, <2>2, <3>1 DEF LevelInv
  <2> QED
    BY <1>2, <2>3, <2>4 DEF Command
<1>13. ASSUME stack' # <<>>
       PROVE  n >= 2 /\ Top' = stack[n - 1] /\ Top'.kind \in Running /\ Top'.saved < level
  <2>1. n - 1 > 0
    <3>1. Len(stack') > 0
      BY <1>6, <1>13
    <3> QED
      BY <1>6, <3>1
  <2>2. n >= 2 /\ n - 1 \in 1 .. n - 1
    BY <1>3, <2>1
  <2>3. Top' = stack[n - 1]
    BY <1>6, <2>2 DEF Top
  <2> QED
    BY <1>12, <2>2, <2>3
<1>14. /\ Idle' /\ ~In(Calling)' /\ ~In({"bind", "result"})' /\ ~In({"done"})'
  BY <1>13 DEF In, Idle, Running, Calling
<1>15. LevelInv'
  <2>1. In(Running)' => level' > Top'.saved
    <3> SUFFICES ASSUME stack' # <<>> PROVE level > Top'.saved
      BY <1>2 DEF In
    <3> QED
      BY <1>3, <1>12, <1>13
  <2>2. ASSUME NEW i \in 1 .. Len(stack'), stack'[i].kind = "end"
        PROVE  IF inter # NoInterrupt /\ inter.depth = i THEN inter.at = stack'[i].saved + 1
               ELSE level = stack'[i].saved + 1 /\ i = Len(stack')
    <3>1. i \in 1 .. n - 1 /\ i \in 1 .. n /\ stack'[i] = stack[i] /\ i # n
      BY <1>3, <1>6
    <3> QED
      BY <1>1, <1>6, <2>2, <3>1 DEF LevelInv
  <2> QED
    BY <1>2, <1>4, <1>14, <2>1, <2>2 DEF LevelInv
<1>16. InterInv'
  <2>1. ASSUME inter # NoInterrupt
        PROVE  /\ inter.depth \in Nat /\ inter.depth <= n - 1 /\ level > inter.at
               /\ inter.depth > 0 => inter.depth \in 1 .. n - 1
               /\ \A i \in 1 .. n : i > inter.depth => stack[i].saved > inter.at
    <3>1. In({"cmd", "args", "bind", "result", "done"})
      BY <1>2 DEF In, Command
    <3>2. /\ inter.depth \in Nat /\ inter.depth < n /\ level > inter.at
          /\ \A i \in 1 .. n : i > inter.depth => stack[i].saved > inter.at
      BY <1>1, <2>1, <3>1, InterBelow
    <3> QED
      BY <1>3, <3>2
  <2>2. ASSUME inter # NoInterrupt, inter.depth > 0
        PROVE  stack'[inter.depth].kind \in Running /\ inter.at > stack'[inter.depth].saved
    BY <1>1, <1>4, <1>6, <2>1, <2>2 DEF InterInv
  <2>3. ASSUME inter # NoInterrupt, NEW i \in 1 .. Len(stack'), i > inter.depth
        PROVE  stack'[i].saved > inter.at
    <3>1. i \in 1 .. n - 1 /\ i \in 1 .. n
      BY <1>3, <1>6
    <3> QED
      BY <1>6, <2>1, <2>3, <3>1
  <2>4. inter # NoInterrupt => inter.depth <= Len(stack')
    BY <1>6, <2>1
  <2> QED
    BY <1>1, <1>2, <2>1, <2>2, <2>3, <2>4 DEF InterInv
<1>17. TempInv'
  <2>1. \A e \in Entries(strtmp)' : e.level < level' /\ e.level <= level'
    BY <1>1, <1>2, <1>3, <1>9, EntryLevels
  <2>2. ASSUME NEW i \in 1 .. Len(stack'), NEW a \in stack'[i].got
        PROVE  \E e \in Entries(strtmp)' : e.at = a /\ e.level <= stack'[i].saved
    <3>1. i \in 1 .. n - 1 /\ i \in 1 .. n /\ stack'[i] = stack[i] /\ n >= 2 /\ n - 1 \in 1 .. n
      BY <1>3, <1>6
    <3>2. PICK e \in Entries(strtmp) : e.at = a /\ e.level <= stack[i].saved
      BY <1>1, <2>2, <3>1 DEF TempInv
    <3>3. stack[i].saved \in Nat /\ e.level \in Nat
      BY <1>1, <1>3, <3>1, FrameAt, EntryLevels
    <3>4. stack[i].saved <= stack[n - 1].saved /\ stack[n - 1].saved \in Nat
      <4>1. CASE i = n - 1
        BY <3>3, <4>1
      <4>2. CASE i # n - 1
        <5>1. i < n - 1
          BY <1>3, <3>1, <4>2
        <5>2. stack[n - 1].saved \in Nat
          BY <1>3, <3>1, FrameAt
        <5> QED
          BY <1>1, <3>1, <5>1, <5>2 DEF StackInv
      <4> QED
        BY <4>1, <4>2
    <3>5. e.level < level
      BY SMTT(30), <1>3, <1>12, <3>1, <3>2, <3>3, <3>4
    <3> QED
      BY <1>9, <3>1, <3>2, <3>5
  <2> QED
    BY <2>1, <2>2 DEF TempInv
<1>18. ErrorMode'
  <2>1. inter' = inter /\ owed' = owed /\ owed \in Int /\ errskip \in Int
    BY <1>1, <1>2, Types
  <2>2. inter # NoInterrupt => inter.saved = IF owed > 0 THEN owed ELSE 0
    BY <1>1 DEF ErrorMode
  <2>3. ~Idle
    BY <1>2 DEF Idle, Command
  <2>4. inter = NoInterrupt /\ owed > 0 => errskip = owed + 1
    BY <1>1, <2>3 DEF ErrorMode
  <2>5. inter = NoInterrupt /\ owed > 0 => errskip' = owed
    BY <1>2, <2>1, <2>4
  <2> QED
    BY <1>14, <2>1, <2>2, <2>5 DEF ErrorMode
<1>19. Depth'
  <2>1. DOMAIN stack' = 1 .. n - 1 /\ DOMAIN stack = 1 .. n
    BY <1>3, <1>6
  <2>2. \A i \in 1 .. n : i = n \/ i \in 1 .. n - 1
    BY <1>3
  <2>3. \A i \in 1 .. n - 1 : i \in 1 .. n
    BY <1>3
  <2>4. stack[n].kind # "args"
    BY <1>2, <1>3 DEF Command
  <2>5. \A i : i \in Waiting(stack') <=> i \in 1 .. n - 1 /\ stack'[i].kind = "args"
    BY <2>1 DEF Waiting
  <2>6. \A i : i \in Waiting(stack) <=> i \in 1 .. n /\ stack[i].kind = "args"
    BY <2>1 DEF Waiting
  <2>7. Waiting(stack') = Waiting(stack)
    <3> HIDE DEF n
    <3> QED
      BY <1>6, <2>2, <2>3, <2>4, <2>5, <2>6
  <2>8. inter' = inter /\ level' = level /\ gosub' = gosub /\ running' = running /\ untidy' = untidy
    BY <1>2
  <2>9. Balanced => Balanced'
    BY <2>7, <2>8, DepthIs, DepthNext
  <2> QED
    BY <1>1, <2>8, <2>9 DEF Depth
<1>20. Typed'
  <2>1. changed' \in BOOLEAN /\ running' \in BOOLEAN
    <3>1. changed' \in BOOLEAN
      BY <1>1, FlagTypes, Zenon DEF EndCommand, ClearTemps, temps
    <3> QED
      BY <1>1, <1>2, <3>1, FlagTypes, Zenon
  <2>2. errskip' \in Int
    BY <1>1, <1>2, Types
  <2>3. /\ vars' \subseteq [at : Pages, level : Nat] /\ level' \in Nat /\ memlevel' \in Nat
        /\ gosub' \in Seq({"sub", "fun"}) /\ mem' \in Pages \cup {NoAddr} /\ owed' \in Int
        /\ untidy' \subseteq {"strings", "call", "label", "page0"} /\ acts' \in Nat /\ interrupts' \in Nat
    BY <1>1, <1>2, Types
  <2> QED
    BY <1>6, <1>9, <2>1, <2>2, <2>3, TypesAre
<1> QED
  BY <1>7, <1>9, <1>10, <1>11, <1>15, <1>16, <1>17, <1>18, <1>19, <1>20 DEF ProgramInv

\* Frames go on, and hold and use what they did.
GoesOn(e, f) ==
    /\ f.fun = e.fun /\ f.saved = e.saved /\ f.argval = e.argval /\ f.args = e.args
    /\ f.got = e.got
    /\ f.kind = e.kind \/ (e.kind \in Running /\ f.kind \in Running)

LEMMA SetAt ==
    ASSUME NEW T, NEW d \in Seq(T), NEW k \in 1 .. Len(d), NEW g \in T
    PROVE  /\ [d EXCEPT ![k] = g] \in Seq(T) /\ Len([d EXCEPT ![k] = g]) = Len(d)
           /\ [d EXCEPT ![k] = g][k] = g
           /\ \A i \in 1 .. Len(d) : i # k => [d EXCEPT ![k] = g][i] = d[i]
OBVIOUS

LEMMA EndStack ==
    ASSUME stack \in Seq(FrameType), StackInv(stack), In({"cmd"}), Len(stack) >= 2,
           stack' = [Done EXCEPT ![Len(stack) - 1].kind = "end"]
    PROVE  /\ stack' \in Seq(FrameType) /\ Len(stack') = Len(stack) /\ stack' # <<>>
           /\ Top'.kind = "done" /\ stack'[Len(stack)].kind = "done"
           /\ \A i \in 1 .. Len(stack) : i < Len(stack) => GoesOn(stack[i], stack'[i])
           /\ \A i \in 1 .. Len(stack) :
                  i < Len(stack) /\ i # Len(stack) - 1 => stack'[i] = stack[i]
           /\ \A i \in 1 .. Len(stack) : /\ stack'[i].saved = stack[i].saved
                                         /\ stack'[i].got = stack[i].got
           /\ StackInv(stack)' /\ StackHolds(stack)' = StackHolds(stack)
           /\ Waiting(stack)' = Waiting(stack)
<1> DEFINE n == Len(stack)
           f == [Top EXCEPT !.kind = "done"]
           c == stack[n - 1]
           g == [c EXCEPT !.kind = "end"]
<1>1. stack # <<>> /\ Top.kind = "cmd"
  BY DEF In
<1>2. n \in Nat /\ n >= 2 /\ n \in 1 .. n /\ Top = stack[n] /\ Top \in FrameType
  BY <1>1, TopIs
<1>3. n - 1 \in 1 .. n /\ c \in FrameType /\ Above(c, Top)
  BY BelowTop
<1>4. c.kind \in Running
  BY <1>1, <1>3 DEF Above, Command
<1>5. /\ f \in FrameType /\ f.kind = "done" /\ f.saved = Top.saved /\ f.args = Top.args
      /\ f.got = Top.got
  BY <1>2 DEF FrameType
<1>6. g \in FrameType /\ g.kind = "end" /\ GoesOn(c, g)
  BY <1>3, <1>4 DEF FrameType, GoesOn, Running
<1> DEFINE s == SubSeq(stack, 1, n - 1)
<1>7. s \in Seq(FrameType) /\ Len(s) = n - 1 /\ \A i \in 1 .. n - 1 : s[i] = stack[i]
  <2>1. n - 1 \in Nat /\ n - 1 <= n /\ \A i \in 1 .. n - 1 : i \in 1 .. n /\ stack[i] \in FrameType
    BY <1>2
  <2> QED
    BY <2>1
<1>8. Done = Append(s, f)
  BY DEF Done, WithTop, Pop
<1> HIDE DEF s, f
<1>9. /\ Done \in Seq(FrameType) /\ Len(Done) = n /\ Done[n] = f
      /\ \A i \in 1 .. n : i < n => Done[i] = stack[i]
  <2>1. Done \in Seq(FrameType) /\ Len(Done) = (n - 1) + 1 /\ Done[(n - 1) + 1] = f
    BY <1>5, <1>7, <1>8
  <2>2. (n - 1) + 1 = n
    BY <1>2
  <2>3. \A i \in 1 .. n : i < n => i \in 1 .. n - 1
    BY <1>2
  <2>4. \A i \in 1 .. n - 1 : Done[i] = s[i]
    BY <1>5, <1>7, <1>8
  <2> QED
    BY <1>7, <2>1, <2>2, <2>3, <2>4
<1>10. Done[n - 1] = c
  BY <1>2, <1>3, <1>9
<1> DEFINE d == Done
<1>11. d \in Seq(FrameType) /\ Len(d) = n /\ d[n] = f /\ d[n - 1] = c
       /\ \A i \in 1 .. n : i < n => d[i] = stack[i]
  BY <1>9, <1>10
<1>12. stack' = [d EXCEPT ![n - 1].kind = "end"]
  OBVIOUS
<1> HIDE DEF d
<1>13. stack' = [d EXCEPT ![n - 1] = g]
  <2>1. [d[n - 1] EXCEPT !.kind = "end"] = g
    BY <1>11
  <2> QED
    BY <1>12, <2>1
<1> HIDE DEF g, c
<1>14. /\ stack' \in Seq(FrameType) /\ Len(stack') = n /\ stack'[n - 1] = g
       /\ \A i \in 1 .. n : i # n - 1 => stack'[i] = d[i]
  <2>1. n - 1 \in 1 .. Len(d)
    BY <1>3, <1>11
  <2> DEFINE k == n - 1
             u == [d EXCEPT ![k] = g]
  <2>3. u = stack' /\ k \in 1 .. Len(d)
    BY <1>13, <2>1, Zenon
  <2> HIDE DEF k
  <2>4. /\ u \in Seq(FrameType) /\ Len(u) = Len(d) /\ u[k] = g
        /\ \A i \in 1 .. Len(d) : i # k => u[i] = d[i]
    BY <1>6, <1>11, <2>3, SetAt
  <2> HIDE DEF u
  <2>2. /\ stack' \in Seq(FrameType) /\ Len(stack') = Len(d) /\ stack'[n - 1] = g
        /\ \A i \in 1 .. Len(d) : i # n - 1 => stack'[i] = d[i]
    BY <2>3, <2>4, Zenon DEF k
  <2> QED
    BY <1>11, <2>2, Zenon
<1>15. stack'[n] = f /\ stack' # <<>> /\ Top'.kind = "done"
  <2>1. n # n - 1
    BY <1>2
  <2>2. stack'[n] = f
    BY <1>2, <1>11, <1>14, <2>1
  <2>3. stack' # <<>>
    BY <1>2, <1>14
  <2> QED
    BY <1>5, <1>14, <2>2, <2>3 DEF Top
<1>16. \A i \in 1 .. n : i < n /\ i # n - 1 => stack'[i] = stack[i]
  BY <1>11, <1>14
<1>17. \A i \in 1 .. n : i < n => GoesOn(stack[i], stack'[i])
  BY <1>6, <1>14, <1>16 DEF GoesOn, c
<1>18. \A i \in 1 .. n : i = n \/ i < n
  BY <1>2
<1>19. \A i \in 1 .. n : stack'[i].saved = stack[i].saved /\ stack'[i].got = stack[i].got
  BY <1>2, <1>5, <1>15, <1>17, <1>18 DEF GoesOn
<1>20. FrameOk(Top)
  BY <1>1, <1>2 DEF StackInv
<1>21. FrameOk(f) /\ Own(f) = {} /\ Own(Top) = {}
  BY <1>1, <1>5, <1>20 DEF FrameOk, Own, Buffer
<1>22. \A i \in 1 .. n : FrameOk(stack'[i]) /\ Own(stack'[i]) = Own(stack[i])
  <2> SUFFICES ASSUME NEW i \in 1 .. n
               PROVE  FrameOk(stack'[i]) /\ Own(stack'[i]) = Own(stack[i])
    OBVIOUS
  <2>1. CASE i = n
    BY <1>2, <1>15, <1>21, <2>1
  <2>2. CASE i < n
    <3>1. GoesOn(stack[i], stack'[i]) /\ FrameOk(stack[i])
      BY <1>17, <2>2 DEF StackInv
    <3> QED
      BY <3>1 DEF GoesOn, FrameOk, Own, Buffer, Running
  <2> QED
    BY <1>18, <2>1, <2>2
<1>23. \A i \in 1 .. n : i + 1 \in 1 .. n => Above(stack'[i], stack'[i + 1])
  <2> SUFFICES ASSUME NEW i \in 1 .. n, i + 1 \in 1 .. n
               PROVE  Above(stack'[i], stack'[i + 1])
    OBVIOUS
  <2>1. Above(stack[i], stack[i + 1]) /\ i < n
    BY <1>2 DEF StackInv
  <2>2. GoesOn(stack[i], stack'[i])
    BY <1>17, <2>1
  <2>3. CASE i + 1 = n
    <3>1. stack[i + 1] = Top /\ stack'[i + 1] = f
      BY <1>2, <1>15, <2>3
    <3>2. Above(stack[i], Top)
      BY <2>1, <3>1
    <3>3. Above(stack'[i], f)
      BY <1>1, <1>5, <2>2, <3>2 DEF Above, GoesOn, Command
    <3> QED
      BY <3>1, <3>3
  <2>4. CASE i + 1 < n
    <3>1. GoesOn(stack[i + 1], stack'[i + 1])
      BY <1>17, <2>4
    <3> QED
      BY <2>1, <2>2, <3>1 DEF Above, GoesOn, Running, Calling, Command
  <2> QED
    BY <1>18, <2>3, <2>4
<1>24. StackInv(stack)'
  <2>1. stack'[1].kind \in Command
    <3>3. 1 \in 1 .. n /\ 1 < n
      BY <1>2
    <3>1. GoesOn(stack[1], stack'[1])
      BY <1>17, <3>3, Zenon
    <3>2. stack[1].kind \in Command
      BY <1>1 DEF StackInv
    <3> QED
      BY <3>1, <3>2 DEF GoesOn, Command, Running
  <2>2. \A i, j \in 1 .. n : i < j =>
           /\ stack'[i].saved <= stack'[j].saved
           /\ Own(stack'[i]) \cap Own(stack'[j]) = {}
           /\ stack'[i].got \cap stack'[j].got = {}
    BY <1>19, <1>22 DEF StackInv
  <2> QED
    BY <1>14, <1>22, <1>23, <2>1, <2>2 DEF StackInv
<1>25. StackHolds(stack)' = StackHolds(stack)
  <2>1. \A a : a \in StackHolds(stack) <=> \E i \in 1 .. n : a \in Own(stack[i])
    BY StackHolder
  <2>2. \A a : a \in StackHolds(stack') <=> \E i \in 1 .. n : a \in Own(stack'[i])
    <3>1. \A a : a \in StackHolds(stack') <=> \E i \in 1 .. Len(stack') : a \in Own(stack'[i])
      BY <1>14, StackHolder
    <3> QED
      BY <1>14, <3>1
  <2>3. \A a : a \in StackHolds(stack') <=> a \in StackHolds(stack)
    BY <1>22, <2>1, <2>2
  <2> QED
    BY <2>3
<1>26. Waiting(stack)' = Waiting(stack)
  <2>1. DOMAIN stack' = 1 .. n /\ DOMAIN stack = 1 .. n
    BY <1>14
  <2>2. \A i \in 1 .. n : stack'[i].kind = "args" <=> stack[i].kind = "args"
    BY <1>1, <1>2, <1>5, <1>15, <1>17, <1>18 DEF GoesOn, Running
  <2> QED
    BY <2>1, <2>2 DEF Waiting
<1>27. stack'[n].kind = "done"
  BY <1>5, <1>15
<1> QED
  BY <1>14, <1>15, <1>16, <1>17, <1>19, <1>24, <1>25, <1>26, <1>27

LEMMA EndFunInv ==
    ASSUME ProgramInv, cmd_endfun
    PROVE  ProgramInv'
<1>1. /\ Typed /\ HeapInv /\ StackInv(stack) /\ TableInv(strtmp) /\ HoldInv
      /\ MemIsCurrent /\ LevelInv /\ InterInv /\ TempInv /\ ErrorMode /\ Depth
  BY DEF ProgramInv
<1> DEFINE n == Len(stack)
<1>2. /\ In({"cmd"}) /\ stack # <<>> /\ Top.kind = "cmd" /\ level = Base /\ inter.depth # n - 1
      /\ stack' = [Done EXCEPT ![Len(stack) - 1].kind = "end"]
      /\ UNCHANGED <<bits, live, vars, strtmp, changed, level, gosub, mem, memlevel, left, errskip,
                     inter, running, owed, untidy, acts, interrupts>>
  BY DEF cmd_endfun, In, heapVars, temps, depth, setup, mode, bounds
<1>3. /\ stack \in Seq(FrameType) /\ level \in Nat /\ n \in Nat /\ n >= 1 /\ Top = stack[n]
  BY <1>1, <1>2, Types, TopIs
<1>4. running
  BY <1>1, <1>2 DEF LevelInv
<1>5. In({"cmd", "args", "bind", "result", "done"}) /\ In({"cmd", "args", "bind", "result"}) /\ ~In({"done"})
      /\ ~In({"args", "bind"})
  BY <1>2 DEF In
<1>6. inter # NoInterrupt =>
          /\ inter.depth \in Nat /\ inter.at \in Nat /\ inter.depth < n /\ level > inter.at
          /\ \A i \in 1 .. n : i > inter.depth => stack[i].saved > inter.at
  BY <1>1, <1>5, InterBelow
<1>7. n >= 2 /\ n # 1
  <2>1. \A j \in Nat : j >= 1 => j = 1 \/ (j >= 2 /\ j # 1)
    OBVIOUS
  <2>2. n = 1 \/ (n >= 2 /\ n # 1)
    BY <1>3, <2>1, Zenon
  <2>3. ASSUME n = 1 PROVE FALSE
    <3>1. inter.depth # 0
      BY <1>2, <2>3
    <3>2. inter # NoInterrupt
      BY <3>1 DEF NoInterrupt
    <3>3. inter.depth \in Nat /\ inter.depth < 1
      BY <1>6, <2>3, <3>2
    <3> QED
      BY <3>1, <3>3
  <2> QED
    BY <2>2, <2>3
<1>8. level = stack[n - 1].saved + 1 /\ n - 1 \in 1 .. n /\ stack[n - 1].saved \in Nat
  <2>1. n - 1 \in 1 .. n /\ stack[n - 1].saved \in Nat
    BY <1>1, <1>3, <1>7, BelowTop
  <2>2. Base = stack[n - 1].saved + 1
    BY <1>2, <1>7 DEF Base
  <2> QED
    BY <1>2, <2>1, <2>2
<1>9. /\ stack' \in Seq(FrameType) /\ Len(stack') = Len(stack) /\ stack' # <<>>
      /\ Top'.kind = "done" /\ stack'[Len(stack)].kind = "done"
      /\ \A i \in 1 .. Len(stack) : i < Len(stack) => GoesOn(stack[i], stack'[i])
      /\ \A i \in 1 .. Len(stack) :
             i < Len(stack) /\ i # Len(stack) - 1 => stack'[i] = stack[i]
      /\ \A i \in 1 .. Len(stack) : /\ stack'[i].saved = stack[i].saved
                                    /\ stack'[i].got = stack[i].got
      /\ StackInv(stack)' /\ StackHolds(stack)' = StackHolds(stack)
      /\ Waiting(stack)' = Waiting(stack)
  BY <1>1, <1>2, <1>3, <1>7, EndStack
<1>10. HeapInv'
  BY <1>1, <1>2 DEF HeapInv, HeapType, Whole, Apart, NoPageLost, Block
<1>11. HoldInv'
  <2>1. Addrs(Entries(strtmp))' = Addrs(Entries(strtmp)) /\ Addrs(vars)' = Addrs(vars)
    BY <1>2
  <2> QED
    BY <1>1, <1>2, <1>9, <2>1 DEF HoldInv
<1>12. /\ In({"done"})' /\ ~Idle' /\ ~In(Calling)' /\ ~In({"bind", "result"})' /\ ~In(Running)'
       /\ ~In({"args", "bind"})'
  BY <1>9 DEF In, Idle, Calling, Running
<1>13. MemIsCurrent'
  BY <1>1, <1>2, <1>5 DEF MemIsCurrent
<1>14. LevelInv'
  <2>1. level' > stack'[Len(stack') - 1].saved
    <3>1. Len(stack') - 1 = n - 1 /\ stack'[n - 1].saved = stack[n - 1].saved
      BY <1>8, <1>9
    <3> HIDE DEF n
    <3> QED
      BY <1>2, <1>8, <3>1
  <2>2. ASSUME NEW i \in 1 .. Len(stack'), stack'[i].kind = "end"
        PROVE  IF inter # NoInterrupt /\ inter.depth = i THEN inter.at = stack'[i].saved + 1
               ELSE level = stack'[i].saved + 1 /\ i = Len(stack') - 1
    <3>1. i \in 1 .. n /\ i # n
      BY <1>9, <2>2
    <3>2. CASE i = n - 1
      BY <1>2, <1>8, <1>9, <3>2
    <3>3. CASE i # n - 1
      <4>1. stack'[i] = stack[i] /\ stack[i].kind = "end"
        BY <1>3, <1>9, <2>2, <3>1, <3>3
      <4> QED
        BY <1>1, <1>5, <3>1, <3>3, <4>1 DEF LevelInv
    <3> QED
      BY <3>2, <3>3
  <2> QED
    BY <1>2, <1>4, <1>12, <2>1, <2>2 DEF LevelInv
<1>15. InterInv'
  <2>1. ASSUME inter # NoInterrupt, inter.depth > 0
        PROVE  stack'[inter.depth].kind \in Running /\ inter.at > stack'[inter.depth].saved
    <3>1. inter.depth \in 1 .. n /\ inter.depth < n /\ inter.depth # n - 1
      BY <1>2, <1>3, <1>6, <2>1
    <3>2. stack'[inter.depth] = stack[inter.depth]
      BY <1>9, <3>1
    <3> QED
      BY <1>1, <1>4, <2>1, <3>2 DEF InterInv
  <2>2. inter # NoInterrupt => inter.depth <= Len(stack')
    BY <1>3, <1>6, <1>9
  <2>3. inter # NoInterrupt => \A i \in 1 .. Len(stack') : i > inter.depth => stack'[i].saved > inter.at
    BY <1>6, <1>9
  <2>4. inter' = inter /\ level' = level /\ running' = running
    BY <1>2
  <2> QED
    BY <1>1, <1>6, <2>1, <2>2, <2>3, <2>4 DEF InterInv
<1>16. TempInv'
  <2>1. Entries(strtmp)' = Entries(strtmp)
    BY <1>2
  <2>2. \A i \in 1 .. Len(stack') : \A a \in stack'[i].got :
           \E e \in Entries(strtmp)' : e.at = a /\ e.level <= stack'[i].saved
    BY <1>1, <1>9, <2>1 DEF TempInv
  <2>3. ~changed' => \A e \in Entries(strtmp)' : e.level < level'
    BY <1>1, <1>2, <2>1 DEF TempInv
  <2> QED
    BY <1>12, <2>2, <2>3 DEF TempInv
<1>17. ErrorMode'
  <2>1. inter # NoInterrupt \/ ~(owed > 0)
    BY <1>1, <1>5, ModeSettled
  <2> QED
    BY <1>1, <1>2, <2>1 DEF ErrorMode
<1>18. Depth'
  <2>1. inter' = inter /\ level' = level /\ gosub' = gosub /\ running' = running /\ untidy' = untidy
    BY <1>2
  <2>2. Waiting(stack') = Waiting(stack)
    BY <1>9
  <2>3. Balanced => Balanced'
    BY <2>1, <2>2, DepthIs, DepthNext
  <2> QED
    BY <1>1, <2>1, <2>3 DEF Depth
<1>19. TableInv(strtmp)'
  BY <1>1, <1>2
<1>20. Typed'
  <2>1. changed' \in BOOLEAN /\ running' \in BOOLEAN
    BY <1>1, <1>2, FlagTypes, Zenon
  <2>2. /\ vars' \subseteq [at : Pages, level : Nat] /\ level' \in Nat /\ memlevel' \in Nat
        /\ gosub' \in Seq({"sub", "fun"}) /\ mem' \in Pages \cup {NoAddr} /\ errskip' \in Int
        /\ owed' \in Int
        /\ untidy' \subseteq {"strings", "call", "label", "page0"} /\ acts' \in Nat /\ interrupts' \in Nat
    BY <1>1, <1>2, Types
  <2> QED
    BY <1>9, <1>10, <1>19, <2>1, <2>2, TypesAre
<1> QED
  BY <1>9, <1>10, <1>11, <1>13, <1>14, <1>15, <1>16, <1>17, <1>18, <1>19, <1>20 DEF ProgramInv

-----------------------------------------------------------------------------
(* Interrupts, and RUN.                                                    *)

LEMMA InterruptInv ==
    ASSUME ProgramInv, NEW sub \in BOOLEAN, GotAnInterrupt(sub)
    PROVE  ProgramInv'
<1>1. /\ Typed /\ HeapInv /\ StackInv(stack) /\ TableInv(strtmp) /\ HoldInv
      /\ MemIsCurrent /\ LevelInv /\ InterInv /\ TempInv /\ ErrorMode /\ Depth
  BY DEF ProgramInv
<1> DEFINE n == Len(stack)
           new == [saved |-> IF errskip > 0 THEN errskip ELSE 0, at |-> level, depth |-> n]
<1>2. /\ Idle /\ running /\ inter = NoInterrupt /\ interrupts' = interrupts + 1
      /\ level' = level + (IF sub THEN 2 ELSE 1)
      /\ gosub' = (IF sub THEN Append(gosub, "sub") ELSE gosub)
      /\ inter' = new /\ owed' = errskip /\ errskip' = 0
      /\ UNCHANGED <<bits, live, stack, vars, strtmp, changed, mem, memlevel, left, running, untidy, acts>>
  BY DEF GotAnInterrupt, heapVars, temps, setup
<1>3. /\ stack \in Seq(FrameType) /\ level \in Nat /\ gosub \in Seq({"sub", "fun"})
      /\ errskip \in Int /\ n \in Nat /\ interrupts \in Nat
  BY <1>1, Types
<1>4. new \in InterType /\ new.at = level /\ new.depth = n
      /\ new.saved = (IF errskip > 0 THEN errskip ELSE 0)
  BY <1>3 DEF InterType
<1>5. new # NoInterrupt
  BY <1>3, <1>4 DEF NoInterrupt, NoAddr
<1> HIDE DEF new
<1>6. level' \in Nat /\ level' > level
  BY <1>2, <1>3
<1>7. ASSUME stack # <<>>
      PROVE  Top.kind \in Running /\ level > Top.saved /\ Top = stack[n] /\ Top.saved \in Nat
  <2>1. Top.kind \in Running
    BY <1>2, <1>7 DEF Idle, Running
  <2>2. In(Running)
    BY <1>7, <2>1 DEF In
  <2>3. Top = stack[n] /\ n \in 1 .. n
    BY <1>3, <1>7, TopIs
  <2>4. Top.saved \in Nat
    BY <1>3, <2>3, FrameAt
  <2> QED
    BY <1>1, <2>1, <2>2, <2>3, <2>4 DEF LevelInv
<1>8. ~In(Calling) /\ ~In({"bind", "result"}) /\ ~In({"done"}) /\ ~In({"args", "bind"})
  BY <1>7 DEF In, Running, Calling
<1>9. HeapInv'
  BY <1>1, <1>2 DEF HeapInv, HeapType, Whole, Apart, NoPageLost, Block
<1>10. StackInv(stack)' /\ TableInv(strtmp)'
  BY <1>1, <1>2
<1>11. HoldInv'
  BY <1>1, <1>2 DEF HoldInv
<1>12. MemIsCurrent'
  BY <1>1, <1>2, <1>8 DEF MemIsCurrent
<1>13. /\ (In(Calling)' <=> In(Calling)) /\ (In({"bind", "result"})' <=> In({"bind", "result"}))
       /\ (In({"done"})' <=> In({"done"})) /\ (In(Running)' <=> In(Running)) /\ (Idle' <=> Idle)
       /\ Top' = Top /\ stack' = stack
  BY <1>2 DEF In, Idle, Top
<1>14. LevelInv'
  <2>1. In(Running)' => level' > Top'.saved
    BY <1>3, <1>6, <1>7, <1>13 DEF In
  <2>2. ASSUME NEW i \in 1 .. Len(stack), stack[i].kind = "end"
        PROVE  inter'.depth = i /\ inter'.at = stack[i].saved + 1
    <3>1. level = stack[i].saved + 1 /\ i = n
      BY <1>1, <1>2, <1>8, <2>2 DEF LevelInv
    <3> QED
      BY <1>2, <1>4, <3>1
  <2>3. running'
    BY <1>2
  <2> QED
    BY <1>2, <1>5, <1>8, <1>13, <2>1, <2>2, <2>3 DEF LevelInv
<1>15. InterInv'
  <2>1. inter' \in InterType /\ inter'.at = level /\ inter'.depth = n
    BY <1>2, <1>4
  <2>2. n > 0 => stack[n].kind \in Running /\ level > stack[n].saved
    <3>1. n > 0 => stack # <<>>
      BY <1>3
    <3> QED
      BY <1>7, <3>1
  <2>3. \A i \in 1 .. n : ~(i > n)
    BY <1>3
  <2>4. n <= n
    BY <1>3
  <2> QED
    BY <1>3, <1>6, <1>13, <2>1, <2>2, <2>3, <2>4 DEF InterInv
<1>16. TempInv'
  <2>1. Entries(strtmp)' = Entries(strtmp)
    BY <1>2
  <2>2. \A e \in Entries(strtmp) : e.level < level /\ e.level \in Nat
    BY <1>1, <1>2, EntryLevels DEF TempInv
  <2>3. \A e \in Entries(strtmp) : e.level < level' /\ e.level <= level'
    BY <1>3, <1>6, <2>2
  <2>4. \A i \in 1 .. Len(stack) : \A a \in stack[i].got :
           \E e \in Entries(strtmp) : e.at = a /\ e.level <= stack[i].saved
    BY <1>1 DEF TempInv
  <2> QED
    BY <1>13, <2>1, <2>3, <2>4 DEF TempInv
<1>17. ErrorMode'
  BY <1>2, <1>4, <1>5 DEF ErrorMode
<1>18. gosub' \in Seq({"sub", "fun"}) /\ Len(gosub') = Len(gosub) + (IF sub THEN 1 ELSE 0)
       /\ Len(gosub) \in Nat
  <2>1. CASE sub
    BY <1>2, <1>3, <2>1
  <2>2. CASE ~sub
    BY <1>2, <1>3, <2>2
  <2> QED
    BY <2>1, <2>2
<1>19. Depth'
  <2>1. Cardinality(Waiting(stack)) \in Nat /\ Waiting(stack') = Waiting(stack)
    BY <1>3, <1>13, WaitingCount
  <2>2. ASSUME Balanced PROVE Balanced'
    <3>1. Len(gosub) = level + Cardinality(Waiting(stack))
      BY <1>2, <1>18, <2>2, DepthIs
    <3>2. Len(gosub') + 1 = level' + Cardinality(Waiting(stack'))
      <4>1. Len(gosub') = Len(gosub) + (IF sub THEN 1 ELSE 0) /\ Len(gosub) \in Nat
        BY <1>18
      <4>2. level' = level + (IF sub THEN 2 ELSE 1)
        BY <1>2
      <4> QED
        BY <1>3, <2>1, <3>1, <4>1, <4>2
    <3>3. inter' # NoInterrupt
      BY <1>2, <1>5
    <3> QED
      BY <3>2, <3>3, DepthNext
  <2> QED
    BY <1>1, <1>2, <2>2 DEF Depth
<1>20. Typed'
  <2>1. changed' \in BOOLEAN /\ running' \in BOOLEAN
    BY <1>1, <1>2, FlagTypes, Zenon
  <2>2. /\ stack' \in Seq(FrameType) /\ vars' \subseteq [at : Pages, level : Nat]
        /\ memlevel' \in Nat /\ mem' \in Pages \cup {NoAddr}
        /\ untidy' \subseteq {"strings", "call", "label", "page0"} /\ acts' \in Nat
    BY <1>1, <1>2, Types
  <2>3. errskip' \in Int /\ owed' \in Int /\ interrupts' \in Nat
    BY <1>2, <1>3
  <2> QED
    BY <1>6, <1>9, <1>10, <1>18, <2>1, <2>2, <2>3, TypesAre
<1> QED
  BY <1>9, <1>10, <1>11, <1>12, <1>14, <1>15, <1>16, <1>17, <1>19, <1>20 DEF ProgramInv

\* A program that has not begun.
Fresh ==
    /\ live = {}
    /\ stack = <<>> /\ vars = {} /\ strtmp = <<>>
    /\ level = 0 /\ gosub = <<>> /\ (mem # NoAddr => left)
    /\ errskip = 0 /\ inter = NoInterrupt /\ running = TRUE
    /\ owed = 0 /\ untidy = {}

LEMMA FreshIs ==
    ASSUME Fresh, HeapInv, Typed
    PROVE  ProgramInv
<1>1. stack = <<>> /\ vars = {} /\ strtmp = <<>> /\ inter = NoInterrupt /\ running = TRUE
      /\ live = {} /\ (mem # NoAddr => left) /\ level = 0 /\ gosub = <<>> /\ owed = 0
  BY DEF Fresh
<1>2. Len(stack) = 0 /\ Len(strtmp) = 0 /\ Len(gosub) = 0
  BY <1>1
<1>3. StackInv(stack)
  BY <1>1, <1>2 DEF StackInv
<1>4. TableInv(strtmp)
  BY <1>1, <1>2 DEF TableInv
<1>5. Entries(strtmp) = {}
  BY <1>1 DEF Entries
<1>6. HoldInv
  <2>1. StackHolds(stack) = {}
    BY <1>1 DEF StackHolds
  <2> QED
    BY <1>1, <1>5, <2>1 DEF HoldInv, Addrs
<1>7. MemIsCurrent
  BY <1>1 DEF MemIsCurrent
<1>8. LevelInv
  BY <1>1, <1>2 DEF LevelInv, In
<1>9. InterInv
  BY <1>1 DEF InterInv, InterType, NoInterrupt
<1>10. TempInv
  BY <1>2, <1>5 DEF TempInv
<1>11. ErrorMode
  BY <1>1 DEF ErrorMode
<1>12. Depth
  <2>1. Waiting(stack) = {}
    BY <1>1 DEF Waiting
  <2>2. Cardinality(Waiting(stack)) = 0
    BY <2>1, FS_EmptySet
  <2>3. Balanced
    BY <1>1, <1>2, <2>2, DepthIs
  <2> QED
    BY <2>3 DEF Depth
<1> QED
  BY <1>3, <1>4, <1>6, <1>7, <1>8, <1>9, <1>10, <1>11, <1>12 DEF ProgramInv

LEMMA CallsInit ==
    ASSUME Init
    PROVE  ProgramInv
<1>1. HeapInv
  BY InitInv DEF Init
<1>2. Typed
  <2>1. /\ stack = <<>> /\ vars = {} /\ strtmp = <<>> /\ level = 0 /\ memlevel = 0 /\ gosub = <<>>
        /\ mem = NoAddr /\ errskip = 0 /\ owed = 0 /\ untidy = {} /\ acts = 0 /\ interrupts = 0
    BY DEF Init
  <2>2. {changed, running} \subseteq BOOLEAN
    BY Zenon DEF Init
  <2>3. bits \in [Pages -> {"free", "used", "last"}] /\ live \subseteq Pages
    BY <1>1 DEF HeapInv, HeapType
  <2> QED
    BY <2>1, <2>2, <2>3 DEF Typed, Shaped
<1>3. Fresh
  BY DEF Init, Fresh, HeapInit
<1> QED
  BY <1>1, <1>2, <1>3, FreshIs

LEMMA ClearRuntimeInv ==
    ASSUME CallsInv, ClearRuntime
    PROVE  ProgramInv'
<1>1. Shaped /\ (Sound => ProgramInv)
  BY DEF CallsInv, ProgramInv, Typed, LostInv, Sound
<1>2. /\ ~running /\ InitHeap
      /\ stack' = <<>> /\ vars' = {} /\ strtmp' = <<>> /\ level' = 0 /\ gosub' = <<>>
      /\ errskip' = 0 /\ inter' = NoInterrupt /\ running' = TRUE /\ owed' = 0 /\ untidy' = {}
      /\ UNCHANGED <<memlevel, acts, interrupts>>
  BY DEF ClearRuntime, bounds
<1>3. HeapInv' /\ live' = {}
  BY <1>2, ResetInv DEF InitHeap
<1>4. mem' \in Pages \cup {NoAddr} /\ (mem' # NoAddr => left')
  <2>1. CASE Sound
    <3>1. stack = <<>> /\ MemIsCurrent /\ mem' = mem /\ left' = left
      BY <1>1, <1>2, <2>1 DEF ProgramInv, LevelInv, ClearRuntime, Sound
    <3> QED
      BY <1>1, <3>1 DEF MemIsCurrent, In, Shaped
  <2>2. CASE ~Sound
    BY <2>2 DEF ClearRuntime, Sound
  <2> QED
    BY <2>1, <2>2
<1>5. TableInv(strtmp)'
  BY <1>2 DEF TableInv
<1>6. Typed'
  <2>1. changed' \in BOOLEAN /\ running' \in BOOLEAN
    BY Zenon DEF ClearRuntime
  <2>2. /\ stack' \in Seq(FrameType) /\ vars' \subseteq [at : Pages, level : Nat]
        /\ level' \in Nat /\ memlevel' \in Nat /\ gosub' \in Seq({"sub", "fun"})
        /\ errskip' \in Int /\ owed' \in Int
        /\ untidy' \subseteq {"strings", "call", "label", "page0"} /\ acts' \in Nat /\ interrupts' \in Nat
    BY <1>1, <1>2 DEF Shaped
  <2> QED
    BY <1>3, <1>4, <1>5, <2>1, <2>2, TypesAre
<1>7. Fresh'
  BY <1>2, <1>3, <1>4 DEF Fresh
<1> QED
  BY <1>3, <1>6, <1>7, FreshIs, PTL

-----------------------------------------------------------------------------
(* Errors.                                                                 *)

\* What error() gives back: temporaries, the buffer and the locals of the call.
Fails(back, locals) ==
    /\ FreeMemory(TempsFreed(back) \cup ({mem} \ {NoAddr})
                  \cup IF locals THEN VarsFreed(level) ELSE {})
    /\ ClearTemps(back)
    /\ vars' = IF locals THEN vars \ VarsCleared(level) ELSE vars

LEMMA FailHolds ==
    ASSUME ProgramInv, ~left, NEW m, Cuts(m), m < Len(stack), NEW back \in Nat, NEW locals,
           Fails(back, locals), untidy \subseteq untidy',
           running' /\ untidy' = {} => /\ running
                                       /\ \A a \in StackHolds(stack) \ StackHolds(stack)' : a = mem
                                       /\ locals => 0 \notin Addrs(VarsCleared(level))
    PROVE  /\ HeapInv' /\ TableInv(strtmp)' /\ HoldInv'
           /\ Entries(strtmp)' = {e \in Entries(strtmp) : e.level < back}
           /\ vars' \subseteq [at : Pages, level : Nat] /\ changed' \in BOOLEAN
<1>1. Typed /\ HeapInv /\ StackInv(stack) /\ TableInv(strtmp) /\ HoldInv /\ MemIsCurrent
  BY DEF ProgramInv
<1>2. stack \in Seq(FrameType) /\ vars \subseteq [at : Pages, level : Nat]
  BY <1>1, Types
<1> DEFINE out == Addrs({e \in Entries(strtmp) : ~(e.level < back)})
           C == IF locals THEN VarsCleared(level) ELSE {}
           buf == {mem} \ {NoAddr}
<1>3. C \subseteq vars /\ vars' = vars \ C
  BY DEF Fails, VarsCleared
<1>4. (IF locals THEN VarsFreed(level) ELSE {}) = Addrs(C) \ {0}
  <2>1. CASE locals
    BY <2>1 DEF VarsFreed, Addrs
  <2>2. CASE ~locals
    BY <2>2 DEF Addrs
  <2> QED
    BY <2>1, <2>2
<1>5. locals \/ C = {}
  OBVIOUS
<1>6. /\ TableInv(strtmp)' /\ TempsFreed(back) = out
      /\ Entries(strtmp)' = {e \in Entries(strtmp) : e.level < back}
  BY <1>1, TableCut DEF Fails
<1>7. FreeMemory(out \cup buf \cup (Addrs(C) \ {0}))
  BY <1>4, <1>6 DEF Fails
<1>8. locals /\ 0 \in Addrs(C) => 0 \in Addrs(VarsCleared(level))
  OBVIOUS
<1> HIDE DEF C
<1>9. out \subseteq Addrs(Entries(strtmp)) /\ Addrs(Entries(strtmp))' = Addrs(Entries(strtmp)) \ out
  BY <1>1, <1>6, ScanFrees
<1>10. Addrs(C) \subseteq Addrs(vars) /\ Addrs(vars') = Addrs(vars) \ Addrs(C)
  BY <1>1, <1>3 DEF Addrs, HoldInv
<1>11. Addrs({}) = {}
  BY DEF Addrs
<1>12. /\ StackHolds(stack)' \subseteq StackHolds(stack)
       /\ StackHolds(stack)' \cap Own(Top) = {}
  BY <1>1, <1>2, CutHolds
<1>13. buf \subseteq StackHolds(stack) /\ buf \cap StackHolds(stack)' = {}
  <2>1. buf \subseteq Own(Top) /\ (buf # {} => stack # <<>>)
    BY <1>1 DEF MemIsCurrent, In, Own, Buffer
  <2>2. stack # <<>> => Own(Top) \subseteq StackHolds(stack)
    <3> SUFFICES ASSUME stack # <<>> PROVE \A a \in Own(Top) : a \in StackHolds(stack)
      OBVIOUS
    <3>1. Top = stack[Len(stack)] /\ Len(stack) \in 1 .. Len(stack)
      BY <1>2, TopIs
    <3> QED
      BY <1>2, <3>1, StackHolder
  <2> HIDE DEF buf
  <2> QED
    BY <1>12, <2>1, <2>2
<1>14. running' /\ untidy' = {} =>
           /\ running /\ untidy = {} /\ 0 \notin Addrs(C)
           /\ \A a \in StackHolds(stack) \ StackHolds(stack)' : a \in buf
  <2> SUFFICES ASSUME running', untidy' = {}
               PROVE  /\ running /\ untidy = {} /\ 0 \notin Addrs(C)
                      /\ \A a \in StackHolds(stack) \ StackHolds(stack)' : a \in buf
    OBVIOUS
  <2>1. running /\ untidy = {}
    OBVIOUS
  <2>2. 0 \notin Addrs(C)
    BY <1>5, <1>8, <1>11
  <2>3. ASSUME NEW a \in StackHolds(stack) \ StackHolds(stack)' PROVE a \in buf
    <3>1. a \in live
      BY <1>1 DEF HoldInv
    <3>2. a \in Pages
      BY <1>1, <3>1 DEF HeapInv, HeapType
    <3>3. a # NoAddr
      BY <3>2, HeapAssumption DEF Pages, NoAddr
    <3> QED
      BY <3>3
  <2> QED
    BY <2>1, <2>2, <2>3
<1> HIDE DEF out, buf
<1>15. HeapInv' /\ live' = live \ (out \cup buf \cup (Addrs(C) \ {0}))
  <2>1. out \cup buf \cup (Addrs(C) \ {0}) \subseteq live
    BY <1>1, <1>9, <1>10, <1>13 DEF HoldInv
  <2> QED
    BY <1>1, <1>7, <2>1, Frees
<1>16. HoldInv'
  <2>1. /\ Addrs(vars)' \cup Addrs(Entries(strtmp))' \cup StackHolds(stack)' \subseteq live'
        /\ Addrs(vars)' \cap Addrs(Entries(strtmp))' = {}
        /\ Addrs(vars)' \cap StackHolds(stack)' = {}
        /\ Addrs(Entries(strtmp))' \cap StackHolds(stack)' = {}
    BY <1>1, <1>9, <1>10, <1>12, <1>13, <1>15 DEF HoldInv
  <2>2. \A v, w \in vars' : v.at = w.at => v = w
    BY <1>1, <1>3 DEF HoldInv
  <2>3. running' /\ untidy' = {} =>
            live' \subseteq Addrs(vars)' \cup Addrs(Entries(strtmp))' \cup StackHolds(stack)'
    BY <1>1, <1>9, <1>10, <1>14, <1>15 DEF HoldInv
  <2> QED
    BY <2>1, <2>2, <2>3 DEF HoldInv
<1>17. vars' \subseteq [at : Pages, level : Nat]
  BY <1>2, <1>3
<1>18. changed' \in BOOLEAN
  BY <1>1, FlagTypes, Zenon DEF Fails, ClearTemps
<1> QED
  BY <1>6, <1>15, <1>16, <1>17, <1>18

\* An error leaves its command, with the calls it was in, or the program.
LEMMA ErrorStep ==
    ASSUME ProgramInv, ~left, In({"cmd", "args", "bind", "result"}),
           NEW calls \in Seq({"sub", "fun"}), NEW lv \in Nat, error(calls, lv),
           untidy \subseteq untidy', untidy' \subseteq {"strings", "call", "label", "page0"},
           untidy' = {} => /\ LeftBehind = {}
                           /\ mem # NoAddr /\ level # lv => PageZeroLost(level) = {},
           errskip # 0 => Depth'
    PROVE  ProgramInv'
<1>1. /\ Typed /\ HeapInv /\ StackInv(stack) /\ TableInv(strtmp) /\ HoldInv
      /\ MemIsCurrent /\ LevelInv /\ InterInv /\ TempInv /\ ErrorMode /\ Depth
  BY DEF ProgramInv
<1> DEFINE n == Len(stack)
           x == Innermost
           skip == errskip # 0
           m == IF skip THEN x - 1 ELSE 0
           back == IF skip THEN stack[x].saved ELSE 0
           locals == mem # NoAddr /\ level # lv
<1>2. /\ Fails(back, locals) /\ gosub' = (IF mem = NoAddr THEN calls ELSE SubSeq(calls, 1, Len(calls) - 1))
      /\ mem' = NoAddr /\ memlevel' = lv /\ level' = back
      /\ stack' = (IF skip THEN SubSeq(stack, 1, x - 1) ELSE <<>>)
      /\ running' = skip /\ errskip' = (IF errskip > 0 THEN errskip - 1 ELSE errskip)
      /\ UNCHANGED <<inter, owed, acts, interrupts>>
  BY DEF error, Fails, bounds
<1>3. /\ stack \in Seq(FrameType) /\ n \in Nat /\ stack # <<>> /\ n >= 1 /\ Top = stack[n]
      /\ n \in 1 .. n /\ Top.kind \in {"cmd", "args", "bind", "result"} /\ errskip \in Int
  BY <1>1, Types, TopIs DEF In
<1>4. running
  BY <1>1, <1>3 DEF LevelInv
<1>5. /\ x \in 1 .. n /\ x \in Nat /\ x >= 1 /\ x <= n /\ stack[x].kind = "cmd"
      /\ \A i \in 1 .. n : stack[i].kind = "cmd" => i <= x
      /\ \A i \in 1 .. n : i < x => stack[i].saved < stack[x].saved
      /\ \A i \in 1 .. n : stack[i].kind \in Running => i < x
  BY <1>1, <1>3, InnermostIs
<1> HIDE DEF x
<1>6. stack[x].saved \in Nat /\ back \in Nat
  BY <1>3, <1>5, FrameAt
<1>7. Cuts(m) /\ m < n /\ m \in Nat
  <2>1. CASE skip
    <3>1. x - 1 \in 0 .. n /\ x - 1 < n /\ x - 1 \in Nat
      BY <1>3, <1>5
    <3>2. Cuts(x - 1)
      BY <1>2, <1>3, <2>1, <3>1, CutsFrames
    <3> QED
      BY <2>1, <3>1, <3>2
  <2>2. CASE ~skip
    <3>1. stack' = <<>>
      BY <1>2, <2>2
    <3>2. Cuts(0)
      BY <1>3, <3>1 DEF Cuts
    <3> QED
      BY <1>3, <2>2, <3>2
  <2> QED
    BY <2>1, <2>2
<1>8. /\ stack' \in Seq(FrameType) /\ Len(stack') = m
      /\ \A i \in 1 .. m : stack'[i] = stack[i]
  BY <1>7 DEF Cuts
<1>9. ASSUME running', untidy' = {}
      PROVE  /\ running
             /\ \A a \in StackHolds(stack) \ StackHolds(stack)' : a = mem
             /\ locals => 0 \notin Addrs(VarsCleared(level))
  <2>1. skip /\ m = x - 1 /\ LeftBehind = {}
    BY <1>2, <1>9
  <2>2. locals => 0 \notin Addrs(VarsCleared(level))
    BY <1>9 DEF PageZeroLost, Addrs
  <2>3. ASSUME NEW i \in m + 1 .. n, NEW a \in Own(stack[i]) PROVE a = mem
    <3>1. i \in 1 .. n /\ i >= x
      BY <1>3, <1>5, <2>1
    <3>2. FrameOk(stack[i])
      BY <1>1, <3>1 DEF StackInv
    <3>3. CASE i = x
      BY <1>5, <2>3, <3>2, <3>3 DEF FrameOk, Own, Buffer
    <3>4. CASE i > x
      <4>1. i \in x + 1 .. n
        BY <1>5, <3>1, <3>4
      <4>2. stack[i] \in Abandoned
        BY <4>1 DEF Abandoned, x
      <4>3. stack[i].args = {} /\ mem # NoAddr /\ ~(n > x + 1)
        BY <2>1, <4>2 DEF LeftBehind, x
      <4>4. i = n
        BY <1>3, <1>5, <4>1, <4>3
      <4>5. Top.argval = mem
        BY <1>1, <4>3 DEF MemIsCurrent
      <4> QED
        BY <1>3, <2>3, <4>3, <4>4, <4>5 DEF Own, Buffer
    <3> QED
      BY <1>3, <1>5, <3>1, <3>3, <3>4
  <2>4. \A a \in StackHolds(stack) \ StackHolds(stack)' : \E i \in m + 1 .. n : a \in Own(stack[i])
    BY <1>1, <1>3, <1>7, CutHolds
  <2> QED
    BY <1>4, <2>2, <2>3, <2>4
<1>10. /\ HeapInv' /\ TableInv(strtmp)' /\ HoldInv'
       /\ Entries(strtmp)' = {e \in Entries(strtmp) : e.level < back}
       /\ vars' \subseteq [at : Pages, level : Nat] /\ changed' \in BOOLEAN
  <2> HIDE DEF m, back, locals
  <2> QED
    BY <1>2, <1>6, <1>7, <1>9, FailHolds
<1>11. StackInv(stack)'
  BY <1>1, <1>3, <1>7, StackCuts
<1>12. ASSUME stack' # <<>>
       PROVE  /\ skip /\ m = x - 1 /\ x - 1 \in 1 .. n /\ Top' = stack[x - 1]
              /\ Top'.kind \in Running /\ Top'.saved < level'
  <2>1. m > 0
    <3>1. Len(stack') > 0
      BY <1>8, <1>12
    <3> QED
      BY <1>8, <3>1
  <2>2. skip /\ m = x - 1
    BY <2>1
  <2>3. x - 1 \in 1 .. n /\ (x - 1) + 1 = x /\ x - 1 < x /\ x - 1 \in 1 .. m
    BY <1>3, <1>5, <2>1, <2>2
  <2>4. Above(stack[x - 1], stack[(x - 1) + 1])
    BY <1>1, <1>5, <2>3 DEF StackInv
  <2>5. Above(stack[x - 1], stack[x])
    BY <2>3, <2>4
  <2>6. stack[x - 1].kind \in Running
    BY <1>5, <2>5 DEF Above, Command
  <2>7. stack[x - 1].saved < stack[x].saved
    BY <1>5, <2>3
  <2>8. Top' = stack[x - 1]
    BY <1>8, <2>2, <2>3 DEF Top
  <2>9. level' = stack[x].saved
    BY <1>2, <2>2
  <2> QED
    BY <2>2, <2>3, <2>6, <2>7, <2>8, <2>9
<1>13. Idle' /\ ~In(Calling)' /\ ~In({"bind", "result"})' /\ ~In({"done"})'
  BY <1>12 DEF In, Idle, Running, Calling
<1>14. /\ inter # NoInterrupt => inter.at \in Nat /\ inter.depth \in Nat /\ inter.depth < x
                                 /\ stack[x].saved > inter.at
  <2> SUFFICES ASSUME inter # NoInterrupt
               PROVE  /\ inter.at \in Nat /\ inter.depth \in Nat /\ inter.depth < x
                      /\ stack[x].saved > inter.at
    OBVIOUS
  <2>1. In({"cmd", "args", "bind", "result", "done"})
    BY DEF In
  <2>2. /\ inter.depth \in Nat /\ inter.at \in Nat /\ inter.depth < n
        /\ inter.depth > 0 => stack[inter.depth].kind \in Running
        /\ \A i \in 1 .. n : i > inter.depth => stack[i].saved > inter.at
    BY <1>1, <2>1, InterBelow
  <2>3. inter.depth < x
    <3>1. CASE inter.depth > 0
      <4>1. inter.depth \in 1 .. n
        BY <1>3, <2>2, <3>1
      <4> QED
        BY <1>5, <2>2, <3>1, <4>1
    <3>2. CASE ~(inter.depth > 0)
      BY <1>5, <2>2, <3>2
    <3> QED
      BY <3>1, <3>2
  <2>4. stack[x].saved > inter.at
    BY <1>5, <2>2, <2>3
  <2> QED
    BY <2>2, <2>3, <2>4
<1>15. LevelInv'
  <2>1. In(Running)' => level' > Top'.saved
    <3> SUFFICES ASSUME stack' # <<>> PROVE level' > Top'.saved
      BY DEF In
    <3>1. Top'.saved < level' /\ x - 1 \in 1 .. n /\ Top' = stack[x - 1]
      BY <1>12
    <3>2. Top'.saved \in Nat
      BY <1>3, <3>1, FrameAt
    <3> QED
      BY <1>2, <1>6, <3>1, <3>2
  <2>2. ASSUME NEW i \in 1 .. Len(stack'), stack'[i].kind = "end"
        PROVE  inter # NoInterrupt /\ inter.depth = i /\ inter.at = stack'[i].saved + 1
    <3>1. i \in 1 .. m /\ i \in 1 .. n /\ i # n /\ stack'[i] = stack[i]
      BY <1>3, <1>7, <1>8
    <3>2. ~In({"done"})
      BY <1>3 DEF In
    <3> QED
      BY <1>1, <2>2, <3>1, <3>2 DEF LevelInv
  <2>3. ~running' => stack' = <<>>
    BY <1>2
  <2> QED
    BY <1>2, <1>13, <2>1, <2>2, <2>3 DEF LevelInv
<1>16. InterInv'
  <2>1. inter' = inter /\ (running' => skip)
    BY <1>2
  <2>2. ASSUME skip, inter # NoInterrupt
        PROVE  /\ inter.depth <= Len(stack') /\ level' > inter.at
               /\ inter.depth > 0 => /\ stack'[inter.depth].kind \in Running
                                     /\ inter.at > stack'[inter.depth].saved
               /\ \A i \in 1 .. Len(stack') : i > inter.depth => stack'[i].saved > inter.at
    <3>1. m = x - 1 /\ back = stack[x].saved
      BY <2>2
    <3>2. inter.depth \in Nat /\ inter.depth <= m
      BY <1>5, <1>14, <2>2, <3>1
    <3>3. inter.depth > 0 => inter.depth \in 1 .. m
      BY <1>7, <3>2
    <3>4. inter.depth > 0 => /\ stack'[inter.depth].kind \in Running
                             /\ inter.at > stack'[inter.depth].saved
      BY <1>1, <1>4, <1>8, <2>2, <3>3 DEF InterInv
    <3>5. \A i \in 1 .. m : i \in 1 .. n
      BY <1>3, <1>7
    <3>6. \A i \in 1 .. m : i > inter.depth => stack'[i].saved > inter.at
      BY <1>1, <1>4, <1>8, <2>2, <3>5 DEF InterInv
    <3> QED
      BY <1>2, <1>8, <1>14, <2>2, <3>1, <3>2, <3>4, <3>6
  <2>3. inter \in InterType /\ (inter # NoInterrupt => inter.at \in Nat)
    BY <1>1 DEF InterInv
  <2> QED
    BY <2>1, <2>2, <2>3 DEF InterInv
<1>17. TempInv'
  <2>1. \A e \in Entries(strtmp)' : e.level < level' /\ e.level <= level'
    BY <1>1, <1>2, <1>6, <1>10, EntryLevels
  <2>2. ASSUME NEW i \in 1 .. Len(stack'), NEW a \in stack'[i].got
        PROVE  \E e \in Entries(strtmp)' : e.at = a /\ e.level <= stack'[i].saved
    <3>1. i \in 1 .. m /\ i \in 1 .. n /\ stack'[i] = stack[i] /\ m > 0
      BY <1>3, <1>7, <1>8
    <3>2. skip /\ m = x - 1 /\ back = stack[x].saved
      BY <3>1
    <3>3. i < x
      BY <1>5, <3>1, <3>2
    <3>4. PICK e \in Entries(strtmp) : e.at = a /\ e.level <= stack[i].saved
      BY <1>1, <2>2, <3>1 DEF TempInv
    <3>5. stack[i].saved \in Nat /\ e.level \in Nat /\ stack[i].saved < stack[x].saved
      BY <1>1, <1>3, <1>5, <3>1, <3>3, FrameAt, EntryLevels
    <3>6. e.level < back
      BY <1>6, <3>2, <3>4, <3>5
    <3> QED
      BY <1>10, <3>1, <3>4, <3>6
  <2> QED
    BY <2>1, <2>2 DEF TempInv
<1>18. ErrorMode'
  <2>1. inter # NoInterrupt \/ ~(owed > 0)
    BY <1>1, ModeSettled
  <2>2. inter' = inter /\ owed' = owed
    BY <1>2
  <2> QED
    BY <1>1, <2>1, <2>2 DEF ErrorMode
<1>19. Depth'
  <2>1. ~skip => ~running'
    BY <1>2
  <2> QED
    BY <2>1 DEF Depth
<1>20. MemIsCurrent'
  BY <1>2 DEF MemIsCurrent
<1>21. Typed'
  <2>1. running' \in BOOLEAN
    BY <1>2, Zenon
  <2>2. gosub' \in Seq({"sub", "fun"})
    BY <1>2, PopAny
  <2>3. level' \in Nat /\ memlevel' \in Nat /\ mem' \in Pages \cup {NoAddr} /\ errskip' \in Int
    BY <1>2, <1>3, <1>6
  <2>4. owed' \in Int /\ acts' \in Nat /\ interrupts' \in Nat
    BY <1>1, <1>2, Types
  <2> QED
    BY <1>8, <1>10, <2>1, <2>2, <2>3, <2>4, TypesAre
<1> QED
  BY <1>10, <1>11, <1>15, <1>16, <1>17, <1>18, <1>19, <1>20, <1>21 DEF ProgramInv

LEMMA LeftBehindIs == LeftBehind \subseteq {"strings", "call"}
BY DEF LeftBehind

LEMMA LostIs ==
    ASSUME NEW lv
    PROVE  PageZeroLost(lv) \subseteq {"page0"}
BY DEF PageZeroLost

\* Skipping an error in a command, or in the one call it makes, takes the call
\* off gosubstack.
LEMMA ErrorDepth ==
    ASSUME ProgramInv, ~left, In({"cmd", "args", "bind", "result"}), error(gosub, memlevel),
           errskip # 0,
           untidy \subseteq untidy', LeftBehind \subseteq untidy'
    PROVE  Depth'
<1>1. /\ Typed /\ StackInv(stack) /\ MemIsCurrent /\ LevelInv /\ InterInv /\ Depth
  BY DEF ProgramInv
<1> DEFINE n == Len(stack)
           x == Innermost
           wait == Cardinality(Waiting(stack))
           wait2 == Cardinality(Waiting(stack'))
<1>2. /\ gosub' = (IF mem = NoAddr THEN gosub ELSE SubSeq(gosub, 1, Len(gosub) - 1))
      /\ level' = stack[x].saved /\ stack' = SubSeq(stack, 1, x - 1) /\ inter' = inter
  BY DEF error
<1>3. /\ stack \in Seq(FrameType) /\ n \in Nat /\ stack # <<>> /\ n >= 1 /\ Top = stack[n]
      /\ n \in 1 .. n /\ Top.kind \in {"cmd", "args", "bind", "result"}
      /\ level \in Nat /\ gosub \in Seq({"sub", "fun"}) /\ Top.saved \in Nat /\ running
  BY <1>1, Types, TopIs DEF In, FrameType, LevelInv
<1>4. /\ x \in 1 .. n /\ x \in Nat /\ x >= 1 /\ x <= n /\ stack[x].kind = "cmd"
      /\ \A i \in 1 .. n : stack[i].kind = "cmd" => i <= x
  BY <1>1, <1>3, InnermostIs
<1> SUFFICES ASSUME "call" \notin untidy', "label" \notin untidy' PROVE Balanced'
  BY DEF Depth
<1>5. Balanced /\ "call" \notin LeftBehind
  BY <1>1, <1>3 DEF Depth
<1>6. Abandoned = {} \/ (mem # NoAddr /\ ~(n > x + 1))
  BY <1>5 DEF LeftBehind
<1> HIDE DEF x
<1>7. /\ stack' \in Seq(FrameType) /\ Len(stack') = x - 1
      /\ \A i \in 1 .. x - 1 : stack'[i] = stack[i]
  <2>1. x - 1 \in 0 .. n
    BY <1>3, <1>4
  <2>2. Cuts(x - 1)
    BY <1>2, <1>3, <2>1, CutsFrames
  <2> QED
    BY <2>2 DEF Cuts
<1>8. wait \in Nat /\ wait2 \in Nat /\ IsFiniteSet(Waiting(stack)) /\ Len(gosub) \in Nat
  BY <1>3, <1>7, WaitingCount
<1>9. Len(gosub) + (IF inter = NoInterrupt THEN 0 ELSE 1) = level + wait
  BY <1>5, DepthIs
<1>10. /\ \A i : i \in Waiting(stack') <=> i \in 1 .. x - 1 /\ stack[i].kind = "args"
       /\ \A i : i \in Waiting(stack) <=> i \in 1 .. n /\ stack[i].kind = "args"
  BY <1>3, <1>7 DEF Waiting
<1>11. CASE n = x
  <2>1. Top.kind = "cmd" /\ stack[x] = Top
    BY <1>3, <1>4, <1>11
  <2>2. mem = NoAddr
    BY <1>1, <2>1 DEF MemIsCurrent, In
  <2>3. level = Top.saved
    BY <1>1, <1>3, <2>1 DEF LevelInv, In, Calling
  <2>4. Waiting(stack') = Waiting(stack)
    <3>1. \A i \in 1 .. n : i = x \/ i \in 1 .. x - 1
      BY <1>4, <1>11
    <3>2. \A i \in 1 .. x - 1 : i \in 1 .. n
      BY <1>4, <1>11
    <3> HIDE DEF n
    <3> QED
      BY <1>4, <1>10, <3>1, <3>2
  <2>5. gosub' = gosub /\ level' = level /\ inter' = inter
    BY <1>2, <2>1, <2>2, <2>3
  <2> QED
    BY <1>5, <2>4, <2>5, DepthIs, DepthNext
<1>12. CASE n > x
  <2>1. mem # NoAddr /\ n = x + 1
    <3>1. x + 1 \in x + 1 .. n
      BY <1>3, <1>4, <1>12
    <3>2. stack[x + 1] \in Abandoned
      BY <3>1 DEF Abandoned, x
    <3>3. mem # NoAddr /\ ~(n > x + 1)
      BY <1>6, <3>2
    <3> QED
      BY <1>3, <1>4, <1>12, <3>3
  <2>2. Top.kind \in {"args", "bind"}
    BY <1>1, <2>1 DEF MemIsCurrent, In
  <2>3. Top.saved = stack[x].saved
    <3>1. x + 1 \in 1 .. n /\ stack[x + 1] = Top
      BY <1>3, <1>4, <2>1
    <3>2. Above(stack[x], stack[x + 1])
      BY <1>1, <1>4, <3>1 DEF StackInv
    <3>3. Above(stack[x], Top)
      BY <3>1, <3>2
    <3> QED
      BY <1>4, <3>3 DEF Above, Running
  <2>4. inter # NoInterrupt => Top.saved > 0
    <3> SUFFICES ASSUME inter # NoInterrupt PROVE Top.saved > 0
      OBVIOUS
    <3>1. In({"cmd", "args", "bind", "result", "done"})
      BY DEF In
    <3>2. /\ inter.depth \in Nat /\ inter.at \in Nat /\ inter.depth < n
          /\ \A i \in 1 .. n : i > inter.depth => stack[i].saved > inter.at
      BY <1>1, <3>1, InterBelow
    <3>3. n > inter.depth
      BY <1>3, <3>2
    <3>4. Top.saved > inter.at
      BY <1>3, <3>2, <3>3
    <3> QED
      BY <1>3, <3>2, <3>4
  <2>5. \A i \in 1 .. n : i = n \/ i = x \/ i \in 1 .. x - 1
    BY <1>4, <2>1
  <2>6. (\A i \in 1 .. x - 1 : i \in 1 .. n) /\ n \notin 1 .. x - 1
    BY <1>4, <2>1
  <2>7. level + wait = (level' + wait2) + 1
    <3>1. CASE Top.kind = "args"
      <4>1. Waiting(stack') = Waiting(stack) \ {n} /\ n \in Waiting(stack)
        <5> HIDE DEF n
        <5> QED
          BY <1>3, <1>4, <1>10, <2>5, <2>6, <3>1
      <4>2. wait2 = wait - 1
        BY <1>8, <4>1, FS_RemoveElement
      <4>3. level = Top.saved
        BY <1>1, <1>3, <3>1 DEF LevelInv, In, Calling
      <4>4. level' = level
        BY <1>2, <2>3, <4>3
      <4> HIDE DEF wait, wait2
      <4> QED
        BY <1>3, <1>8, <4>2, <4>4
    <3>2. CASE Top.kind = "bind"
      <4>1. Waiting(stack') = Waiting(stack)
        <5>1. stack[n].kind # "args" /\ stack[x].kind # "args"
          BY <1>3, <1>4, <3>2
        <5> HIDE DEF n
        <5> QED
          BY <1>10, <2>5, <2>6, <5>1
      <4>2. wait2 = wait
        BY <4>1
      <4>3. level = Top.saved + 1
        BY <1>1, <1>3, <3>2 DEF LevelInv, In
      <4>4. level' = Top.saved
        BY <1>2, <2>3
      <4> HIDE DEF wait, wait2
      <4> QED
        BY <1>3, <1>8, <4>2, <4>3, <4>4
    <3> QED
      BY <2>2, <3>1, <3>2
  <2>8. level' = Top.saved
    BY <1>2, <2>3
  <2> HIDE DEF wait, wait2
  <2>9. Len(gosub) > 0
    BY <1>3, <1>8, <1>9, <2>4, <2>7, <2>8
  <2>10. Len(gosub') = Len(gosub) - 1
    <3>1. gosub # <<>>
      BY <1>3, <2>9
    <3>2. gosub' = SubSeq(gosub, 1, Len(gosub) - 1)
      BY <1>2, <2>1
    <3> QED
      BY <1>3, <3>1, <3>2, PopGosub
  <2>11. Len(gosub') + (IF inter' = NoInterrupt THEN 0 ELSE 1) = level' + wait2
    <3> DEFINE k == IF inter = NoInterrupt THEN 0 ELSE 1
               k2 == IF inter' = NoInterrupt THEN 0 ELSE 1
               g == Len(gosub)
               g2 == Len(gosub')
               lv2 == level'
    <3>1. lv2 \in Nat /\ level \in Nat /\ k2 = k /\ k \in Nat /\ g \in Nat
      BY <1>2, <1>3, <1>8, <2>8
    <3>2. g + k = level + wait /\ level + wait = (lv2 + wait2) + 1
      BY <1>9, <2>7
    <3>3. g2 = g - 1
      BY <2>10
    <3> HIDE DEF k, k2, g, g2, lv2
    <3>4. g2 + k2 = lv2 + wait2
      BY <1>8, <3>1, <3>2, <3>3
    <3> QED
      BY <3>4 DEF k2, g2, lv2
  <2> QED
    BY <2>11, DepthNext DEF wait2
<1> QED
  BY <1>3, <1>4, <1>11, <1>12

LEMMA ErrorInv ==
    ASSUME ProgramInv, ~left, Error
    PROVE  ProgramInv'
<1> DEFINE lost == IF level # memlevel /\ mem # NoAddr THEN PageZeroLost(level) ELSE {}
<1>1. /\ In({"cmd", "args", "bind", "result"}) /\ error(gosub, memlevel)
      /\ untidy' = untidy \cup LeftBehind \cup lost
  BY DEF Error, Stale
<1>2. gosub \in Seq({"sub", "fun"}) /\ memlevel \in Nat /\ untidy \subseteq {"strings", "call", "label", "page0"}
  BY Types DEF ProgramInv
<1>3. lost \subseteq {"page0"}
  BY LostIs
<1>4. untidy \subseteq untidy' /\ LeftBehind \subseteq untidy' /\ lost \subseteq untidy'
  BY <1>1
<1>5. untidy' \subseteq {"strings", "call", "label", "page0"}
  <2> HIDE DEF lost
  <2> QED
    BY <1>1, <1>2, <1>3, LeftBehindIs
<1>6. untidy' = {} => /\ LeftBehind = {}
                      /\ mem # NoAddr /\ level # memlevel => PageZeroLost(level) = {}
  BY <1>4
<1>7. errskip # 0 => Depth'
  BY <1>1, <1>4, ErrorDepth
<1> QED
  BY <1>1, <1>2, <1>4, <1>5, <1>6, <1>7, ErrorStep

LEMMA NoRoomInv ==
    ASSUME ProgramInv, ~left, NEW fun \in BOOLEAN, NoRoomForCall(fun)
    PROVE  ProgramInv'
<1> DEFINE calls == Append(gosub, IF fun THEN "fun" ELSE "sub")
<1>1. /\ In({"cmd"}) \/ In({"args"})
      /\ error(calls, level)
      /\ untidy' = untidy \cup LeftBehind \cup {"call"}
  BY DEF NoRoomForCall, Stale
<1>2. gosub \in Seq({"sub", "fun"}) /\ level \in Nat /\ untidy \subseteq {"strings", "call", "label", "page0"}
  BY Types DEF ProgramInv
<1>3. calls \in Seq({"sub", "fun"})
  BY <1>2
<1> HIDE DEF calls
<1>4. In({"cmd", "args", "bind", "result"})
  BY <1>1 DEF In
<1>5. /\ untidy \subseteq untidy' /\ "call" \in untidy'
      /\ untidy' \subseteq {"strings", "call", "label", "page0"}
  BY <1>1, <1>2, LeftBehindIs
<1>6. Depth' /\ untidy' # {}
  BY <1>5 DEF Depth
<1> QED
  BY <1>1, <1>2, <1>3, <1>4, <1>5, <1>6, ErrorStep

LEMMA NoLabelInv ==
    ASSUME ProgramInv, ~left, NoLabel
    PROVE  ProgramInv'
<1> DEFINE calls == Append(gosub, "sub")
<1>1. /\ In({"cmd"}) /\ error(calls, memlevel)
      /\ untidy' = untidy \cup LeftBehind \cup {"label"}
  BY DEF NoLabel, Stale
<1>2. gosub \in Seq({"sub", "fun"}) /\ memlevel \in Nat /\ untidy \subseteq {"strings", "call", "label", "page0"}
  BY Types DEF ProgramInv
<1>3. calls \in Seq({"sub", "fun"})
  BY <1>2
<1> HIDE DEF calls
<1>4. In({"cmd", "args", "bind", "result"})
  BY <1>1 DEF In
<1>5. /\ untidy \subseteq untidy' /\ "label" \in untidy'
      /\ untidy' \subseteq {"strings", "call", "label", "page0"}
  BY <1>1, <1>2, LeftBehindIs
<1>6. Depth' /\ untidy' # {}
  BY <1>5 DEF Depth
<1> QED
  BY <1>1, <1>2, <1>3, <1>4, <1>5, <1>6, ErrorStep

\* At the prompt no temporary is left.
LEMMA ScanAll ==
    ASSUME TableInv(strtmp), ClearTemps(0)
    PROVE  strtmp' = <<>>
<1>1. TableInv(strtmp)' /\ Entries(strtmp)' = {e \in Entries(strtmp) : e.level < 0}
  BY TableCut
<1>2. Entries(strtmp) \subseteq TempType /\ strtmp' \in Seq(TempType) /\ Len(strtmp') \in Nat
  BY <1>1, EntriesTyped DEF TableInv
<1>3. Entries(strtmp') = {}
  BY <1>1, <1>2 DEF TempType
<1>4. ~(Len(strtmp') >= 1)
  <2> SUFFICES ASSUME Len(strtmp') >= 1 PROVE FALSE
    OBVIOUS
  <2>1. 1 \in 1 .. Len(strtmp')
    BY <1>2
  <2> QED
    BY <1>2, <1>3, <2>1, EntryAt
<1> QED
  BY <1>2, <1>4

\* END and Ctrl-C leave the variables and what the calls held, until RUN.
LEMMA EndInv ==
    ASSUME ProgramInv, do_end
    PROVE  ProgramInv'
<1>1. /\ Typed /\ HeapInv /\ StackInv(stack) /\ TableInv(strtmp) /\ HoldInv
  BY DEF ProgramInv
<1>2. /\ stack' = <<>> /\ level' = 0 /\ ClearTemps(0) /\ FreeMemory(TempsFreed(0))
      /\ inter' = NoInterrupt /\ running' = FALSE /\ owed' = 0 /\ left' = (mem # NoAddr)
      /\ UNCHANGED <<vars, gosub, mem, memlevel, errskip, untidy, acts, interrupts>>
  BY DEF do_end, bounds
<1> DEFINE out == Addrs({e \in Entries(strtmp) : ~(e.level < 0)})
<1>3. /\ TableInv(strtmp)' /\ TempsFreed(0) = out
      /\ Entries(strtmp)' = {e \in Entries(strtmp) : e.level < 0}
  BY <1>1, <1>2, TableCut
<1>4. out \subseteq Addrs(Entries(strtmp)) /\ Addrs(Entries(strtmp))' = Addrs(Entries(strtmp)) \ out
  BY <1>1, <1>3, ScanFrees
<1> HIDE DEF out
<1>5. HeapInv' /\ live' = live \ out
  <2>1. out \subseteq live
    BY <1>1, <1>4 DEF HoldInv
  <2> QED
    BY <1>1, <1>2, <1>3, <2>1, Frees
<1>6. Len(stack') = 0 /\ StackHolds(stack)' = {} /\ Entries(strtmp)' = {}
  <2>1. strtmp' = <<>>
    BY <1>1, <1>2, ScanAll
  <2> QED
    BY <1>2, <2>1 DEF StackHolds, Entries
<1>7. StackInv(stack)'
  BY <1>2, <1>6 DEF StackInv
<1>8. HoldInv'
  <2>1. /\ Addrs(vars)' \cup Addrs(Entries(strtmp))' \cup StackHolds(stack)' \subseteq live'
        /\ Addrs(vars)' \cap Addrs(Entries(strtmp))' = {}
    BY <1>1, <1>2, <1>4, <1>5, <1>6 DEF HoldInv
  <2>2. \A v, w \in vars' : v.at = w.at => v = w
    BY <1>1, <1>2 DEF HoldInv
  <2> QED
    BY <1>2, <1>6, <2>1, <2>2 DEF HoldInv
<1>9. MemIsCurrent'
  BY <1>2 DEF MemIsCurrent
<1>10. LevelInv'
  BY <1>2, <1>6 DEF LevelInv, In
<1>11. InterInv'
  BY <1>2 DEF InterInv, InterType, NoInterrupt
<1>12. TempInv'
  BY <1>6 DEF TempInv
<1>13. ErrorMode' /\ Depth'
  BY <1>2 DEF ErrorMode, Depth
<1>14. Typed'
  <2>1. changed' \in BOOLEAN /\ running' \in BOOLEAN
    BY <1>1, <1>2, FlagTypes, Zenon DEF ClearTemps
  <2>2. /\ stack' \in Seq(FrameType) /\ vars' \subseteq [at : Pages, level : Nat]
        /\ level' \in Nat /\ memlevel' \in Nat /\ gosub' \in Seq({"sub", "fun"})
        /\ mem' \in Pages \cup {NoAddr} /\ errskip' \in Int /\ owed' \in Int
        /\ untidy' \subseteq {"strings", "call", "label", "page0"} /\ acts' \in Nat /\ interrupts' \in Nat
    BY <1>1, <1>2, Types
  <2> QED
    BY <1>3, <1>5, <2>1, <2>2, TypesAre
<1> QED
  BY <1>3, <1>5, <1>7, <1>8, <1>9, <1>10, <1>11, <1>12, <1>13, <1>14 DEF ProgramInv

\* An error that finds the address of a call that is no longer there ends at the
\* prompt; the heap keeps its type and nothing more.
LEMMA StaleStep ==
    ASSUME ProgramInv, left, NEW calls \in Seq({"sub", "fun"}), NEW lv \in Nat, error(calls, lv),
           untidy' \subseteq {"strings", "call", "label", "page0", "stale"}, "stale" \in untidy'
    PROVE  LostInv'
<1>1. Typed /\ TableInv(strtmp)
  BY DEF ProgramInv
<1>2. /\ ClearTemps(0) /\ mem' = NoAddr /\ memlevel' = lv /\ level' = 0 /\ stack' = <<>>
      /\ running' = FALSE /\ errskip' = (IF errskip > 0 THEN errskip - 1 ELSE errskip)
      /\ gosub' = (IF mem = NoAddr THEN calls ELSE SubSeq(calls, 1, Len(calls) - 1))
      /\ vars' \subseteq vars
      /\ UNCHANGED <<owed, acts, interrupts>>
  BY DEF error, bounds
<1>3. strtmp' = <<>>
  BY <1>1, <1>2, ScanAll
<1>4. bits' \in [Pages -> {"free", "used", "last"}] /\ live' \subseteq Pages
  <2>1. PICK S : FreeMemory(S)
    BY DEF error
  <2> QED
    BY <1>1, <2>1 DEF FreeMemory, Typed, Shaped
<1>5. {changed', running'} \subseteq BOOLEAN
  <2>1. changed' \in BOOLEAN /\ running' \in BOOLEAN
    BY <1>1, <1>2, FlagTypes, Zenon DEF ClearTemps
  <2> QED
    BY <2>1, Zenon
<1>6. gosub' \in Seq({"sub", "fun"})
  BY <1>2, PopAny
<1>7. /\ stack' \in Seq(FrameType) /\ vars' \subseteq [at : Pages, level : Nat]
      /\ strtmp' \in Seq([at : Pages, level : Nat])
      /\ level' \in Nat /\ memlevel' \in Nat /\ mem' \in Pages \cup {NoAddr}
      /\ {errskip', owed'} \subseteq Int /\ acts' \in Nat /\ interrupts' \in Nat
  BY <1>1, <1>2, <1>3, Types
<1>8. Shaped'
  BY <1>4, <1>5, <1>6, <1>7, Zenon DEF Shaped
<1> QED
  BY <1>2, <1>3, <1>8 DEF LostInv

LEMMA StaleInv ==
    ASSUME ProgramInv, left, Error \/ NoLabel \/ \E fun \in BOOLEAN : NoRoomForCall(fun)
    PROVE  LostInv'
<1>1. /\ gosub \in Seq({"sub", "fun"}) /\ memlevel \in Nat /\ level \in Nat
      /\ untidy \subseteq {"strings", "call", "label", "page0"}
  BY Types DEF ProgramInv
<1>2. PICK lost \in SUBSET {"call", "label", "page0"} : untidy' = untidy \cup LeftBehind \cup {"stale"} \cup lost
  BY LostIs DEF Error, NoLabel, NoRoomForCall, Stale
<1>3. \E calls \in Seq({"sub", "fun"}), lv \in Nat : error(calls, lv)
  <2>1. CASE Error
    BY <1>1, <2>1 DEF Error
  <2>2. CASE NoLabel
    <3>1. Append(gosub, "sub") \in Seq({"sub", "fun"})
      BY <1>1
    <3> QED
      BY <1>1, <2>2, <3>1 DEF NoLabel
  <2>3. CASE \E fun \in BOOLEAN : NoRoomForCall(fun)
    <3>1. PICK fun \in BOOLEAN : error(Append(gosub, IF fun THEN "fun" ELSE "sub"), level)
      BY <2>3 DEF NoRoomForCall
    <3>2. Append(gosub, IF fun THEN "fun" ELSE "sub") \in Seq({"sub", "fun"})
      BY <1>1
    <3> QED
      BY <1>1, <3>1, <3>2
  <2> QED
    BY <2>1, <2>2, <2>3
<1>4. /\ untidy' \subseteq {"strings", "call", "label", "page0", "stale"}
      /\ "stale" \in untidy'
  BY <1>1, <1>2, LeftBehindIs
<1> QED
  BY <1>3, <1>4, StaleStep

-----------------------------------------------------------------------------
(* Every step, and what the invariant says of a program.                   *)

LEMMA DimInv ==
    ASSUME ProgramInv, NEW s \in Pages, NEW k \in 1 .. ArgPages, NEW lv \in {0, level}, Dim(s, k, lv)
    PROVE  ProgramInv'
<1>1. level \in Nat /\ acts \in Nat
  BY Types DEF ProgramInv
<1>2. lv \in Nat /\ k \in Nat
  BY <1>1, CallsAssumption
<1>3. acts' \in Nat
  BY <1>1 DEF Dim, Act
<1>4. Declares(s, k, lv)
  BY <1>3 DEF Dim, Declares, temps, depth, setup, mode
<1> QED
  BY <1>2, <1>4, DeclareInv

LEMMA ParameterInv ==
    ASSUME ProgramInv, NEW s \in Pages, DeclareParameter(s)
    PROVE  ProgramInv'
<1>1. level \in Nat /\ acts \in Nat
  BY Types DEF ProgramInv
<1>2. acts' \in Nat
  BY <1>1 DEF DeclareParameter, bounds
<1>3. Declares(s, 1, level)
  BY <1>2 DEF DeclareParameter, Declares, temps, depth, setup, mode, bounds
<1> QED
  BY <1>1, <1>3, DeclareInv

LEMMA StutterInv ==
    ASSUME ProgramInv, UNCHANGED allVars
    PROVE  ProgramInv'
<1>1. /\ UNCHANGED <<bits, live, stack, vars, strtmp, changed, level, gosub, mem, memlevel, left, errskip>>
      /\ UNCHANGED <<inter, running, owed, untidy, acts, interrupts>>
  BY DEF allVars, heapVars, temps, depth, setup, mode, bounds
<1>2. Typed /\ HeapInv /\ StackInv(stack) /\ HoldInv
  BY DEF ProgramInv
<1>3. stack \in Seq(FrameType) /\ vars \subseteq [at : Pages, level : Nat] /\ acts \in Nat
  BY <1>2, Types
<1>4. HeapInv'
  <2>1. HeapType' /\ Whole' /\ Apart'
    BY <1>1, <1>2 DEF HeapInv, HeapType, Whole, Apart, Block
  <2>2. NoPageLost'
    BY <1>1, <1>2 DEF HeapInv, NoPageLost, Block
  <2> QED
    BY <2>1, <2>2 DEF HeapInv
<1>5. SameShape /\ StackInv(stack)'
  BY <1>1, <1>2, <1>3 DEF SameShape
<1>6. HoldInv'
  BY <1>1, <1>2 DEF HoldInv
<1> QED
  BY <1>1, <1>3, <1>4, <1>5, <1>6, ShapeStep

LEMMA ProgramNext ==
    ASSUME ProgramInv, left \in BOOLEAN, [Next]_allVars
    PROVE  ProgramInv' \/ LostInv'
<1>1. CASE BeginCommand
  BY <1>1, BeginCommandInv
<1>2. CASE EndCommand
  BY <1>2, EndCommandInv
<1>3. CASE cmd_gosub
  BY <1>3, GosubInv
<1>4. CASE cmd_return
  BY <1>4, ReturnInv
<1>5. ASSUME NEW s \in Pages, GetTempMemory(s) PROVE ProgramInv'
  BY <1>5, GetTempMemoryInv
<1>6. ASSUME NEW s \in Pages, StringArgument(s) PROVE ProgramInv'
  BY <1>6, StringArgumentInv
<1>7. ASSUME NEW s \in Pages, DeclareParameter(s) PROVE ProgramInv'
  BY <1>7, ParameterInv
<1>8. ASSUME NEW s \in Pages, StringResult(s) PROVE ProgramInv'
  BY <1>8, StringResultInv
<1>9. ASSUME NEW s \in Pages, CopyArgument(s) PROVE ProgramInv'
  BY <1>9, CopyArgumentInv
<1>10. ASSUME NEW i \in DOMAIN strtmp, ClearSpecificTempMemory(i) PROVE ProgramInv'
  BY <1>10, ClearSpecificInv
<1>11. ASSUME NEW s \in Pages, NEW k \in 1 .. ArgPages, NEW lv \in {0, level}, Dim(s, k, lv)
       PROVE  ProgramInv'
  BY <1>11, DimInv
<1>12. ASSUME NEW v \in vars, Erase(v) PROVE ProgramInv'
  BY <1>12, EraseInv
<1>13. ASSUME NEW n \in {-1, 0, 2}, OnError(n) PROVE ProgramInv'
  BY <1>13, OnErrorInv
<1>14. ASSUME NEW fun \in BOOLEAN, NoRoomForCall(fun) PROVE ProgramInv' \/ LostInv'
  BY <1>14, NoRoomInv, StaleInv
<1>15. ASSUME NEW fun \in BOOLEAN, NEW s \in Pages, StartCall(fun, s) PROVE ProgramInv'
  BY <1>15, StartCallInv
<1>16. CASE BeginBind
  BY <1>16, BeginBindInv
<1>17. CASE Bound
  BY <1>17, BoundSubInv, BoundFunInv
<1>18. CASE NumberResult
  BY <1>18, NumberResultInv
<1>19. CASE cmd_endfun
  BY <1>19, EndFunInv
<1>20. CASE ReturnValue
  BY <1>20, ReturnValueInv
<1>21. CASE Error
  BY <1>21, ErrorInv, StaleInv
<1>22. CASE ClearRuntime
  BY <1>22, ClearRuntimeInv DEF CallsInv
<1>23. ASSUME NEW sub \in BOOLEAN, GotAnInterrupt(sub) PROVE ProgramInv'
  BY <1>23, InterruptInv
<1>24. CASE cmd_ireturn
  BY <1>24, IreturnInv
<1>25. CASE UNCHANGED allVars
  BY <1>25, StutterInv
<1>26. CASE NoLabel
  BY <1>26, NoLabelInv, StaleInv
<1>27. CASE do_end
  BY <1>27, EndInv
<1> QED
  BY <1>1, <1>2, <1>3, <1>4, <1>5, <1>6, <1>7, <1>8, <1>9, <1>10, <1>11, <1>12, <1>13, <1>14,
     <1>15, <1>16, <1>17, <1>18, <1>19, <1>20, <1>21, <1>22, <1>23, <1>24, <1>25, <1>26, <1>27, Zenon DEF Next

\* Only RUN goes on from the prompt.
LEMMA PromptNext ==
    ASSUME Next, ~running, stack = <<>>
    PROVE  ClearRuntime
<1>1. ~Idle \/ ~running
  OBVIOUS
<1>2. \A kinds : ~In(kinds)
  BY DEF In
<1>3. ASSUME NEW s, GetTempMemory(s) \/ StringArgument(s) \/ DeclareParameter(s)
                    \/ StringResult(s) \/ CopyArgument(s)
      PROVE  FALSE
  BY <1>2, <1>3, Zenon DEF GetTempMemory, StringArgument, DeclareParameter, StringResult, CopyArgument
<1>4. ASSUME NEW i, ClearSpecificTempMemory(i) PROVE FALSE
  BY <1>2, <1>4, Zenon DEF ClearSpecificTempMemory
<1>5. ASSUME NEW s, NEW k, NEW lv, Dim(s, k, lv) PROVE FALSE
  BY <1>2, <1>5, Zenon DEF Dim
<1>6. ASSUME NEW v, Erase(v) \/ OnError(v) PROVE FALSE
  BY <1>2, <1>6, Zenon DEF Erase, OnError
<1>7. ASSUME NEW fun, NEW s, StartCall(fun, s) PROVE FALSE
  BY <1>2, <1>7, Zenon DEF StartCall
<1>8. ASSUME NEW fun, NoRoomForCall(fun) \/ GotAnInterrupt(fun) PROVE FALSE
  BY <1>2, <1>8, Zenon DEF NoRoomForCall, GotAnInterrupt
<1>9. ASSUME EndCommand \/ cmd_gosub \/ cmd_return \/ BeginBind \/ Bound \/ NumberResult
      PROVE  FALSE
  BY <1>2, <1>9, Zenon DEF EndCommand, cmd_gosub, cmd_return, BeginBind, Bound, NumberResult
<1>10. ASSUME cmd_endfun \/ ReturnValue \/ Error \/ NoLabel \/ cmd_ireturn
       PROVE  FALSE
  BY <1>2, <1>10, Zenon DEF cmd_endfun, ReturnValue, Error, NoLabel, cmd_ireturn
<1>11. ASSUME BeginCommand \/ do_end PROVE FALSE
  BY <1>2, <1>11, Zenon DEF BeginCommand, do_end
<1> QED
  BY <1>3, <1>4, <1>5, <1>6, <1>7, <1>8, <1>9, <1>10, <1>11, Zenon DEF Next

LEMMA LeftNext ==
    ASSUME left \in BOOLEAN, [Next]_allVars
    PROVE  left' \in BOOLEAN
<1>1. UNCHANGED setup => left' = left
  BY DEF setup
<1>2. CASE UNCHANGED allVars
  BY <1>1, <1>2 DEF allVars
<1>3. ASSUME NEW s, GetTempMemory(s) \/ StringArgument(s) \/ DeclareParameter(s)
                    \/ StringResult(s) \/ CopyArgument(s)
      PROVE  left' = left
  BY <1>1, <1>3, Zenon DEF GetTempMemory, StringArgument, DeclareParameter, StringResult, CopyArgument
<1>4. ASSUME NEW i, ClearSpecificTempMemory(i) PROVE left' = left
  BY <1>1, <1>4, Zenon DEF ClearSpecificTempMemory
<1>5. ASSUME NEW s, NEW k, NEW lv, Dim(s, k, lv) PROVE left' = left
  BY <1>1, <1>5, Zenon DEF Dim
<1>6. ASSUME NEW v, Erase(v) \/ OnError(v) PROVE left' = left
  BY <1>1, <1>6, Zenon DEF Erase, OnError
<1>7. ASSUME NEW fun, NEW s, StartCall(fun, s) PROVE left' = FALSE
  BY <1>7 DEF StartCall
<1>8. ASSUME NEW fun, NoRoomForCall(fun) PROVE left' = FALSE
  BY <1>8 DEF NoRoomForCall, error
<1>9. ASSUME NEW sub, GotAnInterrupt(sub) PROVE left' = left
  BY <1>1, <1>9, Zenon DEF GotAnInterrupt
<1>10. ASSUME EndCommand \/ cmd_gosub \/ cmd_return \/ BeginBind \/ NumberResult \/ BeginCommand
       PROVE  left' = left
  BY <1>1, <1>10, Zenon DEF EndCommand, cmd_gosub, cmd_return, BeginBind, NumberResult, BeginCommand
<1>11. ASSUME cmd_endfun \/ ReturnValue \/ cmd_ireturn PROVE left' = left
  BY <1>1, <1>11, Zenon DEF cmd_endfun, ReturnValue, cmd_ireturn
<1>12. ASSUME Bound PROVE left' = left
  BY <1>12 DEF Bound
<1>13. ASSUME Error \/ NoLabel PROVE left' = FALSE
  BY <1>13 DEF Error, NoLabel, error
<1>14. ASSUME do_end PROVE left' = (mem # NoAddr)
  BY <1>14, Zenon DEF do_end
<1>15. ASSUME ClearRuntime PROVE left' = left \/ left' = (mem' # NoAddr)
  BY <1>15, Zenon DEF ClearRuntime
<1>16. CASE Next
  BY <1>3, <1>4, <1>5, <1>6, <1>7, <1>8, <1>9, <1>10, <1>11, <1>12, <1>13, <1>14, <1>15, <1>16,
     Zenon DEF Next
<1> QED
  BY <1>2, <1>16

LEMMA CallsNext ==
    ASSUME CallsInv, [Next]_allVars
    PROVE  CallsInv'
<1>1. left' \in BOOLEAN
  BY LeftNext DEF CallsInv
<1>2. CASE ProgramInv
  BY <1>1, <1>2, ProgramNext DEF CallsInv
<1>3. CASE LostInv
  <2>1. CASE Next
    <3>1. ClearRuntime
      BY <1>3, <2>1, PromptNext DEF LostInv
    <3> QED
      BY <1>1, <3>1, ClearRuntimeInv DEF CallsInv
  <2>2. CASE UNCHANGED allVars
    <3>1. /\ UNCHANGED <<bits, live, stack, vars, strtmp, changed, level, gosub, mem, memlevel, left, errskip>>
          /\ UNCHANGED <<inter, running, owed, untidy, acts, interrupts>>
      BY <2>2 DEF allVars, heapVars, temps, depth, setup, mode, bounds
    <3>2. LostInv'
      BY <1>3, <3>1, Zenon DEF LostInv, Shaped
    <3> QED
      BY <1>1, <3>2 DEF CallsInv
  <2> QED
    BY <2>1, <2>2
<1> QED
  BY <1>2, <1>3 DEF CallsInv

\* Whatever a program does, and wherever END or Ctrl-C end it, the C stack, the
\* heap, the table of temporaries, g_LocalIndex, gosubstack and the error mode fit
\* together as ProgramInv says, until an error finds DefinedSubFunMem with the
\* address of a call that Ctrl-C left; RUN makes them fit again.
THEOREM CallsInvariant == Spec => []CallsInv
<1>1. Init => CallsInv
  BY CallsInit, Zenon DEF CallsInv, Init
<1>2. CallsInv /\ [Next]_allVars => CallsInv'
  BY CallsNext
<1> QED
  BY <1>1, <1>2, PTL DEF Spec

\* Every variable keeps its type.
THEOREM CallsTypeCorrect == Spec => []TypeOK
<1>1. CallsInv => TypeOK
  <2> SUFFICES ASSUME CallsInv PROVE TypeOK
    OBVIOUS
  <2>1. Shaped /\ untidy \subseteq {"strings", "call", "label", "page0", "stale"}
    BY DEF CallsInv, ProgramInv, Typed, LostInv
  <2>2. {changed, running, left} \subseteq BOOLEAN
    BY <2>1, Zenon DEF Shaped, CallsInv
  <2> QED
    BY <2>1, <2>2, Zenon DEF Shaped, TypeOK
<1> QED
  BY <1>1, CallsInvariant, PTL

\* No page is in use that no address handed out reaches, whatever way commands
\* and calls end and errors go, Ctrl-C included: FreeMemory is never given half a
\* block, until an error frees the buffer of a call that Ctrl-C left.
THEOREM CallsLoseNoPage == Spec => []PagesAreFound
<1>1. CallsInv => PagesAreFound
  BY DEF CallsInv, LostInv, ProgramInv, HeapInv, PagesAreFound, Sound
<1> QED
  BY <1>1, CallsInvariant, PTL

\* A variable, a temporary, the buffer of a call and its string arguments are
\* memory that is still allocated, also after Ctrl-C and RUN, until an error frees
\* the buffer of a call that Ctrl-C left; and in a tidy program memory that is
\* still allocated is one of these.
THEOREM HeldStaysLive == Spec => []HeldIsLive
<1>1. CallsInv => HeldIsLive
  <2> SUFFICES ASSUME ProgramInv PROVE HeldIsLive
    BY DEF CallsInv, LostInv, HeldIsLive, Sound
  <2>1. HoldInv /\ TableInv(strtmp) /\ stack \in Seq(FrameType)
    BY Types DEF ProgramInv
  <2>2. TempAddrs = Addrs(Entries(strtmp))
    BY <2>1, TempAddrsAre
  <2> DEFINE buffers == {stack[i].argval : i \in {i \in DOMAIN stack : stack[i].kind \in {"args", "bind"}}}
             strings == UNION {stack[i].args : i \in DOMAIN stack}
  <2>3. ASSUME NEW a PROVE a \in StackHolds(stack) <=> a \in buffers \cup strings
    <3>1. a \in StackHolds(stack) <=> \E i \in DOMAIN stack : a \in Own(stack[i])
      BY DEF StackHolds
    <3>2. a \in buffers <=> \E i \in DOMAIN stack : stack[i].kind \in {"args", "bind"} /\ a = stack[i].argval
      OBVIOUS
    <3>3. a \in strings <=> \E i \in DOMAIN stack : a \in stack[i].args
      OBVIOUS
    <3>4. \A i \in DOMAIN stack : a \in Own(stack[i]) <=>
              \/ a \in stack[i].args
              \/ stack[i].kind \in {"args", "bind"} /\ a = stack[i].argval
      BY DEF Own, Buffer
    <3> HIDE DEF buffers, strings
    <3> QED
      BY <3>1, <3>2, <3>3, <3>4
  <2>4. Holders = Addrs(vars) \cup Addrs(Entries(strtmp)) \cup StackHolds(stack)
    <3>1. Holders = Addrs(vars) \cup TempAddrs \cup buffers \cup strings
      BY DEF Holders, Addrs
    <3> HIDE DEF buffers, strings
    <3> QED
      BY <2>2, <2>3, <3>1
  <2> QED
    BY <2>1, <2>4 DEF HeldIsLive, HoldInv
<1> QED
  BY <1>1, CallsInvariant, PTL

\* What error() gives back is the buffer of the call that is being set up, or of
\* a call that END or Ctrl-C left and no later call has replaced.
THEOREM BufferIsCurrent == Spec => []MemIsCurrent
<1>1. CallsInv => MemIsCurrent
  BY DEF CallsInv, LostInv, ProgramInv, MemIsCurrent
<1> QED
  BY <1>1, CallsInvariant, PTL

\* What a command still uses is in the table of temporaries until it ends,
\* however deep the functions it calls and whatever their commands clear.
THEOREM TemporariesLast == Spec => []TempsLast
<1>1. CallsInv => TempsLast
  <2> SUFFICES ASSUME ProgramInv, NEW i \in DOMAIN stack, NEW a \in stack[i].got
               PROVE  a \in TempAddrs
    <3>1. LostInv => DOMAIN stack = {}
      BY DEF LostInv
    <3> QED
      BY <3>1 DEF CallsInv, TempsLast
  <2>1. TempInv /\ TableInv(strtmp) /\ stack \in Seq(FrameType)
    BY Types DEF ProgramInv
  <2>2. i \in 1 .. Len(stack)
    BY <2>1
  <2>3. PICK e \in Entries(strtmp) : e.at = a
    BY <2>1, <2>2 DEF TempInv
  <2> QED
    BY <2>1, <2>3, TempAddrsAre DEF Addrs
<1> QED
  BY <1>1, CallsInvariant, PTL

\* Between two commands of the main program the table of temporaries is empty,
\* although EndCommand scans it only when g_TempMemoryIsChanged is set.
THEOREM TemporariesEnd == Spec => []TempsEnd
<1>1. CallsInv => TempsEnd
  <2> SUFFICES ASSUME ProgramInv, stack = <<>>, level = 0 PROVE strtmp = <<>>
    BY DEF CallsInv, LostInv, TempsEnd
  <2>1. TempInv /\ TableInv(strtmp) /\ strtmp \in Seq(TempType) /\ Len(strtmp) \in Nat
    BY DEF ProgramInv, TableInv
  <2>2. \A e \in Entries(strtmp) : e.level < 0
    BY <2>1 DEF TempInv, Idle
  <2>3. Entries(strtmp) \subseteq TempType
    BY <2>1, EntriesTyped
  <2>4. Entries(strtmp) = {}
    BY <2>2, <2>3 DEF TempType
  <2>5. ~(Len(strtmp) >= 1)
    <3> SUFFICES ASSUME Len(strtmp) >= 1 PROVE FALSE
      OBVIOUS
    <3>1. 1 \in 1 .. Len(strtmp)
      BY <2>1
    <3> QED
      BY <2>1, <2>4, <3>1, EntryAt
  <2> QED
    BY <2>1, <2>5
<1> QED
  BY <1>1, CallsInvariant, PTL

\* Between two commands g_LocalIndex counts the calls on gosubstack and the
\* interrupt, unless a skipped error abandoned a call that error() missed or
\* an ON n GOSUB without its label.
THEOREM DepthAgrees == Spec => []CallDepth
<1>1. CallsInv => CallDepth
  BY DEF CallsInv, LostInv, ProgramInv, Depth, CallDepth
<1> QED
  BY <1>1, CallsInvariant, PTL

\* After IRETURN the program finds the ON ERROR SKIP count it had when the
\* interrupt came.
THEOREM ErrorModeReturns == Spec => []ErrorModeKept
<1>1. CallsInv => ErrorModeKept
  BY DEF CallsInv, LostInv, ProgramInv, ErrorMode, ErrorModeKept
<1> QED
  BY <1>1, CallsInvariant, PTL

-----------------------------------------------------------------------------
(* The interpreter is a well-behaved user of the heap.                     *)

\* An error while DefinedSubFunMem has the address of a call that Ctrl-C left.
StaleFree == left /\ "stale" \in untidy'

LEMMA AllocationIsStep ==
    ASSUME NEW s \in Pages, NEW k \in Nat, GetMemory(s, k) \/ GetSystemMemory(s, k)
    PROVE  HeapNext
<1>1. s \in Nat /\ NPages \in Nat
  BY HeapAssumption DEF Pages
<1>2. k \in 1 .. NPages
  BY <1>1 DEF GetMemory, GetSystemMemory, Fits
<1> QED
  BY <1>2 DEF HeapNext

LEMMA FreeIsStep ==
    ASSUME NEW S, S \subseteq live, FreeMemory(S)
    PROVE  HeapNext
BY DEF HeapNext

\* What the scans of variables and temporaries, and calls, give back is live.
LEMMA FreedIsLive ==
    ASSUME ProgramInv
    PROVE  /\ \A lv : VarsFreed(lv) \subseteq live
           /\ \A lv \in Nat : TempsFreed(lv) \subseteq live
           /\ stack # <<>> => Own(Top) \subseteq live
           /\ ~left => {mem} \ {NoAddr} \subseteq live
<1>1. HoldInv /\ TableInv(strtmp) /\ MemIsCurrent /\ stack \in Seq(FrameType)
  BY Types DEF ProgramInv
<1>2. ASSUME NEW lv PROVE VarsFreed(lv) \subseteq live
  <2>1. VarsFreed(lv) \subseteq Addrs(vars)
    BY DEF VarsFreed, VarsCleared, Addrs
  <2> QED
    BY <1>1, <2>1 DEF HoldInv
<1>3. ASSUME NEW lv \in Nat PROVE TempsFreed(lv) \subseteq live
  <2>1. strtmp \in Seq(TempType) /\ Len(strtmp) \in Nat
    BY <1>1 DEF TableInv
  <2>2. Kept(lv) \in 0 .. Len(strtmp)
    BY <1>1, KeptIs
  <2>3. \A i \in Kept(lv) + 1 .. Len(strtmp) : i \in 1 .. Len(strtmp)
    BY <2>1, <2>2
  <2>4. \A i \in Kept(lv) + 1 .. Len(strtmp) : strtmp[i] \in Entries(strtmp)
    BY <2>1, <2>3, EntryAt
  <2>5. TempsFreed(lv) \subseteq Addrs(Entries(strtmp))
    BY <2>4 DEF TempsFreed, Addrs
  <2> QED
    BY <1>1, <2>5 DEF HoldInv
<1>4. ASSUME stack # <<>> PROVE Own(Top) \subseteq live
  <2>1. Top = stack[Len(stack)] /\ Len(stack) \in 1 .. Len(stack)
    BY <1>1, <1>4, TopIs
  <2>2. \A a \in Own(Top) : a \in StackHolds(stack)
    BY <1>1, <2>1, StackHolder
  <2> QED
    BY <1>1, <2>2 DEF HoldInv
<1>5. ~left => {mem} \ {NoAddr} \subseteq live
  BY <1>1, <1>4 DEF MemIsCurrent, In, Own, Buffer
<1> QED
  BY <1>2, <1>3, <1>4, <1>5

LEMMA LeaveIsStep ==
    ASSUME ProgramInv, Leave(level)
    PROVE  HeapNext
<1>1. VarsFreed(level) \subseteq live /\ FreeMemory(VarsFreed(level))
  BY FreedIsLive DEF Leave
<1> QED
  BY <1>1, FreeIsStep

LEMMA ErrorIsStep ==
    ASSUME ProgramInv, ~left, In({"cmd", "args", "bind", "result"}), NEW calls, NEW lv, error(calls, lv)
    PROVE  HeapNext
<1> DEFINE back == IF errskip # 0 THEN stack[Innermost].saved ELSE 0
           gone == IF mem # NoAddr /\ level # lv THEN VarsFreed(level) ELSE {}
<1>1. FreeMemory(TempsFreed(back) \cup ({mem} \ {NoAddr}) \cup gone)
  BY DEF error
<1>2. stack \in Seq(FrameType) /\ StackInv(stack)
  BY Types DEF ProgramInv
<1>3. back \in Nat
  BY <1>2, InnermostIs, FrameAt
<1>4. gone \subseteq live
  BY FreedIsLive
<1> HIDE DEF back, gone
<1>5. TempsFreed(back) \cup ({mem} \ {NoAddr}) \cup gone \subseteq live
  BY <1>3, <1>4, FreedIsLive
<1> QED
  BY <1>1, <1>5, FreeIsStep

LEMMA HeapStep ==
    ASSUME ProgramInv, Next
    PROVE  HeapNext \/ UNCHANGED heapVars \/ StaleFree
<1>1. level \in Nat /\ TableInv(strtmp) /\ HoldInv
  BY Types DEF ProgramInv
<1>2. ASSUME BeginCommand \/ cmd_gosub \/ BeginBind \/ NumberResult \/ cmd_endfun
      PROVE  UNCHANGED heapVars
  BY <1>2 DEF BeginCommand, cmd_gosub, BeginBind, NumberResult, cmd_endfun
<1>3. CASE EndCommand
  <2>1. UNCHANGED heapVars \/ FreeMemory(TempsFreed(level))
    BY <1>3 DEF EndCommand
  <2> QED
    BY <1>1, <2>1, FreedIsLive, FreeIsStep
<1>4. CASE cmd_return \/ ReturnValue \/ cmd_ireturn
  BY <1>4, LeaveIsStep DEF cmd_return, ReturnValue, cmd_ireturn
<1>5. ASSUME NEW s \in Pages, GetTempMemory(s) \/ StringArgument(s) \/ DeclareParameter(s) \/ StringResult(s)
      PROVE  HeapNext
  <2>1. GetMemory(s, 1) \/ GetSystemMemory(s, 1)
    BY <1>5 DEF GetTempMemory, StringArgument, DeclareParameter, StringResult
  <2> QED
    BY <2>1, AllocationIsStep
<1>6. ASSUME NEW s \in Pages, CopyArgument(s) PROVE HeapNext
  <2>1. stack # <<>> /\ s \in Own(Top) /\ FreeMemory({s})
    BY <1>6 DEF CopyArgument, In, Own
  <2> QED
    BY <2>1, FreedIsLive, FreeIsStep
<1>7. ASSUME NEW i \in DOMAIN strtmp, ClearSpecificTempMemory(i) PROVE HeapNext
  <2>1. strtmp[i] \in Entries(strtmp) /\ FreeMemory({strtmp[i].at})
    BY <1>7 DEF ClearSpecificTempMemory, Entries
  <2>2. strtmp[i].at \in live
    BY <1>1, <2>1 DEF HoldInv, Addrs
  <2> QED
    BY <2>1, <2>2, FreeIsStep
<1>8. ASSUME NEW s \in Pages, NEW k \in 1 .. ArgPages, NEW lv \in {0, level}, Dim(s, k, lv)
      PROVE  HeapNext
  BY <1>8, CallsAssumption, AllocationIsStep DEF Dim
<1>9. ASSUME NEW v \in vars, Erase(v) PROVE HeapNext
  <2>1. v.at \in live /\ FreeMemory({v.at})
    BY <1>1, <1>9 DEF Erase, HoldInv, Addrs
  <2> QED
    BY <2>1, FreeIsStep
<1>10. ASSUME NEW n \in {-1, 0, 2}, OnError(n) PROVE UNCHANGED heapVars
  BY <1>10 DEF OnError
<1>11. ASSUME NEW fun \in BOOLEAN, NoRoomForCall(fun) PROVE HeapNext \/ StaleFree
  <2>1. In({"cmd", "args", "bind", "result"})
    BY <1>11 DEF NoRoomForCall, In
  <2>2. left => StaleFree
    BY <1>11 DEF NoRoomForCall, StaleFree, Stale
  <2> QED
    BY <1>11, <2>1, <2>2, ErrorIsStep DEF NoRoomForCall
<1>12. ASSUME NEW fun \in BOOLEAN, NEW s \in Pages, StartCall(fun, s) PROVE HeapNext
  BY <1>12, CallsAssumption, AllocationIsStep DEF StartCall
<1>13. CASE Bound
  <2>1. stack # <<>> /\ Top.argval \in Own(Top) /\ FreeMemory({Top.argval})
    BY <1>13 DEF Bound, In, Own, Buffer
  <2> QED
    BY <2>1, FreedIsLive, FreeIsStep
<1>14. CASE Error
  <2>1. left => StaleFree
    BY <1>14 DEF Error, StaleFree, Stale
  <2> QED
    BY <1>14, <2>1, ErrorIsStep DEF Error
<1>15. CASE ClearRuntime
  BY <1>15 DEF ClearRuntime, HeapNext
<1>16. ASSUME NEW sub \in BOOLEAN, GotAnInterrupt(sub) PROVE UNCHANGED heapVars
  BY <1>16 DEF GotAnInterrupt
<1>17. CASE NoLabel
  <2>1. In({"cmd", "args", "bind", "result"})
    BY <1>17 DEF NoLabel, In
  <2>2. left => StaleFree
    BY <1>17 DEF NoLabel, StaleFree, Stale
  <2> QED
    BY <1>17, <2>1, <2>2, ErrorIsStep DEF NoLabel
<1>18. CASE do_end
  <2>1. FreeMemory(TempsFreed(0))
    BY <1>18 DEF do_end
  <2> QED
    BY <2>1, FreedIsLive, FreeIsStep
<1> QED
  BY <1>2, <1>3, <1>4, <1>5, <1>6, <1>7, <1>8, <1>9, <1>10, <1>11, <1>12, <1>13, <1>14, <1>15,
     <1>16, <1>17, <1>18, Zenon DEF Next

\* The interpreter uses the heap as HeapNext asks of its users: whatever commands,
\* calls, errors and interrupts a program is made of, and wherever Ctrl-C ends it,
\* FreeMemory is only called with addresses that are allocated and none is given
\* back twice; with one exception, an error while DefinedSubFunMem has the address
\* of a call that Ctrl-C left.
THEOREM CallsUseHeap == Spec => HeapInit /\ [][HeapNext \/ StaleFree]_heapVars
<1>1. Init => HeapInit
  BY DEF Init
<1>2. CallsInv /\ [Next]_allVars => [HeapNext \/ StaleFree]_heapVars
  <2>1. UNCHANGED allVars => UNCHANGED heapVars
    BY DEF allVars
  <2>2. ASSUME LostInv, Next PROVE HeapNext
    <3>1. ClearRuntime
      BY <2>2, PromptNext DEF LostInv
    <3> QED
      BY <3>1 DEF ClearRuntime, HeapNext
  <2> QED
    BY <2>1, <2>2, HeapStep DEF CallsInv
<1> QED
  BY <1>1, <1>2, CallsInvariant, PTL DEF Spec

\* The memory of a running program, seen as blocks, behaves as Allocator promises:
\* what is handed out overlaps nothing that is in use, and only a release changes
\* it, until an error frees the buffer of a call that Ctrl-C left, and again after
\* the next RUN.
THEOREM CallsRefineAllocator == Spec => CallsFindAllocator
<1>1. Init => Promise!AllocInit
  BY DEF Init, HeapInit, Promise!AllocInit, Promised, Blocks
<1>2. CallsInv /\ CallsInv' /\ [Next]_allVars => [Promise!AllocNext]_Promised
  <2> SUFFICES ASSUME CallsInv, CallsInv', [Next]_allVars
               PROVE  [Promise!AllocNext]_Promised
    OBVIOUS
  <2>1. CASE ~Sound'
    <3>1. Promised' = {} /\ Promised \ Promised = {}
      BY <2>1 DEF Promised
    <3>2. Promised' = Promised \ Promised /\ Promised \in SUBSET Promised
      BY <3>1
    <3> QED
      BY <3>2 DEF Promise!AllocNext, Promise!Release
  <2>2. CASE Sound' /\ ~Sound
    <3>1. LostInv /\ Promised = {}
      BY <2>2 DEF CallsInv, ProgramInv, Typed, Sound, Promised
    <3>2. ~(untidy' = untidy)
      BY <2>2 DEF Sound
    <3>3. Next
      BY <3>2 DEF allVars
    <3>4. ClearRuntime
      BY <3>1, <3>3, PromptNext DEF LostInv
    <3>5. live' = {}
      BY <3>4 DEF ClearRuntime, InitHeap
    <3>6. Promised' = {}
      BY <2>2, <3>5 DEF Promised, Blocks
    <3> QED
      BY <3>1, <3>6
  <2>3. CASE Sound' /\ Sound
    <3>1. ProgramInv
      BY <2>3 DEF CallsInv, LostInv, Sound
    <3>2. ~StaleFree
      BY <2>3 DEF StaleFree, Sound
    <3>3. [HeapNext]_heapVars
      BY <3>1, <3>2, HeapStep DEF allVars
    <3>4. [Abstract!AllocNext]_Blocks
      BY <3>1, <3>3, StepRefines DEF ProgramInv
    <3>5. Promised = Blocks /\ Promised' = Blocks'
      BY <2>3 DEF Promised
    <3> QED
      BY <3>4, <3>5 DEF Abstract!AllocNext, Abstract!Get, Abstract!Release, Abstract!Extent,
           Promise!AllocNext, Promise!Get, Promise!Release, Promise!Extent
  <2> QED
    BY <2>1, <2>2, <2>3
<1> QED
  BY <1>1, <1>2, CallsInvariant, PTL DEF Spec, CallsFindAllocator, Promise!AllocSpec
=============================================================================
