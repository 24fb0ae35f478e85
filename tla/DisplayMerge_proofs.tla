------------------------- MODULE DisplayMerge_proofs -------------------------
(***************************************************************************)
(* What DisplayMerge guarantees for a FIFO of any depth and any number of  *)
(* commands: core 1 takes for commands what was posted as commands, and    *)
(* leaves freed buffers and the panel alone.                               *)
(***************************************************************************)
EXTENDS DisplayMerge, TLAPS, SequenceTheorems

-----------------------------------------------------------------------------
(* The inductive invariant.                                                *)

Posted == Reading \cup {8}
WordType == [v : Nat, head : BOOLEAN]

\* The words of one command, all of them.
Whole(s) ==
    /\ Len(s) = 1 + Payload(s[1].v)
    /\ s[1].head /\ s[1].v \in Posted
    /\ \A k \in 2 .. Len(s) : ~s[k].head

\* Core 0 holds a whole command until it has pushed the first word of it.
Fresh(c) == c.pc = "push" /\ c.out[1].head
Core0Out(c) ==
    /\ c.pc = "push" => c.out # <<>> /\ \A k \in 2 .. Len(c.out) : ~c.out[k].head
    /\ Fresh(c) => Whole(c.out)
    /\ c.then \in {"push", "SWAP"} => Whole(c.out) /\ c.out[1].v # 1

\* What an abort belongs to, and what a command can have become.
Afterwards == {"basic", "push", "merge", "F", "L", "FL"}
Core0Then(c) ==
    /\ c.pc \in {"abort", "stop", "wait"} => c.then \in Afterwards \cup {"END", "SHUT"}
    /\ c.pc = "clear" => c.then \in Afterwards \cup {"SHUT"}
    /\ c.pc = "free" => c.then \in {"F", "L", "FL", "SHUT"}
    /\ c.pc = "swap" => c.then \in {"SWAP", "SYNC", "CLOSE"}
    /\ c.pc = "copy" => c.then \in {"basic", "SYNC"}
    /\ c.pc \notin {"abort", "stop", "wait", "clear", "free", "swap", "copy"} => c.then = "basic"

Core0Ok(c) == c \in Core0Type /\ Core0Out(c) /\ Core0Then(c)

\* What core 1 can be doing for a command.
Core1Ok(c) ==
    /\ c \in Core1Type
    /\ c.pc \in {"args", "lock"} => c.cmd \in Reading
    /\ c.pc = "args" => Len(c.args) < Payload(c.cmd)
    /\ c.pc \in {"merge", "done"} => c.cmd \in Merging
    /\ c.pc = "loop" => c.cmd \in Continuous
    /\ c.pc = "draw" => c.cmd \in Posted
    /\ c.pc \in {"lock", "draw"} /\ c.cmd = 1 => Len(c.args) = 1

MutexInv ==
    /\ c0.pc = "touch" => mutex = "core0"
    /\ c0.pc = "draw" /\ engine = "interpreter" => mutex = "core0"
    /\ c1.pc = "draw" /\ c1.cmd # 8 => mutex = "core1"

Shape == TypeOK /\ Core0Ok(c0) /\ Core1Ok(c1) /\ MutexInv

\* The words core 1 has yet to pop: those in the FIFO and those core 0 still
\* has of a command it has begun to push; and how many of them belong to the
\* command core 1 has popped.
Stream == IF c0.pc = "push" /\ ~c0.out[1].head THEN fifo \o c0.out ELSE fifo
Rest == IF c1.pc = "args" THEN Payload(c1.cmd) - Len(c1.args) ELSE 0

\* The end of the command that starts at k.
End(s, k) == k + Payload(s[k].v)

\* s is the last n words of a command and then whole commands.
FramedFrom(s, n) ==
    /\ n <= Len(s) /\ \A k \in 1 .. n : ~s[k].head
    /\ n < Len(s) => s[n + 1].head
    /\ \A k \in 1 .. Len(s) : s[k].head =>
           /\ s[k].v \in Posted
           /\ End(s, k) <= Len(s) /\ \A j \in k + 1 .. End(s, k) : ~s[j].head
           /\ End(s, k) < Len(s) => s[End(s, k) + 1].head

\* Nothing comes after a continuous merge.
MergeIsLast ==
    /\ c1.pc # "idle" /\ c1.cmd \in Continuous => Len(Stream) = Rest
    /\ \A k \in 1 .. Len(Stream) :
           Stream[k].head /\ Stream[k].v \in Continuous => End(Stream, k) = Len(Stream)

Looping == c1.pc \in {"loop", "merge", "lock", "draw", "done"} /\ c1.cmd \in Continuous

\* As long as no command was posted into a continuous merge, the stream keeps
\* its frames, and the stop an abort posts is the only word when core 1 polls.
FrameInv ==
    /\ rebooted => slow
    /\ c1.pc # "idle" => c1.head
    /\ mergerunning => Looping
    /\ c0.pc = "stop" => mergerunning
    /\ c0.pc # "wait" => FramedFrom(Stream, Rest) /\ MergeIsLast
    /\ c0.pc = "wait" =>
           \/ ~polled /\ fifo = <<Word(StopWord, FALSE)>> /\ Looping /\ mergerunning
           \/ polled /\ fifo = <<>> /\ c1.pc = "idle"

\* The addresses of the buffers there are.
Sources == {Address[b] : b \in bufs}

\* The copies in s are of buffers at the addresses a.
Sourced(s, a) == \A k \in 1 .. Len(s) : s[k].head /\ s[k].v = 1 => s[k + 1].v \in a

\* Core 0 has aborted and not posted anything since, or began a copy when it had
\* nothing posted.
Stopped ==
    \/ c0.pc \in {"clear", "free"} \/ (engine = "vm" /\ c0.pc \in {"merge", "draw"})
    \/ c0.pc = "copy" /\ "unlocked" \notin misuse

\* Nothing is outstanding after an abort or during such a copy, and what is
\* outstanding uses buffers that exist.
BufferInv ==
    /\ Stopped => ~Outstanding(Reading)
    /\ Fresh(c0) /\ c0.out[1].v = 1 => c0.out[2].v \in Sources
    /\ Sourced(Stream, Sources)
    /\ c1.pc = "args" /\ c1.cmd = 1 => Stream[1].v \in Sources
    /\ c1.pc \in {"lock", "draw"} /\ c1.cmd = 1 => c1.args[1] \in Sources
    /\ c1.pc \in {"lock", "draw"} /\ c1.cmd \in Merging => bufs = {"F", "L"}

MergeInv ==
    /\ Shape
    /\ "stray" \notin misuse => FrameInv
    /\ Orderly => BufferInv
-----------------------------------------------------------------------------
(* Commands and their words.                                               *)

LEMMA Payloads ==
    /\ Payload(1) = 1 /\ Payload(2) = 1 /\ Payload(3) = 2 /\ Payload(4) = 5 /\ Payload(5) = 6
    /\ Payload(0) = 0 /\ Payload(8) = 0
BY DEF Payload

LEMMA PayloadNat ==
    ASSUME NEW c \in Nat
    PROVE  Payload(c) \in Nat
BY DEF Payload

LEMMA PayloadSome ==
    ASSUME NEW c \in Reading
    PROVE  c \in Nat /\ Payload(c) \in Nat /\ Payload(c) >= 1
BY DEF Payload, Reading

\* Post makes the words of a whole command.
LEMMA PostIs ==
    ASSUME NEW cmd \in Nat, NEW args, \A k \in DOMAIN args : args[k] \in Nat
    PROVE  /\ Post(cmd, args) \in Seq(WordType) /\ Len(Post(cmd, args)) = 1 + Payload(cmd)
           /\ Post(cmd, args)[1].v = cmd /\ Post(cmd, args)[1].head
           /\ \A k \in 1 .. Payload(cmd) :
                  /\ ~Post(cmd, args)[k + 1].head
                  /\ k \in DOMAIN args => Post(cmd, args)[k + 1].v = args[k]
<1> DEFINE n == Payload(cmd)
           w(k) == Word(IF k \in DOMAIN args THEN args[k] ELSE 0, FALSE)
           t == [k \in 1 .. n |-> w(k)]
           h == Word(cmd, TRUE)
<1>1. n \in Nat
  BY PayloadNat
<1>2. \A k \in 1 .. n : w(k) \in WordType /\ ~w(k).head /\ (k \in DOMAIN args => w(k).v = args[k])
  BY DEF Word, WordType
<1>3. h \in WordType /\ h.v = cmd /\ h.head
  BY DEF Word, WordType
<1>4. Post(cmd, args) = <<h>> \o t
  BY DEF Post
<1> HIDE DEF n, w, h
<1>5. t \in Seq(WordType) /\ Len(t) = n
  BY <1>1, <1>2
<1>6. \A k \in 1 .. n : t[k] = w(k)
  OBVIOUS
<1> HIDE DEF t
<1>7. /\ <<h>> \o t \in Seq(WordType) /\ Len(<<h>> \o t) = 1 + n /\ (<<h>> \o t)[1] = h
      /\ \A k \in 1 .. n : (<<h>> \o t)[k + 1] = t[k]
  BY <1>1, <1>3, <1>5
<1>8. \A k \in 1 .. n : (<<h>> \o t)[k + 1] = w(k)
  BY <1>6, <1>7
<1>9. /\ Post(cmd, args) \in Seq(WordType) /\ Len(Post(cmd, args)) = 1 + n
      /\ Post(cmd, args)[1].v = cmd /\ Post(cmd, args)[1].head
  BY <1>3, <1>4, <1>7
<1>10. ASSUME NEW k \in 1 .. n
       PROVE  /\ ~Post(cmd, args)[k + 1].head
              /\ k \in DOMAIN args => Post(cmd, args)[k + 1].v = args[k]
  BY <1>2, <1>4, <1>8
<1> QED
  BY <1>9, <1>10 DEF n

LEMMA PostWhole ==
    ASSUME NEW cmd \in Posted, NEW args, \A k \in DOMAIN args : args[k] \in Nat
    PROVE  /\ Post(cmd, args) \in Seq(WordType) /\ Post(cmd, args) # <<>>
           /\ Whole(Post(cmd, args)) /\ Post(cmd, args)[1].v = cmd
<1> DEFINE p == Post(cmd, args)
           n == Payload(cmd)
<1>1. cmd \in Nat
  BY DEF Posted, Reading
<1>2. /\ p \in Seq(WordType) /\ Len(p) = 1 + n /\ p[1].v = cmd /\ p[1].head
      /\ \A k \in 1 .. n : ~p[k + 1].head
  BY <1>1, PostIs
<1>3. n \in Nat
  BY <1>1, PayloadNat
<1> HIDE DEF p
<1>5. \A k \in 2 .. Len(p) : ~p[k].head
  <2> SUFFICES ASSUME NEW k \in 2 .. Len(p) PROVE ~p[k].head
    OBVIOUS
  <2>1. k - 1 \in 1 .. n /\ (k - 1) + 1 = k
    BY <1>2, <1>3
  <2> QED
    BY <1>2, <2>1
<1> QED
  BY <1>2, <1>3, <1>5 DEF Whole, p

\* A command that is a copy, and the buffer it copies.
LEMMA PostCopy ==
    ASSUME NEW a \in Nat
    PROVE  Post(1, <<a>>)[2].v = a
<1>1. (\A k \in DOMAIN <<a>> : <<a>>[k] \in Nat) /\ 1 \in DOMAIN <<a>> /\ <<a>>[1] = a
  OBVIOUS
<1> DEFINE args == <<a>>
<1> HIDE DEF args
<1>2. \A k \in 1 .. Payload(1) : k \in DOMAIN args => Post(1, args)[k + 1].v = args[k]
  BY <1>1, PostIs DEF args
<1>3. 1 \in 1 .. Payload(1)
  BY Payloads
<1>4. Post(1, args)[1 + 1].v = args[1]
  BY <1>1, <1>2, <1>3 DEF args
<1> QED
  BY <1>1, <1>4 DEF args

LEMMA TailIs ==
    ASSUME NEW s \in Seq(WordType), s # <<>>
    PROVE  /\ Tail(s) \in Seq(WordType) /\ Len(Tail(s)) = Len(s) - 1 /\ Len(s) \in Nat \ {0}
           /\ Len(s) # 1 => Tail(s) # <<>>
           /\ \A k \in 1 .. Len(Tail(s)) : k + 1 \in 1 .. Len(s) /\ Tail(s)[k] = s[k + 1]
           /\ Head(s) = s[1] /\ s[1] \in WordType
<1>1. Len(s) \in Nat /\ Len(s) # 0
  OBVIOUS
<1>2. Tail(s) \in Seq(WordType) /\ Len(Tail(s)) = Len(s) - 1
  OBVIOUS
<1>3. \A k \in 1 .. Len(Tail(s)) : k + 1 \in 1 .. Len(s) /\ Tail(s)[k] = s[k + 1]
  BY <1>1, <1>2
<1>4. Len(s) # 1 => Tail(s) # <<>>
  BY <1>1, <1>2
<1>5. Head(s) = s[1] /\ s[1] \in WordType
  BY <1>1
<1> QED
  BY <1>1, <1>2, <1>3, <1>4, <1>5
-----------------------------------------------------------------------------
(* Core 0 by itself.                                                       *)

Pcs0 == {"basic", "abort", "stop", "wait", "clear", "push", "free", "merge",
         "draw", "copy", "sync", "swap", "touch"}
Thens == Afterwards \cup {"END", "SHUT", "SWAP", "SYNC", "CLOSE"}

LEMMA Names ==
    /\ "basic" \in Pcs0 /\ "abort" \in Pcs0 /\ "stop" \in Pcs0 /\ "wait" \in Pcs0 /\ "clear" \in Pcs0
    /\ "push" \in Pcs0 /\ "free" \in Pcs0 /\ "merge" \in Pcs0 /\ "draw" \in Pcs0 /\ "swap" \in Pcs0
    /\ "copy" \in Pcs0 /\ "sync" \in Pcs0 /\ "SYNC" \in Thens
    /\ "basic" \in Thens /\ "SHUT" \in Thens /\ "END" \in Thens
BY DEF Pcs0, Thens, Afterwards

LEMMA Idle0Ok == Core0Ok(Idle0) /\ Idle0.pc = "basic" /\ Idle0.then = "basic"
BY DEF Idle0, Core0Ok, Core0Type, Core0Out, Core0Then, Fresh, Afterwards

LEMMA Idle1Ok == Core1Ok(Idle1) /\ Idle1.pc = "idle" /\ Idle1.cmd = 0
BY DEF Idle1, Core1Ok, Core1Type

LEMMA Fields0 ==
    ASSUME NEW c \in Core0Type
    PROVE  /\ c.out \in Seq(WordType) /\ c.pc \in Pcs0
           /\ c.then \in Thens
BY DEF Core0Type, WordType, Pcs0, Thens, Afterwards

LEMMA Move0 ==
    ASSUME NEW c \in Core0Type, NEW p \in Pcs0, NEW d, d = [c EXCEPT !.pc = p]
    PROVE  d \in Core0Type /\ d.pc = p /\ d.then = c.then /\ d.out = c.out
BY DEF Core0Type, Pcs0

\* A command that has yet to be pushed, on the way to its first push.
LEMMA Keeps0 ==
    ASSUME NEW c, Core0Ok(c), NEW d \in Core0Type, d.out = c.out, d.pc \in Pcs0 \ {"push"},
           d.then = c.then \/ d.then \notin {"push", "SWAP"}, Core0Then(d)
    PROVE  Core0Ok(d)
BY DEF Core0Ok, Core0Out, Fresh

LEMMA Pushes0 ==
    ASSUME NEW c, Core0Ok(c), NEW d \in Core0Type, d.out = c.out, d.pc = "push", d.then = "basic",
           c.then \in {"push", "SWAP"}
    PROVE  Core0Ok(d) /\ Fresh(d) /\ d.out[1].v # 1
<1>1. Whole(d.out) /\ d.out[1].v # 1 /\ d.out \in Seq(WordType)
  BY Fields0 DEF Core0Ok, Core0Out
<1>2. d.out # <<>> /\ d.out[1].head /\ \A k \in 2 .. Len(d.out) : ~d.out[k].head
  <2>0. d.out[1].v \in Nat
    BY <1>1 DEF Whole, Posted, Reading
  <2>1. Payload(d.out[1].v) \in Nat
    BY <2>0, PayloadNat
  <2> QED
    BY <1>1, <2>1 DEF Whole
<1> QED
  BY <1>1, <1>2 DEF Core0Ok, Core0Out, Core0Then, Fresh, Afterwards

\* Where an abort ends: the pcs that follow, and what is pushed is a whole command.
Next0(c, d) ==
    /\ Core0Ok(d) /\ d.pc # "wait" /\ d.pc # "stop" /\ d.pc # "draw" /\ d.pc # "touch"
    /\ d.pc = "push" => Fresh(d) /\ d.out[1].v # 1

LEMMA ContinueOk ==
    ASSUME NEW c, Core0Ok(c), c.then \in Afterwards \cup {"SHUT"}
    PROVE  Next0(c, Continue(c)) /\ Continue(c).pc \in {"basic", "push", "merge", "free"}
<1> DEFINE d == Continue(c)
<1>0. c \in Core0Type
  BY DEF Core0Ok
<1>1. CASE c.then = "basic"
  <2>1. d = Idle0
    BY <1>1 DEF Continue
  <2> QED
    BY <2>1, Idle0Ok DEF Next0
<1>2. CASE c.then = "push"
  <2>1. d = [c EXCEPT !.pc = "push", !.then = "basic"]
    BY <1>2 DEF Continue
  <2> HIDE DEF d
  <2>2. d \in Core0Type /\ d.pc = "push" /\ d.then = "basic" /\ d.out = c.out
    BY <1>0, <2>1 DEF Core0Type
  <2>3. Core0Ok(d) /\ Fresh(d) /\ d.out[1].v # 1
    BY <1>2, <2>2, Pushes0
  <2> QED
    BY <2>2, <2>3 DEF Next0, d
<1>3. CASE c.then = "merge"
  <2>1. d = [c EXCEPT !.pc = "merge", !.then = "basic"]
    BY <1>3 DEF Continue
  <2> HIDE DEF d
  <2>2. d \in Core0Type /\ d.pc = "merge" /\ d.then = "basic" /\ d.out = c.out
    BY <1>0, <2>1 DEF Core0Type
  <2>3. Core0Ok(d)
    BY <2>2, Keeps0 DEF Core0Then, Pcs0
  <2> QED
    BY <2>2, <2>3 DEF Next0, d
<1>4. CASE c.then \in {"F", "L", "FL", "SHUT"}
  <2>1. d = [c EXCEPT !.pc = "free"]
    BY <1>4 DEF Continue
  <2> HIDE DEF d
  <2>2. d \in Core0Type /\ d.pc = "free" /\ d.then = c.then /\ d.out = c.out
    BY <1>0, <2>1, Move0, Names
  <2>3. Core0Ok(d)
    BY <1>4, <2>2, Keeps0 DEF Core0Then, Pcs0
  <2> QED
    BY <2>2, <2>3 DEF Next0, d
<1> QED
  BY <1>1, <1>2, <1>3, <1>4 DEF Afterwards

LEMMA AfterAbortOk ==
    ASSUME Core0Ok(c0), c0.then \in Afterwards \cup {"END", "SHUT"}
    PROVE  /\ Next0(c0, AfterAbort)
           /\ AfterAbort.pc \in {"basic", "push", "merge", "free", "clear", "abort"}
           /\ engine = "vm" => AfterAbort.pc \in {"clear", "abort"}
<1>0. c0 \in Core0Type
  BY DEF Core0Ok
<1>1. CASE c0.then = "END"
  <2> DEFINE d == AfterAbort
  <2>1. d = [c0 EXCEPT !.pc = "abort", !.then = "SHUT"]
    BY <1>1 DEF AfterAbort
  <2> HIDE DEF d
  <2>2. d \in Core0Type /\ d.pc = "abort" /\ d.then = "SHUT" /\ d.out = c0.out
    BY <1>0, <2>1 DEF Core0Type
  <2>3. Core0Ok(d)
    BY <2>2, Keeps0 DEF Core0Then, Pcs0
  <2> QED
    BY <2>2, <2>3 DEF Next0, d
<1>2. CASE c0.then # "END" /\ (c0.then = "SHUT" \/ engine = "vm")
  <2> DEFINE d == AfterAbort
  <2>1. d = [c0 EXCEPT !.pc = "clear"]
    BY <1>2 DEF AfterAbort
  <2> HIDE DEF d
  <2>2. d \in Core0Type /\ d.pc = "clear" /\ d.then = c0.then /\ d.out = c0.out
    BY <1>0, <2>1, Move0, Names
  <2>3. Core0Ok(d)
    BY <1>2, <2>2, Keeps0 DEF Core0Then, Pcs0
  <2> QED
    BY <2>2, <2>3 DEF Next0, d
<1>3. CASE c0.then # "END" /\ c0.then # "SHUT" /\ engine # "vm"
  <2>1. AfterAbort = Continue(c0)
    BY <1>3 DEF AfterAbort
  <2>2. c0.then \in Afterwards \cup {"SHUT"}
    BY <1>3
  <2> QED
    BY <1>3, <2>1, <2>2, ContinueOk
<1> QED
  BY <1>1, <1>2, <1>3
-----------------------------------------------------------------------------
(* Types, and what each core can be doing.                                 *)

LEMMA Typed ==
    ASSUME Shape
    PROVE  /\ fifo \in Seq(WordType) /\ Len(fifo) <= FifoDepth /\ FifoDepth \in Nat
           /\ c0 \in Core0Type /\ c1 \in Core1Type /\ Core0Ok(c0) /\ Core1Ok(c1) /\ MutexInv
           /\ c0.out \in Seq(WordType) /\ c1.cmd \in Nat /\ c1.args \in Seq(Nat)
           /\ issued \in 0 .. MaxCommands /\ MaxCommands \in Nat
<1>1. /\ fifo \in Seq(WordType) /\ Len(fifo) <= FifoDepth /\ c0 \in Core0Type /\ c1 \in Core1Type
      /\ issued \in 0 .. MaxCommands
  BY DEF Shape, TypeOK, WordType
<1>2. FifoDepth \in Nat /\ MaxCommands \in Nat
  BY MergeAssumption
<1>3. c0.out \in Seq(WordType)
  BY <1>1, Fields0
<1>4. c1.cmd \in Nat /\ c1.args \in Seq(Nat)
  BY <1>1 DEF Core1Type
<1> QED
  BY <1>1, <1>2, <1>3, <1>4 DEF Shape

LEMMA Record0 ==
    ASSUME NEW p \in Pcs0, NEW o \in Seq(WordType), NEW t \in Thens,
           NEW d, d = [pc |-> p, out |-> o, then |-> t]
    PROVE  d \in Core0Type /\ d.pc = p /\ d.out = o /\ d.then = t
BY DEF Core0Type, Pcs0, Thens, Afterwards, WordType

\* A command that posts: it starts with the words of one whole command.
LEMMA BeginPost ==
    ASSUME NEW cmd \in Posted, NEW args, \A k \in DOMAIN args : args[k] \in Nat,
           NEW d, d = [pc |-> "push", out |-> Post(cmd, args), then |-> "basic"]
    PROVE  Core0Ok(d) /\ d.pc = "push" /\ Fresh(d) /\ d.out = Post(cmd, args)
<1> DEFINE o == Post(cmd, args)
<1>1. o \in Seq(WordType) /\ o # <<>> /\ Whole(o)
  BY PostWhole
<1> HIDE DEF o
<1>2. d \in Core0Type /\ d.pc = "push" /\ d.out = o /\ d.then = "basic"
  BY <1>1, Record0, Names DEF o
<1>3. o[1].head /\ \A k \in 2 .. Len(o) : ~o[k].head
  BY <1>1 DEF Whole
<1>4. Core0Then(d) /\ Core0Out(d) /\ Fresh(d)
  BY <1>1, <1>2, <1>3 DEF Core0Then, Core0Out, Fresh
<1> QED
  BY <1>2, <1>4 DEF Core0Ok, o

\* A command that goes through an abort or a wait first.
LEMMA BeginLater ==
    ASSUME NEW p \in {"abort", "swap"}, NEW cmd \in Posted \ {1}, NEW t \in {"push", "SWAP", "SYNC", "CLOSE"},
           p = "swap" <=> t # "push",
           NEW d, d = [pc |-> p, out |-> Post(cmd, <<>>), then |-> t]
    PROVE  Core0Ok(d) /\ d.pc = p /\ d.then = t
<1> DEFINE o == Post(cmd, <<>>)
<1>1. o \in Seq(WordType) /\ Whole(o) /\ o[1].v = cmd
  <2>1. cmd \in Posted /\ \A k \in DOMAIN <<>> : <<>>[k] \in Nat
    OBVIOUS
  <2> QED
    BY <2>1, PostWhole
<1> HIDE DEF o
<1>2. d \in Core0Type /\ d.pc = p /\ d.out = o /\ d.then = t
  <2>1. p \in Pcs0 /\ t \in Thens
    BY DEF Pcs0, Thens, Afterwards
  <2> QED
    BY <1>1, <2>1, Record0 DEF o
<1>3. Core0Then(d) /\ Core0Out(d)
  BY <1>1, <1>2 DEF Core0Then, Core0Out, Fresh, Afterwards
<1> QED
  BY <1>2, <1>3 DEF Core0Ok

\* A command that posts nothing.
LEMMA BeginPlain ==
    ASSUME NEW p \in {"basic", "abort", "sync", "touch", "merge", "copy"}, NEW o \in Seq(WordType),
           NEW t \in Thens, p = "abort" => t \in Afterwards \cup {"END"}, t # "push",
           p = "copy" => t \in {"basic", "SYNC"}, p \notin {"abort", "copy"} => t = "basic",
           NEW d, d = [pc |-> p, out |-> o, then |-> t]
    PROVE  Core0Ok(d) /\ d.pc = p /\ d.then = t
<1>1. d \in Core0Type /\ d.pc = p /\ d.out = o /\ d.then = t
  <2>1. p \in Pcs0
    BY DEF Pcs0
  <2> QED
    BY <2>1, Record0
<1>2. Core0Then(d) /\ Core0Out(d)
  BY <1>1 DEF Core0Then, Core0Out, Fresh, Afterwards
<1> QED
  BY <1>1, <1>2 DEF Core0Ok

\* What every command does to core 0.
LEMMA CommandOk ==
    ASSUME Shape, Command
    PROVE  /\ Core0Ok(c0') /\ c0.pc = "basic" /\ issued' \in 0 .. MaxCommands
           /\ c0'.pc \in {"basic", "abort", "sync", "touch", "merge", "push", "swap", "copy"}
           /\ c0'.pc = "push" => Fresh(c0')
           /\ c0'.pc = "push" /\ c0'.out[1].v = 1 => \E b \in bufs : c0'.out[2].v = Address[b]
           /\ c0'.pc = "merge" => engine # "vm"
<1>0. issued \in 0 .. MaxCommands /\ MaxCommands \in Nat
  BY Typed
<1> DEFINE Good == /\ Core0Ok(c0') /\ c0.pc = "basic" /\ issued' \in 0 .. MaxCommands
                   /\ c0'.pc \in {"basic", "abort", "sync", "touch", "merge", "push", "swap", "copy"}
                   /\ c0'.pc = "push" => Fresh(c0')
                   /\ c0'.pc = "push" /\ c0'.out[1].v = 1 => \E b \in bufs : c0'.out[2].v = Address[b]
                   /\ c0'.pc = "merge" => engine # "vm"
<1>1. ASSUME NEW p, NEW o, NEW t, Begin(p, o, t)
      PROVE  c0.pc = "basic" /\ issued' \in 0 .. MaxCommands /\ c0' = [pc |-> p, out |-> o, then |-> t]
  BY <1>0, <1>1 DEF Begin
<1>2. \A k \in DOMAIN <<>> : <<>>[k] \in Nat
  OBVIOUS
<1>3. <<>> \in Seq(WordType)
  OBVIOUS
<1>4. ASSUME NEW p \in {"basic", "abort", "sync", "touch", "merge", "copy"}, NEW o \in Seq(WordType),
             NEW t \in Thens, p = "abort" => t \in Afterwards \cup {"END"}, t # "push",
             p = "copy" => t \in {"basic", "SYNC"}, p \notin {"abort", "copy"} => t = "basic",
             p = "merge" => engine # "vm", Begin(p, o, t)
      PROVE  Good
  <2>1. c0.pc = "basic" /\ issued' \in 0 .. MaxCommands /\ c0' = [pc |-> p, out |-> o, then |-> t]
    BY <1>1, <1>4
  <2>2. Core0Ok(c0') /\ c0'.pc = p
    BY <1>4, <2>1, BeginPlain
  <2> QED
    BY <1>4, <2>1, <2>2
<1>5. ASSUME NEW cmd \in Posted, NEW args, \A k \in DOMAIN args : args[k] \in Nat,
             cmd = 1 => \E b \in bufs : args = <<Address[b]>>, Begin("push", Post(cmd, args), "basic")
      PROVE  Good
  <2>1. c0.pc = "basic" /\ issued' \in 0 .. MaxCommands
        /\ c0' = [pc |-> "push", out |-> Post(cmd, args), then |-> "basic"]
    BY <1>1, <1>5
  <2>2. Core0Ok(c0') /\ c0'.pc = "push" /\ Fresh(c0') /\ c0'.out = Post(cmd, args)
    BY <1>5, <2>1, BeginPost
  <2>3. c0'.out[1].v = cmd
    BY <1>5, <2>2, PostWhole
  <2>4. ASSUME cmd = 1
        PROVE  \E b \in bufs : c0'.out[2].v = Address[b]
    <3>1. PICK b \in bufs : args = <<Address[b]>>
      BY <1>5, <2>4
    <3>2. Address[b] \in Nat
      BY <1>5, <3>1
    <3> QED
      BY <2>2, <2>4, <3>1, <3>2, PostCopy
  <2> QED
    BY <2>1, <2>2, <2>3, <2>4
<1>6. ASSUME NEW p \in {"abort", "swap"}, NEW cmd \in Posted \ {1}, NEW t \in {"push", "SWAP", "SYNC", "CLOSE"},
             p = "swap" <=> t # "push", Begin(p, Post(cmd, <<>>), t)
      PROVE  Good
  <2>1. c0.pc = "basic" /\ issued' \in 0 .. MaxCommands /\ c0' = [pc |-> p, out |-> Post(cmd, <<>>), then |-> t]
    BY <1>1, <1>6
  <2>2. Core0Ok(c0') /\ c0'.pc = p
    BY <1>6, <2>1, BeginLater
  <2> QED
    BY <1>6, <2>1, <2>2
<1>7. ASSUME Begin("basic", <<>>, "basic") PROVE Good
  BY <1>3, <1>4, <1>7, Names
<1> HIDE DEF Good
<1>8. ASSUME NEW b \in {"F", "L"}, Create(b) PROVE Good
  BY <1>7, <1>8 DEF Create
<1>9. ASSUME NEW b \in {"F", "L"}, CopyB(b) PROVE Good
  <2>1. CASE engine = "vm"
    BY <1>7, <1>9, <2>1 DEF CopyB
  <2>2. CASE engine # "vm"
    <3>1. Begin("push", Post(1, <<Address[b]>>), "basic") /\ b \in bufs
      BY <1>9, <2>2 DEF CopyB
    <3>2. (\A k \in DOMAIN <<Address[b]>> : <<Address[b]>>[k] \in Nat) /\ 1 \in Posted
      BY <1>9 DEF Address, Posted, Reading
    <3> QED
      BY <1>5, <3>1, <3>2
  <2> QED
    BY <2>1, <2>2
<1>10. ASSUME NEW cmd \in {0, 2, 3}, Merge(cmd) PROVE Good
  <2>1. Post(cmd, <<>>) \in Seq(WordType)
    BY <1>2, PostIs
  <2>2. CASE cmd = 0 /\ engine = "vm"
    <3>1. Begin("abort", Post(cmd, <<>>), "merge")
      BY <1>10, <2>2 DEF Merge
    <3>2. "merge" \in Thens /\ "merge" \in Afterwards
      BY DEF Thens, Afterwards
    <3> QED
      BY <1>4, <2>1, <3>1, <3>2
  <2>3. CASE cmd = 0 /\ engine # "vm"
    <3>1. Begin("merge", Post(cmd, <<>>), "basic")
      BY <1>10, <2>3 DEF Merge
    <3> QED
      BY <1>4, <2>1, <2>3, <3>1, Names
  <2>4. CASE cmd # 0 /\ engine = "vm"
    <3>1. Begin("abort", Post(cmd, <<>>), "push") /\ cmd \in Posted \ {1}
      BY <1>10, <2>4 DEF Merge, Posted, Reading
    <3> QED
      BY <1>6, <3>1
  <2>5. CASE cmd # 0 /\ engine # "vm"
    <3>1. Begin("push", Post(cmd, <<>>), "basic") /\ cmd \in Posted /\ cmd # 1
      BY <1>10, <2>5 DEF Merge, Posted, Reading
    <3> QED
      BY <1>2, <1>5, <3>1
  <2> QED
    BY <2>2, <2>3, <2>4, <2>5
<1>11. ASSUME NEW cmd \in {4, 5}, NEW rect \in Rects, Blit(cmd, rect) PROVE Good
  <2>1. Begin("push", Post(cmd, rect), "basic") /\ cmd \in Posted /\ cmd # 1
    BY <1>11 DEF Blit, Posted, Reading
  <2>2. \A k \in DOMAIN rect : rect[k] \in Nat
    BY MergeAssumption
  <2> QED
    BY <1>5, <2>1, <2>2
<1>12. ASSUME NEW then \in {"basic", "F", "L", "FL", "END"}, Abort(then) PROVE Good
  <2>1. Begin("abort", <<>>, then)
    BY <1>12 DEF Abort
  <2>2. then \in Thens /\ then \in Afterwards \cup {"END"} /\ then # "push"
    BY DEF Thens, Afterwards
  <2> QED
    BY <1>3, <1>4, <2>1, <2>2
<1>13. ASSUME StartSync PROVE Good
  <2>1. Begin("basic", <<>>, "basic") \/ Begin("sync", <<>>, "basic")
    BY <1>13 DEF StartSync
  <2> QED
    BY <1>3, <1>4, <1>7, <2>1, Names
<1>14. ASSUME FastCreate PROVE Good
  BY <1>7, <1>14 DEF FastCreate
<1>15. ASSUME Touch PROVE Good
  <2>1. Begin("touch", <<>>, "basic")
    BY <1>15 DEF Touch
  <2> QED
    BY <1>3, <1>4, <2>1, Names
<1>16. ASSUME NEW op \in {"SWAP", "SYNC", "CLOSE"}, FastWait(op) PROVE Good
  <2>1. Begin("swap", Post(8, <<>>), op) /\ 8 \in Posted \ {1}
    BY <1>16 DEF FastWait, Posted
  <2> QED
    BY <1>6, <2>1
<1>17. ASSUME NEW b \in {"F", "L"}, Copy(b) PROVE Good
  <2>1. Begin("copy", <<>>, "basic")
    BY <1>17 DEF Copy, BeginCopy
  <2> QED
    BY <1>3, <1>4, <2>1, Names
<1>18. ASSUME SyncCopies PROVE Good
  <2>1. Begin("copy", <<>>, "SYNC")
    BY <1>18 DEF SyncCopies, BeginCopy
  <2> QED
    BY <1>3, <1>4, <2>1, Names
<1>19. Good
  BY <1>8, <1>9, <1>10, <1>11, <1>12, <1>13, <1>14, <1>15, <1>16, <1>17, <1>18 DEF Command
<1> QED
  BY <1>19 DEF Good

\* The rest of what a command does.
LEMMA CommandRest ==
    ASSUME Shape, Command
    PROVE  /\ UNCHANGED <<engine, slow, fifo, mergerunning, fastgfx_done, c1, polled, rebooted>>
           /\ misuse \subseteq misuse' /\ misuse' \subseteq {"early", "stray", "unlocked"}
           /\ c0'.pc = "copy" => "unlocked" \in misuse' \/ ~Outstanding(Reading)
           /\ mergedone' \in BOOLEAN /\ active' \in BOOLEAN
           /\ bufs \subseteq bufs' /\ bufs' \subseteq {"F", "L"} /\ pending' \in {"none", "F", "L"}
           /\ mutex' = mutex \/ (mutex = "none" /\ mutex' = "core0")
           /\ c0'.pc = "touch" => mutex' = "core0"
<1>0. /\ mergedone \in BOOLEAN /\ active \in BOOLEAN /\ bufs \subseteq {"F", "L"}
      /\ pending \in {"none", "F", "L"} /\ misuse \subseteq {"early", "stray", "unlocked"}
  BY DEF Shape, TypeOK
<1>1. ASSUME NEW b \in {"F", "L"}, Create(b) \/ CopyB(b)
      PROVE  /\ UNCHANGED <<engine, slow, fifo, mergerunning, mergedone, fastgfx_done, mutex, active, c1, polled,
                            misuse, rebooted>>
             /\ bufs \subseteq bufs' /\ bufs' \subseteq {"F", "L"} /\ pending' \in {"none", "F", "L"}
             /\ c0'.pc \notin {"touch", "copy"}
  <2>1. CASE Create(b)
    BY <1>0, <2>1 DEF Create, Begin
  <2>2. CASE CopyB(b)
    <3>1. c0'.pc \notin {"touch", "copy"} /\ (pending' = b \/ pending' = pending)
      BY <2>2 DEF CopyB, Begin
    <3> QED
      BY <1>0, <2>2, <3>1 DEF CopyB
  <2> QED
    BY <1>1, <2>1, <2>2
<1>2. ASSUME NEW cmd \in {0, 2, 3}, Merge(cmd)
      PROVE  /\ UNCHANGED <<engine, slow, fifo, mergerunning, mergedone, fastgfx_done, mutex, bufs, active,
                            pending, c1, polled, misuse, rebooted>>
             /\ c0'.pc \notin {"touch", "copy"}
  BY <1>2 DEF Merge, Begin
<1>3. ASSUME NEW cmd \in {4, 5}, NEW rect \in Rects, Blit(cmd, rect)
      PROVE  /\ UNCHANGED <<engine, slow, fifo, mergerunning, mergedone, fastgfx_done, mutex, bufs, active,
                            pending, c1, polled, misuse, rebooted>>
             /\ c0'.pc \notin {"touch", "copy"}
  BY <1>3 DEF Blit, Begin
<1>4. ASSUME NEW then \in {"basic", "F", "L", "FL", "END"}, Abort(then)
      PROVE  /\ UNCHANGED <<engine, slow, fifo, mergerunning, mergedone, fastgfx_done, mutex, bufs, active,
                            pending, c1, polled, misuse, rebooted>>
             /\ c0'.pc \notin {"touch", "copy"}
  BY <1>4 DEF Abort, Begin
<1>5. ASSUME NEW op \in {"SWAP", "SYNC", "CLOSE"}, FastWait(op)
      PROVE  /\ UNCHANGED <<engine, slow, fifo, mergerunning, mergedone, fastgfx_done, mutex, bufs, active,
                            pending, c1, polled, misuse, rebooted>>
             /\ c0'.pc \notin {"touch", "copy"}
  BY <1>5 DEF FastWait, Begin
<1>6. ASSUME StartSync
      PROVE  /\ UNCHANGED <<engine, slow, fifo, mergerunning, fastgfx_done, mutex, bufs, active,
                            c1, polled, misuse, rebooted>>
             /\ mergedone' \in BOOLEAN /\ pending' \in {"none", "F", "L"} /\ c0'.pc \notin {"touch", "copy"}
  <2>1. /\ c0'.pc \notin {"touch", "copy"} /\ (mergedone' = FALSE \/ mergedone' = mergedone)
        /\ pending' = "none" \/ pending' = pending
    BY <1>6 DEF StartSync, Begin
  <2> QED
    BY <1>0, <1>6, <2>1 DEF StartSync
<1>7. ASSUME FastCreate
      PROVE  /\ UNCHANGED <<engine, slow, fifo, mergerunning, mergedone, fastgfx_done, mutex, bufs, pending,
                            c1, polled, misuse, rebooted>>
             /\ active' \in BOOLEAN /\ c0'.pc \notin {"touch", "copy"}
  BY <1>7 DEF FastCreate, Begin
<1>8. ASSUME Touch
      PROVE  /\ UNCHANGED <<engine, slow, fifo, mergerunning, mergedone, fastgfx_done, bufs, active, pending,
                            c1, polled, misuse, rebooted>>
             /\ mutex = "none" /\ mutex' = "core0" /\ c0'.pc # "copy"
  BY <1>8 DEF Touch, Begin
<1>12. ASSUME (\E b \in {"F", "L"} : Copy(b)) \/ SyncCopies
       PROVE  /\ UNCHANGED <<engine, slow, fifo, mergerunning, mergedone, fastgfx_done, mutex, bufs,
                             active, c1, polled, rebooted>>
              /\ misuse \subseteq misuse' /\ misuse' \subseteq {"early", "stray", "unlocked"}
              /\ "unlocked" \in misuse' \/ ~Outstanding(Reading)
              /\ pending' \in {"none", "F", "L"} /\ c0'.pc # "touch"
  <2>1. /\ UNCHANGED <<engine, slow, fifo, mergerunning, mergedone, fastgfx_done, mutex, bufs,
                       active, c1, polled, rebooted>>
        /\ misuse' = misuse \cup IF Outstanding(Reading) THEN {"unlocked"} ELSE {}
        /\ pending' = pending \/ pending' = "none"
    BY <1>12 DEF Copy, SyncCopies, BeginCopy
  <2>2. c0'.pc # "touch"
    BY <1>12 DEF Copy, SyncCopies, BeginCopy, Begin
  <2> QED
    BY <1>0, <2>1, <2>2
<1>9. CASE \E b \in {"F", "L"} : Create(b) \/ CopyB(b)
  BY <1>0, <1>1, <1>9
<1>10. CASE StartSync \/ FastCreate \/ Touch
  BY <1>0, <1>6, <1>7, <1>8, <1>10
<1>13. CASE (\E b \in {"F", "L"} : Copy(b)) \/ SyncCopies
  BY <1>0, <1>12, <1>13
<1>11. CASE \/ \E cmd \in {0, 2, 3} : Merge(cmd)
            \/ \E cmd \in {4, 5}, rect \in Rects : Blit(cmd, rect)
            \/ \E then \in {"basic", "F", "L", "FL", "END"} : Abort(then)
            \/ \E op \in {"SWAP", "SYNC", "CLOSE"} : FastWait(op)
  BY <1>0, <1>2, <1>3, <1>4, <1>5, <1>11
<1> QED
  BY <1>9, <1>10, <1>11, <1>13 DEF Command

LEMMA CommandShape ==
    ASSUME Shape, Command
    PROVE  Shape'
<1>1. /\ UNCHANGED <<engine, slow, fifo, mergerunning, fastgfx_done, c1, polled, rebooted>>
      /\ misuse' \subseteq {"early", "stray", "unlocked"}
      /\ mergedone' \in BOOLEAN /\ active' \in BOOLEAN
      /\ bufs \subseteq bufs' /\ bufs' \subseteq {"F", "L"} /\ pending' \in {"none", "F", "L"}
      /\ mutex' = mutex \/ (mutex = "none" /\ mutex' = "core0")
      /\ c0'.pc = "touch" => mutex' = "core0"
  BY CommandRest
<1>2. /\ Core0Ok(c0') /\ issued' \in 0 .. MaxCommands
      /\ c0'.pc \in {"basic", "abort", "sync", "touch", "merge", "push", "swap", "copy"}
  BY CommandOk
<1>3. TypeOK'
  BY <1>1, <1>2 DEF Shape, TypeOK, Core0Ok
<1>4. MutexInv'
  BY <1>1, <1>2 DEF Shape, MutexInv
<1> QED
  BY <1>1, <1>2, <1>3, <1>4 DEF Shape

\* Core 0's steps, as far as its own state goes.
LEMMA Core0StepOk ==
    ASSUME Shape, Core0 \/ CtrlC
    PROVE  Core0Ok(c0') /\ (c0'.pc = "draw" => c0.pc = "merge") /\ c0'.pc # "touch"
<1>0. c0 \in Core0Type /\ Core0Ok(c0) /\ c0.out \in Seq(WordType)
  BY Typed
<1>1. CASE Push
  <2>0. c0.pc = "push" /\ c0.out # <<>> /\ c0.then = "basic" /\ \A k \in 2 .. Len(c0.out) : ~c0.out[k].head
    BY <1>1, <1>0 DEF Push, Core0Ok, Core0Out, Core0Then
  <2>1. CASE Len(c0.out) = 1
    <3>1. c0' = Idle0
      BY <1>1, <2>1 DEF Push
    <3> QED
      BY <3>1, Idle0Ok
  <2>2. CASE Len(c0.out) # 1
    <3> DEFINE o == Tail(c0.out)
    <3>1. o \in Seq(WordType) /\ o # <<>> /\ Len(o) = Len(c0.out) - 1
          /\ \A k \in 1 .. Len(o) : o[k] = c0.out[k + 1]
      BY <1>0, <2>0, <2>2, TailIs
    <3>2. \A k \in 1 .. Len(o) : ~o[k].head
      <4> SUFFICES ASSUME NEW k \in 1 .. Len(o) PROVE ~o[k].head
        OBVIOUS
      <4>1. k + 1 \in 2 .. Len(c0.out) /\ o[k] = c0.out[k + 1]
        BY <1>0, <3>1
      <4> QED
        BY <2>0, <4>1
    <3>3. c0' = [c0 EXCEPT !.out = o]
      BY <1>1, <2>2 DEF Push
    <3> HIDE DEF o
    <3>4. c0' \in Core0Type /\ c0'.pc = "push" /\ c0'.then = "basic" /\ c0'.out = o
      BY <1>0, <2>0, <3>1, <3>3 DEF Core0Type, WordType
    <3>5. ~o[1].head
      BY <3>1, <3>2
    <3>6. \A k \in 2 .. Len(o) : ~o[k].head
      BY <3>2
    <3> QED
      BY <3>1, <3>4, <3>5, <3>6 DEF Core0Ok, Core0Out, Core0Then, Fresh
  <2> QED
    BY <2>1, <2>2
<1>2. CASE ReadRunning
  <2>1. c0.pc = "abort" /\ c0.then \in Afterwards \cup {"END", "SHUT"}
    BY <1>0, <1>2 DEF ReadRunning, Core0Ok, Core0Then
  <2>2. CASE mergerunning
    <3>1. c0' = [c0 EXCEPT !.pc = "stop"]
      BY <1>2, <2>2 DEF ReadRunning
    <3>2. c0' \in Core0Type /\ c0'.pc = "stop" /\ c0'.then = c0.then /\ c0'.out = c0.out
      BY <1>0, <3>1, Move0, Names
    <3> QED
      BY <1>0, <2>1, <3>2, Keeps0, Names DEF Core0Then
  <2>3. CASE ~mergerunning
    <3>1. c0' = AfterAbort
      BY <1>2, <2>3 DEF ReadRunning
    <3> QED
      BY <1>0, <2>1, <3>1, AfterAbortOk DEF Next0
  <2> QED
    BY <2>2, <2>3
<1>3. CASE PushStop
  <2>1. c0.pc = "stop" /\ c0' = [c0 EXCEPT !.pc = "wait"] /\ c0.then \in Afterwards \cup {"END", "SHUT"}
    BY <1>0, <1>3 DEF PushStop, Core0Ok, Core0Then
  <2>2. c0' \in Core0Type /\ c0'.pc = "wait" /\ c0'.then = c0.then /\ c0'.out = c0.out
    BY <1>0, <2>1, Move0, Names
  <2> QED
    BY <1>0, <2>1, <2>2, Keeps0, Names DEF Core0Then
<1>4. CASE WaitOver
  <2>1. c0.pc = "wait" /\ c0.then \in Afterwards \cup {"END", "SHUT"} /\ (c0' = Idle0 \/ c0' = AfterAbort)
    BY <1>0, <1>4 DEF WaitOver, Reboot, Core0Ok, Core0Then
  <2> QED
    BY <1>0, <2>1, AfterAbortOk, Idle0Ok DEF Next0
<1>5. CASE Clear
  <2>1. c0.pc = "clear" /\ c0.then \in Afterwards \cup {"SHUT"} /\ c0' = Continue(c0)
    BY <1>0, <1>5 DEF Clear, Core0Ok, Core0Then
  <2> QED
    BY <1>0, <2>1, ContinueOk DEF Next0
<1>6. CASE Free \/ DrawEnds \/ SyncDone \/ TouchDone
  <2>1. c0' = Idle0
    BY <1>6 DEF Free, DrawEnds, SyncDone, TouchDone
  <2> QED
    BY <2>1, Idle0Ok
<1>7. CASE DrawBegins
  <2>1. c0.pc = "merge" /\ c0' = [c0 EXCEPT !.pc = "draw"] /\ c0.then = "basic"
    BY <1>0, <1>7 DEF DrawBegins, Core0Ok, Core0Then
  <2>2. c0' \in Core0Type /\ c0'.pc = "draw" /\ c0'.then = c0.then /\ c0'.out = c0.out
    BY <1>0, <2>1, Move0, Names
  <2> QED
    BY <1>0, <2>1, <2>2, Keeps0, Names DEF Core0Then
<1>8. CASE FastReady
  <2>1. CASE c0.then = "SWAP"
    <3>1. c0' = [c0 EXCEPT !.pc = "push", !.then = "basic"]
      BY <1>8, <2>1 DEF FastReady
    <3>2. c0' \in Core0Type /\ c0'.pc = "push" /\ c0'.then = "basic" /\ c0'.out = c0.out
      BY <1>0, <3>1 DEF Core0Type
    <3> QED
      BY <1>0, <2>1, <3>2, Pushes0
  <2>2. CASE c0.then # "SWAP"
    <3>1. c0' = Idle0
      BY <1>8, <2>2 DEF FastReady
    <3> QED
      BY <3>1, Idle0Ok
  <2> QED
    BY <2>1, <2>2
<1>10. CASE CopyEnds
  <2>1. c0' = Idle0 \/ c0' = [Idle0 EXCEPT !.pc = "sync"]
    BY <1>10 DEF CopyEnds
  <2>2. CASE c0' = [Idle0 EXCEPT !.pc = "sync"]
    <3>1. c0' \in Core0Type /\ c0'.pc = "sync" /\ c0'.then = "basic" /\ c0'.out = Idle0.out
      BY <2>2, Move0, Names, Idle0Ok DEF Core0Ok
    <3> QED
      BY <3>1, Keeps0, Names, Idle0Ok DEF Core0Then
  <2> QED
    BY <2>1, <2>2, Idle0Ok
<1>9. CASE CtrlC
  <2>1. c0' = [c0 EXCEPT !.pc = "abort", !.then = "END"]
    BY <1>9 DEF CtrlC
  <2>2. c0' \in Core0Type /\ c0'.pc = "abort" /\ c0'.then = "END" /\ c0'.out = c0.out
    BY <1>0, <2>1 DEF Core0Type
  <2> QED
    BY <1>0, <2>2, Keeps0, Names DEF Core0Then
<1> QED
  BY <1>1, <1>2, <1>3, <1>4, <1>5, <1>6, <1>7, <1>8, <1>9, <1>10 DEF Core0

LEMMA Core0Shape ==
    ASSUME Shape, Core0 \/ CtrlC
    PROVE  Shape'
<1>0. /\ fifo \in Seq(WordType) /\ Len(fifo) <= FifoDepth /\ FifoDepth \in Nat
      /\ c0 \in Core0Type /\ c1 \in Core1Type /\ Core0Ok(c0) /\ Core1Ok(c1) /\ MutexInv
      /\ c0.out \in Seq(WordType)
  BY Typed
<1>1. Core0Ok(c0') /\ c0' \in Core0Type /\ (c0'.pc = "draw" => c0.pc = "merge") /\ c0'.pc # "touch"
  BY Core0StepOk DEF Core0Ok
<1>2. ASSUME NEW w \in WordType, Len(fifo) < FifoDepth
      PROVE  Append(fifo, w) \in Seq(WordType) /\ Len(Append(fifo, w)) <= FifoDepth
  BY <1>0, <1>2
<1>3. ASSUME UNCHANGED <<mutex, engine, c1>>, c0'.pc # "draw"
      PROVE  MutexInv'
  BY <1>0, <1>1, <1>3 DEF MutexInv
<1>4. CASE Push
  <2>1. Head(c0.out) \in WordType
    <3>1. c0.out # <<>>
      BY <1>0, <1>4 DEF Push, Core0Ok, Core0Out
    <3> QED
      BY <1>0, <3>1, TailIs
  <2>2. fifo' \in Seq(WordType) /\ Len(fifo') <= FifoDepth
    BY <1>2, <1>4, <2>1 DEF Push
  <2>3. misuse' \subseteq {"early", "stray", "unlocked"}
    BY <1>4 DEF Push, Shape, TypeOK
  <2>4. TypeOK'
    BY <1>1, <1>4, <2>2, <2>3 DEF Push, Shape, TypeOK, WordType
  <2>5. MutexInv'
    BY <1>1, <1>3, <1>4 DEF Push
  <2> QED
    BY <1>0, <1>1, <1>4, <2>4, <2>5 DEF Push, Shape
<1>5. CASE ReadRunning
  <2>1. misuse' \subseteq {"early", "stray", "unlocked"}
    BY <1>5 DEF ReadRunning, Shape, TypeOK
  <2>2. TypeOK'
    BY <1>1, <1>5, <2>1 DEF ReadRunning, Shape, TypeOK
  <2>3. MutexInv'
    BY <1>1, <1>3, <1>5 DEF ReadRunning
  <2> QED
    BY <1>0, <1>1, <1>5, <2>2, <2>3 DEF ReadRunning, Shape
<1>6. CASE PushStop
  <2>1. Word(StopWord, FALSE) \in WordType
    BY DEF Word, WordType, StopWord
  <2>2. fifo' \in Seq(WordType) /\ Len(fifo') <= FifoDepth
    BY <1>2, <1>6, <2>1 DEF PushStop
  <2>3. TypeOK'
    BY <1>1, <1>6, <2>2 DEF PushStop, Shape, TypeOK, WordType
  <2>4. MutexInv'
    BY <1>1, <1>3, <1>6 DEF PushStop
  <2> QED
    BY <1>0, <1>1, <1>6, <2>3, <2>4 DEF PushStop, Shape
<1>7. CASE WaitOver
  <2>1. CASE mergerunning
    <3>1. Reboot /\ UNCHANGED <<engine, slow, polled, misuse, issued>>
      BY <1>7, <2>1 DEF WaitOver
    <3>2. c1' = Idle1 /\ c0' = Idle0 /\ c1' \in Core1Type /\ Core1Ok(c1')
      BY <3>1, Idle1Ok DEF Reboot, Core1Ok
    <3>3. fifo' \in Seq(WordType) /\ Len(fifo') <= FifoDepth
      BY <1>0, <3>1 DEF Reboot
    <3>4. TypeOK'
      BY <1>1, <3>1, <3>2, <3>3 DEF Reboot, Shape, TypeOK, WordType
    <3>5. MutexInv'
      BY <3>2, Idle0Ok, Idle1Ok DEF MutexInv
    <3> QED
      BY <1>1, <3>2, <3>4, <3>5 DEF Shape
  <2>2. CASE ~mergerunning
    <3>1. UNCHANGED <<fifo, mergerunning, mergedone, fastgfx_done, mutex, bufs, active,
                      pending, c1, rebooted, engine, slow, polled, misuse, issued>>
      BY <1>7, <2>2 DEF WaitOver
    <3>2. TypeOK'
      BY <1>1, <3>1 DEF Shape, TypeOK
    <3>3. MutexInv'
      BY <1>1, <1>3, <1>7, <3>1 DEF WaitOver
    <3> QED
      BY <1>0, <1>1, <3>1, <3>2, <3>3 DEF Shape
  <2> QED
    BY <2>1, <2>2
<1>8. CASE Clear
  <2>1. TypeOK'
    BY <1>1, <1>8 DEF Clear, Shape, TypeOK
  <2>2. MutexInv'
    BY <1>1, <1>3, <1>8 DEF Clear
  <2> QED
    BY <1>0, <1>1, <1>8, <2>1, <2>2 DEF Clear, Shape
<1>9. CASE Free
  <2>0. bufs' \subseteq bufs /\ (pending' = "none" \/ pending' = pending)
    BY <1>9 DEF Free
  <2>1. TypeOK'
    BY <1>1, <1>9, <2>0 DEF Free, Shape, TypeOK
  <2>2. MutexInv'
    BY <1>1, <1>3, <1>9 DEF Free
  <2> QED
    BY <1>0, <1>1, <1>9, <2>1, <2>2 DEF Free, Shape
<1>10. CASE DrawBegins
  <2>0. /\ c0.pc = "merge" /\ UNCHANGED <<engine, c1>> /\ engine \in {"interpreter", "vm"}
        /\ engine = "interpreter" => mutex = "none" /\ mutex' = "core0"
        /\ engine = "vm" => mutex' = mutex
    BY <1>10 DEF DrawBegins, Shape, TypeOK
  <2>1. TypeOK'
    BY <1>1, <1>10 DEF DrawBegins, Shape, TypeOK
  <2>2. MutexInv'
    BY <1>0, <1>1, <2>0 DEF MutexInv
  <2> QED
    BY <1>0, <1>1, <2>0, <2>1, <2>2 DEF Shape
<1>11. CASE DrawEnds
  <2>0. /\ c0.pc = "draw" /\ c0' = Idle0 /\ UNCHANGED <<engine, c1>> /\ engine \in {"interpreter", "vm"}
        /\ engine = "interpreter" => mutex' = "none"
        /\ engine = "vm" => mutex' = mutex
    BY <1>11 DEF DrawEnds, Shape, TypeOK
  <2>1. TypeOK'
    BY <1>1, <1>11 DEF DrawEnds, Shape, TypeOK
  <2>2. MutexInv'
    BY <1>0, <2>0, Idle0Ok DEF MutexInv
  <2> QED
    BY <1>0, <1>1, <2>0, <2>1, <2>2 DEF Shape
<1>12. CASE SyncDone
  <2>1. TypeOK'
    BY <1>1, <1>12 DEF SyncDone, Shape, TypeOK
  <2>2. MutexInv'
    BY <1>1, <1>3, <1>12 DEF SyncDone
  <2> QED
    BY <1>0, <1>1, <1>12, <2>1, <2>2 DEF SyncDone, Shape
<1>16. CASE CopyEnds
  <2>0. mergedone' \in BOOLEAN
    BY <1>16 DEF CopyEnds, Shape, TypeOK
  <2>1. TypeOK'
    BY <1>1, <1>16, <2>0 DEF CopyEnds, Shape, TypeOK
  <2>2. MutexInv'
    <3>1. c0.pc # "merge"
      BY <1>16 DEF CopyEnds
    <3> QED
      BY <1>1, <1>3, <1>16, <3>1 DEF CopyEnds
  <2> QED
    BY <1>0, <1>1, <1>16, <2>1, <2>2 DEF CopyEnds, Shape
<1>13. CASE FastReady
  <2>1. TypeOK'
    BY <1>1, <1>13 DEF FastReady, Shape, TypeOK
  <2>2. MutexInv'
    BY <1>1, <1>3, <1>13 DEF FastReady
  <2> QED
    BY <1>0, <1>1, <1>13, <2>1, <2>2 DEF FastReady, Shape
<1>14. CASE TouchDone
  <2>0. c0.pc = "touch" /\ c0' = Idle0 /\ UNCHANGED <<engine, c1>> /\ mutex' = "none"
    BY <1>14 DEF TouchDone
  <2>1. TypeOK'
    BY <1>1, <1>14 DEF TouchDone, Shape, TypeOK
  <2>2. MutexInv'
    BY <1>0, <2>0, Idle0Ok DEF MutexInv
  <2> QED
    BY <1>0, <1>1, <2>0, <2>1, <2>2 DEF Shape
<1>15. CASE CtrlC
  <2>1. TypeOK'
    BY <1>1, <1>15 DEF CtrlC, Shape, TypeOK
  <2>2. MutexInv'
    BY <1>1, <1>3, <1>15 DEF CtrlC
  <2> QED
    BY <1>0, <1>1, <1>15, <2>1, <2>2 DEF CtrlC, Shape
<1> QED
  BY <1>4, <1>5, <1>6, <1>7, <1>8, <1>9, <1>10, <1>11, <1>12, <1>13, <1>14, <1>15, <1>16 DEF Core0

\* Core 1's steps, as far as its own state goes.
LEMMA Core1StepOk ==
    ASSUME Shape, Core1
    PROVE  /\ Core1Ok(c1') /\ fifo' \in Seq(WordType) /\ Len(fifo') <= FifoDepth
           /\ c1'.pc = "draw" => c1.pc = "lock" \/ c1'.cmd = 8
<1>0. /\ fifo \in Seq(WordType) /\ Len(fifo) <= FifoDepth /\ FifoDepth \in Nat
      /\ c1 \in Core1Type /\ Core1Ok(c1) /\ c1.cmd \in Nat /\ c1.args \in Seq(Nat)
  BY Typed
<1>1. ASSUME fifo # <<>>
      PROVE  /\ Tail(fifo) \in Seq(WordType) /\ Len(Tail(fifo)) <= FifoDepth
             /\ Head(fifo).v \in Nat /\ Head(fifo).head \in BOOLEAN
  <2>1. /\ Tail(fifo) \in Seq(WordType) /\ Len(Tail(fifo)) = Len(fifo) - 1 /\ Len(fifo) \in Nat \ {0}
        /\ Head(fifo) = fifo[1] /\ fifo[1] \in WordType
    BY <1>0, <1>1, TailIs
  <2>2. Head(fifo).v \in Nat /\ Head(fifo).head \in BOOLEAN
    BY <2>1 DEF WordType
  <2> QED
    BY <1>0, <2>1, <2>2
<1>2. ASSUME NEW p \in {"idle", "args", "loop", "merge", "lock", "draw", "done"}, c1' = [c1 EXCEPT !.pc = p]
      PROVE  c1' \in Core1Type /\ c1'.pc = p /\ c1'.cmd = c1.cmd /\ c1'.args = c1.args /\ c1'.head = c1.head
  BY <1>0, <1>2 DEF Core1Type
<1>3. ASSUME c1' = Resume, c1.cmd \in Merging
      PROVE  Core1Ok(c1') /\ c1'.pc # "draw"
  <2>1. CASE c1.cmd \in Continuous
    <3>1. c1' = [c1 EXCEPT !.pc = "loop"]
      BY <1>3, <2>1 DEF Resume
    <3>2. c1' \in Core1Type /\ c1'.pc = "loop" /\ c1'.cmd = c1.cmd
      BY <1>2, <3>1
    <3> QED
      BY <2>1, <3>2 DEF Core1Ok
  <2>2. CASE c1.cmd \notin Continuous
    BY <1>3, <2>2, Idle1Ok DEF Resume
  <2> QED
    BY <2>1, <2>2
<1>4. CASE PopCommand
  <2> DEFINE p == IF Head(fifo).v \in Reading THEN "args" ELSE IF Head(fifo).v = 8 THEN "draw" ELSE "idle"
             v == Head(fifo).v
             h == Head(fifo).head
             e == <<>>
  <2>1. fifo # <<>> /\ fifo' = Tail(fifo) /\ c1' = [pc |-> p, cmd |-> v, args |-> e, head |-> h]
    BY <1>4 DEF PopCommand
  <2>2. v \in Nat /\ h \in BOOLEAN /\ e \in Seq(Nat) /\ p \in {"args", "draw", "idle"} /\ Len(e) = 0
    BY <1>1, <2>1
  <2>3. (p = "args" => v \in Reading) /\ (p = "draw" => v = 8)
    OBVIOUS
  <2> HIDE DEF p, v, h, e
  <2>4. c1' \in Core1Type /\ c1'.pc = p /\ c1'.cmd = v /\ c1'.args = e
    BY <2>1, <2>2 DEF Core1Type
  <2>5. p = "args" => 0 < Payload(v)
    BY <2>3, PayloadSome
  <2>6. Core1Ok(c1')
    BY <2>2, <2>3, <2>4, <2>5 DEF Core1Ok, Posted
  <2> QED
    BY <1>1, <2>1, <2>3, <2>4, <2>6
<1>5. CASE PopArgument
  <2> DEFINE a == Append(c1.args, Head(fifo).v)
             all == Len(a) = Payload(c1.cmd)
             p == CASE ~all -> "args"
                    [] all /\ c1.cmd \in Continuous -> "loop"
                    [] all /\ c1.cmd \in {2, 4} -> "merge"
                    [] all /\ c1.cmd = 1 -> "lock"
  <2>1. fifo # <<>> /\ fifo' = Tail(fifo) /\ c1' = [c1 EXCEPT !.args = a, !.pc = p] /\ c1.pc = "args"
    BY <1>5 DEF PopArgument
  <2>2. c1.cmd \in Reading /\ Len(c1.args) < Payload(c1.cmd) /\ Payload(c1.cmd) \in Nat
    BY <1>0, <2>1, PayloadSome DEF Core1Ok
  <2>3. a \in Seq(Nat) /\ Len(a) = Len(c1.args) + 1
    BY <1>0, <1>1, <2>1
  <2>4. /\ p \in {"args", "loop", "merge", "lock"}
        /\ p = "args" => ~all
        /\ p = "loop" => all /\ c1.cmd \in Continuous
        /\ p = "merge" => all /\ c1.cmd \in {2, 4}
        /\ p = "lock" => all /\ c1.cmd = 1
    BY <2>2 DEF Reading, Continuous
  <2>44. Len(c1.args) \in Nat
    BY <1>0
  <2> HIDE DEF a, p
  <2>5. (p = "args" => Len(a) < Payload(c1.cmd)) /\ (p = "lock" => Len(a) = 1)
    BY <2>2, <2>3, <2>4, <2>44, Payloads
  <2>6. c1' \in Core1Type /\ c1'.pc = p /\ c1'.cmd = c1.cmd /\ c1'.args = a
    BY <1>0, <2>1, <2>3, <2>4 DEF Core1Type
  <2>7. Core1Ok(c1')
    BY <2>2, <2>4, <2>5, <2>6 DEF Core1Ok, Merging
  <2> QED
    BY <1>1, <2>1, <2>4, <2>6, <2>7
<1>6. CASE Round
  <2>1. c1.pc = "loop" /\ c1.cmd \in Continuous
    BY <1>0, <1>6 DEF Round, Core1Ok
  <2>2. fifo' \in Seq(WordType) /\ Len(fifo') <= FifoDepth
    BY <1>0, <1>1, <1>6 DEF Round
  <2>3. CASE c1' = Idle1
    BY <2>2, <2>3, Idle1Ok
  <2>4. CASE c1' = [c1 EXCEPT !.pc = "merge"]
    <3>1. c1' \in Core1Type /\ c1'.pc = "merge" /\ c1'.cmd = c1.cmd
      BY <1>2, <2>4
    <3> QED
      BY <2>1, <2>2, <3>1 DEF Core1Ok, Continuous, Merging
  <2> QED
    BY <1>6, <2>3, <2>4 DEF Round
<1>7. CASE MergeBegins
  <2>1. c1.pc = "merge" /\ c1.cmd \in Merging /\ fifo' = fifo
    BY <1>0, <1>7 DEF MergeBegins, Core1Ok
  <2>2. CASE c1' = [c1 EXCEPT !.pc = "lock"]
    <3>1. c1' \in Core1Type /\ c1'.pc = "lock" /\ c1'.cmd = c1.cmd
      BY <1>2, <2>2
    <3> QED
      BY <1>0, <2>1, <3>1 DEF Core1Ok, Merging, Reading
  <2>3. CASE c1' = Resume
    BY <1>0, <1>3, <2>1, <2>3
  <2> QED
    BY <1>7, <2>2, <2>3 DEF MergeBegins
<1>8. CASE LockBuffers
  <2>1. c1.pc = "lock" /\ c1' = [c1 EXCEPT !.pc = "draw"] /\ fifo' = fifo
    BY <1>8 DEF LockBuffers
  <2>2. c1' \in Core1Type /\ c1'.pc = "draw" /\ c1'.cmd = c1.cmd /\ c1'.args = c1.args
    BY <1>2, <2>1
  <2> QED
    BY <1>0, <2>1, <2>2 DEF Core1Ok, Posted
<1>9. CASE DrawDone
  <2>1. c1.pc = "draw" /\ c1.cmd \in Posted /\ fifo' = fifo
    BY <1>0, <1>9 DEF DrawDone, Core1Ok
  <2>2. CASE c1.cmd \in {1, 8}
    BY <1>0, <1>9, <2>1, <2>2, Idle1Ok DEF DrawDone
  <2>3. CASE c1.cmd \notin {1, 8}
    <3>1. c1' = [c1 EXCEPT !.pc = "done"]
      BY <1>9, <2>3 DEF DrawDone
    <3>2. c1' \in Core1Type /\ c1'.pc = "done" /\ c1'.cmd = c1.cmd
      BY <1>2, <3>1
    <3> QED
      BY <1>0, <2>1, <2>3, <3>2 DEF Core1Ok, Posted, Reading, Merging
  <2> QED
    BY <2>2, <2>3
<1>10. CASE mark_done
  <2>1. c1.pc = "done" /\ c1.cmd \in Merging /\ c1' = Resume /\ fifo' = fifo
    BY <1>0, <1>10 DEF mark_done, Core1Ok
  <2> QED
    BY <1>0, <1>3, <2>1
<1> QED
  BY <1>4, <1>5, <1>6, <1>7, <1>8, <1>9, <1>10 DEF Core1

LEMMA Core1Shape ==
    ASSUME Shape, Core1
    PROVE  Shape'
<1>0. MutexInv /\ Core1Ok(c1) /\ Core0Ok(c0)
  BY Typed
<1>1. /\ Core1Ok(c1') /\ c1' \in Core1Type /\ fifo' \in Seq(WordType) /\ Len(fifo') <= FifoDepth
      /\ c1'.pc = "draw" => c1.pc = "lock" \/ c1'.cmd = 8
  BY Core1StepOk DEF Core1Ok
<1>2. UNCHANGED <<engine, slow, bufs, active, pending, c0, misuse, rebooted, issued>>
  BY DEF Core1, PopCommand, PopArgument, Round, MergeBegins, LockBuffers, DrawDone, mark_done
<1>3. ASSUME UNCHANGED mutex, c1.pc # "lock"
      PROVE  MutexInv'
  BY <1>0, <1>1, <1>2, <1>3 DEF MutexInv
<1>4. CASE PopCommand
  <2>1. TypeOK'
    BY <1>1, <1>4 DEF PopCommand, Shape, TypeOK, WordType
  <2>2. MutexInv'
    BY <1>3, <1>4 DEF PopCommand
  <2> QED
    BY <1>0, <1>1, <1>2, <2>1, <2>2 DEF Shape
<1>5. CASE PopArgument
  <2>0. mergerunning' \in BOOLEAN
    BY <1>5 DEF PopArgument
  <2>1. TypeOK'
    BY <1>1, <1>5, <2>0 DEF PopArgument, Shape, TypeOK, WordType
  <2>2. MutexInv'
    BY <1>3, <1>5 DEF PopArgument
  <2> QED
    BY <1>0, <1>1, <1>2, <2>1, <2>2 DEF Shape
<1>6. CASE Round
  <2>0. mergerunning' \in BOOLEAN /\ polled' \in BOOLEAN
    BY <1>6 DEF Round, Shape, TypeOK
  <2>1. TypeOK'
    BY <1>1, <1>2, <1>6, <2>0 DEF Round, Shape, TypeOK, WordType
  <2>2. MutexInv'
    BY <1>3, <1>6 DEF Round
  <2> QED
    BY <1>0, <1>1, <1>2, <2>1, <2>2 DEF Shape
<1>7. CASE MergeBegins
  <2>1. TypeOK'
    BY <1>1, <1>7 DEF MergeBegins, Shape, TypeOK
  <2>2. MutexInv'
    BY <1>3, <1>7 DEF MergeBegins
  <2> QED
    BY <1>0, <1>1, <1>2, <2>1, <2>2 DEF Shape
<1>8. CASE LockBuffers
  <2>1. TypeOK'
    BY <1>1, <1>8 DEF LockBuffers, Shape, TypeOK
  <2>2. MutexInv'
    BY <1>0, <1>2, <1>8 DEF LockBuffers, MutexInv
  <2> QED
    BY <1>0, <1>1, <1>2, <2>1, <2>2 DEF Shape
<1>9. CASE DrawDone
  <2>0. fastgfx_done' \in BOOLEAN /\ mutex' \in {mutex, "none"}
    BY <1>9 DEF DrawDone
  <2>1. TypeOK'
    BY <1>1, <1>9, <2>0 DEF DrawDone, Shape, TypeOK
  <2>2. MutexInv'
    <3>1. CASE c1.cmd = 8
      BY <1>3, <1>9, <3>1 DEF DrawDone
    <3>2. CASE c1.cmd # 8
      <4>1. mutex = "core1" /\ c1'.pc # "draw"
        BY <1>0, <1>1, <1>9, <3>2, Idle1Ok DEF DrawDone, MutexInv, Core1Type
      <4> QED
        BY <1>0, <1>2, <4>1 DEF MutexInv
    <3> QED
      BY <3>1, <3>2
  <2> QED
    BY <1>0, <1>1, <1>2, <2>1, <2>2 DEF Shape
<1>10. CASE mark_done
  <2>1. TypeOK'
    BY <1>1, <1>10 DEF mark_done, Shape, TypeOK
  <2>2. MutexInv'
    BY <1>3, <1>10 DEF mark_done
  <2> QED
    BY <1>0, <1>1, <1>2, <2>1, <2>2 DEF Shape
<1> QED
  BY <1>4, <1>5, <1>6, <1>7, <1>8, <1>9, <1>10 DEF Core1

LEMMA InitShape == Init => Shape
<1> SUFFICES ASSUME Init PROVE Shape
  OBVIOUS
<1>1. Core0Ok(c0) /\ Core1Ok(c1) /\ c0.pc = "basic" /\ c1.pc = "idle"
  BY Idle0Ok, Idle1Ok DEF Init
<1>2. c0 \in Core0Type /\ c1 \in Core1Type
  BY <1>1 DEF Core0Ok, Core1Ok
<1>3. fifo \in Seq(WordType) /\ Len(fifo) <= FifoDepth /\ issued \in 0 .. MaxCommands
  BY MergeAssumption DEF Init
<1>4. TypeOK
  BY <1>2, <1>3 DEF Init, TypeOK, WordType
<1> QED
  BY <1>1, <1>4 DEF Shape, MutexInv

\* The deferred copy, made from the VM's poll.
LEMMA ServiceOk ==
    ASSUME Service
    PROVE  /\ Core0Ok(c0') /\ c0'.pc = "copy" /\ c0.pc = "basic"
           /\ UNCHANGED <<engine, slow, fifo, mergerunning, c1, bufs, rebooted>>
           /\ "unlocked" \in misuse' \/ ~Outstanding(Reading)
<1>1. c0' = [Idle0 EXCEPT !.pc = "copy"]
  BY DEF Service
<1>2. c0' \in Core0Type /\ c0'.pc = "copy" /\ c0'.then = "basic" /\ c0'.out = Idle0.out
  BY <1>1, Move0, Names, Idle0Ok DEF Core0Ok
<1>3. Core0Ok(c0')
  BY <1>2, Keeps0, Names, Idle0Ok DEF Core0Then
<1> QED
  BY <1>2, <1>3 DEF Service

LEMMA NextShape == Shape /\ [Next]_vars => Shape'
<1> SUFFICES ASSUME Shape, [Next]_vars PROVE Shape'
  OBVIOUS
<1>1. CASE UNCHANGED vars
  BY <1>1 DEF vars, Shape, TypeOK, MutexInv
<1>2. CASE Service
  <2>1. Core0Ok(c0') /\ c0' \in Core0Type /\ c0'.pc = "copy"
    BY <1>2, ServiceOk DEF Core0Ok
  <2>2. misuse' \subseteq {"early", "stray", "unlocked"}
    BY <1>2 DEF Service, Shape, TypeOK
  <2>3. TypeOK'
    BY <1>2, <2>1, <2>2 DEF Service, Shape, TypeOK
  <2> QED
    BY <1>2, <2>1, <2>3 DEF Service, Shape, MutexInv
<1> QED
  BY <1>1, <1>2, CommandShape, Core0Shape, Core1Shape DEF Next
-----------------------------------------------------------------------------
(* Frames.                                                                 *)

\* What FramedFrom says of the command that starts at k.
FrameAt(s, k) ==
    /\ s[k].v \in Posted
    /\ End(s, k) <= Len(s) /\ \A j \in k + 1 .. End(s, k) : ~s[j].head
    /\ End(s, k) < Len(s) => s[End(s, k) + 1].head

LEMMA FrameAts ==
    ASSUME NEW s, NEW n
    PROVE  FramedFrom(s, n) <=> /\ n <= Len(s) /\ \A k \in 1 .. n : ~s[k].head
                                /\ n < Len(s) => s[n + 1].head
                                /\ \A k \in 1 .. Len(s) : s[k].head => FrameAt(s, k)
BY DEF FramedFrom, FrameAt

LEMMA EndNat ==
    ASSUME NEW s \in Seq(WordType), NEW k \in 1 .. Len(s)
    PROVE  End(s, k) \in Nat /\ End(s, k) >= k /\ s[k].v \in Nat /\ Payload(s[k].v) \in Nat
<1>1. s[k] \in WordType
  OBVIOUS
<1>2. s[k].v \in Nat
  BY <1>1 DEF WordType
<1>3. Payload(s[k].v) \in Nat
  BY <1>2, PayloadNat
<1> QED
  BY <1>2, <1>3 DEF End

\* A frame does not change when the word in front of everything is popped.
LEMMA FrameAtTail ==
    ASSUME NEW s \in Seq(WordType), s # <<>>, NEW k \in 1 .. Len(s) - 1, FrameAt(s, k + 1)
    PROVE  FrameAt(Tail(s), k) /\ End(Tail(s), k) = End(s, k + 1) - 1
<1> DEFINE t == Tail(s)
<1>1. /\ t \in Seq(WordType) /\ Len(t) = Len(s) - 1 /\ Len(s) \in Nat \ {0}
      /\ \A j \in 1 .. Len(t) : j + 1 \in 1 .. Len(s) /\ t[j] = s[j + 1]
  BY TailIs
<1> HIDE DEF t
<1>2. k \in 1 .. Len(t) /\ t[k] = s[k + 1] /\ k + 1 \in 1 .. Len(s)
  BY <1>1
<1>3. End(s, k + 1) \in Nat /\ End(s, k + 1) >= k + 1 /\ Payload(s[k + 1].v) \in Nat
  BY <1>2, EndNat
<1>4. End(t, k) = End(s, k + 1) - 1 /\ End(t, k) \in Nat /\ End(t, k) >= k
  BY <1>2, <1>3 DEF End
<1> DEFINE e == End(s, k + 1)
<1>5. /\ s[k + 1].v \in Posted /\ e <= Len(s) /\ (\A j \in k + 2 .. e : ~s[j].head)
      /\ e < Len(s) => s[e + 1].head
  BY DEF FrameAt
<1> HIDE DEF e
<1>6. e \in Nat /\ e >= k + 1 /\ End(t, k) = e - 1
  BY <1>3, <1>4 DEF e
<1>7. ASSUME NEW j \in k + 1 .. e - 1
      PROVE  ~t[j].head
  <2>1. j \in 1 .. Len(t) /\ j + 1 \in k + 2 .. e
    BY <1>1, <1>5, <1>6
  <2> QED
    BY <1>1, <1>5, <2>1
<1>8. ASSUME e - 1 < Len(t)
      PROVE  t[(e - 1) + 1].head
  <2>1. e \in 1 .. Len(t) /\ (e - 1) + 1 = e /\ e < Len(s)
    BY <1>1, <1>5, <1>6, <1>8
  <2> QED
    BY <1>1, <1>5, <2>1
<1>9. FrameAt(t, k)
  BY <1>1, <1>2, <1>5, <1>6, <1>7, <1>8 DEF FrameAt
<1> QED
  BY <1>4, <1>9 DEF t

LEMMA FramePop ==
    ASSUME NEW s \in Seq(WordType), s # <<>>, NEW n \in Nat, NEW m \in Nat, FramedFrom(s, n),
           \/ n > 0 /\ m = n - 1
           \/ n = 0 /\ m = Payload(s[1].v)
    PROVE  /\ FramedFrom(Tail(s), m)
           /\ n = 0 => s[1].head /\ s[1].v \in Posted
<1> DEFINE t == Tail(s)
<1>1. /\ t \in Seq(WordType) /\ Len(t) = Len(s) - 1 /\ Len(s) \in Nat \ {0} /\ Len(s) \in Nat /\ Len(s) >= 1
      /\ \A j \in 1 .. Len(t) : j + 1 \in 1 .. Len(s) /\ t[j] = s[j + 1]
  BY TailIs
<1>2. /\ n <= Len(s) /\ \A k \in 1 .. n : ~s[k].head
      /\ n < Len(s) => s[n + 1].head
      /\ \A k \in 1 .. Len(s) : s[k].head => FrameAt(s, k)
  BY FrameAts
<1>3. ASSUME NEW k \in 1 .. Len(t), t[k].head
      PROVE  FrameAt(t, k)
  <2>1. k \in 1 .. Len(s) - 1 /\ k + 1 \in 1 .. Len(s) /\ s[k + 1].head
    BY <1>1, <1>3
  <2>2. FrameAt(s, k + 1)
    BY <1>2, <2>1
  <2> QED
    BY <2>1, <2>2, FrameAtTail
<1> HIDE DEF t
<1>4. n = 0 => s[1].head /\ s[1].v \in Posted /\ FrameAt(s, 1)
  <2>1. 1 \in 1 .. Len(s)
    BY <1>1
  <2>2. n = 0 => s[1].head
    BY <1>1, <1>2
  <2> QED
    BY <1>2, <2>1, <2>2 DEF FrameAt
<1>5. m <= Len(t) /\ (\A k \in 1 .. m : ~t[k].head) /\ (m < Len(t) => t[m + 1].head)
  <2>1. CASE n > 0 /\ m = n - 1
    <3>1. m <= Len(t)
      BY <1>1, <1>2, <2>1
    <3>2. ASSUME NEW k \in 1 .. m PROVE ~t[k].head
      <4>1. k \in 1 .. Len(t) /\ k + 1 \in 1 .. n
        BY <1>1, <2>1, <3>1
      <4> QED
        BY <1>1, <1>2, <4>1
    <3>3. ASSUME m < Len(t) PROVE t[m + 1].head
      <4>1. m + 1 \in 1 .. Len(t) /\ (m + 1) + 1 = n + 1 /\ n < Len(s)
        BY <1>1, <2>1, <3>3
      <4>2. t[m + 1] = s[(m + 1) + 1]
        BY <1>1, <4>1
      <4> QED
        BY <1>2, <4>1, <4>2
    <3> QED
      BY <3>1, <3>2, <3>3
  <2>2. CASE n = 0 /\ m = Payload(s[1].v)
    <3>0. End(s, 1) = m + 1
      BY <2>2 DEF End
    <3>1. m + 1 <= Len(s) /\ (\A j \in 2 .. m + 1 : ~s[j].head) /\ (m + 1 < Len(s) => s[(m + 1) + 1].head)
      BY <1>4, <2>2, <3>0 DEF FrameAt
    <3>2. m <= Len(t)
      BY <1>1, <3>1
    <3>3. ASSUME NEW k \in 1 .. m PROVE ~t[k].head
      <4>1. k \in 1 .. Len(t) /\ k + 1 \in 2 .. m + 1
        BY <1>1, <3>2
      <4> QED
        BY <1>1, <3>1, <4>1
    <3>4. ASSUME m < Len(t) PROVE t[m + 1].head
      <4>1. m + 1 \in 1 .. Len(t) /\ m + 1 < Len(s)
        BY <1>1, <3>4
      <4>2. t[m + 1] = s[(m + 1) + 1]
        BY <1>1, <4>1
      <4> QED
        BY <3>1, <4>1, <4>2
    <3> QED
      BY <3>2, <3>3, <3>4
  <2> QED
    BY <2>1, <2>2
<1>6. FramedFrom(t, m)
  BY <1>3, <1>5, FrameAts
<1> QED
  BY <1>4, <1>6 DEF t

\* Whole commands follow one another.
LEMMA FrameJoin ==
    ASSUME NEW s \in Seq(WordType), NEW c \in Seq(WordType), NEW n \in Nat, FramedFrom(s, n), Whole(c)
    PROVE  /\ FramedFrom(s \o c, n)
           /\ End(s \o c, Len(s) + 1) = Len(s \o c)
           /\ \A k \in 1 .. Len(s) : (s \o c)[k] = s[k]
           /\ \A k \in Len(s) + 2 .. Len(s \o c) : ~(s \o c)[k].head
           /\ Len(s \o c) = Len(s) + Len(c) /\ (s \o c)[Len(s) + 1] = c[1] /\ Len(c) >= 1
           /\ Len(c) >= 2 => (s \o c)[Len(s) + 2] = c[2]
<1> DEFINE t == s \o c
           l == Len(s)
<1>1. /\ t \in Seq(WordType) /\ l \in Nat /\ Len(c) \in Nat /\ Len(t) = l + Len(c)
      /\ \A k \in 1 .. l : t[k] = s[k]
      /\ \A k \in 1 .. Len(c) : t[l + k] = c[k]
  OBVIOUS
<1>2. /\ n <= l /\ \A k \in 1 .. n : ~s[k].head
      /\ n < l => s[n + 1].head
      /\ \A k \in 1 .. l : s[k].head => FrameAt(s, k)
  BY FrameAts
<1>3. /\ Len(c) = 1 + Payload(c[1].v) /\ c[1].head /\ c[1].v \in Posted
      /\ \A k \in 2 .. Len(c) : ~c[k].head
  BY DEF Whole
<1>4. Payload(c[1].v) \in Nat
  <2>1. c[1].v \in Nat
    BY <1>3 DEF Posted, Reading
  <2> QED
    BY <2>1, PayloadNat
<1> HIDE DEF t, l
<1>5. Len(c) >= 1 /\ t[l + 1] = c[1] /\ l + 1 \in 1 .. Len(t) /\ (Len(c) >= 2 => t[l + 2] = c[2])
  BY <1>1, <1>3, <1>4
<1>6. ASSUME NEW k \in l + 2 .. Len(t)
      PROVE  ~t[k].head
  <2>1. k - l \in 2 .. Len(c) /\ k - l \in 1 .. Len(c) /\ l + (k - l) = k
    BY <1>1
  <2>2. t[l + (k - l)] = c[k - l]
    BY <1>1, <2>1
  <2> QED
    BY <1>3, <2>1, <2>2
<1>7. End(t, l + 1) = Len(t)
  BY <1>1, <1>3, <1>4, <1>5 DEF End
<1>8. FrameAt(t, l + 1)
  <2>1. \A j \in l + 2 .. Len(t) : ~t[j].head
    BY <1>6
  <2>2. (l + 1) + 1 = l + 2
    BY <1>1
  <2> QED
    BY <1>1, <1>3, <1>5, <1>7, <2>1, <2>2 DEF FrameAt
<1>9. ASSUME NEW k \in 1 .. l, s[k].head
      PROVE  FrameAt(t, k)
  <2> DEFINE e == End(s, k)
  <2>1. e \in Nat /\ e >= k
    BY EndNat DEF l
  <2>2. t[k] = s[k] /\ End(t, k) = e
    BY <1>1 DEF End
  <2>3. /\ s[k].v \in Posted /\ e <= l /\ \A j \in k + 1 .. e : ~s[j].head
        /\ e < l => s[e + 1].head
    BY <1>2, <1>9 DEF FrameAt, l
  <2> HIDE DEF e
  <2>4. ASSUME NEW j \in k + 1 .. e PROVE ~t[j].head
    <3>1. j \in 1 .. l
      BY <1>1, <2>1, <2>3
    <3> QED
      BY <1>1, <2>3, <3>1
  <2>5. t[e + 1].head
    <3>1. CASE e < l
      BY <1>1, <2>1, <2>3, <3>1
    <3>2. CASE e = l
      BY <1>3, <1>5, <3>2
    <3> QED
      BY <1>1, <2>1, <2>3, <3>1, <3>2
  <2> QED
    BY <1>1, <2>1, <2>2, <2>3, <2>4, <2>5 DEF FrameAt
<1>10. ASSUME NEW k \in 1 .. Len(t), t[k].head
       PROVE  FrameAt(t, k)
  <2>1. CASE k <= l
    BY <1>1, <1>9, <1>10, <2>1
  <2>2. CASE k = l + 1
    BY <1>8, <2>2
  <2>3. CASE k > l + 1
    BY <1>1, <1>6, <1>10, <2>3
  <2> QED
    BY <1>1, <2>1, <2>2, <2>3
<1>11. /\ n <= Len(t) /\ \A k \in 1 .. n : ~t[k].head
       /\ n < Len(t) => t[n + 1].head
  <2>1. CASE n < l
    BY <1>1, <1>2, <2>1
  <2>2. CASE n = l
    BY <1>1, <1>2, <1>3, <1>5, <2>2
  <2> QED
    BY <1>1, <1>2, <2>1, <2>2
<1>12. FramedFrom(t, n)
  BY <1>10, <1>11, FrameAts
<1> QED
  BY <1>1, <1>5, <1>6, <1>7, <1>12 DEF t, l

LEMMA EndTail ==
    ASSUME NEW s \in Seq(WordType), s # <<>>, NEW k \in 1 .. Len(s) - 1
    PROVE  /\ End(Tail(s), k) = End(s, k + 1) - 1 /\ Tail(s)[k] = s[k + 1] /\ k + 1 \in 1 .. Len(s)
           /\ End(s, k + 1) \in Nat
<1>1. /\ Len(Tail(s)) = Len(s) - 1 /\ Len(s) \in Nat
      /\ \A j \in 1 .. Len(Tail(s)) : j + 1 \in 1 .. Len(s) /\ Tail(s)[j] = s[j + 1]
  BY TailIs
<1>2. k + 1 \in 1 .. Len(s) /\ Tail(s)[k] = s[k + 1]
  BY <1>1
<1>3. End(s, k + 1) \in Nat /\ Payload(s[k + 1].v) \in Nat
  BY <1>2, EndNat
<1> QED
  BY <1>2, <1>3 DEF End
-----------------------------------------------------------------------------
(* The stream keeps its frames.                                            *)

LEMMA StreamTyped ==
    ASSUME Shape
    PROVE  /\ Stream \in Seq(WordType) /\ Rest \in Nat
           /\ c0.pc # "push" \/ Fresh(c0) => Stream = fifo
           /\ c1.pc # "args" => Rest = 0
           /\ c1.pc = "args" => Rest = Payload(c1.cmd) - Len(c1.args) /\ Rest >= 1
<1>1. fifo \in Seq(WordType) /\ c0.out \in Seq(WordType) /\ Core1Ok(c1) /\ c1.args \in Seq(Nat)
  BY Typed
<1>2. Stream \in Seq(WordType)
  BY <1>1 DEF Stream
<1>3. c0.pc # "push" \/ Fresh(c0) => Stream = fifo
  BY DEF Stream, Fresh
<1>4. CASE c1.pc = "args"
  <2>1. Len(c1.args) \in Nat /\ Payload(c1.cmd) \in Nat /\ Len(c1.args) < Payload(c1.cmd)
    BY <1>1, <1>4, PayloadSome DEF Core1Ok
  <2>2. Rest = Payload(c1.cmd) - Len(c1.args)
    BY <1>4 DEF Rest
  <2> QED
    BY <1>2, <1>3, <1>4, <2>1, <2>2
<1>5. CASE c1.pc # "args"
  BY <1>2, <1>3, <1>5 DEF Rest
<1> QED
  BY <1>4, <1>5

\* Steps of core 0 that push nothing.
LEMMA FrameKept ==
    ASSUME FrameInv, UNCHANGED <<c1, slow, rebooted>>, mergerunning' => mergerunning, Stream' = Stream,
           c0.pc # "wait", c0'.pc # "wait", c0'.pc = "stop" => mergerunning'
    PROVE  FrameInv'
<1>1. Rest' = Rest /\ (Looping' <=> Looping)
  BY DEF Rest, Looping
<1>2. FramedFrom(Stream, Rest) /\ MergeIsLast
  BY DEF FrameInv
<1>3. FramedFrom(Stream', Rest') /\ MergeIsLast'
  BY <1>1, <1>2 DEF MergeIsLast
<1> QED
  BY <1>1, <1>3 DEF FrameInv

LEMMA CommandFrame ==
    ASSUME Shape, FrameInv, Command
    PROVE  FrameInv'
<1>1. UNCHANGED <<fifo, mergerunning, c1, slow, rebooted>>
  BY CommandRest
<1>2. /\ c0.pc = "basic" /\ c0'.pc \in {"basic", "abort", "sync", "touch", "merge", "push", "swap", "copy"}
      /\ c0'.pc = "push" => Fresh(c0')
  BY CommandOk
<1>3. Stream' = Stream
  BY <1>1, <1>2 DEF Stream, Fresh
<1> QED
  BY <1>1, <1>2, <1>3, FrameKept

\* The words of a command on their way into the FIFO and out of it.
LEMMA SameWords ==
    ASSUME NEW s \in Seq(WordType), NEW t \in Seq(WordType), Len(s) = Len(t),
           \A k \in 1 .. Len(s) : s[k] = t[k]
    PROVE  s = t
OBVIOUS

LEMMA JoinedWords ==
    ASSUME NEW a \in Seq(WordType), NEW b \in Seq(WordType)
    PROVE  /\ a \o b \in Seq(WordType) /\ Len(a \o b) = Len(a) + Len(b) /\ Len(a) \in Nat /\ Len(b) \in Nat
           /\ \A k \in 1 .. Len(a \o b) : (a \o b)[k] = IF k <= Len(a) THEN a[k] ELSE b[k - Len(a)]
OBVIOUS

LEMMA PushedWords ==
    ASSUME NEW f \in Seq(WordType), NEW o \in Seq(WordType), o # <<>>
    PROVE  /\ Append(f, o[1]) \o Tail(o) = f \o o
           /\ Len(o) = 1 => Append(f, o[1]) = f \o o
<1> DEFINE t == f \o o
           g == Append(f, o[1])
           u == g \o Tail(o)
<1>1. /\ Tail(o) \in Seq(WordType) /\ Len(Tail(o)) = Len(o) - 1 /\ Len(o) \in Nat /\ Len(o) >= 1
      /\ \A k \in 1 .. Len(Tail(o)) : Tail(o)[k] = o[k + 1]
  BY TailIs
<1>2. o[1] \in WordType
  BY <1>1
<1>3. /\ t \in Seq(WordType) /\ Len(t) = Len(f) + Len(o) /\ Len(f) \in Nat
      /\ \A k \in 1 .. Len(t) : t[k] = IF k <= Len(f) THEN f[k] ELSE o[k - Len(f)]
  OBVIOUS
<1>4. /\ g \in Seq(WordType) /\ Len(g) = Len(f) + 1
      /\ \A k \in 1 .. Len(g) : g[k] = IF k <= Len(f) THEN f[k] ELSE o[1]
  BY <1>2
<1> HIDE DEF t, g
<1>5. /\ u \in Seq(WordType) /\ Len(u) = Len(g) + Len(Tail(o))
      /\ \A k \in 1 .. Len(u) : u[k] = IF k <= Len(g) THEN g[k] ELSE Tail(o)[k - Len(g)]
  BY <1>1, <1>4, JoinedWords
<1> HIDE DEF u
<1>6. ASSUME NEW k \in 1 .. Len(u)
      PROVE  u[k] = t[k]
  <2>1. CASE k <= Len(f)
    <3>1. k <= Len(g) /\ k \in 1 .. Len(g) /\ k \in 1 .. Len(t)
      BY <1>1, <1>3, <1>4, <1>5, <2>1
    <3> QED
      BY <1>3, <1>4, <1>5, <2>1, <3>1
  <2>2. CASE k = Len(f) + 1
    <3>1. /\ k <= Len(g) /\ k \in 1 .. Len(g) /\ k \in 1 .. Len(t)
          /\ ~(k <= Len(f)) /\ k - Len(f) = 1
      BY <1>1, <1>3, <1>4, <1>5, <2>2
    <3> QED
      BY <1>3, <1>4, <1>5, <3>1
  <2>3. CASE k > Len(f) + 1
    <3>1. /\ k \in 1 .. Len(t) /\ ~(k <= Len(f)) /\ ~(k <= Len(g))
          /\ k - Len(g) \in 1 .. Len(Tail(o)) /\ (k - Len(g)) + 1 = k - Len(f)
      BY <1>1, <1>3, <1>4, <1>5, <2>3
    <3>2. u[k] = Tail(o)[k - Len(g)] /\ t[k] = o[k - Len(f)]
      BY <1>3, <1>5, <3>1
    <3>3. Tail(o)[k - Len(g)] = o[(k - Len(g)) + 1]
      BY <1>1, <3>1
    <3> QED
      BY <3>1, <3>2, <3>3
  <2> QED
    BY <1>3, <1>5, <2>1, <2>2, <2>3
<1>7. Len(u) = Len(t)
  BY <1>1, <1>3, <1>4, <1>5
<1>8. u = t
  BY <1>3, <1>5, <1>6, <1>7, SameWords
<1>9. ASSUME Len(o) = 1
      PROVE  g = t
  <2>1. Len(g) = Len(t)
    BY <1>3, <1>4, <1>9
  <2>2. ASSUME NEW k \in 1 .. Len(g)
        PROVE  g[k] = t[k]
    <3>1. CASE k <= Len(f)
      BY <1>3, <1>4, <2>1, <3>1
    <3>2. CASE k = Len(f) + 1
      BY <1>3, <1>4, <2>1, <3>2
    <3> QED
      BY <1>3, <1>4, <3>1, <3>2
  <2> QED
    BY <1>3, <1>4, <2>1, <2>2, SameWords
<1> QED
  BY <1>8, <1>9 DEF t, g, u

LEMMA PoppedWords ==
    ASSUME NEW f \in Seq(WordType), NEW o \in Seq(WordType), f # <<>>
    PROVE  Tail(f) \o o = Tail(f \o o) /\ (f \o o)[1] = f[1] /\ f \o o # <<>>
<1> DEFINE t == f \o o
           u == Tail(f) \o o
<1>1. /\ t \in Seq(WordType) /\ Len(t) = Len(f) + Len(o) /\ Len(f) \in Nat /\ Len(f) >= 1 /\ Len(o) \in Nat
      /\ \A k \in 1 .. Len(t) : t[k] = IF k <= Len(f) THEN f[k] ELSE o[k - Len(f)]
  OBVIOUS
<1>2. /\ u \in Seq(WordType) /\ Len(u) = Len(t) - 1
      /\ \A k \in 1 .. Len(u) : u[k] = IF k <= Len(f) - 1 THEN f[k + 1] ELSE o[k - (Len(f) - 1)]
  BY <1>1
<1>3. t # <<>> /\ t[1] = f[1]
  BY <1>1
<1> HIDE DEF t, u
<1>4. /\ Tail(t) \in Seq(WordType) /\ Len(Tail(t)) = Len(t) - 1
      /\ \A k \in 1 .. Len(Tail(t)) : k + 1 \in 1 .. Len(t) /\ Tail(t)[k] = t[k + 1]
  BY <1>1, <1>3, TailIs
<1>5. ASSUME NEW k \in 1 .. Len(u)
      PROVE  u[k] = Tail(t)[k]
  <2>1. Tail(t)[k] = t[k + 1] /\ k + 1 \in 1 .. Len(t)
    BY <1>2, <1>4
  <2>2. t[k + 1] = IF k + 1 <= Len(f) THEN f[k + 1] ELSE o[(k + 1) - Len(f)]
    BY <1>1, <2>1
  <2>3. (k + 1 <= Len(f) <=> k <= Len(f) - 1) /\ (k + 1) - Len(f) = k - (Len(f) - 1)
    BY <1>1
  <2> QED
    BY <1>2, <2>1, <2>2, <2>3
<1>6. u = Tail(t)
  BY <1>2, <1>4, <1>5, SameWords
<1> QED
  BY <1>3, <1>6 DEF t, u

LEMMA PushStream ==
    ASSUME Shape, Push
    PROVE  /\ Stream' = fifo \o c0.out /\ c0.out # <<>>
           /\ ~c0.out[1].head => Stream' = Stream
           /\ c0.out[1].head => Stream = fifo /\ Whole(c0.out)
           /\ c0'.pc \in {"push", "basic"} /\ ~Fresh(c0')
<1>0. fifo \in Seq(WordType) /\ c0.out \in Seq(WordType) /\ Core0Ok(c0) /\ c0 \in Core0Type /\ c0.pc = "push"
  BY Typed DEF Push
<1>1. /\ c0.out # <<>> /\ (\A k \in 2 .. Len(c0.out) : ~c0.out[k].head)
      /\ c0.out[1].head => Whole(c0.out)
  BY <1>0 DEF Core0Ok, Core0Out, Fresh
<1>2. /\ Append(fifo, c0.out[1]) \o Tail(c0.out) = fifo \o c0.out
      /\ Len(c0.out) = 1 => Append(fifo, c0.out[1]) = fifo \o c0.out
  BY <1>0, <1>1, PushedWords
<1>3. fifo' = Append(fifo, c0.out[1])
  <2>1. Head(c0.out) = c0.out[1]
    BY <1>0, <1>1, TailIs
  <2> QED
    BY <2>1 DEF Push
<1>4. CASE Len(c0.out) = 1
  <2>1. c0' = Idle0
    BY <1>4 DEF Push
  <2>2. Stream' = fifo'
    BY <2>1, Idle0Ok DEF Stream
  <2>3. c0'.pc = "basic" /\ ~Fresh(c0')
    BY <2>1, Idle0Ok DEF Fresh
  <2> QED
    BY <1>0, <1>1, <1>2, <1>3, <1>4, <2>2, <2>3 DEF Stream
<1>5. CASE Len(c0.out) # 1
  <2>1. c0' = [c0 EXCEPT !.out = Tail(c0.out)]
    BY <1>5 DEF Push
  <2>2. c0'.pc = "push" /\ c0'.out = Tail(c0.out)
    BY <1>0, <2>1 DEF Core0Type
  <2>3. ~Tail(c0.out)[1].head
    <3>1. /\ Len(Tail(c0.out)) = Len(c0.out) - 1 /\ Len(c0.out) \in Nat \ {0}
          /\ \A k \in 1 .. Len(Tail(c0.out)) : Tail(c0.out)[k] = c0.out[k + 1]
      BY <1>0, <1>1, TailIs
    <3>3. 1 \in 1 .. Len(Tail(c0.out)) /\ 2 \in 2 .. Len(c0.out) /\ 1 + 1 = 2
      <4>1. \A l \in Nat : l # 0 /\ l # 1 => 1 \in 1 .. l - 1 /\ 2 \in 2 .. l
        OBVIOUS
      <4>2. Len(c0.out) \in Nat /\ Len(c0.out) # 0 /\ Len(c0.out) # 1
        BY <1>5, <3>1
      <4>3. 1 \in 1 .. Len(c0.out) - 1 /\ 2 \in 2 .. Len(c0.out)
        BY <4>1, <4>2
      <4> QED
        BY <3>1, <4>3
    <3>2. Tail(c0.out)[1] = c0.out[2]
      BY <3>1, <3>3
    <3> QED
      BY <1>1, <3>2, <3>3
  <2>4. Stream' = fifo' \o Tail(c0.out)
    BY <2>2, <2>3 DEF Stream
  <2>5. ~Fresh(c0')
    BY <2>2, <2>3 DEF Fresh
  <2> QED
    BY <1>0, <1>1, <1>2, <1>3, <2>2, <2>4, <2>5 DEF Stream
<1> QED
  BY <1>4, <1>5

LEMMA PushFrame ==
    ASSUME Shape, FrameInv, Push, "stray" \notin misuse'
    PROVE  FrameInv'
<1>0. /\ Stream' = fifo \o c0.out /\ c0.out # <<>>
      /\ ~c0.out[1].head => Stream' = Stream
      /\ c0.out[1].head => Stream = fifo /\ Whole(c0.out)
  BY PushStream
<1>1. /\ c0.pc = "push" /\ c0'.pc \in {"push", "basic"} /\ UNCHANGED <<c1, slow, rebooted, mergerunning>>
      /\ c0 \in Core0Type /\ c0.out \in Seq(WordType) /\ fifo \in Seq(WordType)
  BY Typed, Idle0Ok DEF Push, Core0Type
<1>2. CASE ~c0.out[1].head
  BY <1>0, <1>1, <1>2, FrameKept
<1>3. CASE c0.out[1].head
  <2> DEFINE t == Stream'
  <2>1. Stream = fifo /\ Whole(c0.out) /\ t = fifo \o c0.out /\ FramedFrom(fifo, Rest) /\ Rest \in Nat
    BY <1>0, <1>1, <1>3, StreamTyped DEF FrameInv
  <2>2. /\ FramedFrom(t, Rest)
        /\ End(t, Len(fifo) + 1) = Len(t)
        /\ \A k \in 1 .. Len(fifo) : t[k] = fifo[k]
        /\ \A k \in Len(fifo) + 2 .. Len(t) : ~t[k].head
    BY <1>1, <2>1, FrameJoin
  <2>3. ~Outstanding(Continuous)
    <3>1. Head(c0.out) = c0.out[1]
      BY <1>0, <1>1, TailIs
    <3> QED
      BY <1>3, <3>1 DEF Push
  <2>4. c1.pc # "idle" => c1.cmd \notin Continuous
    BY <2>3 DEF Outstanding
  <2>5. \A k \in 1 .. Len(fifo) : fifo[k].head => fifo[k].v \notin Continuous
    <3>1. DOMAIN fifo = 1 .. Len(fifo)
      BY <1>1
    <3> QED
      BY <2>3, <3>1 DEF Outstanding
  <2>6. Rest' = Rest /\ (Looping' <=> Looping)
    BY <1>1 DEF Rest, Looping
  <2> HIDE DEF t
  <2>7. ASSUME NEW k \in 1 .. Len(t), t[k].head, t[k].v \in Continuous
        PROVE  End(t, k) = Len(t)
    <3>0. Len(fifo) \in Nat
      BY <1>1
    <3>1. CASE k \in 1 .. Len(fifo)
      BY <2>2, <2>5, <2>7, <3>1
    <3>2. CASE k = Len(fifo) + 1
      BY <2>2, <3>2
    <3>3. CASE k \in Len(fifo) + 2 .. Len(t)
      BY <2>2, <2>7, <3>3
    <3> QED
      BY <3>0, <3>1, <3>2, <3>3
  <2>8. MergeIsLast'
    BY <1>1, <2>4, <2>7 DEF MergeIsLast, t
  <2> QED
    BY <1>1, <2>2, <2>6, <2>8 DEF FrameInv, t
<1> QED
  BY <1>2, <1>3

\* Core 0's steps: the abort and the rest.
LEMMA Core0Frame ==
    ASSUME Shape, FrameInv, Core0 \/ CtrlC, "stray" \notin misuse'
    PROVE  FrameInv'
<1>0. Core0Ok(c0) /\ c0 \in Core0Type /\ fifo \in Seq(WordType)
  BY Typed
<1>1. CASE Push
  BY <1>1, PushFrame
<1>2. CASE ReadRunning
  <2>1. /\ c0.pc = "abort" /\ UNCHANGED <<fifo, c1, slow, rebooted, mergerunning>>
        /\ c0.then \in Afterwards \cup {"END", "SHUT"}
    BY <1>0, <1>2 DEF ReadRunning, Core0Ok, Core0Then
  <2>2. /\ c0'.pc # "wait" /\ (c0'.pc = "stop" => mergerunning)
        /\ c0'.pc = "push" => Fresh(c0')
    <3>1. CASE mergerunning
      <4>1. c0' = [c0 EXCEPT !.pc = "stop"]
        BY <1>2, <3>1 DEF ReadRunning
      <4> QED
        BY <1>0, <3>1, <4>1, Move0, Names
    <3>2. CASE ~mergerunning
      <4>1. c0' = AfterAbort
        BY <1>2, <3>2 DEF ReadRunning
      <4> QED
        BY <1>0, <2>1, <4>1, AfterAbortOk DEF Next0
    <3> QED
      BY <3>1, <3>2
  <2>3. Stream' = Stream
    BY <2>1, <2>2 DEF Stream, Fresh
  <2> QED
    BY <2>1, <2>2, <2>3, FrameKept
<1>3. CASE PushStop
  <2>1. /\ c0.pc = "stop" /\ fifo' = Append(fifo, Word(StopWord, FALSE)) /\ ~polled'
        /\ UNCHANGED <<c1, slow, rebooted, mergerunning>> /\ c0' = [c0 EXCEPT !.pc = "wait"]
    BY <1>3 DEF PushStop
  <2>2. mergerunning /\ Looping /\ MergeIsLast
    BY <2>1 DEF FrameInv
  <2>3. Stream = fifo /\ Rest = 0
    BY <2>1, <2>2, StreamTyped DEF Looping
  <2>4. fifo = <<>>
    <3>1. Len(fifo) = 0
      BY <2>2, <2>3 DEF MergeIsLast, Looping
    <3> QED
      BY <1>0, <3>1
  <2>5. fifo' = <<Word(StopWord, FALSE)>>
    BY <2>1, <2>4
  <2>6. c0'.pc = "wait"
    BY <1>0, <2>1, Move0, Names
  <2>7. Looping'
    BY <2>1, <2>2 DEF Looping
  <2> QED
    BY <2>1, <2>5, <2>6, <2>7 DEF FrameInv
<1>4. CASE WaitOver
  <2>0. c0.pc = "wait" /\ slow' = slow /\ (polled \/ slow)
    BY <1>4 DEF WaitOver
  <2>1. CASE mergerunning
    <3>1. /\ fifo' = <<>> /\ c0' = Idle0 /\ c1' = Idle1 /\ ~mergerunning'
      BY <1>4, <2>1 DEF WaitOver, Reboot
    <3>2. slow
      BY <2>0, <2>1 DEF FrameInv, Looping
    <3>3. c0'.pc = "basic" /\ c1'.pc = "idle"
      BY <3>1, Idle0Ok, Idle1Ok
    <3>4. Stream' = <<>> /\ Rest' = 0
      BY <3>1, <3>3 DEF Stream, Rest
    <3>5. FramedFrom(Stream', Rest') /\ MergeIsLast'
      <4>1. Len(<<>>) = 0 /\ 1 .. 0 = {}
        OBVIOUS
      <4> QED
        BY <3>3, <3>4, <4>1 DEF FramedFrom, MergeIsLast
    <3> QED
      BY <2>0, <3>1, <3>2, <3>3, <3>5 DEF FrameInv
  <2>2. CASE ~mergerunning
    <3>1. fifo = <<>> /\ c1.pc = "idle"
      BY <2>0, <2>2 DEF FrameInv
    <3>2. c0' = AfterAbort /\ UNCHANGED <<fifo, c1, rebooted, mergerunning>>
      BY <1>4, <2>2 DEF WaitOver
    <3>3. c0'.pc # "wait" /\ c0'.pc # "stop" /\ (c0'.pc = "push" => Fresh(c0'))
      BY <1>0, <2>0, <3>2, AfterAbortOk DEF Next0, Core0Ok, Core0Then
    <3>4. Stream' = <<>> /\ Rest' = 0
      BY <3>1, <3>2, <3>3 DEF Stream, Rest, Fresh
    <3>5. FramedFrom(Stream', Rest') /\ MergeIsLast'
      <4>1. Len(<<>>) = 0 /\ 1 .. 0 = {}
        OBVIOUS
      <4> QED
        BY <3>1, <3>2, <3>4, <4>1 DEF FramedFrom, MergeIsLast
    <3> QED
      BY <2>0, <2>2, <3>1, <3>2, <3>3, <3>5 DEF FrameInv
  <2> QED
    BY <2>1, <2>2
<1>5. CASE Clear
  <2>1. /\ c0.pc = "clear" /\ UNCHANGED <<fifo, c1, slow, rebooted>> /\ ~mergerunning'
        /\ c0.then \in Afterwards \cup {"SHUT"} /\ c0' = Continue(c0)
    BY <1>0, <1>5 DEF Clear, Core0Ok, Core0Then
  <2>2. c0'.pc # "wait" /\ c0'.pc # "stop" /\ (c0'.pc = "push" => Fresh(c0'))
    BY <1>0, <2>1, ContinueOk DEF Next0
  <2>3. Stream' = Stream
    BY <2>1, <2>2 DEF Stream, Fresh
  <2> QED
    BY <2>1, <2>2, <2>3, FrameKept
<1>6. CASE Free \/ DrawEnds \/ SyncDone \/ TouchDone
  <2>1. /\ c0' = Idle0 /\ UNCHANGED <<fifo, c1, slow, rebooted, mergerunning>>
        /\ c0.pc \in {"free", "draw", "sync", "touch"}
    BY <1>6 DEF Free, DrawEnds, SyncDone, TouchDone
  <2>2. Stream' = Stream
    BY <2>1, Idle0Ok DEF Stream
  <2> QED
    BY <2>1, <2>2, Idle0Ok, FrameKept
<1>7. CASE DrawBegins \/ CtrlC
  <2>1. /\ UNCHANGED <<fifo, c1, slow, rebooted, mergerunning>> /\ c0.pc \in {"merge", "sync"}
        /\ c0'.pc \in {"draw", "abort"}
    BY <1>0, <1>7 DEF DrawBegins, CtrlC, Core0Type
  <2>2. Stream' = Stream
    BY <2>1 DEF Stream
  <2> QED
    BY <2>1, <2>2, FrameKept
<1>8. CASE FastReady
  <2>1. UNCHANGED <<fifo, c1, slow, rebooted, mergerunning>> /\ c0.pc = "swap"
    BY <1>8 DEF FastReady
  <2>2. c0'.pc \in {"push", "basic"} /\ (c0'.pc = "push" => Fresh(c0'))
    <3>1. CASE c0.then = "SWAP"
      <4>1. c0' = [c0 EXCEPT !.pc = "push", !.then = "basic"]
        BY <1>8, <3>1 DEF FastReady
      <4>2. c0' \in Core0Type /\ c0'.pc = "push" /\ c0'.then = "basic" /\ c0'.out = c0.out
        BY <1>0, <4>1 DEF Core0Type
      <4> QED
        BY <1>0, <3>1, <4>2, Pushes0
    <3>2. CASE c0.then # "SWAP"
      BY <1>8, <3>2, Idle0Ok DEF FastReady
    <3> QED
      BY <3>1, <3>2
  <2>3. Stream' = Stream
    BY <2>1, <2>2 DEF Stream, Fresh
  <2> QED
    BY <2>1, <2>2, <2>3, FrameKept
<1>9. CASE CopyEnds
  <2>1. /\ UNCHANGED <<fifo, c1, slow, rebooted, mergerunning>> /\ c0.pc = "copy"
        /\ c0' = Idle0 \/ c0' = [Idle0 EXCEPT !.pc = "sync"]
    BY <1>9 DEF CopyEnds
  <2>2. c0'.pc \in {"basic", "sync"}
    BY <2>1, Idle0Ok, Move0, Names DEF Core0Ok
  <2>3. Stream' = Stream
    BY <2>1, <2>2 DEF Stream
  <2> QED
    BY <2>1, <2>2, <2>3, FrameKept
<1> QED
  BY <1>1, <1>2, <1>3, <1>4, <1>5, <1>6, <1>7, <1>8, <1>9 DEF Core0

\* Core 1 pops the first word of the stream.
LEMMA PopStream ==
    ASSUME Shape, fifo # <<>>, fifo' = Tail(fifo), c0' = c0
    PROVE  /\ Stream' = Tail(Stream) /\ Stream # <<>> /\ Head(fifo) = Stream[1]
           /\ Stream[1] \in WordType /\ Stream \in Seq(WordType)
<1>1. fifo \in Seq(WordType) /\ c0.out \in Seq(WordType)
  BY Typed
<1>2. Head(fifo) = fifo[1] /\ fifo[1] \in WordType
  BY <1>1, TailIs
<1>3. CASE c0.pc = "push" /\ ~c0.out[1].head
  <2>1. Stream = fifo \o c0.out /\ Stream' = Tail(fifo) \o c0.out
    BY <1>3 DEF Stream
  <2> QED
    BY <1>1, <1>2, <2>1, PoppedWords, StreamTyped
<1>4. CASE ~(c0.pc = "push" /\ ~c0.out[1].head)
  BY <1>1, <1>2, <1>4 DEF Stream
<1> QED
  BY <1>3, <1>4

\* Steps of core 1 that take no word.
Drawing == MergeBegins \/ LockBuffers \/ DrawDone \/ mark_done

LEMMA DrawingMoves ==
    ASSUME Shape, Drawing
    PROVE  /\ UNCHANGED <<fifo, c0, mergerunning, polled, slow, rebooted, misuse, bufs, engine>>
           /\ c1.pc \in {"merge", "lock", "draw", "done"}
           /\ \/ c1'.pc = "idle" /\ c1.cmd \notin Continuous
              \/ /\ c1'.pc \in {"loop", "merge", "lock", "draw", "done"}
                 /\ c1'.cmd = c1.cmd /\ c1'.head = c1.head /\ c1'.args = c1.args
           /\ c1'.pc = "lock" => bufs = {"F", "L"} /\ c1.pc = "merge"
           /\ c1'.pc = "draw" => c1.pc = "lock"
<1>0. c1 \in Core1Type /\ Core1Ok(c1)
  BY Typed
<1>1. ASSUME NEW p \in {"idle", "args", "loop", "merge", "lock", "draw", "done"}, c1' = [c1 EXCEPT !.pc = p]
      PROVE  c1'.pc = p /\ c1'.cmd = c1.cmd /\ c1'.args = c1.args /\ c1'.head = c1.head
  BY <1>0, <1>1 DEF Core1Type
<1>2. ASSUME c1' = Resume
      PROVE  \/ c1'.pc = "idle" /\ c1.cmd \notin Continuous
             \/ c1'.pc = "loop" /\ c1'.cmd = c1.cmd /\ c1'.args = c1.args /\ c1'.head = c1.head
  BY <1>1, <1>2, Idle1Ok DEF Resume
<1>3. CASE MergeBegins
  BY <1>1, <1>2, <1>3 DEF MergeBegins
<1>4. CASE LockBuffers
  BY <1>1, <1>4 DEF LockBuffers
<1>5. CASE DrawDone
  <2>1. CASE c1.cmd \in {1, 8}
    BY <1>5, <2>1, Idle1Ok DEF DrawDone, Continuous
  <2>2. CASE c1.cmd \notin {1, 8}
    BY <1>1, <1>5, <2>2 DEF DrawDone
  <2> QED
    BY <2>1, <2>2
<1>6. CASE mark_done
  BY <1>2, <1>6 DEF mark_done
<1> QED
  BY <1>3, <1>4, <1>5, <1>6 DEF Drawing

LEMMA PopCommandFrame ==
    ASSUME Shape, Shape', FrameInv, PopCommand
    PROVE  FrameInv'
<1> DEFINE s == Stream
           v == Stream[1].v
<1>1. /\ fifo # <<>> /\ fifo' = Tail(fifo) /\ c0' = c0 /\ c1.pc = "idle"
      /\ UNCHANGED <<mergerunning, slow, rebooted, polled>>
      /\ c1' = [pc |-> IF Head(fifo).v \in Reading THEN "args" ELSE IF Head(fifo).v = 8 THEN "draw" ELSE "idle",
                cmd |-> Head(fifo).v, args |-> <<>>, head |-> Head(fifo).head]
  BY DEF PopCommand
<1>2. c0.pc # "wait" /\ ~mergerunning
  BY <1>1 DEF FrameInv, Looping
<1>3. FramedFrom(s, 0) /\ MergeIsLast /\ (rebooted => slow) /\ c0.pc # "stop"
  BY <1>1, <1>2, StreamTyped DEF FrameInv
<1>4. Stream' = Tail(s) /\ s # <<>> /\ Head(fifo) = s[1] /\ s[1] \in WordType /\ s \in Seq(WordType)
  BY <1>1, PopStream
<1>5. v \in Nat /\ Payload(v) \in Nat
  BY <1>4, PayloadNat DEF WordType
<1>6. FramedFrom(Tail(s), Payload(v)) /\ s[1].head /\ v \in Posted
  BY <1>3, <1>4, <1>5, FramePop
<1>7. /\ c1'.cmd = v /\ c1'.head /\ c1'.args = <<>>
      /\ c1'.pc = IF v \in Reading THEN "args" ELSE "draw"
  BY <1>1, <1>4, <1>6 DEF Posted
<1>8. Rest' = Payload(v)
  <2>1. CASE v \in Reading
    BY <1>5, <1>7, <2>1 DEF Rest
  <2>2. CASE v = 8
    BY <1>7, <2>2, Payloads DEF Rest, Reading
  <2> QED
    BY <1>6, <2>1, <2>2 DEF Posted
<1>9. Len(s) \in Nat /\ Len(s) >= 1 /\ Len(Tail(s)) = Len(s) - 1
  BY <1>4, TailIs
<1>10. v \in Continuous => Len(Tail(s)) = Payload(v)
  <2>1. End(s, 1) = 1 + Payload(v)
    BY DEF End
  <2>2. 1 \in 1 .. Len(s)
    BY <1>9
  <2>3. v \in Continuous => End(s, 1) = Len(s)
    BY <1>3, <1>6, <2>2 DEF MergeIsLast
  <2> QED
    BY <1>5, <1>9, <2>1, <2>3
<1>11. ASSUME NEW k \in 1 .. Len(Tail(s)), Tail(s)[k].head, Tail(s)[k].v \in Continuous
       PROVE  End(Tail(s), k) = Len(Tail(s))
  <2>1. k \in 1 .. Len(s) - 1
    BY <1>9
  <2>2. /\ End(Tail(s), k) = End(s, k + 1) - 1 /\ Tail(s)[k] = s[k + 1] /\ k + 1 \in 1 .. Len(s)
        /\ End(s, k + 1) \in Nat
    BY <1>4, <2>1, EndTail
  <2>3. End(s, k + 1) = Len(s)
    BY <1>3, <1>11, <2>2 DEF MergeIsLast
  <2> QED
    BY <1>9, <2>2, <2>3
<1> HIDE DEF v
<1>12. MergeIsLast'
  BY <1>4, <1>7, <1>8, <1>10, <1>11 DEF MergeIsLast
<1> QED
  BY <1>1, <1>2, <1>3, <1>4, <1>6, <1>7, <1>8, <1>12 DEF FrameInv

LEMMA PopArgumentFrame ==
    ASSUME Shape, Shape', FrameInv, PopArgument
    PROVE  FrameInv'
<1> DEFINE s == Stream
<1>1. /\ fifo # <<>> /\ fifo' = Tail(fifo) /\ c0' = c0 /\ c1.pc = "args" /\ UNCHANGED <<slow, rebooted, polled>>
  BY DEF PopArgument
<1>2. c0.pc # "wait" /\ ~mergerunning
  BY <1>1 DEF FrameInv, Looping
<1>3. FramedFrom(s, Rest) /\ MergeIsLast /\ (rebooted => slow) /\ c0.pc # "stop" /\ c1.head
  BY <1>1, <1>2 DEF FrameInv
<1>4. Stream' = Tail(s) /\ s # <<>> /\ s \in Seq(WordType)
  BY <1>1, PopStream
<1>5. Rest \in Nat /\ Rest >= 1 /\ Rest = Payload(c1.cmd) - Len(c1.args)
  BY <1>1, StreamTyped
<1>6. /\ c1'.cmd = c1.cmd /\ c1'.head = c1.head /\ Len(c1'.args) = Len(c1.args) + 1
      /\ c1'.pc = "args" <=> Len(c1.args) + 1 # Payload(c1.cmd)
      /\ c1'.pc \in {"args", "loop", "merge", "lock"}
      /\ mergerunning' => c1.cmd \in Continuous /\ c1'.pc = "loop"
  <2> DEFINE a == Append(c1.args, Head(fifo).v)
             all == Len(a) = Payload(c1.cmd)
             p == CASE ~all -> "args"
                    [] all /\ c1.cmd \in Continuous -> "loop"
                    [] all /\ c1.cmd \in {2, 4} -> "merge"
                    [] all /\ c1.cmd = 1 -> "lock"
  <2>1. /\ c1' = [c1 EXCEPT !.args = a, !.pc = p]
        /\ mergerunning' = (mergerunning \/ (all /\ c1.cmd \in Continuous))
    BY DEF PopArgument
  <2>2. c1 \in Core1Type /\ c1.cmd \in Reading /\ c1.args \in Seq(Nat)
    BY <1>1, Typed DEF Core1Ok
  <2>3. Len(a) = Len(c1.args) + 1
    BY <2>2
  <2>4. /\ p \in {"args", "loop", "merge", "lock"} /\ (p = "args" <=> ~all)
        /\ all /\ c1.cmd \in Continuous => p = "loop"
    BY <2>2 DEF Reading, Continuous
  <2> HIDE DEF a, p
  <2>5. c1'.cmd = c1.cmd /\ c1'.head = c1.head /\ c1'.args = a /\ c1'.pc = p
    BY <2>1, <2>2 DEF Core1Type
  <2> QED
    BY <1>2, <2>1, <2>3, <2>4, <2>5
<1>7. Rest' = Rest - 1
  <2>1. Len(c1.args) \in Nat /\ Payload(c1.cmd) \in Nat
    BY <1>1, Typed, PayloadSome DEF Core1Ok
  <2>2. CASE c1'.pc = "args"
    BY <1>5, <1>6, <2>1, <2>2 DEF Rest
  <2>3. CASE c1'.pc # "args"
    BY <1>5, <1>6, <2>1, <2>3 DEF Rest
  <2> QED
    BY <2>2, <2>3
<1>8. FramedFrom(Tail(s), Rest - 1)
  <2>1. Rest - 1 \in Nat
    BY <1>5
  <2> QED
    BY <1>3, <1>4, <1>5, <2>1, FramePop
<1>9. Len(s) \in Nat /\ Len(s) >= 1 /\ Len(Tail(s)) = Len(s) - 1
  BY <1>4, TailIs
<1>10. c1.cmd \in Continuous => Len(Tail(s)) = Rest - 1
  BY <1>1, <1>3, <1>9 DEF MergeIsLast
<1>11. ASSUME NEW k \in 1 .. Len(Tail(s)), Tail(s)[k].head, Tail(s)[k].v \in Continuous
       PROVE  End(Tail(s), k) = Len(Tail(s))
  <2>1. k \in 1 .. Len(s) - 1
    BY <1>9
  <2>2. /\ End(Tail(s), k) = End(s, k + 1) - 1 /\ Tail(s)[k] = s[k + 1] /\ k + 1 \in 1 .. Len(s)
        /\ End(s, k + 1) \in Nat
    BY <1>4, <2>1, EndTail
  <2>3. End(s, k + 1) = Len(s)
    BY <1>3, <1>11, <2>2 DEF MergeIsLast
  <2> QED
    BY <1>9, <2>2, <2>3
<1>12. MergeIsLast'
  BY <1>4, <1>6, <1>7, <1>10, <1>11 DEF MergeIsLast
<1>13. mergerunning' => Looping'
  BY <1>6 DEF Looping
<1> QED
  BY <1>1, <1>2, <1>3, <1>4, <1>6, <1>7, <1>8, <1>12, <1>13 DEF FrameInv

LEMMA RoundFrame ==
    ASSUME Shape, FrameInv, Round
    PROVE  FrameInv'
<1>0. c1 \in Core1Type /\ Core1Ok(c1) /\ fifo \in Seq(WordType) /\ c0.out \in Seq(WordType)
  BY Typed
<1>1. c1.pc = "loop" /\ c1.cmd \in Continuous /\ UNCHANGED <<c0, slow, rebooted>> /\ Rest = 0
  BY <1>0 DEF Round, Core1Ok, Rest
<1>2. CASE c0.pc = "wait"
  <2>1. ~polled /\ fifo = <<Word(StopWord, FALSE)>> /\ Looping
    BY <1>1, <1>2 DEF FrameInv
  <2>2. fifo # <<>> /\ Head(fifo) = Word(StopWord, FALSE) /\ Tail(fifo) = <<>>
    BY <2>1
  <2>3. Head(fifo).v = StopWord
    BY <2>2 DEF Word
  <2>4. c1' = Idle1 /\ mergerunning' = FALSE /\ fifo' = <<>> /\ polled'
    BY <2>2, <2>3 DEF Round
  <2> QED
    BY <1>1, <1>2, <2>4, Idle1Ok DEF FrameInv
<1>3. CASE c0.pc # "wait"
  <2>1. Len(Stream) = 0 /\ FramedFrom(Stream, Rest) /\ MergeIsLast
    BY <1>1, <1>3 DEF FrameInv, MergeIsLast
  <2>2. fifo = <<>>
    BY <1>0, <2>1 DEF Stream
  <2>3. c1' = [c1 EXCEPT !.pc = "merge"] /\ UNCHANGED <<fifo, mergerunning>>
    BY <2>2 DEF Round
  <2>4. c1'.pc = "merge" /\ c1'.cmd = c1.cmd /\ c1'.head = c1.head
    BY <1>0, <2>3 DEF Core1Type
  <2>5. Stream' = Stream /\ Rest' = Rest
    BY <1>1, <2>3, <2>4 DEF Stream, Rest
  <2>6. MergeIsLast'
    BY <1>1, <2>1, <2>4, <2>5 DEF MergeIsLast
  <2>7. Looping'
    BY <1>1, <2>4 DEF Looping
  <2> QED
    BY <1>1, <1>3, <2>1, <2>3, <2>4, <2>5, <2>6, <2>7 DEF FrameInv
<1> QED
  BY <1>2, <1>3

LEMMA DrawingFrame ==
    ASSUME Shape, FrameInv, Drawing
    PROVE  FrameInv'
<1>1. /\ UNCHANGED <<fifo, c0, mergerunning, polled, slow, rebooted>>
      /\ c1.pc \in {"merge", "lock", "draw", "done"}
      /\ \/ c1'.pc = "idle" /\ c1.cmd \notin Continuous
         \/ /\ c1'.pc \in {"loop", "merge", "lock", "draw", "done"}
            /\ c1'.cmd = c1.cmd /\ c1'.head = c1.head
  BY DrawingMoves
<1>2. Stream' = Stream /\ Rest' = Rest
  BY <1>1 DEF Stream, Rest
<1>3. Looping => Looping'
  BY <1>1 DEF Looping
<1>4. c0.pc # "wait" => MergeIsLast'
  BY <1>1, <1>2 DEF FrameInv, MergeIsLast
<1> QED
  BY <1>1, <1>2, <1>3, <1>4 DEF FrameInv

LEMMA NextFrame ==
    ASSUME Shape, Shape', FrameInv, [Next]_vars, "stray" \notin misuse'
    PROVE  FrameInv'
<1>1. CASE UNCHANGED vars
  BY <1>1 DEF vars, FrameInv, Looping, MergeIsLast, Stream, Rest
<1>2. CASE Service
  <2>1. /\ c0'.pc = "copy" /\ c0.pc = "basic"
        /\ UNCHANGED <<slow, fifo, mergerunning, c1, rebooted>>
    BY <1>2, ServiceOk
  <2>2. Stream' = Stream
    BY <2>1 DEF Stream
  <2> QED
    BY <2>1, <2>2, FrameKept
<1>3. CASE Core1
  BY <1>3, PopCommandFrame, PopArgumentFrame, RoundFrame, DrawingFrame DEF Core1, Drawing
<1> QED
  BY <1>1, <1>2, <1>3, CommandFrame, Core0Frame DEF Next
-----------------------------------------------------------------------------
(* The buffers core 1 uses.                                                *)

\* Popping a word, and posting a command, keep the sources of the copies.
LEMMA SourcedTail ==
    ASSUME NEW s \in Seq(WordType), s # <<>>, NEW n \in Nat, FramedFrom(s, n), NEW a, Sourced(s, a)
    PROVE  Sourced(Tail(s), a)
<1>1. /\ Len(Tail(s)) = Len(s) - 1 /\ Len(s) \in Nat
      /\ \A k \in 1 .. Len(Tail(s)) : k + 1 \in 1 .. Len(s) /\ Tail(s)[k] = s[k + 1]
  BY TailIs
<1> SUFFICES ASSUME NEW k \in 1 .. Len(Tail(s)), Tail(s)[k].head, Tail(s)[k].v = 1
             PROVE  Tail(s)[k + 1].v \in a
  BY DEF Sourced
<1>2. k + 1 \in 1 .. Len(s) /\ s[k + 1].head /\ s[k + 1].v = 1
  BY <1>1
<1>3. End(s, k + 1) <= Len(s) /\ End(s, k + 1) = (k + 1) + 1
  BY <1>2, Payloads DEF FramedFrom, End
<1>4. k + 1 \in 1 .. Len(Tail(s))
  BY <1>1, <1>3
<1>5. Tail(s)[k + 1] = s[(k + 1) + 1]
  BY <1>1, <1>4
<1> QED
  BY <1>2, <1>5 DEF Sourced

LEMMA SourcedJoin ==
    ASSUME NEW s \in Seq(WordType), NEW c \in Seq(WordType), NEW n \in Nat, FramedFrom(s, n), Whole(c),
           NEW a, Sourced(s, a), c[1].v = 1 => c[2].v \in a
    PROVE  Sourced(s \o c, a)
<1> DEFINE t == s \o c
           l == Len(s)
<1>1. /\ \A k \in 1 .. l : t[k] = s[k]
      /\ \A k \in l + 2 .. Len(t) : ~t[k].head
      /\ Len(t) = l + Len(c) /\ t[l + 1] = c[1] /\ (Len(c) >= 2 => t[l + 2] = c[2])
      /\ l \in Nat /\ Len(c) \in Nat
  BY FrameJoin
<1>2. c[1].v = 1 => Len(c) >= 2
  BY Payloads DEF Whole
<1> SUFFICES ASSUME NEW k \in 1 .. Len(t), t[k].head, t[k].v = 1
             PROVE  t[k + 1].v \in a
  BY DEF Sourced
<1> HIDE DEF t, l
<1>3. CASE k \in 1 .. l
  <2>1. t[k] = s[k] /\ k \in 1 .. Len(s)
    BY <1>1, <1>3 DEF l
  <2>2. End(s, k) <= Len(s) /\ End(s, k) = k + 1
    BY <2>1, Payloads DEF FramedFrom, End
  <2>3. k + 1 \in 1 .. l
    BY <1>1, <1>3, <2>2 DEF l
  <2> QED
    BY <1>1, <2>1, <2>3 DEF Sourced
<1>4. CASE k = l + 1
  <2>1. (l + 1) + 1 = l + 2
    BY <1>1
  <2> QED
    BY <1>1, <1>2, <1>4, <2>1
<1>5. CASE k \in l + 2 .. Len(t)
  BY <1>1, <1>5
<1> QED
  BY <1>1, <1>3, <1>4, <1>5

\* Steps of core 0 that push nothing and free nothing.
LEMMA BufferKept ==
    ASSUME BufferInv, UNCHANGED <<c1, fifo>>, Stream' = Stream, bufs \subseteq bufs', bufs' \subseteq {"F", "L"},
           Stopped' => Stopped \/ ~Outstanding(Reading),
           c0'.pc = "push" /\ c0'.out[1].v = 1 => c0'.out[2].v \in Sources'
    PROVE  BufferInv'
<1>1. Sources \subseteq Sources'
  BY DEF Sources
<1>2. Outstanding(Reading)' <=> Outstanding(Reading)
  BY DEF Outstanding
<1>3. Sourced(Stream, Sources)'
  BY <1>1 DEF BufferInv, Sourced
<1>4. c1'.pc \in {"lock", "draw"} /\ c1'.cmd \in Merging => bufs' = {"F", "L"}
  BY DEF BufferInv
<1> QED
  BY <1>1, <1>2, <1>3, <1>4 DEF BufferInv, Fresh

LEMMA CommandBuffer ==
    ASSUME Shape, BufferInv, Command
    PROVE  BufferInv'
<1>1. UNCHANGED <<engine, fifo, c1>> /\ bufs \subseteq bufs' /\ bufs' \subseteq {"F", "L"}
  BY CommandRest
<1>2. /\ c0.pc = "basic" /\ c0'.pc \in {"basic", "abort", "sync", "touch", "merge", "push", "swap", "copy"}
      /\ c0'.pc = "push" => Fresh(c0')
      /\ c0'.pc = "push" /\ c0'.out[1].v = 1 => \E b \in bufs : c0'.out[2].v = Address[b]
      /\ c0'.pc = "merge" => engine # "vm"
  BY CommandOk
<1>3. Stream' = Stream
  BY <1>1, <1>2 DEF Stream, Fresh
<1>4. Stopped' => ~Outstanding(Reading)
  BY <1>1, <1>2, CommandRest DEF Stopped
<1>5. c0'.pc = "push" /\ c0'.out[1].v = 1 => c0'.out[2].v \in Sources'
  BY <1>1, <1>2 DEF Sources
<1> QED
  BY <1>1, <1>3, <1>4, <1>5, BufferKept

LEMMA PushBuffer ==
    ASSUME Shape, FrameInv, BufferInv, Push
    PROVE  BufferInv'
<1>1. /\ Stream' = fifo \o c0.out /\ c0.out # <<>>
      /\ ~c0.out[1].head => Stream' = Stream
      /\ c0.out[1].head => Stream = fifo /\ Whole(c0.out)
      /\ c0'.pc \in {"push", "basic"} /\ ~Fresh(c0')
  BY PushStream
<1>2. /\ c0.pc = "push" /\ UNCHANGED <<c1, bufs, engine>>
      /\ c0.out \in Seq(WordType) /\ fifo \in Seq(WordType)
  BY Typed DEF Push
<1>3. ~Stopped' /\ Sources' = Sources
  BY <1>1, <1>2 DEF Stopped, Sources
<1>4. /\ Sourced(Stream', Sources)
      /\ c1.pc = "args" /\ c1.cmd = 1 => Stream'[1].v \in Sources
  <2>1. CASE ~c0.out[1].head
    BY <1>1, <2>1 DEF BufferInv
  <2>2. CASE c0.out[1].head
    <3>1. Stream = fifo /\ Whole(c0.out) /\ FramedFrom(fifo, Rest) /\ Rest \in Nat
      BY <1>1, <1>2, <2>2, StreamTyped DEF FrameInv
    <3>2. c0.out[1].v = 1 => c0.out[2].v \in Sources
      BY <1>2, <2>2 DEF BufferInv, Fresh
    <3>3. Sourced(fifo, Sources)
      BY <3>1 DEF BufferInv
    <3>4. Sourced(fifo \o c0.out, Sources)
      BY <1>2, <3>1, <3>2, <3>3, SourcedJoin
    <3>5. ASSUME c1.pc = "args", c1.cmd = 1
          PROVE  Stream'[1].v \in Sources
      <4>1. Rest >= 1 /\ Rest <= Len(fifo) /\ Len(fifo) \in Nat
        BY <1>2, <3>1, <3>5, StreamTyped DEF FramedFrom
      <4>2. 1 \in 1 .. Len(fifo)
        BY <3>1, <4>1
      <4>3. Stream'[1] = fifo[1]
        BY <1>1, <1>2, <3>1, <4>2, FrameJoin
      <4> QED
        BY <3>1, <3>5, <4>3 DEF BufferInv
    <3> QED
      BY <1>1, <3>4, <3>5
  <2> QED
    BY <2>1, <2>2
<1> QED
  BY <1>1, <1>2, <1>3, <1>4 DEF BufferInv

\* Core 0's steps.  The abort that finds no merge running is not followed by
\* work it did not see: that would be misuse.
LEMMA Core0Buffer ==
    ASSUME Shape, Shape', FrameInv, FrameInv', BufferInv, Core0 \/ CtrlC, Orderly'
    PROVE  BufferInv'
<1>0. /\ Core0Ok(c0) /\ c0 \in Core0Type /\ fifo \in Seq(WordType) /\ bufs \subseteq {"F", "L"}
      /\ c0.pc # "push" => Stream = fifo
  BY Typed, StreamTyped DEF Shape, TypeOK
<1>1. CASE Push
  BY <1>1, PushBuffer
<1>2. CASE ReadRunning
  <2>1. /\ c0.pc = "abort" /\ UNCHANGED <<fifo, c1, bufs, engine>>
        /\ c0.then \in Afterwards \cup {"END", "SHUT"}
    BY <1>0, <1>2 DEF ReadRunning, Core0Ok, Core0Then
  <2>2. CASE mergerunning
    <3>1. c0' = [c0 EXCEPT !.pc = "stop"]
      BY <1>2, <2>2 DEF ReadRunning
    <3>2. c0'.pc = "stop"
      BY <1>0, <3>1, Move0, Names
    <3>3. Stream' = Stream /\ ~Stopped'
      BY <2>1, <3>2 DEF Stream, Stopped
    <3> QED
      BY <1>0, <2>1, <3>2, <3>3, BufferKept
  <2>3. CASE ~mergerunning
    <3>1. c0' = AfterAbort /\ ~Outstanding(Reading)
      BY <1>2, <2>3 DEF ReadRunning, Orderly
    <3>2. c0'.pc = "push" => Fresh(c0') /\ c0'.out[1].v # 1
      BY <1>0, <2>1, <3>1, AfterAbortOk DEF Next0
    <3>3. Stream' = Stream
      BY <2>1, <3>2 DEF Stream, Fresh
    <3> QED
      BY <1>0, <2>1, <3>1, <3>2, <3>3, BufferKept
  <2> QED
    BY <2>2, <2>3
<1>3. CASE PushStop
  <2>1. /\ UNCHANGED <<c1, bufs>> /\ c0' = [c0 EXCEPT !.pc = "wait"] /\ c0.pc = "stop"
    BY <1>3 DEF PushStop
  <2>2. c0'.pc = "wait"
    BY <1>0, <2>1, Move0, Names
  <2>3. \/ fifo' = <<Word(StopWord, FALSE)>> /\ Looping'
        \/ fifo' = <<>> /\ c1'.pc = "idle"
    BY <2>2 DEF FrameInv
  <2>4. Stream' = fifo' /\ ~Stopped' /\ ~Fresh(c0') /\ Sources' = Sources /\ c1'.pc # "args"
    BY <2>1, <2>2, <2>3 DEF Stream, Stopped, Fresh, Sources, Looping
  <2>5. Sourced(Stream, Sources)'
    <3>1. CASE fifo' = <<>>
      BY <2>4, <3>1 DEF Sourced
    <3>2. CASE fifo' = <<Word(StopWord, FALSE)>>
      <4>1. \A k \in 1 .. Len(fifo') : ~fifo'[k].head
        BY <3>2 DEF Word
      <4> QED
        BY <2>4, <4>1 DEF Sourced
    <3> QED
      BY <2>3, <3>1, <3>2
  <2> QED
    BY <2>1, <2>4, <2>5 DEF BufferInv
<1>4. CASE WaitOver
  <2>1. c0.pc = "wait"
    BY <1>4 DEF WaitOver
  <2>2. CASE mergerunning
    <3>1. /\ fifo' = <<>> /\ c0' = Idle0 /\ c1' = Idle1
      BY <1>4, <2>2 DEF WaitOver, Reboot
    <3>2. c0'.pc = "basic" /\ c1'.pc = "idle"
      BY <3>1, Idle0Ok, Idle1Ok
    <3>3. Stream' = <<>> /\ ~Stopped' /\ ~Fresh(c0')
      BY <3>1, <3>2 DEF Stream, Stopped, Fresh
    <3>4. Sourced(Stream, Sources)'
      BY <3>3 DEF Sourced
    <3> QED
      BY <3>2, <3>3, <3>4 DEF BufferInv
  <2>3. CASE ~mergerunning
    <3>1. fifo = <<>> /\ c1.pc = "idle"
      BY <2>1, <2>3 DEF FrameInv
    <3>2. c0' = AfterAbort /\ UNCHANGED <<fifo, c1, bufs>>
      BY <1>4, <2>3 DEF WaitOver
    <3>3. c0'.pc = "push" => Fresh(c0') /\ c0'.out[1].v # 1
      BY <1>0, <2>1, <3>2, AfterAbortOk DEF Next0, Core0Ok, Core0Then
    <3>4. Stream' = Stream
      BY <1>0, <2>1, <3>2, <3>3 DEF Stream, Fresh
    <3>5. ~Outstanding(Reading)
      BY <3>1 DEF Outstanding
    <3> QED
      BY <1>0, <3>2, <3>3, <3>4, <3>5, BufferKept
  <2> QED
    BY <2>2, <2>3
<1>5. CASE Clear
  <2>1. /\ c0.pc = "clear" /\ UNCHANGED <<fifo, c1, bufs>>
        /\ c0.then \in Afterwards \cup {"SHUT"} /\ c0' = Continue(c0)
    BY <1>0, <1>5 DEF Clear, Core0Ok, Core0Then
  <2>2. c0'.pc = "push" => Fresh(c0') /\ c0'.out[1].v # 1
    BY <1>0, <2>1, ContinueOk DEF Next0
  <2>3. Stream' = Stream /\ Stopped
    BY <2>1, <2>2 DEF Stream, Fresh, Stopped
  <2> QED
    BY <1>0, <2>1, <2>2, <2>3, BufferKept
<1>6. CASE Free
  <2>1. c0' = Idle0 /\ UNCHANGED <<fifo, c1>> /\ c0.pc = "free"
    BY <1>6 DEF Free
  <2>2. ~Outstanding(Reading)
    BY <2>1 DEF BufferInv, Stopped
  <2>3. Stream' = fifo /\ ~Stopped' /\ ~Fresh(c0')
    BY <2>1, Idle0Ok DEF Stream, Stopped, Fresh
  <2>4. c1.pc = "idle" \/ (c1.cmd \notin Merging /\ c1.cmd # 1)
    BY <2>2 DEF Outstanding, Reading, Merging
  <2>5. Sourced(fifo, Sources')
    <3>1. DOMAIN fifo = 1 .. Len(fifo) /\ 1 \in Reading
      BY <1>0 DEF Reading
    <3> QED
      BY <2>2, <3>1 DEF Outstanding, Sourced
  <2> QED
    BY <2>1, <2>3, <2>4, <2>5 DEF BufferInv
<1>7. CASE DrawEnds \/ SyncDone \/ TouchDone
  <2>1. /\ c0' = Idle0 /\ UNCHANGED <<fifo, c1, bufs>> /\ c0.pc \in {"draw", "sync", "touch"}
    BY <1>7 DEF DrawEnds, SyncDone, TouchDone
  <2>2. Stream' = Stream /\ ~Stopped' /\ c0'.pc = "basic"
    BY <2>1, Idle0Ok DEF Stream, Stopped
  <2> QED
    BY <1>0, <2>1, <2>2, BufferKept
<1>8. CASE DrawBegins \/ CtrlC
  <2>1. /\ UNCHANGED <<fifo, c1, bufs, engine>>
        /\ (c0.pc = "merge" /\ c0'.pc = "draw") \/ (c0.pc = "sync" /\ c0'.pc = "abort")
    <3>1. CASE DrawBegins
      BY <1>0, <3>1 DEF DrawBegins, Core0Type
    <3>2. CASE CtrlC
      BY <1>0, <3>2 DEF CtrlC, Core0Type
    <3> QED
      BY <1>8, <3>1, <3>2
  <2>2. Stream' = Stream /\ (Stopped' => Stopped)
    BY <2>1 DEF Stream, Stopped
  <2> QED
    BY <1>0, <2>1, <2>2, BufferKept
<1>9. CASE FastReady
  <2>1. UNCHANGED <<fifo, c1, bufs>> /\ c0.pc = "swap"
    BY <1>9 DEF FastReady
  <2>2. c0'.pc \in {"push", "basic"} /\ (c0'.pc = "push" => Fresh(c0') /\ c0'.out[1].v # 1)
    <3>1. CASE c0.then = "SWAP"
      <4>1. c0' = [c0 EXCEPT !.pc = "push", !.then = "basic"]
        BY <1>9, <3>1 DEF FastReady
      <4>2. c0' \in Core0Type /\ c0'.pc = "push" /\ c0'.then = "basic" /\ c0'.out = c0.out
        BY <1>0, <4>1 DEF Core0Type
      <4> QED
        BY <1>0, <3>1, <4>2, Pushes0
    <3>2. CASE c0.then # "SWAP"
      BY <1>9, <3>2, Idle0Ok DEF FastReady
    <3> QED
      BY <3>1, <3>2
  <2>3. Stream' = Stream /\ ~Stopped'
    BY <2>1, <2>2 DEF Stream, Fresh, Stopped
  <2> QED
    BY <1>0, <2>1, <2>2, <2>3, BufferKept
<1>10. CASE CopyEnds
  <2>1. /\ UNCHANGED <<fifo, c1, bufs>> /\ c0.pc = "copy"
        /\ c0' = Idle0 \/ c0' = [Idle0 EXCEPT !.pc = "sync"]
    BY <1>10 DEF CopyEnds
  <2>2. c0'.pc \in {"basic", "sync"}
    BY <2>1, Idle0Ok, Move0, Names DEF Core0Ok
  <2>3. Stream' = Stream /\ ~Stopped'
    BY <2>1, <2>2 DEF Stream, Stopped
  <2> QED
    BY <1>0, <2>1, <2>2, <2>3, BufferKept
<1> QED
  BY <1>1, <1>2, <1>3, <1>4, <1>5, <1>6, <1>7, <1>8, <1>9, <1>10 DEF Core0

\* Core 1 pops a command: one that reads no buffer once core 0 has aborted.
LEMMA PopCommandBuffer ==
    ASSUME Shape, FrameInv, BufferInv, PopCommand
    PROVE  BufferInv'
<1> DEFINE s == Stream
           v == Stream[1].v
<1>1. /\ fifo # <<>> /\ fifo' = Tail(fifo) /\ UNCHANGED <<c0, bufs, engine, misuse>> /\ c1.pc = "idle"
      /\ c1' = [pc |-> IF Head(fifo).v \in Reading THEN "args" ELSE IF Head(fifo).v = 8 THEN "draw" ELSE "idle",
                cmd |-> Head(fifo).v, args |-> <<>>, head |-> Head(fifo).head]
  BY DEF PopCommand
<1>2. c0.pc # "wait"
  BY <1>1 DEF FrameInv, Looping
<1>3. FramedFrom(s, 0)
  BY <1>1, <1>2, StreamTyped DEF FrameInv
<1>4. /\ Stream' = Tail(s) /\ s # <<>> /\ Head(fifo) = s[1] /\ s[1] \in WordType /\ s \in Seq(WordType)
      /\ fifo \in Seq(WordType)
  BY <1>1, PopStream, Typed
<1>5. v \in Nat /\ Payload(v) \in Nat
  BY <1>4, PayloadNat DEF WordType
<1>6. s[1].head /\ v \in Posted
  BY <1>3, <1>4, <1>5, FramePop
<1>7. c1'.cmd = v /\ c1'.pc = IF v \in Reading THEN "args" ELSE "draw"
  BY <1>1, <1>4, <1>6 DEF Posted
<1>8. Sources' = Sources /\ (Stopped' <=> Stopped) /\ (Fresh(c0') <=> Fresh(c0))
  BY <1>1 DEF Sources, Stopped, Fresh
<1>9. Sourced(Stream', Sources')
  BY <1>3, <1>4, <1>8, SourcedTail DEF BufferInv
<1>10. ASSUME Stopped
       PROVE  ~Outstanding(Reading)'
  <2>1. s = fifo /\ ~Outstanding(Reading)
    BY <1>10 DEF Stream, Stopped, BufferInv
  <2>2. \A k \in 1 .. Len(fifo) : fifo[k].head => fifo[k].v \notin Reading
    <3>1. DOMAIN fifo = 1 .. Len(fifo)
      BY <1>4
    <3> QED
      BY <2>1, <3>1 DEF Outstanding
  <2>3. /\ 1 \in 1 .. Len(fifo) /\ DOMAIN Tail(fifo) = 1 .. Len(Tail(fifo))
        /\ \A k \in 1 .. Len(Tail(fifo)) : k + 1 \in 1 .. Len(fifo) /\ Tail(fifo)[k] = fifo[k + 1]
    <3>1. Tail(fifo) \in Seq(WordType) /\ Len(fifo) \in Nat /\ Len(fifo) # 0
      BY <1>1, <1>4, TailIs
    <3>2. 1 \in 1 .. Len(fifo)
      BY <3>1
    <3>3. DOMAIN Tail(fifo) = 1 .. Len(Tail(fifo))
      BY <3>1
    <3> QED
      BY <1>1, <1>4, <3>2, <3>3, TailIs
  <2>4. v \notin Reading
    BY <1>6, <2>1, <2>2, <2>3
  <2>5. \A k \in DOMAIN Tail(fifo) : Tail(fifo)[k].head => Tail(fifo)[k].v \notin Reading
    BY <2>2, <2>3
  <2> QED
    BY <1>1, <1>7, <2>4, <2>5 DEF Outstanding
<1>11. ASSUME v = 1
       PROVE  Stream'[1].v \in Sources
  <2>1. Len(s) \in Nat /\ Len(s) >= 1 /\ Len(Tail(s)) = Len(s) - 1
    BY <1>4, TailIs
  <2>2. 1 \in 1 .. Len(s)
    BY <2>1
  <2>3. End(s, 1) <= Len(s) /\ End(s, 1) = 1 + 1
    BY <1>3, <1>6, <1>11, <2>2, Payloads DEF FramedFrom, End
  <2>4. 1 \in 1 .. Len(Tail(s))
    BY <2>1, <2>3
  <2>5. Tail(s)[1] = s[1 + 1]
    BY <1>4, <2>4, TailIs
  <2>6. s[1 + 1].v \in Sources
    BY <1>6, <1>11, <2>2 DEF BufferInv, Sourced
  <2> QED
    BY <1>4, <2>5, <2>6
<1>12. c1'.pc \notin {"lock"} /\ (c1'.pc = "draw" => c1'.cmd = 8)
  BY <1>6, <1>7 DEF Posted
<1> HIDE DEF v
<1> QED
  BY <1>1, <1>7, <1>8, <1>9, <1>10, <1>11, <1>12 DEF BufferInv, Merging

\* Core 1 pops an argument, the address of a copy among them.
LEMMA PopArgumentBuffer ==
    ASSUME Shape, FrameInv, BufferInv, PopArgument
    PROVE  BufferInv'
<1> DEFINE s == Stream
           a == Append(c1.args, Head(fifo).v)
           all == Len(a) = Payload(c1.cmd)
           p == CASE ~all -> "args"
                  [] all /\ c1.cmd \in Continuous -> "loop"
                  [] all /\ c1.cmd \in {2, 4} -> "merge"
                  [] all /\ c1.cmd = 1 -> "lock"
<1>1. /\ fifo # <<>> /\ fifo' = Tail(fifo) /\ UNCHANGED <<c0, bufs, engine, misuse>> /\ c1.pc = "args"
      /\ c1' = [c1 EXCEPT !.args = a, !.pc = p]
  BY DEF PopArgument
<1>2. /\ c1 \in Core1Type /\ c1.cmd \in Reading /\ c1.args \in Seq(Nat) /\ Len(c1.args) < Payload(c1.cmd)
      /\ Payload(c1.cmd) \in Nat
  BY <1>1, Typed, PayloadSome DEF Core1Ok
<1>3. FramedFrom(s, Rest) /\ Rest \in Nat
  BY <1>1, StreamTyped DEF FrameInv, Looping
<1>4. /\ Stream' = Tail(s) /\ s # <<>> /\ Head(fifo) = s[1] /\ s[1] \in WordType /\ s \in Seq(WordType)
  BY <1>1, PopStream
<1>5. Sources' = Sources /\ (Stopped' <=> Stopped) /\ (Fresh(c0') <=> Fresh(c0))
  BY <1>1 DEF Sources, Stopped, Fresh
<1>6. Sourced(Stream', Sources')
  BY <1>3, <1>4, <1>5, SourcedTail DEF BufferInv
<1>7. ~Stopped
  BY <1>1, <1>2 DEF BufferInv, Outstanding
<1>8. Len(a) = Len(c1.args) + 1 /\ Len(c1.args) \in Nat
  BY <1>2
<1>9. ASSUME c1.cmd = 1
      PROVE  p = "lock" /\ a[1] = s[1].v
  <2>1. Len(c1.args) = 0 /\ Payload(c1.cmd) = 1
    BY <1>2, <1>8, <1>9, Payloads
  <2>2. p = "lock"
    BY <1>8, <1>9, <2>1 DEF Continuous
  <2>3. c1.args = <<>>
    BY <1>2, <2>1
  <2>4. a = <<s[1].v>>
    BY <1>4, <2>3
  <2>5. <<s[1].v>>[1] = s[1].v
    OBVIOUS
  <2> HIDE DEF a, p
  <2> QED
    BY <2>2, <2>4, <2>5
<1>10. p \in {"args", "loop", "merge", "lock"} /\ (p = "lock" => c1.cmd = 1)
  BY <1>2 DEF Reading, Continuous
<1> HIDE DEF a, p
<1>11. c1'.cmd = c1.cmd /\ c1'.args = a /\ c1'.pc = p
  BY <1>1, <1>2 DEF Core1Type
<1>12. c1.cmd = 1 => s[1].v \in Sources
  BY <1>1 DEF BufferInv
<1> QED
  BY <1>1, <1>5, <1>6, <1>7, <1>9, <1>10, <1>11, <1>12 DEF BufferInv, Merging

\* A continuous merge takes no word but the stop.
LEMMA RoundBuffer ==
    ASSUME Shape, FrameInv, BufferInv, Round
    PROVE  BufferInv'
<1>0. c1 \in Core1Type /\ Core1Ok(c1) /\ fifo \in Seq(WordType) /\ c0.out \in Seq(WordType)
  BY Typed
<1>1. c1.pc = "loop" /\ c1.cmd \in Continuous /\ UNCHANGED <<c0, bufs, engine, misuse>> /\ Rest = 0
  BY <1>0 DEF Round, Core1Ok, Rest
<1>2. c1'.pc \in {"idle", "merge"}
  BY <1>0, Idle1Ok DEF Round, Core1Type
<1>3. Stream' = <<>>
  <2>1. CASE c0.pc = "wait"
    <3>1. fifo = <<Word(StopWord, FALSE)>>
      BY <1>1, <2>1 DEF FrameInv
    <3>2. fifo' = <<>>
      BY <3>1 DEF Round
    <3> QED
      BY <1>1, <2>1, <3>2 DEF Stream
  <2>2. CASE c0.pc # "wait"
    <3>1. Len(Stream) = 0
      BY <1>1, <2>2 DEF FrameInv, MergeIsLast
    <3>2. fifo = <<>> /\ Stream = <<>>
      BY <1>0, <3>1 DEF Stream
    <3>3. fifo' = fifo
      BY <3>2 DEF Round
    <3> QED
      BY <1>1, <3>2, <3>3 DEF Stream
  <2> QED
    BY <2>1, <2>2
<1>4. Sources' = Sources /\ ~Stopped' /\ (Fresh(c0') <=> Fresh(c0))
  <2>1. ~Stopped
    BY <1>1 DEF BufferInv, Outstanding, Continuous, Reading
  <2> QED
    BY <1>1, <2>1 DEF Sources, Stopped, Fresh
<1>5. Sourced(Stream', Sources')
  BY <1>3 DEF Sourced
<1> QED
  BY <1>1, <1>2, <1>4, <1>5 DEF BufferInv

LEMMA DrawingBuffer ==
    ASSUME Shape, BufferInv, Drawing
    PROVE  BufferInv'
<1>1. /\ UNCHANGED <<fifo, c0, bufs, engine, misuse>>
      /\ c1.pc \in {"merge", "lock", "draw", "done"}
      /\ \/ c1'.pc = "idle"
         \/ /\ c1'.pc \in {"loop", "merge", "lock", "draw", "done"}
            /\ c1'.cmd = c1.cmd /\ c1'.args = c1.args
      /\ c1'.pc = "lock" => bufs = {"F", "L"} /\ c1.pc = "merge"
      /\ c1'.pc = "draw" => c1.pc = "lock"
  BY DrawingMoves
<1>2. Stream' = Stream /\ Sources' = Sources /\ (Stopped' <=> Stopped) /\ (Fresh(c0') <=> Fresh(c0))
  BY <1>1 DEF Stream, Sources, Stopped, Fresh
<1>3. Outstanding(Reading)' => Outstanding(Reading)
  BY <1>1 DEF Outstanding
<1>4. c1.pc = "merge" => c1.cmd # 1
  BY Typed DEF Core1Ok, Merging
<1> QED
  BY <1>1, <1>2, <1>3, <1>4 DEF BufferInv

LEMMA NextBuffer ==
    ASSUME Shape, Shape', FrameInv, FrameInv', BufferInv, [Next]_vars, Orderly'
    PROVE  BufferInv'
<1>1. CASE UNCHANGED vars
  BY <1>1 DEF vars, BufferInv, Stopped, Outstanding, Fresh, Stream, Sources
<1>2. CASE Service
  <2>1. /\ c0'.pc = "copy" /\ c0.pc = "basic" /\ UNCHANGED <<fifo, c1, bufs>> /\ bufs \subseteq {"F", "L"}
        /\ "unlocked" \in misuse' \/ ~Outstanding(Reading)
    BY <1>2, ServiceOk DEF Shape, TypeOK
  <2>2. Stream' = Stream /\ (Stopped' => ~Outstanding(Reading))
    BY <2>1 DEF Stream, Stopped
  <2> QED
    BY <2>1, <2>2, BufferKept
<1>3. CASE Core1
  BY <1>3, PopCommandBuffer, PopArgumentBuffer, RoundBuffer, DrawingBuffer DEF Core1, Drawing
<1> QED
  BY <1>1, <1>2, <1>3, CommandBuffer, Core0Buffer DEF Next
-----------------------------------------------------------------------------
(* The theorems.                                                           *)

LEMMA InitMerge ==
    ASSUME Init
    PROVE  MergeInv
<1>1. Shape
  BY InitShape
<1>2. /\ fifo = <<>> /\ c0 = Idle0 /\ c1 = Idle1 /\ ~mergerunning /\ ~rebooted
      /\ c0.pc = "basic" /\ c1.pc = "idle"
  BY Idle0Ok, Idle1Ok DEF Init
<1>3. Stream = <<>> /\ Rest = 0
  BY <1>2 DEF Stream, Rest
<1>4. FramedFrom(Stream, Rest) /\ MergeIsLast
  BY <1>2, <1>3 DEF FramedFrom, MergeIsLast
<1>5. FrameInv
  BY <1>2, <1>4 DEF FrameInv
<1>6. Sourced(Stream, Sources)
  BY <1>3 DEF Sourced
<1>7. BufferInv
  BY <1>2, <1>6 DEF BufferInv, Stopped, Fresh
<1> QED
  BY <1>1, <1>5, <1>7 DEF MergeInv

\* What the program has misused stays on record.
LEMMA MisuseGrows ==
    ASSUME [Next]_vars
    PROVE  misuse \subseteq misuse'
<1>1. CASE Command
  BY <1>1 DEF Command, Create, CopyB, Merge, Blit, Abort, StartSync, FastCreate, Touch, FastWait,
              Copy, SyncCopies, BeginCopy
<1>2. CASE Core0
  BY <1>2 DEF Core0, Push, ReadRunning, PushStop, WaitOver, Clear, Free, DrawBegins, DrawEnds,
              CopyEnds, SyncDone, FastReady, TouchDone
<1>3. CASE Core1
  BY <1>3 DEF Core1, PopCommand, PopArgument, Round, MergeBegins, LockBuffers, DrawDone, mark_done
<1>4. CASE Service \/ CtrlC \/ UNCHANGED vars
  BY <1>4 DEF Service, CtrlC, vars
<1> QED
  BY <1>1, <1>2, <1>3, <1>4 DEF Next

LEMMA NextMerge ==
    ASSUME MergeInv, [Next]_vars
    PROVE  MergeInv'
<1>1. misuse \subseteq misuse'
  BY MisuseGrows
<1>2. Shape /\ Shape'
  BY NextShape DEF MergeInv
<1>3. ASSUME "stray" \notin misuse'
      PROVE  FrameInv /\ FrameInv'
  BY <1>1, <1>2, <1>3, NextFrame DEF MergeInv
<1>4. ASSUME Orderly'
      PROVE  BufferInv'
  <2>1. Orderly /\ "stray" \notin misuse'
    BY <1>1, <1>4 DEF Orderly
  <2> QED
    BY <1>2, <1>3, <1>4, <2>1, NextBuffer DEF MergeInv
<1> QED
  BY <1>2, <1>3, <1>4 DEF MergeInv

\* What the program keeps true of the two cores and the FIFO between them, for a
\* FIFO of any depth and any number of display commands.
THEOREM MergeInvariant == Spec => []MergeInv
<1>1. Init => MergeInv
  BY InitMerge
<1>2. MergeInv /\ [Next]_vars => MergeInv'
  BY NextMerge
<1> QED
  BY <1>1, <1>2, PTL DEF Spec

\* Every variable of the display pipeline keeps its type, and neither the words
\* of a command nor the stop of hal_display_merge_abort overfill the FIFO.
THEOREM MergeTypeCorrect == Spec => []TypeOK
<1>1. MergeInv => TypeOK
  BY DEF MergeInv, Shape
<1> QED
  BY <1>1, MergeInvariant, PTL

\* UpdateCore takes for a command only a word that was posted as one, however
\* its pops interleave with the pushes of core 0 and with an abort, as long as
\* no command is posted into a continuous merge.
THEOREM CommandsStayFramed == Spec => []Framed
<1>1. MergeInv => Framed
  BY DEF MergeInv, FrameInv, Framed
<1> QED
  BY <1>1, MergeInvariant, PTL

\* On a panel that takes less than 200 ms for a pass the stop of
\* hal_display_merge_abort reaches the merge it is meant for before the pause is
\* over, so the device is reset only after a stray command.
THEOREM AbortSeldomResets == Spec => []NoNeedlessReset
<1>1. MergeInv => NoNeedlessReset
  BY DEF MergeInv, FrameInv, NoNeedlessReset
<1> QED
  BY <1>1, MergeInvariant, PTL

\* What core 0 draws on the panel and core 1's merges and copies exclude one
\* another: by frameBufferMutex for merge() of the interpreter, by the abort before
\* vm_fb_merge_now, and by nothing for a copy on core 0, which is alone only if
\* core 1 had no work left when it began.
THEOREM PanelHasOneDrawer == Spec => []OneDrawer
<1>1. ASSUME MergeInv, c0.pc \in {"draw", "copy"}, c1.pc = "draw", c1.cmd # 8
      PROVE  (c0.pc = "copy" \/ engine = "vm") /\ misuse # {}
  <2>1. engine \in {"interpreter", "vm"} /\ MutexInv /\ Core1Ok(c1)
    BY <1>1 DEF MergeInv, Shape, TypeOK
  <2>2. c0.pc = "copy" \/ engine = "vm"
    BY <1>1, <2>1 DEF MutexInv
  <2>3. Outstanding(Reading)
    BY <1>1, <2>1 DEF Core1Ok, Posted, Outstanding
  <2>4. misuse # {}
    BY <1>1, <2>2, <2>3 DEF MergeInv, BufferInv, Stopped, Orderly
  <2> QED
    BY <2>2, <2>4
<1>2. MergeInv => OneDrawer
  BY <1>1 DEF OneDrawer
<1> QED
  BY <1>2, MergeInvariant, PTL

\* Core 1 reads no buffer that FreeMemory has taken back: an abort that is not
\* early leaves nothing outstanding that reads, and merge() looks for the buffers.
THEOREM NoReadAfterFree == Spec => []LiveBuffers
<1>1. ASSUME MergeInv, Orderly
      PROVE  Reads \subseteq bufs
  <2>1. BufferInv /\ bufs \subseteq {"F", "L"} /\ Core1Ok(c1)
    BY <1>1 DEF MergeInv, Shape, TypeOK
  <2>2. CASE c1.pc \notin {"lock", "draw"} \/ c1.cmd = 8
    BY <2>2 DEF Reads
  <2>3. CASE c1.pc \in {"lock", "draw"} /\ c1.cmd = 1
    <3>1. Reads = {b \in {"F", "L"} : Address[b] = c1.args[1]}
      BY <2>3 DEF Reads
    <3>2. c1.args[1] \in Sources
      BY <2>1, <2>3 DEF BufferInv
    <3>3. Address["F"] = 1000 /\ Address["L"] = 1001
      BY DEF Address
    <3> QED
      BY <2>1, <3>1, <3>2, <3>3 DEF Sources
  <2>4. CASE c1.pc \in {"lock", "draw"} /\ c1.cmd # 1 /\ c1.cmd # 8
    <3>1. c1.cmd \in Merging
      BY <2>1, <2>4 DEF Core1Ok, Posted, Reading, Merging
    <3> QED
      BY <2>1, <2>4, <3>1 DEF BufferInv, Reads
  <2> QED
    BY <2>2, <2>3, <2>4
<1>2. MergeInv => LiveBuffers
  BY <1>1 DEF LiveBuffers
<1> QED
  BY <1>2, MergeInvariant, PTL
=============================================================================
