---------------------------- MODULE DisplayMerge ----------------------------
(***************************************************************************)
(* The display pipeline of the PicoMite SPI-LCD ports: BASIC on core 0     *)
(* posts merges, copies and FASTGFX swaps word by word into the inter-core *)
(* FIFO, UpdateCore on core 1 carries them out                             *)
(* (drivers/display_merge/display_merge_pico.c,                            *)
(* drivers/spi_lcd/spi_lcd_framebuffer.c and spi_lcd_fastgfx.c,            *)
(* drivers/vm_framebuffer_picomite/vm_framebuffer_picomite.c).             *)
(*                                                                         *)
(* engine says whether the program is interpreted (cmd_framebuffer) or     *)
(* compiled (the hal_vm_framebuffer functions).  Pixels are left out: a    *)
(* merge is the time for which core 1 reads the buffers.  A FAST frame     *)
(* buffer takes the same locks and flags, and its shadow lives as long.    *)
(* slow is a property of the panel: 480 x 320 pixels of 3 bytes at 12 MHz  *)
(* (ILI9481IPS) take about 300 ms, most panels are four times as fast.     *)
(***************************************************************************)
EXTENDS Integers, Sequences

CONSTANTS
    FifoDepth,      \* words the inter-core FIFO holds (8, or 4 on an RP2350)
    Rects,          \* rectangles <<x, y, w, h>> BLIT MERGE is given
    Playing,        \* is an audio file playing while touch is read, on a shared SPI bus
    MaxCommands     \* bound: display commands of the program

ASSUME MergeAssumption ==
    /\ FifoDepth \in Nat \ {0}
    /\ Rects \subseteq [1 .. 4 -> Nat]
    /\ Playing \in BOOLEAN
    /\ MaxCommands \in Nat

VARIABLES
    engine,        \* "interpreter" or "vm"
    slow,          \* can a pass over this panel take more than 200 ms
    fifo,          \* the FIFO from core 0 to core 1
    mergerunning, mergedone, fastgfx_done,
    mutex,         \* owner of frameBufferMutex, or "none"
    bufs,          \* which of FrameBuf ("F") and LayerBuf ("L") are allocated
    active,        \* fastgfx_active
    pending,       \* vm_fb_copy_src of a deferred copy, or "none"
    c0, c1,        \* what each core is doing: see Core0Type and Core1Type
    polled,        \* core 1 took a word since the last stop was posted
    misuse,        \* history: what the program did that the code does not check
    rebooted,      \* history: an abort timed out and reset the device
    issued         \* how much of the bound is used

vars == <<engine, slow, fifo, mergerunning, mergedone, fastgfx_done, mutex, bufs, active,
          pending, c0, c1, polled, misuse, rebooted, issued>>

-----------------------------------------------------------------------------
StopWord == 255
Address == [F |-> 1000, L |-> 1001]     \* of FrameBuf and LayerBuf

\* head marks the word a command starts with, which core 1 cannot see.
Word(v, head) == [v |-> v, head |-> head]

\* Words after the command word, as UpdateCore pops them.
Payload(cmd) ==
    CASE cmd = 1 -> 1 [] cmd = 2 -> 1 [] cmd = 3 -> 2 [] cmd = 4 -> 5 [] cmd = 5 -> 6
      [] OTHER -> 0

\* The words of a command; a colour and a timer are 0.
Post(cmd, args) ==
    <<Word(cmd, TRUE)>> \o [k \in 1 .. Payload(cmd) |->
                               Word(IF k \in DOMAIN args THEN args[k] ELSE 0, FALSE)]

\* Commands that keep core 1 merging, that merge, and that read the buffers.
Continuous == {3, 5}
Merging == 2 .. 5
Reading == 1 .. 5

\* pc: "basic" between commands; out: words still to be pushed; then: what the
\* abort belongs to.
Core0Type == [pc : {"basic", "abort", "stop", "wait", "clear", "push", "free", "merge",
                    "draw", "copy", "sync", "swap", "touch"},
              out : Seq([v : Nat, head : BOOLEAN]),
              then : {"basic", "push", "merge", "END", "SHUT", "F", "L", "FL",
                      "SWAP", "SYNC", "CLOSE"}]
Core1Type == [pc : {"idle", "args", "loop", "merge", "lock", "draw", "done"},
              cmd : Nat, args : Seq(Nat), head : BOOLEAN]

Idle0 == [pc |-> "basic", out |-> <<>>, then |-> "basic"]
Idle1 == [pc |-> "idle", cmd |-> 0, args |-> <<>>, head |-> TRUE]

\* Work of core 1 that is posted or under way: of any kind that reads the
\* buffers, and of the kind that goes on until it is stopped.
Outstanding(kind) ==
    \/ c1.pc # "idle" /\ c1.cmd \in kind
    \/ \E k \in DOMAIN fifo : fifo[k].head /\ fifo[k].v \in kind

-----------------------------------------------------------------------------
(* Core 0: starting a command *)

Begin(pc, out, then) ==
    /\ c0.pc = "basic"
    /\ issued < MaxCommands
    /\ issued' = issued + 1
    /\ c0' = [pc |-> pc, out |-> out, then |-> then]

\* FRAMEBUFFER CREATE and LAYER.
Create(b) ==
    /\ b \notin bufs
    /\ Begin("basic", <<>>, "basic")
    /\ bufs' = bufs \cup {b}
    /\ UNCHANGED <<engine, slow, fifo, mergerunning, mergedone, fastgfx_done, mutex, active,
                   pending, c1, polled, misuse, rebooted>>

\* FRAMEBUFFER MERGE: in the foreground, with B (command 2) or R (3).  The VM
\* stops a running merge first.
Merge(cmd) ==
    /\ bufs = {"F", "L"}
    /\ IF engine = "vm"
       THEN Begin("abort", Post(cmd, <<>>), IF cmd = 0 THEN "merge" ELSE "push")
       ELSE Begin(IF cmd = 0 THEN "merge" ELSE "push", Post(cmd, <<>>), "basic")
    /\ UNCHANGED <<engine, slow, fifo, mergerunning, mergedone, fastgfx_done, mutex, bufs, active,
                   pending, c1, polled, misuse, rebooted>>

\* BLIT MERGE with B (command 4) or R (5), the same for both engines.
Blit(cmd, rect) ==
    /\ bufs = {"F", "L"}
    /\ Begin("push", Post(cmd, rect), "basic")
    /\ UNCHANGED <<engine, slow, fifo, mergerunning, mergedone, fastgfx_done, mutex, bufs, active,
                   pending, c1, polled, misuse, rebooted>>

\* copyframetoscreen on core 0 takes no mutex and does not look what core 1 is
\* doing.
BeginCopy(then) ==
    /\ Begin("copy", <<>>, then)
    /\ misuse' = misuse \cup IF Outstanding(Reading) THEN {"unlocked"} ELSE {}

\* FRAMEBUFFER COPY to the display.
Copy(b) ==
    /\ b \in bufs
    /\ BeginCopy("basic")
    /\ UNCHANGED <<engine, slow, fifo, mergerunning, mergedone, fastgfx_done, mutex, bufs, active,
                   pending, c1, polled, rebooted>>

\* FRAMEBUFFER COPY to the display with B: posted, or kept by the VM for later.
CopyB(b) ==
    /\ b \in bufs
    /\ IF engine = "vm"
       THEN Begin("basic", <<>>, "basic") /\ pending' = b
       ELSE Begin("push", Post(1, <<Address[b]>>), "basic") /\ UNCHANGED pending
    /\ UNCHANGED <<engine, slow, fifo, mergerunning, mergedone, fastgfx_done, mutex, bufs, active,
                   c1, polled, misuse, rebooted>>

\* FRAMEBUFFER MERGE A, FRAMEBUFFER CLOSE, and END or an error.
Abort(then) ==
    /\ Begin("abort", <<>>, then)
    /\ UNCHANGED <<engine, slow, fifo, mergerunning, mergedone, fastgfx_done, mutex, bufs, active,
                   pending, c1, polled, misuse, rebooted>>

\* FRAMEBUFFER SYNC.  The VM waits only for a running merge.
StartSync ==
    /\ pending = "none"
    /\ IF engine = "vm" /\ ~mergerunning
       THEN Begin("basic", <<>>, "basic") /\ UNCHANGED mergedone
       ELSE Begin("sync", <<>>, "basic") /\ mergedone' = FALSE
    /\ UNCHANGED <<engine, slow, fifo, mergerunning, fastgfx_done, mutex, bufs, active,
                   pending, c1, polled, misuse, rebooted>>

\* FRAMEBUFFER SYNC of the VM with a deferred copy, which it makes first.  The
\* copy is off the books at once: only core 0 looks, once it has ended.
SyncCopies ==
    /\ pending # "none"
    /\ BeginCopy("SYNC")
    /\ pending' = "none"
    /\ UNCHANGED <<engine, slow, fifo, mergerunning, mergedone, fastgfx_done, mutex, bufs, active,
                   c1, polled, rebooted>>

\* hal_vm_framebuffer_service, from the VM's poll: it makes the deferred copy.
Service ==
    /\ c0.pc = "basic"
    /\ pending # "none"
    /\ pending' = "none"
    /\ c0' = [Idle0 EXCEPT !.pc = "copy"]
    /\ misuse' = misuse \cup IF Outstanding(Reading) THEN {"unlocked"} ELSE {}
    /\ UNCHANGED <<engine, slow, fifo, mergerunning, mergedone, fastgfx_done, mutex, bufs, active,
                   c1, polled, rebooted, issued>>

\* FASTGFX CREATE; one that is active is closed first, which waits.
FastCreate ==
    /\ bufs = {}
    /\ fastgfx_done
    /\ Begin("basic", <<>>, "basic")
    /\ active' = TRUE
    /\ UNCHANGED <<engine, slow, fifo, mergerunning, mergedone, fastgfx_done, mutex, bufs,
                   pending, c1, polled, misuse, rebooted>>

\* FASTGFX SWAP, SYNC and CLOSE, which wait for the last swap first.
FastWait(op) ==
    /\ active
    /\ Begin("swap", Post(8, <<>>), op)
    /\ UNCHANGED <<engine, slow, fifo, mergerunning, mergedone, fastgfx_done, mutex, bufs, active,
                   pending, c1, polled, misuse, rebooted>>

\* GetTouchAxis takes the mutex, the SPI bus being shared.
Touch ==
    /\ mutex = "none"
    /\ Begin("touch", <<>>, "basic")
    /\ mutex' = "core0"
    /\ UNCHANGED <<engine, slow, fifo, mergerunning, mergedone, fastgfx_done, bufs, active,
                   pending, c1, polled, misuse, rebooted>>

-----------------------------------------------------------------------------
(* Core 0: the steps of a command *)

\* multicore_fifo_push_blocking.  A command posted while a continuous merge is
\* posted or running is a stray: nothing checks for it.
Push ==
    LET w == Head(c0.out)
    IN  /\ c0.pc = "push"
        /\ Len(fifo) < FifoDepth
        /\ fifo' = Append(fifo, w)
        /\ c0' = IF Len(c0.out) = 1 THEN Idle0 ELSE [c0 EXCEPT !.out = Tail(@)]
        /\ misuse' = misuse \cup IF w.head /\ Outstanding(Continuous) THEN {"stray"} ELSE {}
        /\ UNCHANGED <<engine, slow, mergerunning, mergedone, fastgfx_done, mutex, bufs, active,
                       pending, c1, polled, rebooted, issued>>

\* Where core 0 goes once the merge is stopped: END aborts a second time, in
\* hal_vm_framebuffer_shutdown_runtime.
Continue(c) ==
    CASE c.then = "basic" -> Idle0
      [] c.then \in {"push", "merge"} -> [c EXCEPT !.pc = c.then, !.then = "basic"]
      [] c.then \in {"F", "L", "FL", "SHUT"} -> [c EXCEPT !.pc = "free"]

AfterAbort ==
    IF c0.then = "END" THEN [c0 EXCEPT !.pc = "abort", !.then = "SHUT"]
    ELSE IF c0.then = "SHUT" \/ engine = "vm" THEN [c0 EXCEPT !.pc = "clear"]
    ELSE Continue(c0)

\* hal_display_merge_abort, up to its first test.  Core 1 may have work that
\* mergerunning does not show: a merge that is posted and not begun, or one
\* that was to run once.
ReadRunning ==
    /\ c0.pc = "abort"
    /\ c0' = IF mergerunning THEN [c0 EXCEPT !.pc = "stop"] ELSE AfterAbort
    /\ misuse' = misuse \cup IF ~mergerunning /\ Outstanding(Reading) THEN {"early"} ELSE {}
    /\ UNCHANGED <<engine, slow, fifo, mergerunning, mergedone, fastgfx_done, mutex, bufs, active,
                   pending, c1, polled, rebooted, issued>>

\* mutant: the word is pushed whether or not there is room
PushStop_Full ==
    /\ c0.pc = "stop"
    /\ fifo' = Append(fifo, Word(StopWord, FALSE))
    /\ c0' = [c0 EXCEPT !.pc = "wait"]
    /\ polled' = FALSE
    /\ UNCHANGED <<engine, slow, mergerunning, mergedone, fastgfx_done, mutex, bufs, active,
                   pending, c1, misuse, rebooted, issued>>

PushStop ==
    /\ c0.pc = "stop"
    /\ Len(fifo) < FifoDepth
    /\ fifo' = Append(fifo, Word(StopWord, FALSE))
    /\ c0' = [c0 EXCEPT !.pc = "wait"]
    /\ polled' = FALSE
    /\ UNCHANGED <<engine, slow, mergerunning, mergedone, fastgfx_done, mutex, bufs, active,
                   pending, c1, misuse, rebooted, issued>>

\* SoftReset.
Reboot ==
    /\ fifo' = <<>>
    /\ mergerunning' = FALSE /\ mergedone' = FALSE /\ fastgfx_done' = TRUE
    /\ mutex' = "none"
    /\ bufs' = {} /\ active' = FALSE /\ pending' = "none"
    /\ c0' = Idle0 /\ c1' = Idle1
    /\ rebooted' = TRUE

\* mutant: the pause does not count the merge's own timer
WaitOver_Impatient ==
    /\ c0.pc = "wait"
    /\ IF mergerunning THEN Reboot
       ELSE /\ c0' = AfterAbort
            /\ UNCHANGED <<fifo, mergerunning, mergedone, fastgfx_done, mutex, bufs, active,
                           pending, c1, rebooted>>
    /\ UNCHANGED <<engine, slow, polled, misuse, issued>>

\* mutant: the stop is posted and not waited for
WaitOver_Never ==
    /\ c0.pc = "wait"
    /\ c0' = AfterAbort
    /\ UNCHANGED <<fifo, mergerunning, mergedone, fastgfx_done, mutex, bufs, active,
                   pending, c1, rebooted, engine, slow, polled, misuse, issued>>

\* busy_wait_ms(mergetimer + 200): a round of core 1's loop is its timer and a
\* merge, so core 1 has taken a word by then if a merge takes less than 200 ms.
WaitOver ==
    /\ c0.pc = "wait"
    /\ polled \/ slow
    /\ IF mergerunning THEN Reboot
       ELSE /\ c0' = AfterAbort
            /\ UNCHANGED <<fifo, mergerunning, mergedone, fastgfx_done, mutex, bufs, active,
                           pending, c1, rebooted>>
    /\ UNCHANGED <<engine, slow, polled, misuse, issued>>

\* vm_fb_stop_merge writes the flag that core 1 owns.
Clear ==
    /\ c0.pc = "clear"
    /\ mergerunning' = FALSE
    /\ c0' = Continue(c0)
    /\ UNCHANGED <<engine, slow, fifo, mergedone, fastgfx_done, mutex, bufs, active, pending,
                   c1, polled, misuse, rebooted, issued>>

\* FreeMemory of the buffers; END also drops a deferred copy, CLOSE does not.
Free ==
    /\ c0.pc = "free"
    /\ bufs' = bufs \ CASE c0.then = "F" -> {"F"} [] c0.then = "L" -> {"L"}
                         [] OTHER -> {"F", "L"}
    /\ pending' = IF c0.then = "SHUT" THEN "none" ELSE pending
    /\ c0' = Idle0
    /\ UNCHANGED <<engine, slow, fifo, mergerunning, mergedone, fastgfx_done, mutex, active,
                   c1, polled, misuse, rebooted, issued>>

\* merge() on core 0.  vm_fb_merge_now takes no mutex and signals nothing.
DrawBegins ==
    /\ c0.pc = "merge"
    /\ engine = "interpreter" => mutex = "none"
    /\ mutex' = IF engine = "vm" THEN mutex ELSE "core0"
    /\ c0' = [c0 EXCEPT !.pc = "draw"]
    /\ UNCHANGED <<engine, slow, fifo, mergerunning, mergedone, fastgfx_done, bufs, active,
                   pending, c1, polled, misuse, rebooted, issued>>

DrawEnds ==
    /\ c0.pc = "draw"
    /\ mutex' = IF engine = "vm" THEN mutex ELSE "none"
    /\ mergedone' = IF engine = "vm" THEN mergedone ELSE TRUE
    /\ c0' = Idle0
    /\ UNCHANGED <<engine, slow, fifo, mergerunning, fastgfx_done, bufs, active, pending,
                   c1, polled, misuse, rebooted, issued>>

\* The end of a copy, and the rest of hal_vm_framebuffer_sync.
CopyEnds ==
    /\ c0.pc = "copy"
    /\ IF c0.then = "SYNC" /\ mergerunning
       THEN c0' = [Idle0 EXCEPT !.pc = "sync"] /\ mergedone' = FALSE
       ELSE c0' = Idle0 /\ UNCHANGED mergedone
    /\ UNCHANGED <<engine, slow, fifo, mergerunning, fastgfx_done, mutex, bufs, active, pending,
                   c1, polled, misuse, rebooted, issued>>

SyncDone ==
    /\ c0.pc = "sync"
    /\ mergedone
    /\ c0' = Idle0
    /\ UNCHANGED <<engine, slow, fifo, mergerunning, mergedone, fastgfx_done, mutex, bufs, active,
                   pending, c1, polled, misuse, rebooted, issued>>

\* CheckAbort in the loop of FRAMEBUFFER SYNC: Ctrl-C ends the program.
CtrlC ==
    /\ c0.pc = "sync"
    /\ c0' = [c0 EXCEPT !.pc = "abort", !.then = "END"]
    /\ UNCHANGED <<engine, slow, fifo, mergerunning, mergedone, fastgfx_done, mutex, bufs, active,
                   pending, c1, polled, misuse, rebooted, issued>>

\* bc_fastgfx_swap, bc_fastgfx_sync and bc_fastgfx_close after their wait.
FastReady ==
    /\ c0.pc = "swap"
    /\ fastgfx_done
    /\ fastgfx_done' = (c0.then # "SWAP")
    /\ active' = (c0.then # "CLOSE")
    /\ c0' = IF c0.then = "SWAP" THEN [c0 EXCEPT !.pc = "push", !.then = "basic"] ELSE Idle0
    /\ UNCHANGED <<engine, slow, fifo, mergerunning, mergedone, mutex, bufs, pending,
                   c1, polled, misuse, rebooted, issued>>

\* The rest of GetTouchAxis, which takes the mutex a second time around
\* checkWAVinput when an audio file plays.
TouchDone ==
    /\ c0.pc = "touch"
    /\ Playing => mutex = "none"
    /\ mutex' = "none"
    /\ c0' = Idle0
    /\ UNCHANGED <<engine, slow, fifo, mergerunning, mergedone, fastgfx_done, bufs, active,
                   pending, c1, polled, misuse, rebooted, issued>>

-----------------------------------------------------------------------------
(* Core 1: UpdateCore *)

\* The next command; a word that is none is dropped.
PopCommand ==
    LET w == Head(fifo)
    IN  /\ c1.pc = "idle"
        /\ fifo # <<>>
        /\ fifo' = Tail(fifo)
        /\ c1' = [pc |-> IF w.v \in Reading THEN "args" ELSE IF w.v = 8 THEN "draw" ELSE "idle",
                  cmd |-> w.v, args |-> <<>>, head |-> w.head]
        /\ UNCHANGED <<engine, slow, mergerunning, mergedone, fastgfx_done, mutex, bufs, active,
                       pending, c0, polled, misuse, rebooted, issued>>

\* mutant: BLIT MERGE B is read as two packed words and the colour
PopArgument_Packed ==
    LET args == Append(c1.args, Head(fifo).v)
        all == Len(args) = IF c1.cmd = 4 THEN 3 ELSE Payload(c1.cmd)
    IN  /\ c1.pc = "args"
        /\ fifo # <<>>
        /\ fifo' = Tail(fifo)
        /\ c1' = [c1 EXCEPT !.args = args,
                           !.pc = CASE ~all -> "args"
                                    [] all /\ c1.cmd \in Continuous -> "loop"
                                    [] all /\ c1.cmd \in {2, 4} -> "merge"
                                    [] all /\ c1.cmd = 1 -> "lock"]
        /\ mergerunning' = (mergerunning \/ (all /\ c1.cmd \in Continuous))
        /\ UNCHANGED <<engine, slow, mergedone, fastgfx_done, mutex, bufs, active, pending,
                       c0, polled, misuse, rebooted, issued>>

\* The words that follow, and what begins once they are all there.
PopArgument ==
    LET args == Append(c1.args, Head(fifo).v)
        all == Len(args) = Payload(c1.cmd)
    IN  /\ c1.pc = "args"
        /\ fifo # <<>>
        /\ fifo' = Tail(fifo)
        /\ c1' = [c1 EXCEPT !.args = args,
                           !.pc = CASE ~all -> "args"
                                    [] all /\ c1.cmd \in Continuous -> "loop"
                                    [] all /\ c1.cmd \in {2, 4} -> "merge"
                                    [] all /\ c1.cmd = 1 -> "lock"]
        /\ mergerunning' = (mergerunning \/ (all /\ c1.cmd \in Continuous))
        /\ UNCHANGED <<engine, slow, mergedone, fastgfx_done, mutex, bufs, active, pending,
                       c0, polled, misuse, rebooted, issued>>

\* A round of a continuous merge takes at most one word and drops it unless it
\* is the stop.
Round ==
    /\ c1.pc = "loop"
    /\ IF fifo # <<>> /\ Head(fifo).v = StopWord
       THEN c1' = Idle1 /\ mergerunning' = FALSE
       ELSE c1' = [c1 EXCEPT !.pc = "merge"] /\ UNCHANGED mergerunning
    /\ fifo' = IF fifo = <<>> THEN fifo ELSE Tail(fifo)
    /\ polled' = (polled \/ fifo # <<>>)
    /\ UNCHANGED <<engine, slow, mergedone, fastgfx_done, mutex, bufs, active, pending,
                   c0, misuse, rebooted, issued>>

Resume == IF c1.cmd \in Continuous THEN [c1 EXCEPT !.pc = "loop"] ELSE Idle1

\* merge() and blitmerge() return at once when a buffer is missing.
MergeBegins ==
    /\ c1.pc = "merge"
    /\ c1' = IF bufs = {"F", "L"} THEN [c1 EXCEPT !.pc = "lock"] ELSE Resume
    /\ UNCHANGED <<engine, slow, fifo, mergerunning, mergedone, fastgfx_done, mutex, bufs, active,
                   pending, c0, polled, misuse, rebooted, issued>>

\* mutant: the mutex is not waited for
LockBuffers_Barges ==
    /\ c1.pc = "lock"
    /\ mutex' = "core1"
    /\ c1' = [c1 EXCEPT !.pc = "draw"]
    /\ UNCHANGED <<engine, slow, fifo, mergerunning, mergedone, fastgfx_done, bufs, active,
                   pending, c0, polled, misuse, rebooted, issued>>

LockBuffers ==
    /\ c1.pc = "lock"
    /\ mutex = "none"
    /\ mutex' = "core1"
    /\ c1' = [c1 EXCEPT !.pc = "draw"]
    /\ UNCHANGED <<engine, slow, fifo, mergerunning, mergedone, fastgfx_done, bufs, active,
                   pending, c0, polled, misuse, rebooted, issued>>

\* The end of a swap, of a copy (which signals nothing) and of a merge.
DrawDone ==
    /\ c1.pc = "draw"
    /\ fastgfx_done' = (fastgfx_done \/ c1.cmd = 8)
    /\ mutex' = IF c1.cmd = 8 THEN mutex ELSE "none"
    /\ c1' = IF c1.cmd \in {1, 8} THEN Idle1 ELSE [c1 EXCEPT !.pc = "done"]
    /\ UNCHANGED <<engine, slow, fifo, mergerunning, mergedone, bufs, active, pending,
                   c0, polled, misuse, rebooted, issued>>

\* mutant: only a merge that runs once is signalled
mark_done_Once ==
    /\ c1.pc = "done"
    /\ mergedone' = (mergedone \/ c1.cmd \notin Continuous)
    /\ c1' = Resume
    /\ UNCHANGED <<engine, slow, fifo, mergerunning, fastgfx_done, mutex, bufs, active, pending,
                   c0, polled, misuse, rebooted, issued>>

mark_done ==
    /\ c1.pc = "done"
    /\ mergedone' = TRUE
    /\ c1' = Resume
    /\ UNCHANGED <<engine, slow, fifo, mergerunning, fastgfx_done, mutex, bufs, active, pending,
                   c0, polled, misuse, rebooted, issued>>

-----------------------------------------------------------------------------
Init ==
    /\ engine \in {"interpreter", "vm"}
    /\ slow \in BOOLEAN
    /\ fifo = <<>>
    /\ mergerunning = FALSE /\ mergedone = FALSE /\ fastgfx_done = TRUE
    /\ mutex = "none"
    /\ bufs = {} /\ active = FALSE /\ pending = "none"
    /\ c0 = Idle0 /\ c1 = Idle1
    /\ polled = FALSE
    /\ misuse = {} /\ rebooted = FALSE /\ issued = 0

Command ==
    \/ \E b \in {"F", "L"} : Create(b) \/ Copy(b) \/ CopyB(b)
    \/ \E cmd \in {0, 2, 3} : Merge(cmd)
    \/ \E cmd \in {4, 5}, rect \in Rects : Blit(cmd, rect)
    \/ \E then \in {"basic", "F", "L", "FL", "END"} : Abort(then)
    \/ StartSync \/ SyncCopies \/ FastCreate \/ Touch
    \/ \E op \in {"SWAP", "SYNC", "CLOSE"} : FastWait(op)

Core0 ==
    \/ Push \/ ReadRunning \/ PushStop \/ WaitOver \/ Clear \/ Free
    \/ DrawBegins \/ DrawEnds \/ CopyEnds \/ SyncDone \/ FastReady \/ TouchDone

Core1 ==
    \/ PopCommand \/ PopArgument \/ Round
    \/ MergeBegins \/ LockBuffers \/ DrawDone \/ mark_done

Next == Command \/ Service \/ Core0 \/ CtrlC \/ Core1

Spec == Init /\ [][Next]_vars

\* Each core runs its code on its own; nobody has to press Ctrl-C or to write
\* another command.  The mutex is handed over by the hardware spin lock, so a
\* core that finds it free again and again gets it.
FairSpec == Spec /\ WF_vars(Core0) /\ WF_vars(Core1) /\ SF_vars(DrawBegins)

-----------------------------------------------------------------------------
(* Properties *)

\* Every variable has its type, and the FIFO holds what it can hold.
TypeOK ==
    /\ engine \in {"interpreter", "vm"}
    /\ fifo \in Seq([v : Nat, head : BOOLEAN]) /\ Len(fifo) <= FifoDepth
    /\ {slow, mergerunning, mergedone, fastgfx_done, active, polled, rebooted} \subseteq BOOLEAN
    /\ mutex \in {"none", "core0", "core1"}
    /\ bufs \subseteq {"F", "L"}
    /\ pending \in {"none", "F", "L"}
    /\ c0 \in Core0Type /\ c1 \in Core1Type
    /\ misuse \subseteq {"early", "stray", "unlocked"}
    /\ issued \in 0 .. MaxCommands

\* The buffers core 1 reads at this moment.
Reads ==
    IF c1.pc \notin {"lock", "draw"} \/ c1.cmd = 8 THEN {}
    ELSE IF c1.cmd = 1 THEN {b \in {"F", "L"} : Address[b] = c1.args[1]}
    ELSE {"F", "L"}

\* Nothing was done that disturbs the merges themselves.
Orderly == misuse \subseteq {"unlocked"}

\* Core 1 never reads a buffer that core 0 has freed (hal_display_merge_abort
\* before every FreeMemory, its wait, and the NULL tests of merge()), as long as
\* no abort came while core 1 had work that mergerunning does not show and no
\* command was posted into a continuous merge.
LiveBuffers == Reads \subseteq bufs \/ ~Orderly

\* hal/hal_display_merge.h: abort tears down any in-flight merge and waits for it
\* to stop, so no merge is left when core 0 goes on to free the buffers.
AbortStops == c0.pc = "free" => ~Outstanding(Merging)

\* UpdateCore takes for a command only what was posted as one, unless a command
\* was posted into a continuous merge, which drops its words one by one.
Framed == c1.pc # "idle" => c1.head \/ "stray" \in misuse

\* The two cores never drive the panel at once, a FASTGFX swap aside, which takes
\* no mutex.  frameBufferMutex sees to it for merge() on core 0; a copy on core 0
\* and the VM's own merge take no mutex, and have the panel to themselves only if
\* the program began them when core 1 had nothing left to draw.
OneDrawer ==
    c0.pc \in {"draw", "copy"} /\ c1.pc = "draw" /\ c1.cmd # 8 =>
        (c0.pc = "copy" \/ engine = "vm") /\ misuse # {}

\* On a panel that takes less than 200 ms for a pass hal_display_merge_abort
\* resets the device only when words of another command were in front of its
\* stop.
NoNeedlessReset == rebooted => slow \/ "stray" \in misuse

\* Every display command comes to its end: SYNC when a continuous merge runs,
\* SWAP, SYNC and CLOSE of FASTGFX, an abort, a foreground merge or copy, a touch
\* reading.
CommandsReturn ==
    (c0.pc # "basic" /\ Orderly /\ (c0.pc = "sync" => mergerunning))
        ~> (c0.pc = "basic" \/ ~Orderly)
=============================================================================
