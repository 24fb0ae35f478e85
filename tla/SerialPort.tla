----------------------------- MODULE SerialPort -----------------------------
(***************************************************************************)
(* A serial port (drivers/serial/Serial.c) or the serial console           *)
(* (ports/pico_sdk_common/pico_console.c): two ring buffers between the    *)
(* program and the UART's interrupt handler, which share them without a    *)
(* lock.  The handler interrupts the program between two instructions and  *)
(* runs to its end; the program goes on only when no interrupt is due.     *)
(* The FIFO of the UART is off: it holds one byte in each direction.       *)
(***************************************************************************)
EXTENDS Naturals, Sequences

CONSTANTS
    TxSize,     \* TX_BUFFER_SIZE, CONSOLE_TX_BUF_SIZE
    RxSize,     \* com1_buf_size, CONSOLE_RX_BUF_SIZE
    MaxPuts,    \* bound: bytes the program sends
    MaxGets,    \* bound: bytes the program asks for
    MaxArrivals \* bound: bytes that arrive

ASSUME SerialAssumption ==
    /\ TxSize \in Nat \ {0, 1} /\ RxSize \in Nat \ {0, 1}
    /\ {MaxPuts, MaxGets, MaxArrivals} \subseteq Nat

VARIABLES
    port,       \* "com" for COM1 and COM2, "console" for the serial console
    pc,         \* where the program is
    tx, rx,     \* the ring buffers: buf, head and tail
    uart,       \* see UartType
    empty,      \* SerialPutchar's sample of uart_is_writable
    char, reg,  \* SerialGetchar's byte, and the tail it has loaded
    abort,      \* MMAbort
    puts, gets, arrived,    \* how much of each bound is used
    wire, got,  \* history: bytes on the line, bytes the program has read
    windows     \* history: the unguarded moments that were hit

program == <<port, pc, empty, char, reg>>
history == <<puts, gets, arrived, wire, got, windows>>
vars == <<program, tx, rx, uart, abort, history>>

-----------------------------------------------------------------------------
\* rx: the byte received, or 0; busy: the transmit register is full; txris: it
\* has become empty since it was written; rxie, txie: the interrupts that are
\* enabled; force: irq_set_pending.
UartType == [rx : 0 .. MaxArrivals, busy : BOOLEAN, txris : BOOLEAN,
             rxie : BOOLEAN, txie : BOOLEAN, force : BOOLEAN]
Off == [rx |-> 0, busy |-> FALSE, txris |-> FALSE, rxie |-> FALSE, txie |-> FALSE, force |-> FALSE]

Interrupt == uart.force \/ (uart.rxie /\ uart.rx # 0) \/ (uart.txie /\ uart.txris)

\* uart_set_irq_enables
Enables(r, t) == [uart EXCEPT !.rxie = r, !.txie = t]

EmptyRing(n) == [buf |-> [i \in 0 .. n - 1 |-> 0], head |-> 0, tail |-> 0]
Full(r, n) == (r.head + 1) % n = r.tail
Items(r, n) == [i \in 1 .. (r.head + n - r.tail) % n |-> r.buf[(r.tail + i - 1) % n]]

\* The program is at l and no interrupt is due.
At(l) == pc = l /\ ~Interrupt

-----------------------------------------------------------------------------
(* SerialOpen and SerialClose; the console is opened at boot *)

SerialOpen ==
    /\ At("closed")
    /\ pc' = "settle"
    /\ tx' = EmptyRing(TxSize) /\ rx' = EmptyRing(RxSize)
    /\ uart' = [Off EXCEPT !.rxie = TRUE]
    /\ UNCHANGED <<port, empty, char, reg, abort, history>>

\* What came within the first millisecond is thrown away.
Settle ==
    /\ At("settle")
    /\ pc' = "idle"
    /\ tx' = [tx EXCEPT !.head = 0, !.tail = 0]
    /\ rx' = [rx EXCEPT !.head = 0, !.tail = 0]
    /\ windows' = windows \cup IF rx.head = rx.tail THEN {} ELSE {"dropped"}
    /\ UNCHANGED <<port, uart, empty, char, reg, abort, puts, gets, arrived, wire, got>>

SerialClose ==
    /\ At("idle") /\ port = "com"
    /\ pc' = "closed"
    /\ tx' = EmptyRing(TxSize) /\ rx' = EmptyRing(RxSize)
    /\ uart' = Off
    /\ windows' = windows \cup {"dropped", "cleared"}
    /\ UNCHANGED <<port, empty, char, reg, abort, puts, gets, arrived, wire, got>>

-----------------------------------------------------------------------------
(* SerialPutchar waits for room and then looks at the UART;                 *)
(* SerialConsolePutC looks first.                                          *)

PutBegin ==
    /\ At("idle") /\ puts < MaxPuts
    /\ puts' = puts + 1
    /\ pc' = IF port = "com" THEN "room" ELSE "sample"
    /\ UNCHANGED <<port, tx, rx, uart, empty, char, reg, abort, gets, arrived, wire, got, windows>>

Room ==
    /\ At("room") \/ At("sample")
    /\ pc = "room" => ~Full(tx, TxSize)
    /\ empty' = ~uart.busy
    /\ pc' = "store"
    /\ UNCHANGED <<port, tx, rx, uart, char, reg, abort, history>>

\* Ctrl-C while the buffer of a COM port is full clears it, the head first.
AbortHead ==
    /\ At("room") /\ Full(tx, TxSize) /\ abort
    /\ tx' = [tx EXCEPT !.head = 0]
    /\ windows' = windows \cup {"cleared"}
    /\ pc' = "abort"
    /\ UNCHANGED <<port, rx, uart, empty, char, reg, abort, puts, gets, arrived, wire, got>>

AbortTail ==
    /\ At("abort")
    /\ tx' = [tx EXCEPT !.tail = 0]
    /\ abort' = FALSE
    /\ pc' = "idle"
    /\ UNCHANGED <<port, rx, uart, empty, char, reg, history>>

\* mutant: the head is advanced before the byte is stored
Store_HeadFirst ==
    /\ At("store") /\ ~Full(tx, TxSize)
    /\ tx' = [tx EXCEPT !.head = (@ + 1) % TxSize]
    /\ pc' = "advance"
    /\ UNCHANGED <<port, rx, uart, empty, char, reg, abort, history>>

Store ==
    /\ At("store") /\ ~Full(tx, TxSize)
    /\ tx' = [tx EXCEPT !.buf[tx.head] = puts]
    /\ pc' = "advance"
    /\ UNCHANGED <<port, rx, uart, empty, char, reg, abort, history>>

\* mutant: the head runs past the end of the buffer
Advance_NoWrap ==
    /\ At("advance")
    /\ tx' = [tx EXCEPT !.head = @ + 1]
    /\ windows' = windows \cup IF empty \/ uart.txie THEN {} ELSE {"wake"}
    /\ pc' = "kick"
    /\ UNCHANGED <<port, rx, uart, empty, char, reg, abort, puts, gets, arrived, wire, got>>

\* The byte is in the queue; nobody comes for it if the handler switched its
\* interrupt off after the program saw the UART busy.
Advance ==
    /\ At("advance")
    /\ tx' = [tx EXCEPT !.head = (@ + 1) % TxSize]
    /\ windows' = windows \cup IF empty \/ uart.txie THEN {} ELSE {"wake"}
    /\ pc' = "kick"
    /\ UNCHANGED <<port, rx, uart, empty, char, reg, abort, puts, gets, arrived, wire, got>>

\* mutant: the interrupt is enabled and not started
Kick_EnableOnly ==
    /\ At("kick")
    /\ uart' = IF empty THEN Enables(TRUE, TRUE) ELSE uart
    /\ pc' = "idle"
    /\ UNCHANGED <<port, tx, rx, empty, char, reg, abort, history>>

Kick ==
    /\ At("kick")
    /\ uart' = IF empty THEN [Enables(TRUE, TRUE) EXCEPT !.force = TRUE] ELSE uart
    /\ pc' = "idle"
    /\ UNCHANGED <<port, tx, rx, empty, char, reg, abort, history>>

-----------------------------------------------------------------------------
(* SerialGetchar, with the receive interrupt off, and getConsole without    *)

GetBegin ==
    /\ At("idle") /\ gets < MaxGets
    /\ gets' = gets + 1
    /\ uart' = IF port = "com" THEN Enables(FALSE, TRUE) ELSE uart
    /\ pc' = IF port = "console" /\ abort THEN "idle" ELSE "get"
    /\ abort' = (abort /\ port = "com")
    /\ UNCHANGED <<port, tx, rx, empty, char, reg, puts, arrived, wire, got, windows>>

GetNothing ==
    /\ At("get") /\ rx.head = rx.tail
    /\ uart' = IF port = "com" THEN Enables(TRUE, TRUE) ELSE uart
    /\ pc' = "idle"
    /\ UNCHANGED <<port, tx, rx, empty, char, reg, abort, history>>

GetChar ==
    /\ At("get") /\ rx.head # rx.tail
    /\ char' = rx.buf[rx.tail]
    /\ pc' = "load"
    /\ UNCHANGED <<port, tx, rx, uart, empty, reg, abort, history>>

GetLoad ==
    /\ At("load")
    /\ reg' = rx.tail
    /\ pc' = "tail"
    /\ UNCHANGED <<port, tx, rx, uart, empty, char, abort, history>>

GetStore ==
    /\ At("tail")
    /\ rx' = [rx EXCEPT !.tail = (reg + 1) % RxSize]
    /\ uart' = IF port = "com" THEN Enables(TRUE, TRUE) ELSE uart
    /\ got' = Append(got, char)
    /\ pc' = "idle"
    /\ char' = 0 /\ reg' = 0
    /\ UNCHANGED <<port, tx, empty, abort, puts, gets, arrived, wire, windows>>

\* SerialRxStatus switches the receive interrupt off and both on again.
SerialRxStatus ==
    /\ At("idle") /\ port = "com"
    /\ uart' = Enables(TRUE, TRUE)
    /\ UNCHANGED <<program, tx, rx, abort, history>>

-----------------------------------------------------------------------------
(* on_uart_irq0, on_uart_irq1 *)

\* mutant: Ctrl-C resets the head instead of emptying the buffer
Received_HeadZero(c, brk) ==
    LET next == (rx.head + 1) % RxSize
        stored == [rx EXCEPT !.buf[rx.head] = c]
    IN  IF brk THEN [stored EXCEPT !.head = 0]
        ELSE [stored EXCEPT !.head = next,
                            !.tail = IF next = rx.tail THEN (rx.tail + 1) % RxSize ELSE rx.tail]

\* The oldest byte makes room; Ctrl-C on the console empties the buffer.
Received(c, brk) ==
    LET next == (rx.head + 1) % RxSize
        stored == [rx EXCEPT !.buf[rx.head] = c]
    IN  IF brk THEN [stored EXCEPT !.head = rx.tail]
        ELSE [stored EXCEPT !.head = next,
                            !.tail = IF next = rx.tail THEN (rx.tail + 1) % RxSize ELSE rx.tail]

\* The second half of the handler; u is the UART after the first.
Transmit(u) ==
    IF uart.busy THEN uart' = u /\ UNCHANGED <<tx, wire>>
    ELSE IF tx.head # tx.tail
    THEN /\ uart' = [u EXCEPT !.busy = TRUE, !.txris = FALSE]
         /\ wire' = Append(wire, tx.buf[tx.tail])
         /\ tx' = [tx EXCEPT !.tail = (@ + 1) % TxSize]
    ELSE uart' = [u EXCEPT !.rxie = TRUE, !.txie = FALSE] /\ UNCHANGED <<tx, wire>>

on_uart_irq(brk) ==
    /\ Interrupt
    /\ brk => port = "console" /\ uart.rx # 0
    /\ rx' = IF uart.rx # 0 THEN Received(uart.rx, brk) ELSE rx
    /\ abort' = (abort \/ brk)
    /\ windows' = windows
           \cup (IF brk \/ (uart.rx # 0 /\ Full(rx, RxSize)) THEN {"dropped"} ELSE {})
           \cup (IF brk /\ pc \in {"load", "tail"} THEN {"break"} ELSE {})
    /\ Transmit([uart EXCEPT !.rx = 0, !.force = FALSE])
    /\ UNCHANGED <<program, puts, gets, arrived, got>>

-----------------------------------------------------------------------------
(* The UART, and Ctrl-C on another console *)

Sent ==
    /\ uart.busy
    /\ uart' = [uart EXCEPT !.busy = FALSE, !.txris = TRUE]
    /\ UNCHANGED <<program, tx, rx, abort, history>>

Arrive ==
    /\ pc # "closed" /\ uart.rx = 0 /\ arrived < MaxArrivals
    /\ arrived' = arrived + 1
    /\ uart' = [uart EXCEPT !.rx = arrived']
    /\ UNCHANGED <<program, tx, rx, abort, puts, gets, wire, got, windows>>

CtrlC ==
    /\ port = "com" /\ ~abort
    /\ abort' = TRUE
    /\ UNCHANGED <<program, tx, rx, uart, history>>

-----------------------------------------------------------------------------
Init ==
    /\ port \in {"com", "console"}
    /\ pc = "closed"
    /\ tx = EmptyRing(TxSize) /\ rx = EmptyRing(RxSize)
    /\ uart = Off
    /\ empty = FALSE /\ char = 0 /\ reg = 0
    /\ abort = FALSE
    /\ puts = 0 /\ gets = 0 /\ arrived = 0
    /\ wire = <<>> /\ got = <<>> /\ windows = {}

\* What the program goes on with once it has begun.
Resume ==
    \/ Settle \/ Room \/ AbortHead \/ AbortTail \/ Store \/ Advance \/ Kick
    \/ GetNothing \/ GetChar \/ GetLoad \/ GetStore

Handler == \E brk \in BOOLEAN : on_uart_irq(brk)

Next ==
    \/ SerialOpen \/ SerialClose \/ PutBegin \/ GetBegin \/ SerialRxStatus
    \/ Resume \/ Handler
    \/ Sent \/ Arrive \/ CtrlC

Spec == Init /\ [][Next]_vars

\* The processor runs the program, takes interrupts, and the UART sends.
FairSpec == Spec /\ WF_vars(Resume) /\ WF_vars(Handler) /\ WF_vars(Sent)

-----------------------------------------------------------------------------
(* Properties *)

\* Every variable has its type.
TypeOK ==
    /\ port \in {"com", "console"}
    /\ pc \in {"closed", "settle", "idle", "room", "sample", "store", "advance", "kick", "abort",
               "get", "load", "tail"}
    /\ tx \in [buf : [0 .. TxSize - 1 -> 0 .. MaxPuts], head : 0 .. TxSize - 1, tail : 0 .. TxSize - 1]
    /\ rx \in [buf : [0 .. RxSize - 1 -> 0 .. MaxArrivals], head : 0 .. RxSize - 1, tail : 0 .. RxSize - 1]
    /\ uart \in UartType
    /\ {empty, abort} \subseteq BOOLEAN
    /\ char \in 0 .. MaxArrivals /\ reg \in 0 .. RxSize - 1
    /\ puts \in 0 .. MaxPuts /\ gets \in 0 .. MaxGets /\ arrived \in 0 .. MaxArrivals
    /\ wire \in Seq(0 .. MaxPuts) /\ got \in Seq(0 .. MaxArrivals)
    /\ windows \subseteq {"dropped", "cleared", "wake", "break"}

Increasing(s) == \A i, j \in DOMAIN s : i < j => s[i] < s[j]
UpTo(s, n) == s = [i \in 1 .. n |-> i]

\* The line carries the bytes the program sent, in their order and each once,
\* whatever the handler interrupts; all of them, unless Ctrl-C or CLOSE clears
\* the buffer.
WireInOrder ==
    LET sent == wire \o Items(tx, TxSize)
        stored == IF pc \in {"room", "sample", "store", "advance"} THEN puts - 1 ELSE puts
    IN  Increasing(sent) /\ ("cleared" \notin windows => UpTo(sent, stored))

\* The program reads the bytes that arrived in their order and each once, and
\* never an old one again, although the handler moves the tail too; unless
\* Ctrl-C comes in while it takes one; and none is lost while the buffer does
\* not overflow.
ReadInOrder ==
    LET seen == got \o Items(rx, RxSize)
        taken == IF uart.rx = 0 THEN arrived ELSE arrived - 1
    IN  pc = "idle" =>
            /\ "break" \notin windows => Increasing(seen)
            /\ "dropped" \notin windows => UpTo(seen, taken)

\* Everything in the buffer is sent, and a program that waits for room gets it,
\* unless a byte was queued in the moment the handler gave up.
EverythingSent == tx.head # tx.tail ~> tx.head = tx.tail \/ "wake" \in windows
=============================================================================
