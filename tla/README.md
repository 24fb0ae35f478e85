# TLA+ verification of PicoMite

PicoMite is a BASIC interpreter for microcontrollers, with a bytecode compiler
and machine beside the interpreter, drivers, and on the Pico WEB ports a small
set of network services. This directory models the parts where tests on a device
reach least: network services with remote actors and errors that leave a handler
by `longjmp`, the display pipeline of two cores, the rings shared with the UART's
interrupt handler, memory across calls, errors and interrupts, and the control
flow of the two engines, which must agree.

Source paths are relative to the root of the repository; `PROJECT.json` gives
the lines each definition stands for.

## 1. Inventory

### The system's parts

| Part | State | Operations | Interacts with | Hard behaviour |
|---|---|---|---|---|
| TFTP server: `shared/net/mm_net_tftp.c`, `MMtftp.c` | one session, its BASIC file number, one UDP socket | RRQ, WRQ, DATA, ACK, ERROR, `OPTION TFTP ON/OFF` | file table, RUN, UDP HAL | lost, repeated, reordered datagrams; takeover of the session; file calls that throw |
| Network lifecycle: `mm_net_lifecycle.c`, `MMsetwifi.c`, `MMudp.c` | saved options, `WIFIconnected`, `startupcomplete` | boot, `WEB CONNECT`, `OPTION ...` setters, resets | every listener, HAL slots | one of several opens failing; options changed off line |
| TCP connections: `drivers/net_lwip_raw/hal_net_lwip.c` | 8 connection slots, 2 listener slots, 4 UDP slots | lwIP callbacks, accept, send, close | HTTP server, telnet | handles reused while somebody still holds them |
| HTTP server: `mm_net_service.c`, `MMtcpserver.c` | request slots | poll, `WEB TCP READ/SEND/CLOSE`, `WEB TRANSMIT`, RUN | connection slots, BASIC program | more clients than slots; a program that answers late |
| Telnet console: `MMtelnet.c` | listener, one connection, output buffer | poll, receive, close | connection slots, console | the connection ends between polls |
| Display core: `display_merge_pico.c`, `spi_lcd_framebuffer.c`, `spi_lcd_fastgfx.c`, `vm_framebuffer_picomite.c` | inter-core FIFO, `mergerunning`, `mergedone`, `frameBufferMutex` | `FRAMEBUFFER`, `BLIT MERGE`, `FASTGFX`, abort, sync; the loop of core 1 | frame buffers, touch, reset | two cores, flags set late, a command read in the middle of another |
| Heap: `core/mmbasic/Memory.c` | a map of two bits for each page, the table of temporaries | allocate, free, clear temporaries, `InitHeap` | everything | a block's length is only in the map; temporaries freed under a command |
| Calls and errors: `core/mmbasic/MMBasic.c`, `Commands.c` | `gosubstack`, `g_LocalIndex`, `DefinedSubFunMem`, the C stack | command, SUB, FUNCTION, `LOCAL`, `ON ERROR`, `error()`, END, Ctrl-C | heap, interrupts | an error in an argument of an argument; Ctrl-C in the middle of one |
| BASIC interrupts: `runtime/runtime_interrupt.c`, `core/mmbasic/MM_Misc.c` | return point, saved error state | check, dispatch, `IRETURN` | every event source, calls | an interrupt in the body of a function in an expression |
| Interpreter control flow: `core/mmbasic/Commands.c` | FOR and DO stacks, `nextstmt` | FOR, DO, IF, SELECT, GOTO, GOSUB, ON, EXIT, CONTINUE, SUB | variables | no parse tree: every command searches the text, and jumps leave loops on the stacks |
| Bytecode compiler and VM: `runtime/vm/bc_source.c`, `bc_compiler_core.c`, `bc_vm.c` | nesting stack, code, fixups; machine stacks | compile a line, patch, run an instruction | runtime services | one pass: jumps are patched when their target is known |
| Serial: `drivers/serial/Serial.c`, `ports/pico_sdk_common/pico_console.c` | two rings for each port | put, get, the interrupt handler | UART, Ctrl-C | interrupt between two accesses |
| Telnet parser, console ring: `mm_net_telnet_rx.c`, `runtime/runtime_console.c` | parser state, ring buffer | feed, get a character, break key | UART and USB input | several writers of one ring |
| UDP receive, TCP client, MQTT, NTP: `mm_net_udp_cmd.c`, `MMTCPclient.c`, `MMMqtt.c`, `MMntp.c` | a pending datagram, a receive queue, a pending message | `WEB UDP/TCP CLIENT/MQTT/NTP` | lwIP | overwriting, late answers after a timeout |
| Files: `core/mmbasic/FileIO.c` | file table, `FSerror` | OPEN, CLOSE, RUN | TFTP, audio, FatFs, LittleFS | numbers shared by unrelated owners |
| Options and flash: `hal_flash_pico.c`, `shared/mmbasic/options_ini.c` | the saved option block | `SaveOptions`, load | lifecycle | power loss between erase and program |
| Audio: `shared/audio/audio_stream.c` | decoder, pending frames | play, service, stop | files, sample queue | re-entry from idle loops |
| Editor, drawing, buses, keyboards, other ports | screens, registers | BASIC commands | | large sequential code |

What interleaves with what decides the grain of the actions:

* Network services run on one core without threads: `ProcessWeb` is called from
  the main loop and polls lwIP and then each service, and lwIP's callbacks run
  only inside `cyw43_arch_poll`. Actions are whole callbacks, whole polls and
  whole BASIC commands.
* Display commands run on core 0 against `UpdateCore` on core 1. Actions are
  single FIFO words, single reads and writes of the shared flags, and the begin
  and end of what is done under the mutex.
* The UART handler interrupts the program between two instructions and runs to
  its end. The program's accesses to the rings are actions of their own, the
  handler is one.
* Calls are sequential, but an interrupt can start between two commands, also
  those of a function called within an expression. Actions are the points of
  `DefinedSubFun` at which memory or the call stack changes.
* The two engines run one after the other. An action is one statement, one
  compiled line or one instruction.

### What makes each modelled part correct

* TFTP: a transfer reported complete moved exactly the file's bytes; no file
  number of the BASIC program is lost to a dead transfer; transfers end.
* Lifecycle: the HAL's few slots never leak; what is switched off is closed; what
  is switched on is open on the right port; telnet recovers from a failed open.
* TCP: an answer goes to the client that asked; requests and console input are
  not mixed; BASIC never loses its hold on a live connection; every request that is
  not blocked for good is eventually seen.
* Display: core 1 reads no freed buffer and takes no argument for a command; one
  core draws at a time where a mutex or an abort promises it; on a panel that is fast
  enough no abort resets a healthy device; every command returns.
* Heap and calls: memory in use is not freed, memory not in use is not lost;
  temporaries last as long as their command and no longer; a skipped error and
  an interrupt leave the call stack as it was.
* Serial: bytes keep their order, none is doubled, none is lost without a cause;
  queued bytes are sent.
* Control flow: the entries of the loop stacks are valid; structured programs
  whose loop variables do not end in each other's names never fail; both engines
  do the same.

The `hazards` list in `PROJECT.json` places these concerns at their lines, with
the properties that would catch each going wrong.

## 2. Modules

```
TftpServer <- MCTftp                           Heap <- Calls <- MCCalls
NetLifecycle <- MCNetLifecycle                 Heap implements Allocator
TcpServer <- MCTcp                             BasicFlow <- InterpFlow, VmFlow
DisplayMerge <- MCDisplay                      InterpFlow, VmFlow <- FlowCompare <- MCFlow
SerialPort <- MCSerial
M_proofs EXTENDS M, for TftpServer, NetLifecycle, TcpServer, DisplayMerge, SerialPort, Heap,
                        FlowCompare
Calls_proofs EXTENDS Calls, Heap_proofs
```

### TftpServer

`dev` is the device as one record: `session` (`mm_net_tftp_session_t`), `fnbr`
(`pico_tftp_fnbr`), the file table `files` with read offsets `pos`, the files'
`content`, and `fserror` (`FSerror`). Handler steps are functions of that record,
so that a handler which throws midway keeps exactly what it had assigned.
`fails` is the set of file system calls that fail while the handler runs.

| Definition | Code |
|---|---|
| `tftp_close` | `mm_net_tftp_close` with `FileClose`, which throws when `FSerror` is set |
| `parse_request_block_size`, `accepted_option` | the `blksize` option, its limits and its cap |
| `StartRead`, `StartWrite`, `BadRequest` | `start_read`, `start_write`, `parse_request_filename` |
| `HandleData`, `HandleAck`, `HandleError`, `Ignored` | the branches of `mm_net_tftp_handle_packet` |
| `ClearRuntime` | RUN: `port_web_clear_runtime_state`, `CloseAllFiles` |
| `TftpOff`, `TftpOn` | `pico_tftp_close`, `pico_tftp_open` |
| `BasicFileOpen`, `BasicFileClose` | the program's own `OPEN` and `CLOSE` |

Clients (external) are TFTP programs that start, repeat their last packet and
give up; `net` is a set of datagrams, from which a delivery may or may not remove
the datagram. A datagram that is never taken is a lost one. Bytes are integers;
block size, block number range and file table size are constants. `cut` and
`mistimed` are histories: the peers whose file was closed under the session, and
those of whom an ACK was taken for another. The second is a matter of block 1 after
an OACK: `block` is 1 before and after that block is sent, so a repeated ACK 0 sends
the next bytes as another block 1, and an ACK 1 left from an earlier request sends
the first bytes as block 2.

### NetLifecycle

`nets` holds the HAL's slots (`pcb`: the port a slot is bound to), each service's
`handle` and the port it believes in; `opt`, `ssid` are the saved options, which
alone survive `Reset`. `Boot`, `WebConnectCommand`, `Enable`, `Disable` and
`DisableThrows` are the whole setters of `mm_net_lifecycle.c`, with the hooks they
call; `pico_telnet_poll` is the listener half of the telnet poll. A bind fails on
a full slot table, a port in use, or a fault (lwIP out of memory). `last` is a
history variable: how the last attempt on a service ended.

### TcpServer

`slot` is `tcp_conn_slots` with its flags, `svc` the request slots, `tel` the
console connection. `peer` is the remote side with `arg`, the slot lwIP passes to
the callbacks of that pcb, which can outlive the slot's use by that client.
`Accept`, `Refuse`, `Receive`, `Fin` and `Reset` are the lwIP callbacks,
`tcp_service_poll` the HTTP poll, `Read`, `Send`, `Transmit` and `Close` the BASIC
commands, `clear_requests` RUN, `telnet_poll` and `telnet_close_conn` the console.
`console` and `answers` are histories. The bytes of a request are abstracted to
who sent each segment. A client may send more than `ReadBuffer` segments, at which
`hal_net_tcp_accept_event` gives up without looking at the slots behind
(hal_net_lwip.c:715); and the reset of a client whose slot was meanwhile given to
another (its FIN came first) takes the slot from the new one (425-430). `Blocked`
names these two cases.

### DisplayMerge

`fifo` is the inter-core FIFO, with a mark on the first word of each command that
core 1 cannot see; `c0` and `c1` say where each core is, `bufs` which buffers are
allocated. `engine` chooses between the interpreter's commands and the VM's, which
differ in what they check. Core 0: a command posts words (`Push`), an abort is
`ReadRunning`, `PushStop`, `WaitOver` or `Reboot`, `Clear`, and what follows it
(`Free`). Core 1 is `UpdateCore`: `PopCommand`, `PopArgument`, `Round` of a running
merge, `MergeBegins`, `LockBuffers`, `DrawDone`, `mark_done`.

Core 0 also draws on the panel itself. A foreground merge (`DrawBegins`, `DrawEnds`)
takes the mutex under the interpreter, not under the VM, which has aborted before. A
copy to the display (`BeginCopy`, `CopyEnds`) takes none in either engine: the
foreground `COPY` (`Copy`), and the VM's deferred `COPY B`, made by its poll
(`Service`) or by SYNC (`SyncCopies`).

`slow` is the panel: a pass over 480 x 320 pixels of 3 bytes at 12 MHz (ILI9481IPS,
spi_lcd_panels.c:46) takes about 307 ms, more than the 200 ms for which the abort
waits. On such a panel the wait may be over (`WaitOver`) before core 1 looked at the
FIFO; on the others core 1 has taken a word by then (`polled`).

`misuse` is a history of three things a program can do that the code does not check:
"early", an abort or a free that did not see a merge still queued; "stray", a command
posted into a continuous merge, which drops the words one by one; "unlocked", a copy
core 0 began while core 1 had drawing posted or under way.

### Allocator, Heap, Calls

`Allocator` is the abstract specification: blocks are handed out disjoint and stay
until released. `Heap` is `Memory.c`: `bits` is the page map, searched from the top
(`GetMemory`) or the bottom (`GetSystemMemory`); a block's length is found by
walking to the page marked last. `Abstract` maps the live addresses with their
walked lengths to the allocator's blocks.

`Calls` composes the heap with the interpreter. `stack` is the C stack, with a
frame for the command each `ExecuteProgram` is in and one for each
`DefinedSubFun`; `gosub`, `level`, `mem`, `memlevel`, `strtmp`, `changed`, `errskip`
are `gosubstack`, `g_LocalIndex`, `DefinedSubFunMem`, `DefinedSubFunLocalIndex`, the
table of temporaries, `g_TempMemoryIsChanged` and `OptionErrorSkip`. A call is
`StartCall`, `StringArgument`, `BeginBind`, `DeclareParameter`, `CopyArgument`,
`Bound`, for a function `NumberResult` or `StringResult`, its body, `cmd_endfun`,
`ReturnValue`. `error` is the function of that name, with what `ON ERROR SKIP`
recovers. `untidy` records what a skipped error leaves behind; `owed` the error
mode an interrupt must give back.

`do_end` is END and Ctrl-C, which CheckAbort takes between two commands and, through
INKEY$ and its like, inside an expression: `longjmp(mark)` leaves every frame without
`error()`. The prompt is then the state with `running` false, from which RUN
(`ClearRuntime`) starts a program with all other state cleared and `DefinedSubFunMem`
as it was, since only MMBasic.c:1218 and 3273 set it to 0. `left` is the history that
`mem` comes from a call left so; the next call that is set up ends it. An `error()`
met with `left` frees a stale address and pops `gosubstack`, which may free another's
block and may reach below the stack: from there ("stale" in `untidy`) the program is
not followed, and the next RUN may find `DefinedSubFunMem` 0 or at any address.
`NoLabel` is ON n GOSUB whose label is missing: it has pushed `gosubstack` before it
looks, so a skipped error leaves the push ("label").

### SerialPort

`tx` and `rx` are rings with `head` and `tail`; `uart` is the device with its
interrupt enables. `PutBegin` to `Kick` are `SerialPutchar` access by access,
`GetBegin` to `GetStore` are `SerialGetchar`, `on_uart_irq` is the handler.
`port` chooses between a COM port and the console, whose code differs in the
guards. `windows` names the unguarded moments a run hit ("wake": the handler gave
up between the test for an idle transmitter and the queueing of the byte).

### BasicFlow, InterpFlow, VmFlow, FlowCompare

`BasicFlow` defines programs: sequences of statements reduced to what decides where
control goes. `WellFormed` is what the parser guarantees of a statement (its operands
are there and name variables); nothing is assumed about how blocks nest. `InterpFlow` has one action for each command of `Commands.c`, with
its search of the text and its stack. `VmFlow` has the compiler, one operator for
each `source_compile_` function on the compiler state `cs`, and one action for each
kind of instruction. `FlowCompare` runs a program on the interpreter and then on
the engine, as the comparison mode of `host_main.c` does. `strayed` is set when the
interpreter leaves the text of the program, in one of five ways: `WrongLoop` (EXIT
or CONTINUE applies to a loop that a GOTO left), `SharedNext` (EXIT FOR, or a FOR
past its limit, goes behind a NEXT that closes several loops), `WrongNext` (FOR
takes a NEXT whose variable's name ends with the loop's), `WrongReturn`
(RETURN in a SUB, END SUB in a GOSUB routine), `LeftSub` (GOTO out of a SUB).

A name is a model value; the constant `Within` says of two names whether the first
occurs in the second, and whether its first occurrence there is at the end. That is
all the search for NEXT (`NamedIn`, `MatchingNext`) sees of them: it looks for the
first place in the list where the name occurs and asks that no name goes on there.

What the model says of each program of `MCFlow` (output or error of the interpreter,
rejection and output of the bytecode engine), with loop stacks that hold all loops of
these programs, was compared with the host build of the repository run on the same
programs; they agreed on every one. A name is what FOR was given, so a type suffix
written there is part of it.

### Instances and proofs

The `MC` modules give constants values and define symmetry and constraints; they
replace nothing. The `_proofs` modules hold the theorems. A definition whose name
ends in a suffix such as `_Leaks` or `_NoWrap` and whose comment begins with
"mutant" is a deliberately wrong variant used to test that a property can fail.

## 3. Runs

| Run | Module | Properties | Shows |
|---|---|---|---|
| `MCTftpNetwork` | MCTftp | `TypeOK`, `NoStrandedFile`, `UploadIsWhole`, `DownloadIsPrefix` | a reader and a writer contend for the one session over a repeating, reordering, losing network, with failing file calls, RUN, `OPTION TFTP OFF` and a program using its own file |
| `MCTftpComplete` | MCTftp | `TransferCompletes` | downloads and uploads end, past the block number wrap, with an empty last block, and after another client's transfer |
| `MCTftpRun` | MCTftp | `SessionOwnsItsFile` | violated: finding 1 |
| `MCNetListeners` | MCNetLifecycle | `TypeOK`, `SlotsOwned`, `DisabledIsClosed`, `ConfiguredIsOpen`, `TelnetComesBack` | slots, handles and options agree under every order of events, and the poll reopens the telnet listener |
| `MCTcpServer` | MCTcp | `TypeOK`, `PatientAnswers`, `RequestsAreSeparate`, `ConsoleIsTelnet`, `NoOrphan`, `RequestsAreServed` | until a client hangs up nothing changes hands; whatever clients do, BASIC keeps a handle on each live connection it was given; every request is seen, with more clients than request slots, unless an oversized request or a late reset blocks it for good |
| `MCDisplay` | MCDisplay | `TypeOK`, `LiveBuffers`, `Framed`, `OneDrawer`, `NoNeedlessReset`, `CommandsReturn` | every order of display commands under both engines, on panels of either speed, against core 1 |
| `MCDisplayAbort` | MCDisplay | `AbortStops` | violated: finding 2 |
| `MCCalls` | MCCalls | `TypeOK`, `PagesAreFound`, `HeldIsLive`, `TempsLast`, `TempsEnd`, `MemIsCurrent`, `CallDepth`, `ErrorModeKept`, `CallsFindAllocator` | calls, errors, an interrupt, Ctrl-C at any point and RUN on a heap that runs out |
| `MCCallsSkip` | MCCalls | `SkipRecovers` | violated: finding 3 |
| `MCSerial` | MCSerial | `TypeOK`, `WireInOrder`, `ReadInOrder`, `EverythingSent` | the handler strikes between any two accesses; rings fill, wrap and are cleared |
| `MCFlow` | MCFlow | `LoopsLive`, `StructuredRuns`, `RejectsMisplaced`, `SameOutput` | 10860 programs on both engines |
| `MCFlowExit` | MCFlow | `ForStackHolds` | violated: finding 4 |

Where the code has a weakness that is known and not claimed otherwise, the
property names it as an exception (`mistimed`, `misuse`, `slow`, `untidy`, `left`,
`windows`, `strayed`, `NamesClash`, `hangups`, `Blocked`)
instead of assuming it away: the run then shows that nothing else goes wrong.

### Bounds

* TFTP: blocks of at most 2 bytes (512 in the code) and files of 3 to 5 bytes give
  full, short and empty last blocks; `BlockMod` stands for 2^16 and is 8, or
  3 in the liveness run so that the count wraps; two file numbers make the table
  fill. In the network run the reader asks for a block above the maximum, so that the
  server cuts it down and the ACKs around block 1 can go wrong; in the liveness run
  the writer asks for blocks of one byte. One duplicate, one retry, one failing call and one reset are allowed, and
  the constraint `FewMishaps` lets any two of them happen in one behaviour.
* Lifecycle: the slot counts are the code's (2 and 4). TCP port 23 clashes with
  telnet, UDP port 69 with TFTP; two faults let both a boot and a later reopening
  fail.
* TCP: two connection slots and one request slot for 8 and 8, and three clients, so
  that both tables fill and a request waits for the one before it. One HTTP client may
  send one segment more than a buffer holds. Two hang-ups let a client close, another
  take its slot, and the first one's reset come late; one RUN. How several connections
  go to several request slots in one poll is left to the theorems, which hold for any
  number of both.
* Display: a FIFO of 4 words (8 on an RP2040, 4 on an RP2350), shorter than a
  blit of 7 words, so that a command is read while it is being posted; five
  commands are enough to create both buffers, post a merge, abort and free, or post a
  merge and copy beside it. Engine and speed of the panel are chosen at the start.
* Calls: five pages and argument buffers of two, so that allocation fails at every
  point of a call; two levels of calls, two temporaries, six actions, one interrupt.
  Ctrl-C and RUN are not counted; six actions are enough to leave a call by Ctrl-C, run
  again, allocate the same page and meet an error.
* Serial: rings of three hold two bytes; four bytes sent and four arriving fill and
  wrap them.
* Control flow: every nesting of two of fourteen kinds of block with jumps at three
  places, and the nestings of loops also with variables whose names begin and end with
  the outer one's. `MAXFORLOOPS` and `MAXDOLOOPS` are 2, so that loops left by a jump would
  overflow the stacks if they piled up; `MAXGOSUB` is 7. `Fuel` cuts off programs that do not
  end, which are not compared; `VmFuel` is enough for every program the interpreter
  ends (`SameOutput` would fail otherwise). The machine's
  FOR stack is so large in `MCFlow` that finding 4 does not hide the rest.

`CHECK_DEADLOCK FALSE` is used where the bounds let everything come to rest: all
transfers over, all clients gone, all commands issued, the program ended. The
lifecycle run checks deadlock.

### Fairness

* `TftpServer`: weak fairness of `Poll` and of each client's `ClientReceives`. The
  interpreter calls `ProcessWeb` from its main loop; a client is a program that
  reads its socket. Stated for a network that loses nothing and with no retries,
  because the server itself never retransmits.
* `NetLifecycle`: weak fairness of the telnet poll, for the same reason. The
  property excepts the case that another listener holds the port.
* `TcpServer`: weak fairness of the HTTP poll, and the program answers or closes
  each request it is given. The second is an assumption about the BASIC program,
  not about the firmware.
* `DisplayMerge`: weak fairness of each core, which executes as long as it can, and
  strong fairness of core 0 taking the mutex (`DrawBegins`), which core 1 releases
  after every pass. Ctrl-C need not come. The exception of `CommandsReturn` is
  `FRAMEBUFFER SYNC` without a continuous merge, which waits for one.
* `SerialPort`: weak fairness of the program going on in a call (`Resume`), of the
  handler when its interrupt is due, and of the UART sending its byte.

## 4. Findings

1. `MCTftpRun`. `docs/real-hal/contracts.md` lists TFTP transfer sessions among
   what RUN closes. The Pico hooks close none; `CloseAllFiles` then closes the file
   under the session, whose number the program may use next.
2. `MCDisplayAbort`. `hal_display_merge.h` promises that an abort waits for a merge in
   flight. `hal_display_merge_abort` returns at once when `mergerunning` is false,
   which it is until core 1 has popped the command, and always for a merge that
   runs once; the buffers are then freed under core 1.
3. `MCCallsSkip`. The comment in `DefinedSubFun` says that errors restore
   `gosubindex` and the argument buffer. `DefinedSubFunMem` remembers one call only,
   so an error skipped in a function called in an argument leaves the outer call.
4. `MCFlowExit`. `EXIT FOR` compiles to a jump and leaves the entry of the machine's
   FOR stack, so the 33rd one outside a SUB ends the program, which the
   interpreter, named as the oracle in `docs/vm-cutover-plan.md`, runs to its end.

Seven more the models show, without a run of their own: in a download with a
negotiated block size a repeated ACK 0 makes the second chunk go out as block 1, and
a late ACK 1 the first as block 2 (excepted in `DownloadIsPrefix`);
after a FIN the slot is given to the next client while the request still
holds its handle, so a late answer goes to the wrong client (excepted in
`PatientAnswers`); and `mm_net_lifecycle_on_network_ready` returns at the first listener that
does not open, so the ones after it stay closed (excepted in `ConfiguredIsOpen`);
after a FIN and a new accept in the same slot, the first client's late reset takes the
slot from the second, whose request is never seen (excepted in `RequestsAreServed`);
a copy that core 0 makes while core 1 draws shares the panel without the mutex
(excepted in `OneDrawer`), and on a slow panel an abort resets a healthy device
(excepted in `NoNeedlessReset`); after Ctrl-C in the arguments of a call,
`DefinedSubFunMem` survives RUN and the first error of the next program decrements
`gosubindex` and frees that address, whoever has it by then (excepted in `HeldIsLive`,
`MemIsCurrent`, `PagesAreFound`, `CallDepth` and `CallsFindAllocator`, which TLC finds
violated without the exception).

## 5. Proofs

TLAPS checks every theorem from nothing, for all values of the constants that
satisfy the named assumptions (`ServerAssumption`, `LifecycleAssumption`,
`TcpAssumption`, `MergeAssumption`, `SerialAssumption`, `HeapAssumption`,
`CallsAssumption`, `ProgramsAssumption`, `NamesAssumption`, `LimitsAssumption`): sizes
are positive where the code's are, programs are what the parser accepts, a name occurs
at the end of itself; peers, files, ports, clients,
slot counts, ring sizes, FIFO depth, page counts, programs and bounds are otherwise
arbitrary. Of the 33 invariants that the runs check, 30 are theorems.

`TftpServer_proofs`:

* `TypeCorrect` (`Spec => []TypeOK`) and `NoFileNumberLeaks`
  (`Spec => []NoStrandedFile`).
* The inductive invariant is `TypeOK`, `Sound(dev)`, every datagram for the server
  being one its client can have sent, and a writing client in transfer being at
  block 1 or later. `Sound` strengthens `NoStrandedFile` to a fact about any device
  record, so that each handler step (`tftp_close`, `OpenFile`, `send_data_block`,
  a write) has a lemma "sound in, sound out", throws included, and the actions
  only compose the lemmas. The conditions on datagrams and clients are needed
  for types: block numbers and sizes are computed from what clients send.
* `UploadsAreWhole` (`FilesFit => (Spec => []UploadIsWhole)`) and
  `DownloadsArePrefixes` (the same for `DownloadIsPrefix`): the bytes of a transfer, for
  any number of peers that contend for the session, any number of repeated, lost,
  reordered datagrams, retries, failing calls and resets. The hypothesis `FilesFit`
  says that no file needs a block number that wraps (files below 65535 blocks, 32 MB
  at 512 bytes a block; the instance of `MCTftpNetwork` satisfies it). It cannot be
  dropped: a datagram delayed past a wrap is taken for the new block of that number.
* `TransferInv` puts every byte in its place. `DevRight`: the file of an upload holds
  exactly the blocks before the one expected (`WriterRight`); a download has read up to
  the end of its current block, or nothing yet (`ReaderRight`). `NetRight`: each DATA on
  the way, either direction, is the block its number says; an ACK of an upload's last
  block means the file is whole; of a client that waits for an OACK nothing else is on
  the way, so a restarted transfer cannot meet blocks of another size. `ClientRight`:
  what a client has is that prefix. The parts need each other: the client's next block
  is right because the datagram was, which is right because the file's offset was.
  Lemmas on pieces of a file (`BytesProperties`, `BytesAppend`, `BlockProperties`) give
  what "block k in size z" means for a full, a short and an empty last block.
* `PlainInv` shows that the exception of `DownloadIsPrefix` is confined to the option: a
  client that asks for no block size sends no ACK 0, is never sent an OACK, and its
  session has sent block 1 by the time any ACK arrives, so nothing of it goes out
  under a wrong number.

`NetLifecycle_proofs`:

* `NoSlotLeaks` (`SlotsOwned`), `OffMeansClosed` (`DisabledIsClosed`), `OnMeansOpen`
  (`ConfiguredIsOpen`), `LifecycleTypeCorrect` (`TypeOK`).
* `SlotsOwned` alone is not inductive: whether an open is skipped as already done
  depends on the service's own idea of its port. `Good(nets)` adds that this idea
  agrees with the bound slot. Lemmas show that `Stop`, `Bind`, `OpenService` and the
  whole sequence of `on_network_ready` keep `Good`; `Off` and `On` carry the two
  theorems about options.

`TcpServer_proofs`:

* `NoConnectionLost` (`NoOrphan`), `AnswersGoHome` (`PatientAnswers`),
  `RequestsStaySeparate` (`RequestsAreSeparate`), `ConsoleStaysTelnet`
  (`ConsoleIsTelnet`), `TcpTypeCorrect` (`TypeOK`).
* The inductive invariant `TcpInv` has two parts. Always: a pending slot and a held
  request have data, and `NoOrphan`. Its hard step is the poll, which gives several
  connections to several requests at once: `PairsOneToOne` shows from the ranks that
  no request gets two and no connection goes twice. Until the first hang-up also
  `Quiet`: pcb and slot point at each other (`Linked`), free slots are wiped and the
  others hold only what their own client sent (`Clean`), no two requests hold the
  same handle (`Held`), a client is answered for one request (`Once`). After a
  hang-up `Linked` is false, as the code leaves the handle in the request, and the
  three properties about mixing say nothing, as they are stated.

`SerialPort_proofs`:

* `LineKeepsOrder` (`WireInOrder`), `ReaderKeepsOrder` (`ReadInOrder`),
  `SerialTypeCorrect` (`TypeOK`), for rings of any size above one.
* `SerialInv` says of the transmit side that what is on the line followed by what
  is in the ring is one increasing sequence of bytes, and with nothing cleared all of
  them up to the last one stored; of the receive side the same for what was read
  followed by what is in the ring. The properties say only what has left the rings;
  the invariant has to count the byte that is stored and not yet announced
  (`Stored`), the byte that is read while its cell is still counted (`Held`), and the
  ring as it will be when the tail read earlier is written back (`Left`). Lemmas on
  ring positions (`SuccIs`, `Distances`, `Cells`) replace `%` by comparisons.

`DisplayMerge_proofs`:

* `NoReadAfterFree` (`LiveBuffers`), `CommandsStayFramed` (`Framed`),
  `PanelHasOneDrawer` (`OneDrawer`), `AbortSeldomResets` (`NoNeedlessReset`),
  `MergeTypeCorrect` (`TypeOK`), for a FIFO of any depth. `AbortSeldomResets` says
  nothing of slow panels, `PanelHasOneDrawer` nothing of copies begun while core 1 has
  drawing left.
* `MergeInv` has three layers, since the properties fall away one by one with
  misuse. `Shape`, always: where each core can be with which command, and who has
  the mutex. `FrameInv`, until a command is stray: the words core 1 has yet to pop
  (`Stream`: the FIFO and what core 0 still holds of a command it has begun to push)
  are the rest of one command and then whole commands, nothing comes behind a
  continuous merge, and while core 0 waits its stop is the only word. `Framed` alone
  is not inductive: that a word is a command depends on how many were popped before
  it. `BufferInv`, without an early abort or a stray command (`Orderly`): after an abort
  no reader is outstanding, and the source of every copy on its way to core 1 is
  allocated.
* Frames are handled by three lemmas on sequences: popping (`FramePop`), appending a
  whole command (`FrameJoin`), and pushing a word, which moves it from core 0's
  hands to the FIFO and leaves `Stream` as it is (`PushStream`).

`Heap_proofs`:

* `HeapLosesNoPage` (`HeapSpec => []NoPageLost`) and `HeapRefines` (`HeapSpec =>
  HeapImplementsAllocator`: the page map implements the abstract allocator).
* The inductive invariant `HeapInv` says that every live address starts a whole
  block (used pages up to one marked last), that the blocks of two live addresses
  are apart, and that every used page is in such a block. The map alone would
  not do: what `FreeMemory` frees is wherever its walk ends, and only wholeness
  makes that the end of the caller's block. The refinement needs in addition that
  taking or freeing one block leaves the walked length of every other unchanged.

`Calls_proofs`, over the lemmas of `Heap_proofs`:

* `HeldStaysLive` (`HeldIsLive`), `TemporariesLast` (`TempsLast`), `TemporariesEnd`
  (`TempsEnd`), `BufferIsCurrent` (`MemIsCurrent`), `DepthAgrees` (`CallDepth`),
  `ErrorModeReturns` (`ErrorModeKept`), `CallsLoseNoPage` (`PagesAreFound`),
  `CallsTypeCorrect` (`TypeOK`): for heaps, argument buffers, `gosubstack` and tables
  of temporaries of any size, programs of any length, calls nested to any depth and
  any number of interrupts. The constants `MaxActs` and `MaxInterrupts` bound the run
  only: no step of the proof uses them.
* `CallsInv` is `ProgramInv` or `LostInv`. The second is what is left after an error
  freed a stale `DefinedSubFunMem`: the program is not followed, and RUN makes
  `ProgramInv` true again, since it clears everything but `mem` and `InitHeap` clears
  the heap. `ProgramInv` keeps together what the properties say apart, since none of
  them is inductive. `HeapInv`: memory is freed by an address only, so what a holder gives
  back must start a whole block. `HoldInv`: holders have their memory and no two have
  the same, or one would free the other's. `StackInv`: how frames follow each other,
  with `saved` growing, and with arguments and temporaries apart. `TableInv`: the table
  of temporaries is in order of levels, which is why `ClearTempMemory` may stop at the
  first entry that is too old. `LevelInv` and `InterInv`: `g_LocalIndex` as a function of
  the frame on top, of functions that have ended, and of the interrupt. `TempInv`: what
  a frame uses is as old as the frame, and what is due at the next scan has set
  `g_TempMemoryIsChanged`; `TempsEnd` rests on the second half. `ErrorMode` counts
  IRETURN itself as one of the skipped commands. `Depth` is `Balanced` after every
  step, not only between commands, with the calls that still evaluate arguments
  counted apart (`Waiting`).
* `CallsUseHeap`: every step of the interpreter is a step of `HeapNext`, so no address
  is freed that is not allocated and none twice, or it is `StaleFree`, the error that
  meets `left`. With the refinement of `Heap_proofs` it gives `CallsRefineAllocator`
  (`CallsFindAllocator`): the blocks of a program that no stale free has hit behave as
  the abstract allocator; the run `MCCalls` checks this for five pages, the theorem
  for any number.
* Each action has a lemma. Actions that leave the stack's shape alone share
  `ShapeStep`, those that end a command `DoneStep`, those of a call on top
  `CallStep`, and both ways into `error()` share `ErrorStep`. `InnermostIs` says where
  the `longjmp` of an error lands, `KeptIs` what a scan of the table keeps.

`FlowCompare_proofs`:

* `LoopsStayLive` (`LoopsLive`): for every program that `WellFormed` allows (blocks may
  be open, crossed or jumped into), stacks of any size and runs of any length.
* `FlowInv` adds that a loop's variable is a global or one of the loop's own level:
  `ClearVars` drops the locals of a level together with its loops, and only this
  makes the remaining loops keep theirs. It also gives the stacks their types and
  keeps the globals, which LOCAL may hide but not remove. `Part` says that one stack is another with entries left out; every command that
  removes loops (NEXT, LOOP, EXIT, RETURN, END SUB, and FOR and DO before they push)
  gives a `Part` of the stack, `Part` keeps the invariant, and pushing adds a loop
  whose twin the search removed just before.

Only model-checked:

* `StructuredRuns`, `RejectsMisplaced`, `SameOutput`. They compare the meaning of a
  whole program with what a one-pass compiler made of it. The compiler folds over the
  variables of a NEXT and the labels of an ON, and what it emits for a block depends
  on all lines of the block: both need induction over data, which the prover cannot
  do. They are also stated for programs whose blocks nest, which `MCPrograms`
  provides and `WellFormed` does not ask for.
* All liveness (`TransferCompletes`, `TelnetComesBack`, `RequestsAreServed`,
  `CommandsReturn`, `EverythingSent`): fairness and ENABLED are out of the prover's
  reach.

## 6. Limits

* Loss is non-delivery; the one-datagram UDP slot of the HAL is covered by it.
* A BASIC error inside a TFTP handler leaves it by `longjmp`
  (`OptionFileErrorAbort` is true there); a program's `ON ERROR SKIP` is not modelled.
* Commands that wait (`tcp_write_all`, name resolution, connecting) poll lwIP inside
  themselves; in `TcpServer` they are single steps.
* In `TcpServer` both listeners are open throughout and `realloc` does not fail.
* A `hal_net_init` that fails at boot, followed by `WEB CONNECT`, is left out.
* `DisplayMerge`: pixels are left out, and so are the ordinary drawing commands of a
  program that draws on the panel and not in a buffer; the audio lock of `GetTouchAxis` is modelled
  with the constant `Playing`, false in the run, because the wait it stands for
  never ends when it is true.
* `Calls`: variables are their memory; PSRAM, `ReAllocMemory` and `GetAlignedMemory`
  are left out; the program is well formed (it returns from what it called); which
  of several pending interrupts comes first is not modelled. At the prompt only RUN
  is: commands typed there, CONTINUE and the `MM.END` routine are left out.
* `SerialPort`: the break condition is a choice of the handler; baud rates, parity
  and the GPS parser are left out.
* Control flow: expressions, FUNCTIONs, parameters, single-line IF with ELSE, several
  statements on a line, the fused compare-and-jump instructions, fast loops, the
  width of jump offsets and `BC_MAX_NEST` are left out.

### Known exposures without a property

Read in the code while modelling, outside what the modules say:

* Network: the TFTP server never retransmits; connections that never send keep their slots;
  `tcp_write_all` goes on with its pcb after the error callback ran; after a failed
  `realloc` the pbuf is freed and kept; a second datagram overwrites the first in
  the UDP slot; the request buffers come from a heap that `InitHeap` clears;
  a late DNS answer writes to the frame of a returned `resolve_host`.
* Storage and console: power loss between erase and program of the options; several
  writers of one console ring; Ctrl-C between the two accesses of the console's tail.
* Display: the source of the VM's deferred `COPY B` can be closed before it is
  served; a `FASTGFX` swap posted into a merge is dropped.
* Memory: copies of string arguments are lost when an error is skipped; `ClearVars`
  does not free page 0; `ON ERROR IGNORE` is not restored after an interrupt as SKIP
  is; `ERASE` of a global passed by reference.
* Control flow: the 65th EXIT and the 33rd CONTINUE of a loop are not patched; jump
  offsets wrap at 16 bits; a NEXT inside an IF is taken for the loop's; the NEXT of
  a variable whose name ends with the loop's is taken for the loop's (modelled,
  `NamesClash`); a SUB with a name of one
  character skips the following statement; STEP 0.

### Not modelled

Each part with status `not_modelled` in `PROJECT.json` has its reason there. In short:
drawing, fonts, editor, keyboards, buses and display drivers are register traffic
and pixel arithmetic whose correctness is not about states and orders; vendored
libraries are not this repository's logic; expressions, strings and mathematics
are functions of values that TLC would only sample; the remaining network clients,
the option store, the console ring and audio are planned below. By line count most
of the repository is in the first group, and a model of it would repeat it.

## 7. Plan

Done, in this order: TFTP (most state, most faults), lifecycle, TCP, the display
core, heap and calls, serial ports, the control flow of both engines.

Next, modelling:

1. `TelnetRx`: the parser and the console ring; over all splits of the input into
   segments the console sees the same bytes as a reference decoder gives.
2. `OptionStore`: erase and program with power loss, composed with `NetLifecycle`.
3. TCP client streams, the UDP receive slot, and `tcp_write_all` with callbacks
   inside a send.
4. `AudioStream`, and interrupt priorities in `Calls`.
5. FUNCTIONs and parameters in `BasicFlow`.

Then proofs: well-formedness of the compiled code (every patched jump leads to an
instruction), once the prover can reason about folds.
