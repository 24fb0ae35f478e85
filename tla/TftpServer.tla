----------------------------- MODULE TftpServer -----------------------------
(***************************************************************************)
(* The TFTP server of the Pico WEB ports: the protocol core                *)
(* (shared/net/mm_net_tftp.c), its Pico adapter (shared/net/MMtftp.c) and  *)
(* the BASIC file table it shares with the running program                 *)
(* (core/mmbasic/FileIO.c), with clients that send, retransmit and give up *)
(* over a network that loses, duplicates and reorders datagrams.           *)
(*                                                                         *)
(* The served file is "src", every upload goes to "dst", and "basic" is a  *)
(* file of the BASIC program.  Bytes are integers and a block is a         *)
(* sequence of at most BlockSize of them.                                  *)
(***************************************************************************)
EXTENDS Integers, Sequences, FiniteSets

CONSTANTS
    Peers,          \* remote endpoints: one <<address, port>> per transfer
    NoPeer,         \* peer field of a cleared session
    Mode,           \* Mode[p]: what p asks for, "read", "write" or "bad"
    Asked,          \* Asked[p]: the blksize option p sends, 0 for none
    Upload,         \* Upload[p]: the bytes a writing peer p sends
    Served,         \* the bytes of "src"
    BlockSize,      \* TFTP_DEFAULT_BLOCK_SIZE = TFTP_MAX_BLOCK_SIZE (512)
    MinBlock,       \* smallest blksize accepted (8)
    BlockMod,       \* block numbers are uint16_t (65536)
    MaxOpenFiles,   \* MAXOPENFILES
    MaxDups,        \* bound: datagrams the network delivers twice
    MaxIoErrors,    \* bound: failing file system calls
    MaxRetries,     \* bound: retransmissions of one client
    MaxResets       \* bound: RUN / OPTION TFTP OFF events

ASSUME ServerAssumption ==
    /\ BlockSize \in Nat \ {0}
    /\ MinBlock \in 1 .. BlockSize
    /\ BlockMod \in Nat \ {0, 1}
    /\ MaxOpenFiles \in Nat \ {0}
    /\ NoPeer \notin Peers
    /\ Mode \in [Peers -> {"read", "write", "bad"}]
    /\ Asked \in [Peers -> Nat]
    /\ Upload \in [Peers -> Seq(Int)]
    /\ Served \in Seq(Int)
    /\ {MaxDups, MaxIoErrors, MaxRetries, MaxResets} \subseteq Nat

VARIABLES
    dev,       \* the device: see DevType
    socket,    \* pico_tftp_socket # 0
    net,       \* datagrams in flight, in both directions
    client,    \* the remote TFTP clients
    stored,    \* history: "dst" when the last block of p's upload was written
    cut,       \* history: peers whose file was closed under their session
    mistimed,  \* history: peers whose ACK was taken for another (see Mistimed)
    dups, ioerrors, resets   \* how much of each bound is used

vars == <<dev, socket, net, client, stored, cut, mistimed, dups, ioerrors, resets>>

-----------------------------------------------------------------------------
Fnbrs == 1 .. MaxOpenFiles
FileNames == {"src", "dst", "basic"}
NoFile == "none"

SessionType ==
    [active : BOOLEAN, write_mode : BOOLEAN, last_data : BOOLEAN,
     block : 0 .. BlockMod - 1, block_size : 0 .. BlockSize,
     peer : Peers \cup {NoPeer}]

\* What the handlers read and write on the device.
DevType ==
    [session : SessionType,                    \* pico_tftp_session
     fnbr    : Fnbrs,                          \* pico_tftp_fnbr, its handle
     files   : [Fnbrs -> FileNames \cup {NoFile}],  \* FileTable and hal_fds
     pos     : [Fnbrs -> Nat],                 \* read offset of each number
     content : [FileNames -> Seq(Int)],        \* the bytes of each file
     fserror : BOOLEAN]                        \* FSerror # 0

Idle == [active |-> FALSE, write_mode |-> FALSE, last_data |-> FALSE,
         block |-> 0, block_size |-> 0, peer |-> NoPeer]

Next16_NoWrap(b) == b + 1   \* mutant: no uint16_t wrap
Next16(b) == (b + 1) % BlockMod
Prev16(b) == (b + BlockMod - 1) % BlockMod

\* At most n bytes of s from offset o on.
Bytes(s, o, n) == SubSeq(s, o + 1, IF o + n < Len(s) THEN o + n ELSE Len(s))

ToServer(p, op, blk, data, opt) ==
    [to |-> "server", peer |-> p, op |-> op, blk |-> blk, data |-> data, opt |-> opt]
ToClient(p, op, blk, data, opt) ==
    [to |-> "client", peer |-> p, op |-> op, blk |-> blk, data |-> data, opt |-> opt]

send_ack(p, blk) == {ToClient(p, "ACK", blk, <<>>, 0)}
send_error(p) == {ToClient(p, "ERROR", 0, <<>>, 0)}
send_oack(p, size) == {ToClient(p, "OACK", 0, <<>>, size)}

-----------------------------------------------------------------------------
(***************************************************************************)
(* The steps of the handlers, as functions of the device d.  fails is the  *)
(* set of file system calls that fail while the handler runs: "mount" is   *)
(* InitSDCard, "short" a write of less than asked, "close" the first close *)
(* of the handler and "reclose" a second one.                              *)
(*                                                                         *)
(* mm_net_tftp_close.  FileClose frees the file number and then throws a   *)
(* BASIC error if FSerror is set, by hal_fs_close or, when nothing was     *)
(* open there, still by an older operation.  A throw leaves the handler    *)
(* before the session is cleared, so it threw iff the session stays active.*)
(***************************************************************************)
\* mutant: the session is cleared and its file forgotten
tftp_close_Leaks(d, io) == [d EXCEPT !.session = Idle]

tftp_close(d, io) ==
    IF ~d.session.active THEN [d EXCEPT !.session = Idle]
    ELSE IF d.files[d.fnbr] = NoFile
         THEN [d EXCEPT !.session = IF d.fserror THEN @ ELSE Idle]
         ELSE [d EXCEPT !.session = IF io THEN @ ELSE Idle,
                        !.files[d.fnbr] = NoFile,
                        !.fserror = io]

\* FindFreeFileNbr: the highest free number.
FreeFnbrs(d) == {n \in Fnbrs : d.files[n] = NoFile}
FindFreeFileNbr(d) == CHOOSE n \in FreeFnbrs(d) : \A k \in FreeFnbrs(d) : k <= n

\* parse_request_block_size: is the option taken, and the size it leads to.
accepted_option(opt) == opt >= MinBlock
\* mutant: a size above TFTP_MAX_BLOCK_SIZE is taken as it is
parse_request_block_size_Uncapped(opt) ==
    IF accepted_option(opt) THEN opt ELSE BlockSize
parse_request_block_size(opt) ==
    IF accepted_option(opt) /\ opt < BlockSize THEN opt ELSE BlockSize

\* pico_tftp_open_file succeeds and start_read / start_write fill the session.
OpenFile(d, m, write) ==
    LET n == FindFreeFileNbr(d)
    IN  [d EXCEPT !.fnbr = n,
                  !.files[n] = IF write THEN "dst" ELSE "src",
                  !.pos[n] = 0,
                  !.content["dst"] = IF write THEN <<>> ELSE @,
                  !.fserror = FALSE,
                  !.session = [active |-> TRUE, write_mode |-> write,
                               last_data |-> FALSE, block |-> 1 % BlockMod,
                               block_size |-> parse_request_block_size(m.opt),
                               peer |-> m.peer]]

\* send_data_block: the read fails also on a number nothing is open on.
ReadFails(d, fails) == "read" \in fails \/ d.files[d.fnbr] = NoFile
ReadBytes(d) ==
    Bytes(d.content[d.files[d.fnbr]], d.pos[d.fnbr], d.session.block_size)

LastBlock(d) == Len(ReadBytes(d)) < d.session.block_size

send_data_block(d, fails) ==
    IF ReadFails(d, fails) THEN tftp_close(d, "reclose" \in fails)
    ELSE [d EXCEPT !.session.last_data = LastBlock(d),
                   !.pos[d.fnbr] = @ + Len(ReadBytes(d))]

DataReply(d, fails) ==
    IF ReadFails(d, fails) THEN send_error(d.session.peer)
    ELSE {ToClient(d.session.peer, "DATA", d.session.block, ReadBytes(d), 0)}

-----------------------------------------------------------------------------
(***************************************************************************)
(* pico_tftp_poll takes datagram m from the network, the handler leaves    *)
(* the device as d and sends out.  The network may deliver m again later.  *)
(***************************************************************************)
Handled(m, d, out) ==
    /\ dev' = d
    /\ cut' = IF d.session.active /\ d.files[d.fnbr] = NoFile
              THEN cut \cup {d.session.peer} ELSE cut
    /\ \/ net' = (net \ {m}) \cup out /\ UNCHANGED dups
       \/ /\ dups < MaxDups
          /\ dups' = dups + 1
          /\ net' = net \cup out
    /\ UNCHANGED <<socket, client, resets>>

Failing(fails) ==
    /\ ioerrors + Cardinality(fails) <= MaxIoErrors
    /\ ioerrors' = ioerrors + Cardinality(fails)

Arrives(m, op) == socket /\ m \in net /\ m.to = "server" /\ m.op = op

\* From the session's own peer, in the mode the packet belongs to.
OfTransfer(m, write) ==
    /\ dev.session.active
    /\ dev.session.write_mode = write
    /\ dev.session.peer = m.peer

\* An RRQ or WRQ whose file name does not parse: the session is left alone.
BadRequest(m) ==
    /\ Arrives(m, "BAD")
    /\ Handled(m, dev, send_error(m.peer))
    /\ UNCHANGED <<stored, mistimed, ioerrors>>

(***************************************************************************)
(* start_read and start_write: any request, from any peer, first closes    *)
(* the running session.  If that close throws, or opening the file throws  *)
(* ("Too many files open", or BasicFileOpen's ErrorCheck), the handler is  *)
(* left and nothing is sent.                                               *)
(***************************************************************************)
Start(m, write) ==
    \E fails \in SUBSET {"mount", "open", "read", "close", "reclose"} :
        LET d == tftp_close(dev, "close" \in fails)
            o == OpenFile(d, m, write)
        IN  /\ Failing(fails)
            /\ UNCHANGED <<stored, mistimed>>
            /\ IF d.session.active THEN Handled(m, d, {})
               ELSE IF "mount" \in fails THEN Handled(m, d, send_error(m.peer))
               ELSE IF FreeFnbrs(d) = {} THEN Handled(m, d, {})
               ELSE IF "open" \in fails
                    THEN Handled(m, [d EXCEPT !.fnbr = FindFreeFileNbr(d),
                                              !.fserror = TRUE], {})
               ELSE IF accepted_option(m.opt)
                    THEN Handled(m, o, send_oack(m.peer, o.session.block_size))
               ELSE IF write THEN Handled(m, o, send_ack(m.peer, 0))
               ELSE Handled(m, send_data_block(o, fails), DataReply(o, fails))

StartRead(m) == Arrives(m, "RRQ") /\ Start(m, FALSE)
StartWrite(m) == Arrives(m, "WRQ") /\ Start(m, TRUE)

(***************************************************************************)
(* DATA: a block other than the expected one is answered with the ACK of   *)
(* the one before.  hal_fs_write may fail (pico_tftp_write_file's          *)
(* ErrorCheck closes the file and throws) or write only n bytes.           *)
(***************************************************************************)
OutOfOrder_OnlyAhead(m) == m.blk > dev.session.block   \* mutant: repeats accepted
OutOfOrder(m) == m.blk # dev.session.block

WriteThrows(m, fails) ==
    m.data # <<>> /\ ("write" \in fails \/ dev.files[dev.fnbr] = NoFile)

Written(m, n) ==
    IF m.data = <<>> THEN dev
    ELSE [dev EXCEPT !.content[dev.files[dev.fnbr]] = @ \o SubSeq(m.data, 1, n),
                     !.fserror = FALSE]

ShortWrite_OnlyErrors(m, n) == n < 0   \* mutant: a short write passes
ShortWrite(m, n) == n # Len(m.data)

Accepted(d) == [d EXCEPT !.session.block = Next16(@)]

HandleData(m) ==
    /\ Arrives(m, "DATA")
    /\ OfTransfer(m, TRUE)
    /\ IF OutOfOrder(m)
       THEN /\ Handled(m, dev, send_ack(m.peer, Prev16(dev.session.block)))
            /\ UNCHANGED <<stored, mistimed, ioerrors>>
       ELSE \E fails \in SUBSET {"write", "short", "close"}, n \in 0 .. Len(m.data) :
            /\ Failing(fails)
            /\ UNCHANGED mistimed
            /\ n < Len(m.data) <=> "short" \in fails
            /\ IF WriteThrows(m, fails)
               THEN /\ Handled(m, [dev EXCEPT !.files[dev.fnbr] = NoFile,
                                              !.fserror = TRUE], {})
                    /\ UNCHANGED stored
               ELSE IF ShortWrite(m, n)
               THEN /\ Handled(m, tftp_close(Written(m, n), "close" \in fails),
                               send_error(m.peer))
                    /\ UNCHANGED stored
               ELSE IF Len(m.data) < dev.session.block_size
               THEN /\ Handled(m, tftp_close(Accepted(Written(m, n)), "close" \in fails),
                               send_ack(m.peer, m.blk))
                    /\ stored' = [stored EXCEPT ![m.peer] =
                                    Written(m, n).content["dst"]]
               ELSE /\ Handled(m, Accepted(Written(m, n)), send_ack(m.peer, m.blk))
                    /\ UNCHANGED stored

(***************************************************************************)
(* ACK: ACK 0 while block 1 is current starts the data after an OACK; the  *)
(* ACK of the current block closes after the last one or moves on; any     *)
(* other is dropped.  Nothing is ever sent again on a timeout.             *)
(***************************************************************************)
\* mutant: any repeated ACK treated like the ACK 0 of an OACK
StartsData_OnRepeat(m) == m.blk = Prev16(dev.session.block)
StartsData(m) == m.blk = 0 /\ dev.session.block = 1

\* Has the session sent its block 1?  Only its file knows: no field says so.
DataSent == dev.pos[dev.fnbr] # 0 \/ dev.session.last_data

\* While block 1 is current an ACK is taken for the answer to something else:
\* a repeated ACK 0 when block 1 is out, so that the bytes after it go out as
\* another block 1, or a late ACK 1 of the request this one repeats when
\* nothing is out, so that the first bytes go out as block 2.
Mistimed(m) ==
    /\ dev.session.block = 1
    /\ (m.blk = 0 /\ DataSent) \/ (m.blk = 1 /\ ~DataSent)

HandleAck(m) ==
    /\ Arrives(m, "ACK")
    /\ OfTransfer(m, FALSE)
    /\ UNCHANGED stored
    /\ mistimed' = IF Mistimed(m) THEN mistimed \cup {m.peer} ELSE mistimed
    /\ LET next == [dev EXCEPT !.session.block = Next16(@)]
       IN  \E fails \in SUBSET {"read", "close", "reclose"} :
            /\ Failing(fails)
            /\ IF StartsData(m)
               THEN Handled(m, send_data_block(dev, fails), DataReply(dev, fails))
               ELSE IF m.blk # dev.session.block
               THEN Handled(m, dev, {})
               ELSE IF dev.session.last_data
               THEN Handled(m, tftp_close(dev, "close" \in fails), {})
               ELSE Handled(m, send_data_block(next, fails), DataReply(next, fails))

\* ERROR of the session's peer ends the transfer.
HandleError(m) ==
    /\ Arrives(m, "ERROR")
    /\ dev.session.active /\ dev.session.peer = m.peer
    /\ UNCHANGED <<stored, mistimed>>
    /\ \E fails \in SUBSET {"close"} :
         /\ Failing(fails)
         /\ Handled(m, tftp_close(dev, "close" \in fails), {})

\* DATA, ACK and ERROR that do not belong to the running transfer.
Ignored(m) ==
    /\ \/ Arrives(m, "DATA") /\ ~OfTransfer(m, TRUE)
       \/ Arrives(m, "ACK") /\ ~OfTransfer(m, FALSE)
       \/ Arrives(m, "ERROR") /\ ~(dev.session.active /\ dev.session.peer = m.peer)
    /\ Handled(m, dev, {})
    /\ UNCHANGED <<stored, mistimed, ioerrors>>

-----------------------------------------------------------------------------
(***************************************************************************)
(* The rest of the device.  RUN calls ClearRuntime: the Pico's             *)
(* port_web_clear_runtime_state leaves TFTP alone, then CloseAllFiles      *)
(* closes every file number, the one of the transfer included.             *)
(***************************************************************************)
ClearRuntime ==
    /\ resets < MaxResets
    /\ resets' = resets + 1
    /\ dev' = [dev EXCEPT !.files = [n \in Fnbrs |-> NoFile],
                          !.fserror = @ /\ FreeFnbrs(dev) = Fnbrs]
    /\ cut' = IF dev.session.active THEN cut \cup {dev.session.peer} ELSE cut
    /\ UNCHANGED <<socket, net, client, stored, mistimed, dups, ioerrors>>

\* The program opens its file on a free number of its choice.
BasicFileOpen(n) ==
    /\ dev.files[n] = NoFile
    /\ \A k \in Fnbrs : dev.files[k] # "basic"
    /\ dev' = [dev EXCEPT !.files[n] = "basic", !.pos[n] = 0,
                          !.content["basic"] = <<>>, !.fserror = FALSE]
    /\ UNCHANGED <<socket, net, client, stored, cut, mistimed, dups, ioerrors, resets>>

BasicFileClose(n) ==
    /\ dev.files[n] = "basic"
    /\ dev' = [dev EXCEPT !.files[n] = NoFile, !.fserror = FALSE]
    /\ cut' = IF dev.session.active /\ dev.fnbr = n
              THEN cut \cup {dev.session.peer} ELSE cut
    /\ UNCHANGED <<socket, net, client, stored, mistimed, dups, ioerrors, resets>>

\* OPTION TFTP OFF: pico_tftp_close; the socket stays if the close throws.
TftpOff ==
    /\ socket
    /\ resets < MaxResets
    /\ resets' = resets + 1
    /\ \E fails \in SUBSET {"close"} :
         LET d == tftp_close(dev, "close" \in fails)
         IN  /\ Failing(fails)
             /\ dev' = d
             /\ cut' = IF d.session.active THEN cut \cup {d.session.peer} ELSE cut
             /\ socket' = d.session.active
    /\ UNCHANGED <<net, client, stored, mistimed, dups>>

\* OPTION TFTP ON, or the network coming up: cmd_tftp_server_init.
TftpOn ==
    /\ ~socket
    /\ socket' = TRUE
    /\ UNCHANGED <<dev, net, client, stored, cut, mistimed, dups, ioerrors, resets>>

-----------------------------------------------------------------------------
(***************************************************************************)
(* The remote clients (external): stop and wait as in RFC 1350, with the   *)
(* blksize option.  blk is the last block received in order (read) or the  *)
(* block in flight (write), counted without wrapping.                      *)
(***************************************************************************)
ClientType ==
    [st : {"idle", "asked", "transfer", "done", "failed"},
     size : 1 .. BlockSize, blk : Nat, got : Seq(Int), tries : 0 .. MaxRetries]

Request(p) ==
    ToServer(p, CASE Mode[p] = "read" -> "RRQ"
                  [] Mode[p] = "write" -> "WRQ"
                  [] OTHER -> "BAD", 0, <<>>, Asked[p])

ClientAck(p, blk) == ToServer(p, "ACK", blk % BlockMod, <<>>, 0)

ClientData(p, blk, size) ==
    ToServer(p, "DATA", blk % BlockMod, Bytes(Upload[p], (blk - 1) * size, size), 0)

\* What p sent last, and sends again on a timeout.
LastPacket(p) ==
    IF client[p].st = "asked" THEN Request(p)
    ELSE IF Mode[p] = "read" THEN ClientAck(p, client[p].blk)
    ELSE ClientData(p, client[p].blk, client[p].size)

ClientSends(p, c, packets) ==
    /\ client' = [client EXCEPT ![p] = c]
    /\ net' = net \cup packets
    /\ UNCHANGED <<dev, socket, stored, cut, mistimed, dups, ioerrors, resets>>

ClientStart(p) ==
    /\ client[p].st = "idle"
    /\ ClientSends(p, [client[p] EXCEPT !.st = "asked"], {Request(p)})

ClientTimeout(p) ==
    /\ client[p].st \in {"asked", "transfer"}
    /\ client[p].tries < MaxRetries
    /\ ClientSends(p, [client[p] EXCEPT !.tries = @ + 1], {LastPacket(p)})

\* After its last retry the client gives up, telling the server or not.
ClientGivesUp(p) ==
    /\ client[p].st \in {"asked", "transfer"}
    /\ client[p].tries = MaxRetries /\ MaxRetries # 0
    /\ \E packets \in {{}, {ToServer(p, "ERROR", 0, <<>>, 0)}} :
         ClientSends(p, [client[p] EXCEPT !.st = "failed"], packets)

\* The state p moves to when m arrives, and what it sends.
ClientMove(p, m, c, packets) ==
    /\ m \in net /\ m.to = "client" /\ m.peer = p
    /\ client' = [client EXCEPT ![p] = c]
    /\ net' = (net \ {m}) \cup packets
    /\ UNCHANGED <<dev, socket, stored, cut, mistimed, dups, ioerrors, resets>>

ClientGetsOack(p, m) ==
    /\ m.op = "OACK" /\ client[p].st = "asked"
    /\ IF Mode[p] = "read"
       THEN ClientMove(p, m, [client[p] EXCEPT !.st = "transfer", !.size = m.opt],
                       {ClientAck(p, 0)})
       ELSE ClientMove(p, m, [client[p] EXCEPT !.st = "transfer", !.size = m.opt,
                                               !.blk = 1],
                       {ClientData(p, 1, m.opt)})

ClientGetsData(p, m) ==
    /\ m.op = "DATA" /\ Mode[p] = "read"
    /\ client[p].st \in {"asked", "transfer"}
    /\ m.blk = (client[p].blk + 1) % BlockMod
    /\ ClientMove(p, m,
         [client[p] EXCEPT !.blk = @ + 1, !.got = @ \o m.data,
            !.st = IF Len(m.data) < client[p].size THEN "done" ELSE "transfer"],
         {ClientAck(p, client[p].blk + 1)})

ClientGetsAck(p, m) ==
    /\ m.op = "ACK" /\ Mode[p] = "write"
    /\ client[p].st \in {"asked", "transfer"}
    /\ m.blk = client[p].blk % BlockMod
    /\ IF client[p].blk # 0
          /\ Len(Bytes(Upload[p], (client[p].blk - 1) * client[p].size, client[p].size))
               < client[p].size
       THEN ClientMove(p, m, [client[p] EXCEPT !.st = "done"], {})
       ELSE ClientMove(p, m, [client[p] EXCEPT !.st = "transfer", !.blk = @ + 1],
                       {ClientData(p, client[p].blk + 1, client[p].size)})

ClientGetsError(p, m) ==
    /\ m.op = "ERROR" /\ client[p].st \in {"asked", "transfer"}
    /\ ClientMove(p, m, [client[p] EXCEPT !.st = "failed"], {})

-----------------------------------------------------------------------------
Init ==
    /\ dev = [session |-> Idle, fnbr |-> 1,
              files |-> [n \in Fnbrs |-> NoFile],
              pos |-> [n \in Fnbrs |-> 0],
              content |-> [f \in FileNames |-> IF f = "src" THEN Served ELSE <<>>],
              fserror |-> FALSE]
    /\ socket = TRUE
    /\ net = {}
    /\ client = [p \in Peers |-> [st |-> "idle", size |-> BlockSize, blk |-> 0,
                                  got |-> <<>>, tries |-> 0]]
    /\ stored = [p \in Peers |-> <<>>]
    /\ cut = {}
    /\ mistimed = {}
    /\ dups = 0 /\ ioerrors = 0 /\ resets = 0

Poll ==
    \E m \in net :
        \/ BadRequest(m) \/ StartRead(m) \/ StartWrite(m)
        \/ HandleData(m) \/ HandleAck(m) \/ HandleError(m) \/ Ignored(m)

ClientReceives(p) ==
    \E m \in net : \/ ClientGetsOack(p, m) \/ ClientGetsData(p, m)
                   \/ ClientGetsAck(p, m) \/ ClientGetsError(p, m)

Client(p) ==
    \/ ClientStart(p) \/ ClientTimeout(p) \/ ClientGivesUp(p)
    \/ ClientReceives(p)

Next ==
    \/ Poll
    \/ \E p \in Peers : Client(p)
    \/ ClearRuntime \/ TftpOff \/ TftpOn
    \/ \E n \in Fnbrs : BasicFileOpen(n) \/ BasicFileClose(n)

Spec == Init /\ [][Next]_vars

-----------------------------------------------------------------------------
Datagram ==
    [to : {"server", "client"}, peer : Peers,
     op : {"RRQ", "WRQ", "BAD", "DATA", "ACK", "ERROR", "OACK"},
     blk : 0 .. BlockMod - 1, data : Seq(Int), opt : Nat]

\* Every variable has its type.
TypeOK ==
    /\ dev \in DevType
    /\ socket \in BOOLEAN
    /\ net \subseteq Datagram
    /\ client \in [Peers -> ClientType]
    /\ stored \in [Peers -> Seq(Int)]
    /\ cut \subseteq Peers
    /\ mistimed \subseteq Peers
    /\ dups \in 0 .. MaxDups /\ ioerrors \in 0 .. MaxIoErrors
    /\ resets \in 0 .. MaxResets

\* No file number leaks: a number is open on a TFTP file only while a session
\* of the right direction is active and it is that session's number, so a
\* takeover, a failed transfer or OPTION TFTP OFF never strands one of the
\* program's file numbers (mm_net_tftp_close before every open).
NoStrandedFile ==
    \A n \in Fnbrs :
        dev.files[n] \in {"src", "dst"} =>
            /\ dev.session.active
            /\ n = dev.fnbr
            /\ dev.session.write_mode = (dev.files[n] = "dst")

\* When a writing client has seen its last block acknowledged, the file held
\* exactly its bytes, each once and in order, at the moment that block was
\* written, whatever was lost, repeated or reordered and whoever else took the
\* session in between (unless the file was closed under the session).
UploadIsWhole ==
    \A p \in Peers \ cut :
        Mode[p] = "write" /\ client[p].st = "done" => stored[p] = Upload[p]

\* What a reading client has received is a prefix of the served file, and all
\* of it once the client saw a short block, whatever is lost, repeated or
\* reordered and whoever takes the session in between (unless the file was
\* closed under the session, or the client asked for a block size and one of
\* its ACKs was mistimed).
DownloadIsPrefix ==
    \A p \in Peers \ cut :
        Mode[p] = "read" /\ (p \in mistimed => ~accepted_option(Asked[p])) =>
            /\ client[p].got = Bytes(Served, 0, Len(client[p].got))
            /\ client[p].st = "done" => client[p].got = Served

\* The file number an active session reads or writes is open on the file that
\* the session opened.
SessionOwnsItsFile ==
    dev.session.active =>
        dev.files[dev.fnbr] = IF dev.session.write_mode THEN "dst" ELSE "src"

(***************************************************************************)
(* The poll loop runs from ProcessWeb at every statement, and the clients  *)
(* are ordinary programs that read their sockets; none of them has to ask. *)
(***************************************************************************)
Fairness == WF_vars(Poll) /\ \A p \in Peers : WF_vars(ClientReceives(p))
FairSpec == Spec /\ Fairness

\* On a network that loses nothing, a client whose request is under way gets its
\* file across unless another client's transfer overlaps with its own: the block
\* count runs past the 16-bit wrap, a file of whole blocks ends in an empty one,
\* and late packets of an earlier transfer do no harm (mm_net_tftp_handle_packet).
TransferCompletes ==
    \A p \in Peers :
        client[p].st = "asked" /\ Request(p) \in net /\ Mode[p] # "bad"
            ~> \/ client[p].st = "done"
               \/ \E q \in Peers \ {p} : /\ Mode[q] # "bad"
                                          /\ client[q].st \in {"asked", "transfer"}
=============================================================================
