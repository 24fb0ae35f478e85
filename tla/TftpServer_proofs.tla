------------------------- MODULE TftpServer_proofs -------------------------
(***************************************************************************)
(* Type correctness, file ownership and the integrity of uploads and       *)
(* downloads of the TFTP server, for any number of peers, any files, any   *)
(* block size and any file table.                                          *)
(***************************************************************************)
EXTENDS TftpServer, TLAPS, FiniteSetTheorems, SequenceTheorems,
        WellFoundedInduction

\* The device part of NoStrandedFile, for any device d.
Owned(d) ==
    \A n \in Fnbrs :
        d.files[n] \in {"src", "dst"} =>
            /\ d.session.active
            /\ n = d.fnbr
            /\ d.session.write_mode = (d.files[n] = "dst")

\* A device any handler may start from: typed, owning its files, and with the
\* peer of an active session among the peers that sent a request.
Sound(d) ==
    /\ d \in DevType
    /\ Owned(d)
    /\ d.session.active => d.session.peer \in Peers

\* Datagrams the server may send: an OACK carries a usable block size.
Outgoing ==
    {m \in Datagram : m.op = "OACK" => m.opt \in 1 .. BlockSize}

-----------------------------------------------------------------------------
(***************************************************************************)
(* Facts about the operators.                                              *)
(***************************************************************************)

\* A non-empty set of file numbers has a largest element, so the loop of
\* FindFreeFileNbr stops at a free number.
LEMMA FreeNumberExists ==
    ASSUME NEW d \in DevType, FreeFnbrs(d) # {}
    PROVE  FindFreeFileNbr(d) \in FreeFnbrs(d)
<1> DEFINE R == OpToRel(<, Nat)
           T == {MaxOpenFiles - n : n \in FreeFnbrs(d)}
<1>1. FreeFnbrs(d) \subseteq 1 .. MaxOpenFiles /\ MaxOpenFiles \in Nat
  BY ServerAssumption DEF FreeFnbrs, Fnbrs
<1>2. T \subseteq Nat
  BY <1>1
<1>3. T # {}
  OBVIOUS
<1>4. IsWellFoundedOn(R, Nat)
  BY NatLessThanWellFounded
<1>5. \E t \in T : \A y \in T : ~ (<<y, t>> \in R)
  <2> HIDE DEF R, T
  <2> QED BY <1>2, <1>3, <1>4, WFMin
<1>6. PICK n \in FreeFnbrs(d) :
         \A k \in FreeFnbrs(d) : ~ (<<MaxOpenFiles - k, MaxOpenFiles - n>> \in R)
  BY <1>5
<1>7. ASSUME NEW k \in FreeFnbrs(d)
      PROVE  k <= n
  <2>1. MaxOpenFiles - k \in Nat /\ MaxOpenFiles - n \in Nat
    BY <1>1
  <2>2. <<MaxOpenFiles - k, MaxOpenFiles - n>> \in Nat \X Nat
    BY <2>1
  <2>3. ~ (MaxOpenFiles - k < MaxOpenFiles - n)
    BY <1>6, <2>1, <2>2 DEF OpToRel
  <2> QED BY <1>1, <2>1, <2>3
<1> QED BY <1>7 DEF FindFreeFileNbr

\* A block cut out of a file is a sequence of its bytes.
LEMMA BytesType ==
    ASSUME NEW s \in Seq(Int), NEW o \in Nat, NEW n \in Nat
    PROVE  /\ Bytes(s, o, n) \in Seq(Int)
           /\ Len(Bytes(s, o, n)) \in Nat
<1> DEFINE e == IF o + n < Len(s) THEN o + n ELSE Len(s)
<1>1. Len(s) \in Nat /\ s \in [1 .. Len(s) -> Int]
  BY LenProperties
<1>2. e \in Int /\ e <= Len(s) /\ o + 1 \in Int /\ o + 1 >= 1
  BY <1>1
<1>3. \A i \in o + 1 .. e : s[i] \in Int
  <2> HIDE DEF e
  <2> QED BY <1>1, <1>2
<1>4. SubSeq(s, o + 1, e) \in Seq(Int)
  <2> HIDE DEF e
  <2> QED BY <1>2, <1>3, SubSeqProperties
<1>5. Bytes(s, o, n) \in Seq(Int)
  BY <1>4 DEF Bytes
<1> QED BY <1>5, LenProperties

LEMMA BlockArithmetic ==
    ASSUME NEW b \in Nat
    PROVE  /\ b % BlockMod \in 0 .. BlockMod - 1
           /\ Next16(b) \in 0 .. BlockMod - 1
           /\ Prev16(b) \in 0 .. BlockMod - 1
<1>1. BlockMod \in Nat \ {0}
  BY ServerAssumption
<1>2. \A a \in Nat : a % BlockMod \in 0 .. BlockMod - 1
  BY <1>1
<1>3. b + 1 \in Nat /\ b + BlockMod - 1 \in Nat
  BY <1>1
<1> QED BY <1>2, <1>3 DEF Next16, Prev16

LEMMA BlockSizeType ==
    ASSUME NEW opt \in Nat
    PROVE  parse_request_block_size(opt) \in 1 .. BlockSize
BY ServerAssumption DEF parse_request_block_size, accepted_option

\* What mm_net_tftp_close guarantees: the session it leaves inactive owns no
\* file number, and one it leaves active (the close threw) still owns its own.
LEMMA CloseKeepsOwnership ==
    ASSUME NEW d, NEW io \in BOOLEAN, Sound(d)
    PROVE  Sound(tftp_close(d, io))
<1> USE DEF Sound
<1>1. Idle \in SessionType
  BY ServerAssumption DEF Idle, SessionType
<1>2. tftp_close(d, io) \in DevType
  BY <1>1 DEF tftp_close, DevType, NoFile
<1>3. Owned(tftp_close(d, io))
  BY <1>1 DEF tftp_close, DevType, SessionType, Owned, NoFile, Idle
<1>4. tftp_close(d, io).session \in {d.session, Idle}
  BY DEF tftp_close, DevType
<1> QED BY <1>2, <1>3, <1>4 DEF Idle

LEMMA OpenTakesOwnership ==
    ASSUME NEW d, NEW m \in Datagram, NEW write \in BOOLEAN,
           Sound(d), ~d.session.active, FreeFnbrs(d) # {}
    PROVE  /\ Sound(OpenFile(d, m, write))
           /\ OpenFile(d, m, write).session.active
           /\ OpenFile(d, m, write).session.block_size \in 1 .. BlockSize
<1> USE DEF Sound
<1> DEFINE n == FindFreeFileNbr(d)
           s == [active |-> TRUE, write_mode |-> write,
                 last_data |-> FALSE, block |-> 1 % BlockMod,
                 block_size |-> parse_request_block_size(m.opt),
                 peer |-> m.peer]
           name == IF write THEN "dst" ELSE "src"
           dst == IF write THEN <<>> ELSE d.content["dst"]
<1>1. n \in Fnbrs
  BY FreeNumberExists DEF FreeFnbrs
<1>2. parse_request_block_size(m.opt) \in 1 .. BlockSize
  BY BlockSizeType DEF Datagram
<1>3. 1 % BlockMod \in 0 .. BlockMod - 1
  BY BlockArithmetic
<1>4. s \in SessionType
  BY <1>2, <1>3, ServerAssumption DEF SessionType, Datagram
<1>5. OpenFile(d, m, write) =
        [d EXCEPT !.fnbr = n, !.files[n] = name, !.pos[n] = 0,
                  !.content["dst"] = dst, !.fserror = FALSE, !.session = s]
  BY DEF OpenFile
<1>6. s.active /\ s.write_mode = write /\ s.peer = m.peer
        /\ s.block_size \in 1 .. BlockSize
  BY <1>2
<1>a. name \in FileNames /\ "dst" \in FileNames /\ dst \in Seq(Int)
  BY DEF DevType, FileNames
<1>b. name = "dst" <=> write
  OBVIOUS
<1> HIDE DEF n, s, name, dst
<1>7. OpenFile(d, m, write) \in DevType
  <2>1. [d.files EXCEPT ![n] = name] \in [Fnbrs -> FileNames \cup {NoFile}]
    BY <1>1, <1>a DEF DevType
  <2>2. [d.pos EXCEPT ![n] = 0] \in [Fnbrs -> Nat]
    BY <1>1 DEF DevType
  <2>3. [d.content EXCEPT !["dst"] = dst] \in [FileNames -> Seq(Int)]
    BY <1>a DEF DevType
  <2> QED BY <1>1, <1>4, <1>5, <2>1, <2>2, <2>3 DEF DevType
<1>8. /\ OpenFile(d, m, write).session = s
      /\ OpenFile(d, m, write).fnbr = n
      /\ OpenFile(d, m, write).files =
           [d.files EXCEPT ![n] = name]
  BY <1>5 DEF DevType
<1>9. Owned(OpenFile(d, m, write))
  <2>1. \A k \in Fnbrs : d.files[k] \notin {"src", "dst"}
    BY DEF Owned
  <2> QED BY <1>1, <1>6, <1>8, <1>b, <2>1 DEF Owned, DevType
<1>10. m.peer \in Peers
  BY DEF Datagram
<1> QED BY <1>6, <1>7, <1>8, <1>9, <1>10

\* send_data_block moves the read offset and nothing else of the file table,
\* or closes the session, and sends one well-formed datagram.
LEMMA SendKeepsOwnership ==
    ASSUME NEW d, NEW fails, Sound(d), d.session.active
    PROVE  /\ Sound(send_data_block(d, fails))
           /\ DataReply(d, fails) \subseteq Outgoing
<1> USE DEF Sound
<1>1. CASE ReadFails(d, fails)
  <2>1. send_data_block(d, fails) = tftp_close(d, "reclose" \in fails)
    BY <1>1 DEF send_data_block
  <2>2. DataReply(d, fails) = send_error(d.session.peer)
    BY <1>1 DEF DataReply
  <2>3. <<>> \in Seq(Int) /\ 0 \in 0 .. BlockMod - 1
    BY ServerAssumption
  <2>4. send_error(d.session.peer) \subseteq Outgoing
    BY <2>3 DEF send_error, ToClient, Outgoing, Datagram
  <2>5. ("reclose" \in fails) \in BOOLEAN
    OBVIOUS
  <2> QED BY <2>1, <2>2, <2>4, <2>5, CloseKeepsOwnership
<1>2. CASE ~ReadFails(d, fails)
  <2> DEFINE bytes == ReadBytes(d)
             last == LastBlock(d)
             e == [d EXCEPT !.session.last_data = last,
                            !.pos[d.fnbr] = @ + Len(bytes)]
  <2>1. d.files[d.fnbr] \in FileNames
    BY <1>2 DEF ReadFails, DevType
  <2>2. d.content[d.files[d.fnbr]] \in Seq(Int) /\ d.pos[d.fnbr] \in Nat
         /\ d.session.block_size \in Nat
    BY <2>1, ServerAssumption DEF DevType, SessionType
  <2>3. bytes \in Seq(Int) /\ Len(bytes) \in Nat
    BY <2>2, BytesType DEF ReadBytes
  <2>4. send_data_block(d, fails) = e
    BY <1>2 DEF send_data_block
  <2>5. DataReply(d, fails) =
          {ToClient(d.session.peer, "DATA", d.session.block, bytes, 0)}
    BY <1>2 DEF DataReply
  <2> HIDE DEF bytes
  <2>c. last \in BOOLEAN
    BY DEF LastBlock
  <2> HIDE DEF last
  <2>6. e \in DevType
    <3>1. [d.session EXCEPT !.last_data = last] \in SessionType
      BY <2>c DEF DevType, SessionType
    <3>2. [d.pos EXCEPT ![d.fnbr] = @ + Len(bytes)] \in [Fnbrs -> Nat]
      BY <2>2, <2>3 DEF DevType
    <3> QED BY <3>1, <3>2 DEF DevType
  <2>7. Owned(e)
    BY DEF Owned, DevType, SessionType
  <2>8. ToClient(d.session.peer, "DATA", d.session.block, bytes, 0) \in Outgoing
    BY <2>3 DEF ToClient, Outgoing, Datagram, DevType, SessionType
  <2>9. e.session.peer = d.session.peer
    BY DEF DevType, SessionType
  <2> QED BY <2>4, <2>5, <2>6, <2>7, <2>8, <2>9
<1> QED BY <1>1, <1>2

-----------------------------------------------------------------------------
(***************************************************************************)
(* The inductive invariant.  NoStrandedFile alone is not inductive: a      *)
(* handler opens a number after mm_net_tftp_close, so it must be known     *)
(* that the close left no number behind (Owned), and a client takes its    *)
(* block size from an OACK, so the sizes in flight must be usable.         *)
(***************************************************************************)
Inv ==
    /\ TypeOK
    /\ Sound(dev)
    /\ net \subseteq Outgoing
    /\ \A p \in Peers :
         client[p].st = "transfer" /\ Mode[p] # "read" => client[p].blk # 0

LEMMA InvIsNoStrandedFile == Inv => NoStrandedFile
BY DEF Inv, Sound, Owned, NoStrandedFile

LEMMA InitInv == Init => Inv
<1> SUFFICES ASSUME Init PROVE Inv
  OBVIOUS
<1> USE ServerAssumption DEF Init
<1>1. Idle \in SessionType
  BY DEF Idle, SessionType
<1>2. dev \in DevType
  <2>1. dev.content \in [FileNames -> Seq(Int)] /\ dev.fnbr \in Fnbrs
    BY DEF Fnbrs
  <2> QED BY <1>1, <2>1 DEF DevType
<1>3. Sound(dev)
  BY <1>2 DEF Sound, Owned, NoFile, Idle
<1>4. client \in [Peers -> ClientType]
  BY DEF ClientType
<1>5. stored \in [Peers -> Seq(Int)]
  OBVIOUS
<1>6. TypeOK
  BY <1>2, <1>4, <1>5 DEF TypeOK
<1> QED BY <1>3, <1>6 DEF Inv

\* The file system calls that fail in one handler are finitely many.
LEMMA FailingType ==
    ASSUME Inv, NEW fails \in SUBSET {"mount", "open", "read", "write", "short",
                                      "close", "reclose"},
           Failing(fails)
    PROVE  ioerrors' \in 0 .. MaxIoErrors
<1>1. IsFiniteSet({"mount", "open", "read", "write", "short", "close", "reclose"})
  <2>1. IsFiniteSet({"mount"})
    BY FS_Singleton
  <2>2. IsFiniteSet({"mount"} \cup {"open"})
    BY <2>1, FS_AddElement
  <2>3. IsFiniteSet({"mount"} \cup {"open"} \cup {"read"})
    BY <2>2, FS_AddElement
  <2>4. IsFiniteSet({"mount"} \cup {"open"} \cup {"read"} \cup {"write"})
    BY <2>3, FS_AddElement
  <2>5. IsFiniteSet({"mount"} \cup {"open"} \cup {"read"} \cup {"write"} \cup {"short"})
    BY <2>4, FS_AddElement
  <2>6. IsFiniteSet({"mount"} \cup {"open"} \cup {"read"} \cup {"write"} \cup {"short"}
                    \cup {"close"})
    BY <2>5, FS_AddElement
  <2>7. IsFiniteSet({"mount"} \cup {"open"} \cup {"read"} \cup {"write"} \cup {"short"}
                    \cup {"close"} \cup {"reclose"})
    BY <2>6, FS_AddElement
  <2>8. {"mount"} \cup {"open"} \cup {"read"} \cup {"write"} \cup {"short"}
          \cup {"close"} \cup {"reclose"} =
        {"mount", "open", "read", "write", "short", "close", "reclose"}
    OBVIOUS
  <2> QED BY <2>7, <2>8
<1>2. IsFiniteSet(fails)
  BY <1>1, FS_Subset
<1>3. Cardinality(fails) \in Nat
  BY <1>2, FS_CardinalityType
<1> QED BY <1>3, ServerAssumption DEF Failing, Inv, TypeOK

\* A handler that leaves a sound device and sends usable datagrams keeps Inv.
LEMMA HandledInv ==
    ASSUME Inv, NEW m, NEW d, NEW out, Handled(m, d, out),
           Sound(d), out \subseteq Outgoing,
           stored' \in [Peers -> Seq(Int)], ioerrors' \in 0 .. MaxIoErrors,
           mistimed' \subseteq Peers
    PROVE  Inv'
<1>1. net' \subseteq Outgoing /\ net' \subseteq Datagram
  BY DEF Handled, Inv, Outgoing
<1>2. dups' \in 0 .. MaxDups
  BY ServerAssumption DEF Handled, Inv, TypeOK
<1>3. cut' \subseteq Peers
  BY DEF Handled, Inv, TypeOK, Sound
<1>4. dev' = d /\ UNCHANGED <<socket, client, resets>>
  BY DEF Handled
<1>5. TypeOK'
  BY <1>1, <1>2, <1>3, <1>4 DEF Inv, TypeOK, Sound
<1>6. Sound(dev)'
  BY <1>4 DEF Sound, Owned
<1> QED BY <1>1, <1>4, <1>5, <1>6 DEF Inv

\* The short answers of the server are usable datagrams.
LEMMA RepliesType ==
    ASSUME NEW p \in Peers, NEW b \in 0 .. BlockMod - 1, NEW size \in 1 .. BlockSize
    PROVE  /\ {} \subseteq Outgoing
           /\ send_ack(p, b) \subseteq Outgoing
           /\ send_error(p) \subseteq Outgoing
           /\ send_oack(p, size) \subseteq Outgoing
<1>1. <<>> \in Seq(Int) /\ 0 \in 0 .. BlockMod - 1 /\ size \in Nat
  BY ServerAssumption
<1>2. ToClient(p, "ACK", b, <<>>, 0) \in Outgoing
  BY <1>1 DEF ToClient, Outgoing, Datagram
<1>3. ToClient(p, "ERROR", 0, <<>>, 0) \in Outgoing
  BY <1>1 DEF ToClient, Outgoing, Datagram
<1>4. ToClient(p, "OACK", 0, <<>>, size) \in Outgoing
  BY <1>1 DEF ToClient, Outgoing, Datagram
<1> QED BY <1>2, <1>3, <1>4 DEF send_ack, send_error, send_oack

LEMMA StartInv ==
    ASSUME Inv, NEW m \in net, NEW write \in BOOLEAN, Start(m, write)
    PROVE  Inv'
<1>1. m \in Datagram /\ m.peer \in Peers /\ 0 \in 0 .. BlockMod - 1
  BY ServerAssumption DEF Inv, Outgoing, Datagram
<1>2. PICK fails \in SUBSET {"mount", "open", "read", "close", "reclose"} :
        LET d == tftp_close(dev, "close" \in fails)
            o == OpenFile(d, m, write)
        IN  /\ Failing(fails)
            /\ UNCHANGED <<stored, mistimed>>
            /\ IF d.session.active THEN Handled(m, d, {})
               ELSE IF "mount" \in fails THEN Handled(m, d, send_error(m.peer))
               ELSE IF FreeFnbrs(d) = {} THEN Handled(m, d, {})
               ELSE IF "open" \in fails
                    THEN Handled(m, [d EXCEPT !.fnbr = FindFreeFileNbr(d),
                                              !.fserror = TRUE], {})
               ELSE IF accepted_option(m.opt)
                    THEN Handled(m, o, send_oack(m.peer, o.session.block_size))
               ELSE IF write THEN Handled(m, o, send_ack(m.peer, 0))
               ELSE Handled(m, send_data_block(o, fails), DataReply(o, fails))
  BY DEF Start
<1> DEFINE d == tftp_close(dev, "close" \in fails)
           o == OpenFile(d, m, write)
           e == [d EXCEPT !.fnbr = FindFreeFileNbr(d), !.fserror = TRUE]
<1>3. Sound(d)
  <2>1. ("close" \in fails) \in BOOLEAN /\ Sound(dev)
    BY DEF Inv
  <2> QED BY <2>1, CloseKeepsOwnership
<1>4. ioerrors' \in 0 .. MaxIoErrors
  BY <1>2, FailingType
<1>5. stored' \in [Peers -> Seq(Int)] /\ mistimed' \subseteq Peers
  BY <1>2 DEF Inv, TypeOK
<1>6. {} \subseteq Outgoing /\ send_error(m.peer) \subseteq Outgoing
        /\ send_ack(m.peer, 0) \subseteq Outgoing
  <2>1. BlockSize \in 1 .. BlockSize
    BY ServerAssumption
  <2> QED BY <1>1, <2>1, RepliesType
<1>7. ASSUME ~d.session.active, FreeFnbrs(d) # {}
      PROVE  /\ Sound(o) /\ o.session.active
             /\ send_oack(m.peer, o.session.block_size) \subseteq Outgoing
             /\ Sound(send_data_block(o, fails))
             /\ DataReply(o, fails) \subseteq Outgoing
             /\ Sound(e)
  <2> HIDE DEF d
  <2>1. Sound(o) /\ o.session.active /\ o.session.block_size \in 1 .. BlockSize
    BY <1>1, <1>3, <1>7, OpenTakesOwnership
  <2>2. FindFreeFileNbr(d) \in Fnbrs
    BY <1>3, <1>7, FreeNumberExists DEF Sound, FreeFnbrs
  <2>3. Sound(e)
    BY <1>3, <1>7, <2>2 DEF Sound, Owned, DevType
  <2> HIDE DEF o
  <2>4. Sound(send_data_block(o, fails)) /\ DataReply(o, fails) \subseteq Outgoing
    BY <2>1, SendKeepsOwnership
  <2> QED BY <1>1, <2>1, <2>3, <2>4, RepliesType
<1>8. \E dd, out : Handled(m, dd, out) /\ Sound(dd) /\ out \subseteq Outgoing
  <2> HIDE DEF d, o, e
  <2>1. CASE d.session.active \/ "mount" \in fails \/ FreeFnbrs(d) = {}
    <3>1. Handled(m, d, {}) \/ Handled(m, d, send_error(m.peer))
      BY <1>2, <2>1 DEF d
    <3> QED BY <3>1, <1>3, <1>6
  <2>2. CASE ~d.session.active /\ "mount" \notin fails /\ FreeFnbrs(d) # {}
    <3>1. \/ Handled(m, e, {})
          \/ Handled(m, o, send_oack(m.peer, o.session.block_size))
          \/ Handled(m, o, send_ack(m.peer, 0))
          \/ Handled(m, send_data_block(o, fails), DataReply(o, fails))
      BY <1>2, <2>2 DEF d, o, e
    <3> QED BY <1>6, <1>7, <2>2, <3>1
  <2> QED BY <2>1, <2>2
<1> QED BY <1>4, <1>5, <1>8, HandledInv

LEMMA HandleAckInv ==
    ASSUME Inv, NEW m \in net, HandleAck(m)
    PROVE  Inv'
<1> DEFINE next == [dev EXCEPT !.session.block = Next16(@)]
<1>1. PICK fails \in SUBSET {"read", "close", "reclose"} :
        /\ Failing(fails)
        /\ \/ Handled(m, send_data_block(dev, fails), DataReply(dev, fails))
           \/ Handled(m, dev, {})
           \/ Handled(m, tftp_close(dev, "close" \in fails), {})
           \/ Handled(m, send_data_block(next, fails), DataReply(next, fails))
  BY DEF HandleAck
<1>2. dev.session.active /\ UNCHANGED stored
  BY DEF HandleAck, OfTransfer
<1>3. ioerrors' \in 0 .. MaxIoErrors /\ stored' \in [Peers -> Seq(Int)]
  BY <1>1, <1>2, FailingType DEF Inv, TypeOK
<1>a. mistimed' \subseteq Peers
  BY DEF HandleAck, Inv, TypeOK, Outgoing, Datagram
<1>4. Sound(next) /\ next.session.active
  <2>0. dev.session.block \in Nat
    BY ServerAssumption DEF Inv, Sound, DevType, SessionType
  <2>1. Next16(dev.session.block) \in 0 .. BlockMod - 1
    BY <2>0, BlockArithmetic
  <2>2. [dev.session EXCEPT !.block = Next16(@)] \in SessionType
    BY <2>1 DEF Inv, Sound, DevType, SessionType
  <2>3. next \in DevType
    BY <2>2 DEF Inv, Sound, DevType
  <2> QED BY <1>2, <2>2, <2>3 DEF Inv, Sound, Owned, DevType, SessionType
<1>5. Sound(send_data_block(dev, fails)) /\ DataReply(dev, fails) \subseteq Outgoing
  BY <1>2, SendKeepsOwnership DEF Inv
<1>6. Sound(send_data_block(next, fails)) /\ DataReply(next, fails) \subseteq Outgoing
  <2> HIDE DEF next
  <2> QED BY <1>4, SendKeepsOwnership
<1>7. Sound(tftp_close(dev, "close" \in fails))
  <2>1. ("close" \in fails) \in BOOLEAN /\ Sound(dev)
    BY DEF Inv
  <2> QED BY <2>1, CloseKeepsOwnership
<1>8. \E dd, out : Handled(m, dd, out) /\ Sound(dd) /\ out \subseteq Outgoing
  <2> HIDE DEF next
  <2>1. {} \subseteq Outgoing /\ Sound(dev)
    BY DEF Inv
  <2> QED BY <1>1, <1>5, <1>6, <1>7, <2>1
<1> QED BY <1>3, <1>8, <1>a, HandledInv

\* A DATA block of which n bytes are written: the device it leaves.
LEMMA WrittenSound ==
    ASSUME Inv, NEW m \in Datagram, NEW n \in 0 .. Len(m.data),
           m.data # <<>> => dev.files[dev.fnbr] # NoFile
    PROVE  /\ Sound(Written(m, n))
           /\ Sound(Accepted(Written(m, n)))
           /\ Written(m, n).content["dst"] \in Seq(Int)
<1> DEFINE w == Written(m, n)
           bytes == SubSeq(m.data, 1, n)
<1>0. bytes \in Seq(Int)
  <2>1. m.data \in Seq(Int)
    BY DEF Datagram
  <2>2. Len(m.data) \in Nat /\ m.data \in [1 .. Len(m.data) -> Int]
    BY <2>1, LenProperties
  <2>3. \A i \in 1 .. n : m.data[i] \in Int
    BY <2>2
  <2> QED BY <2>2, <2>3, SubSeqProperties
<1>1. Sound(w) /\ w.session = dev.session
  <2>1. CASE m.data = <<>>
    BY <2>1 DEF Written, Inv
  <2>2. CASE m.data # <<>>
    <3> DEFINE f == dev.files[dev.fnbr]
    <3>1. f \in FileNames /\ dev \in DevType
      BY <2>2 DEF Inv, Sound, DevType
    <3>2. w = [dev EXCEPT !.content[f] = @ \o bytes, !.fserror = FALSE]
      BY <2>2 DEF Written
    <3> HIDE DEF f, w, bytes
    <3>3. dev.content[f] \o bytes \in Seq(Int)
      BY <1>0, <3>1 DEF DevType
    <3>4. [dev.content EXCEPT ![f] = @ \o bytes] \in [FileNames -> Seq(Int)]
      BY <3>1, <3>3 DEF DevType
    <3>5. w \in DevType /\ w.session = dev.session /\ w.fnbr = dev.fnbr
            /\ w.files = dev.files
      BY <3>1, <3>2, <3>4 DEF DevType
    <3> QED BY <3>5 DEF Inv, Sound, Owned
  <2> QED BY <2>1, <2>2
<1> HIDE DEF w
<1>2. Sound(Accepted(w))
  <2>1. Next16(w.session.block) \in 0 .. BlockMod - 1
    <3>1. w.session.block \in Nat
      BY <1>1, ServerAssumption DEF Sound, DevType, SessionType
    <3> QED BY <3>1, BlockArithmetic
  <2>2. [w.session EXCEPT !.block = Next16(@)] \in SessionType
    BY <1>1, <2>1 DEF Sound, DevType, SessionType
  <2>3. [w EXCEPT !.session.block = Next16(@)] \in DevType
    BY <1>1, <2>2 DEF Sound, DevType
  <2> QED BY <1>1, <2>2, <2>3 DEF Accepted, Sound, Owned, DevType, SessionType
<1>3. w.content["dst"] \in Seq(Int)
  BY <1>1 DEF Sound, DevType, FileNames
<1> QED BY <1>1, <1>2, <1>3 DEF w

LEMMA HandleDataInv ==
    ASSUME Inv, NEW m \in net, HandleData(m)
    PROVE  Inv'
<1>1. /\ m \in Datagram /\ m.peer \in Peers /\ m.blk \in 0 .. BlockMod - 1
      /\ Sound(dev)
      /\ Prev16(dev.session.block) \in 0 .. BlockMod - 1
  <2>1. dev.session.block \in Nat
    BY ServerAssumption DEF Inv, Sound, DevType, SessionType
  <2> QED BY <2>1, BlockArithmetic DEF Inv, Outgoing, Datagram
<1>2. /\ send_ack(m.peer, Prev16(dev.session.block)) \subseteq Outgoing
      /\ send_ack(m.peer, m.blk) \subseteq Outgoing
      /\ send_error(m.peer) \subseteq Outgoing
  <2>1. BlockSize \in 1 .. BlockSize
    BY ServerAssumption
  <2> QED BY <1>1, <2>1, RepliesType
<1>3. CASE OutOfOrder(m)
  <2>1. /\ Handled(m, dev, send_ack(m.peer, Prev16(dev.session.block)))
        /\ UNCHANGED <<stored, mistimed, ioerrors>>
    BY <1>3 DEF HandleData
  <2> QED BY <1>1, <1>2, <2>1, HandledInv DEF Inv, TypeOK
<1>4. CASE ~OutOfOrder(m)
  <2>1. PICK fails \in SUBSET {"write", "short", "close"}, n \in 0 .. Len(m.data) :
            /\ Failing(fails)
            /\ UNCHANGED mistimed
            /\ IF WriteThrows(m, fails)
               THEN /\ Handled(m, [dev EXCEPT !.files[dev.fnbr] = NoFile,
                                              !.fserror = TRUE], {})
                    /\ UNCHANGED stored
               ELSE /\ \/ Handled(m, tftp_close(Written(m, n), "close" \in fails),
                                  send_error(m.peer))
                       \/ Handled(m, tftp_close(Accepted(Written(m, n)), "close" \in fails),
                                  send_ack(m.peer, m.blk))
                       \/ Handled(m, Accepted(Written(m, n)), send_ack(m.peer, m.blk))
                    /\ \/ UNCHANGED stored
                       \/ stored' = [stored EXCEPT ![m.peer] = Written(m, n).content["dst"]]
    BY <1>4 DEF HandleData
  <2>2. ioerrors' \in 0 .. MaxIoErrors
    BY <2>1, FailingType
  <2>3. ("close" \in fails) \in BOOLEAN
    OBVIOUS
  <2>4. CASE WriteThrows(m, fails)
    <3>1. Sound([dev EXCEPT !.files[dev.fnbr] = NoFile, !.fserror = TRUE])
      BY <1>1 DEF Sound, Owned, DevType, NoFile
    <3>2. stored' \in [Peers -> Seq(Int)] /\ mistimed' \subseteq Peers
      BY <2>1, <2>4 DEF Inv, TypeOK
    <3> QED BY <2>1, <2>2, <2>4, <3>1, <3>2, HandledInv
  <2>5. CASE ~WriteThrows(m, fails)
    <3>1. m.data # <<>> => dev.files[dev.fnbr] # NoFile
      BY <2>5 DEF WriteThrows
    <3>2. /\ Sound(Written(m, n)) /\ Sound(Accepted(Written(m, n)))
          /\ Written(m, n).content["dst"] \in Seq(Int)
      BY <1>1, <3>1, WrittenSound
    <3>3. /\ Sound(tftp_close(Written(m, n), "close" \in fails))
          /\ Sound(tftp_close(Accepted(Written(m, n)), "close" \in fails))
      BY <2>3, <3>2, CloseKeepsOwnership
    <3>4. stored' \in [Peers -> Seq(Int)] /\ mistimed' \subseteq Peers
      BY <2>1, <2>5, <3>2 DEF Inv, TypeOK
    <3>5. \E d, out : Handled(m, d, out) /\ Sound(d) /\ out \subseteq Outgoing
      BY <1>2, <2>1, <2>5, <3>2, <3>3
    <3> QED BY <2>2, <3>4, <3>5, HandledInv
  <2> QED BY <2>4, <2>5
<1> QED BY <1>3, <1>4

LEMMA PollInv ==
    ASSUME Inv, Poll
    PROVE  Inv'
<1>1. PICK m \in net :
        \/ BadRequest(m) \/ StartRead(m) \/ StartWrite(m)
        \/ HandleData(m) \/ HandleAck(m) \/ HandleError(m) \/ Ignored(m)
  BY DEF Poll
<1>2. m.peer \in Peers /\ Sound(dev) /\ {} \subseteq Outgoing
  BY DEF Inv, Outgoing, Datagram
<1>3. CASE BadRequest(m)
  <2>1. BlockSize \in 1 .. BlockSize /\ 0 \in 0 .. BlockMod - 1
    BY ServerAssumption
  <2>2. send_error(m.peer) \subseteq Outgoing
    BY <1>2, <2>1, RepliesType
  <2>3. Handled(m, dev, send_error(m.peer)) /\ UNCHANGED <<stored, mistimed, ioerrors>>
    BY <1>3 DEF BadRequest
  <2> QED BY <1>2, <2>2, <2>3, HandledInv DEF Inv, TypeOK
<1>4. CASE StartRead(m)
  BY <1>4, StartInv DEF StartRead
<1>5. CASE StartWrite(m)
  BY <1>5, StartInv DEF StartWrite
<1>6. CASE HandleData(m)
  BY <1>6, HandleDataInv
<1>7. CASE HandleAck(m)
  BY <1>7, HandleAckInv
<1>8. CASE HandleError(m)
  <2>1. PICK fails \in SUBSET {"close"} :
          Failing(fails) /\ Handled(m, tftp_close(dev, "close" \in fails), {})
    BY <1>8 DEF HandleError
  <2>2. ioerrors' \in 0 .. MaxIoErrors
    BY <2>1, FailingType
  <2>3. ("close" \in fails) \in BOOLEAN
    OBVIOUS
  <2>4. Sound(tftp_close(dev, "close" \in fails))
    BY <1>2, <2>3, CloseKeepsOwnership
  <2>5. stored' \in [Peers -> Seq(Int)] /\ mistimed' \subseteq Peers
    BY <1>8 DEF HandleError, Inv, TypeOK
  <2> QED BY <1>2, <2>1, <2>2, <2>4, <2>5, HandledInv
<1>9. CASE Ignored(m)
  <2>1. Handled(m, dev, {}) /\ UNCHANGED <<stored, mistimed, ioerrors>>
    BY <1>9 DEF Ignored
  <2> QED BY <1>2, <2>1, HandledInv DEF Inv, TypeOK
<1> QED BY <1>1, <1>3, <1>4, <1>5, <1>6, <1>7, <1>8, <1>9

-----------------------------------------------------------------------------
(***************************************************************************)
(* The rest of the device keeps Inv: RUN, the program's own file, and      *)
(* OPTION TFTP.                                                            *)
(***************************************************************************)
LEMMA DeviceInv ==
    ASSUME Inv,
           \/ ClearRuntime \/ TftpOff \/ TftpOn
           \/ \E n \in Fnbrs : BasicFileOpen(n) \/ BasicFileClose(n)
    PROVE  Inv'
<1> USE DEF Inv, TypeOK
<1>1. CASE ClearRuntime
  <2> DEFINE d == [dev EXCEPT !.files = [n \in Fnbrs |-> NoFile],
                              !.fserror = @ /\ FreeFnbrs(dev) = Fnbrs]
  <2>1. dev' = d /\ UNCHANGED <<socket, net, client, stored, mistimed, dups, ioerrors>>
    BY <1>1 DEF ClearRuntime
  <2>2. Sound(d)
    <3> DEFINE b == dev.fserror /\ FreeFnbrs(dev) = Fnbrs
               files == [n \in Fnbrs |-> NoFile]
    <3>1. b \in BOOLEAN /\ files \in [Fnbrs -> FileNames \cup {NoFile}]
      OBVIOUS
    <3>2. \A n \in Fnbrs : files[n] \notin {"src", "dst"}
      BY DEF NoFile
    <3> HIDE DEF b, files
    <3>3. Sound([dev EXCEPT !.files = files, !.fserror = b])
      BY <3>1, <3>2 DEF Sound, Owned, DevType
    <3> QED BY <3>3 DEF b, files
  <2>3. cut' \subseteq Peers
    BY <1>1 DEF ClearRuntime, Sound
  <2>4. resets' \in 0 .. MaxResets
    BY <1>1, ServerAssumption DEF ClearRuntime
  <2> HIDE DEF d
  <2>5. Sound(dev)' /\ dev' \in DevType
    BY <2>1, <2>2 DEF Sound, Owned
  <2> QED BY <2>1, <2>3, <2>4, <2>5
<1>2. CASE TftpOff
  <2>1. PICK fails \in SUBSET {"close"} :
          LET d == tftp_close(dev, "close" \in fails)
          IN  /\ Failing(fails)
              /\ dev' = d
              /\ cut' = IF d.session.active THEN cut \cup {d.session.peer} ELSE cut
              /\ socket' = d.session.active
    BY <1>2 DEF TftpOff
  <2> DEFINE d == tftp_close(dev, "close" \in fails)
  <2>2. ("close" \in fails) \in BOOLEAN
    OBVIOUS
  <2>3. Sound(d)
    BY <2>2, CloseKeepsOwnership
  <2>4. /\ UNCHANGED <<net, client, stored, mistimed, dups>> /\ resets' \in 0 .. MaxResets
        /\ ioerrors' \in 0 .. MaxIoErrors
    BY <1>2, <2>1, FailingType, ServerAssumption DEF TftpOff
  <2>5. /\ dev' = d
        /\ cut' = IF d.session.active THEN cut \cup {d.session.peer} ELSE cut
        /\ socket' = d.session.active
    BY <2>1
  <2> HIDE DEF d
  <2>6. cut' \subseteq Peers /\ socket' \in BOOLEAN
    BY <2>3, <2>5 DEF Sound, DevType, SessionType
  <2>7. Sound(dev)' /\ dev' \in DevType
    BY <2>3, <2>5 DEF Sound, Owned
  <2> QED BY <2>4, <2>6, <2>7
<1>3. CASE TftpOn
  BY <1>3 DEF TftpOn, Sound, Owned
<1>4. ASSUME NEW n \in Fnbrs, BasicFileOpen(n)
      PROVE  Inv'
  <2> DEFINE d == [dev EXCEPT !.files[n] = "basic", !.pos[n] = 0,
                              !.content["basic"] = <<>>, !.fserror = FALSE]
  <2>1. dev' = d /\ UNCHANGED <<socket, net, client, stored, cut, mistimed, dups, ioerrors, resets>>
    BY <1>4 DEF BasicFileOpen
  <2>2. d \in DevType
    <3>1. [dev.files EXCEPT ![n] = "basic"] \in [Fnbrs -> FileNames \cup {NoFile}]
      BY DEF DevType, FileNames
    <3>2. [dev.pos EXCEPT ![n] = 0] \in [Fnbrs -> Nat]
      BY DEF DevType
    <3>3. [dev.content EXCEPT !["basic"] = <<>>] \in [FileNames -> Seq(Int)]
      BY DEF DevType, FileNames
    <3> QED BY <3>1, <3>2, <3>3 DEF DevType
  <2>3. Sound(d)
    BY <2>2 DEF Sound, Owned, DevType
  <2> HIDE DEF d
  <2>4. Sound(dev)' /\ dev' \in DevType
    BY <2>1, <2>3 DEF Sound, Owned
  <2> QED BY <2>1, <2>4
<1>5. ASSUME NEW n \in Fnbrs, BasicFileClose(n)
      PROVE  Inv'
  <2> DEFINE d == [dev EXCEPT !.files[n] = NoFile, !.fserror = FALSE]
  <2>1. dev' = d /\ UNCHANGED <<socket, net, client, stored, mistimed, dups, ioerrors, resets>>
    BY <1>5 DEF BasicFileClose
  <2>2. cut' \subseteq Peers
    BY <1>5 DEF BasicFileClose, Sound
  <2>3. Sound(d)
    BY DEF Sound, Owned, DevType, NoFile
  <2> HIDE DEF d
  <2>4. Sound(dev)' /\ dev' \in DevType
    BY <2>1, <2>3 DEF Sound, Owned
  <2> QED BY <2>1, <2>2, <2>4
<1> QED BY <1>1, <1>2, <1>3, <1>4, <1>5

-----------------------------------------------------------------------------
(***************************************************************************)
(* The clients only send well-formed datagrams.                            *)
(***************************************************************************)
LEMMA ClientPackets ==
    ASSUME NEW p \in Peers, NEW blk \in Nat, NEW size \in 1 .. BlockSize
    PROVE  /\ Request(p) \in Outgoing
           /\ ClientAck(p, blk) \in Outgoing
           /\ blk # 0 => ClientData(p, blk, size) \in Outgoing
           /\ ToServer(p, "ERROR", 0, <<>>, 0) \in Outgoing
<1>1. <<>> \in Seq(Int) /\ 0 \in 0 .. BlockMod - 1 /\ size \in Nat
        /\ Asked[p] \in Nat /\ Upload[p] \in Seq(Int)
  BY ServerAssumption
<1>2. blk % BlockMod \in 0 .. BlockMod - 1
  BY BlockArithmetic
<1>3. Request(p) \in Outgoing
  BY <1>1 DEF Request, ToServer, Outgoing, Datagram
<1>4. ClientAck(p, blk) \in Outgoing
  BY <1>1, <1>2 DEF ClientAck, ToServer, Outgoing, Datagram
<1>5. ASSUME blk # 0
      PROVE  ClientData(p, blk, size) \in Outgoing
  <2>1. (blk - 1) * size \in Nat
    <3>1. blk - 1 \in Nat
      BY <1>5
    <3>2. \A a, b \in Nat : a * b \in Nat
      OBVIOUS
    <3> QED BY <1>1, <3>1, <3>2
  <2>2. Bytes(Upload[p], (blk - 1) * size, size) \in Seq(Int)
    BY <1>1, <2>1, BytesType
  <2> QED BY <1>2, <2>2 DEF ClientData, ToServer, Outgoing, Datagram
<1>6. ToServer(p, "ERROR", 0, <<>>, 0) \in Outgoing
  BY <1>1 DEF ToServer, Outgoing, Datagram
<1> QED BY <1>3, <1>4, <1>5, <1>6

\* A client that moves to a typed state and sends such packets keeps Inv.
LEMMA ClientStepInv ==
    ASSUME Inv, NEW p \in Peers, NEW c \in ClientType, NEW packets,
           packets \subseteq Outgoing,
           c.st = "transfer" /\ Mode[p] # "read" => c.blk # 0,
           \/ ClientSends(p, c, packets)
           \/ \E m \in net : ClientMove(p, m, c, packets)
    PROVE  Inv'
<1>1. /\ client' = [client EXCEPT ![p] = c]
      /\ net' \subseteq net \cup packets
      /\ UNCHANGED <<dev, socket, stored, cut, mistimed, dups, ioerrors, resets>>
  BY DEF ClientSends, ClientMove
<1>2. net' \subseteq Outgoing /\ net' \subseteq Datagram
  BY <1>1 DEF Inv, Outgoing
<1>3. client' \in [Peers -> ClientType]
  BY <1>1 DEF Inv, TypeOK
<1>4. \A q \in Peers :
        client'[q].st = "transfer" /\ Mode[q] # "read" => client'[q].blk # 0
  BY <1>1 DEF Inv, TypeOK
<1>5. TypeOK'
  BY <1>1, <1>2, <1>3 DEF Inv, TypeOK
<1>6. Sound(dev)'
  BY <1>1 DEF Inv, Sound, Owned
<1> QED BY <1>2, <1>4, <1>5, <1>6 DEF Inv

LEMMA ClientInv ==
    ASSUME Inv, NEW p \in Peers, Client(p)
    PROVE  Inv'
<1> DEFINE c == client[p]
<1>1. c \in ClientType /\ (c.st = "transfer" /\ Mode[p] # "read" => c.blk # 0)
  BY DEF Inv, TypeOK
<1>2. c.blk \in Nat /\ c.size \in 1 .. BlockSize /\ c.got \in Seq(Int)
        /\ c.tries \in 0 .. MaxRetries /\ c.blk + 1 \in Nat /\ c.blk + 1 # 0
  BY <1>1 DEF ClientType
<1>3. /\ Request(p) \in Outgoing
      /\ \A b \in Nat : ClientAck(p, b) \in Outgoing
      /\ \A b \in Nat \ {0}, z \in 1 .. BlockSize : ClientData(p, b, z) \in Outgoing
      /\ ToServer(p, "ERROR", 0, <<>>, 0) \in Outgoing
  BY <1>2, ClientPackets
<1>4. CASE ClientStart(p)
  <2>1. [c EXCEPT !.st = "asked"] \in ClientType /\ [c EXCEPT !.st = "asked"].st = "asked"
    BY <1>1 DEF ClientType
  <2> QED BY <1>3, <1>4, <2>1, ClientStepInv DEF ClientStart
<1>5. CASE ClientTimeout(p)
  <2> DEFINE e == [c EXCEPT !.tries = @ + 1]
  <2>1. e \in ClientType /\ e.st = c.st /\ e.blk = c.blk
    <3>1. c.tries + 1 \in 0 .. MaxRetries
      <4>1. MaxRetries \in Nat
        BY ServerAssumption
      <4>2. c.tries < MaxRetries
        BY <1>5 DEF ClientTimeout
      <4> HIDE DEF c
      <4> QED BY <1>2, <4>1, <4>2
    <3> HIDE DEF c
    <3> QED BY <1>1, <3>1 DEF ClientType
  <2>2. LastPacket(p) \in Outgoing
    <3>1. CASE c.st = "asked"
      BY <1>3, <3>1 DEF LastPacket
    <3>2. CASE c.st = "transfer" /\ Mode[p] = "read"
      BY <1>2, <1>3, <3>2 DEF LastPacket
    <3>3. CASE c.st = "transfer" /\ Mode[p] # "read"
      BY <1>1, <1>2, <1>3, <3>3 DEF LastPacket
    <3> QED BY <1>5, <3>1, <3>2, <3>3 DEF ClientTimeout
  <2>3. ClientSends(p, e, {LastPacket(p)})
    BY <1>5 DEF ClientTimeout
  <2> HIDE DEF e, c
  <2> QED BY <1>1, <2>1, <2>2, <2>3, ClientStepInv
<1>6. CASE ClientGivesUp(p)
  <2>1. [c EXCEPT !.st = "failed"] \in ClientType /\ [c EXCEPT !.st = "failed"].st = "failed"
    BY <1>1 DEF ClientType
  <2>2. PICK packets \in {{}, {ToServer(p, "ERROR", 0, <<>>, 0)}} :
          ClientSends(p, [c EXCEPT !.st = "failed"], packets)
    BY <1>6 DEF ClientGivesUp
  <2>3. packets \subseteq Outgoing
    BY <1>3
  <2> QED BY <2>1, <2>2, <2>3, ClientStepInv
<1>7. ASSUME NEW m \in net, ClientGetsOack(p, m)
      PROVE  Inv'
  <2>1. m.opt \in 1 .. BlockSize
    BY <1>7 DEF ClientGetsOack, Inv, Outgoing
  <2>2. CASE Mode[p] = "read"
    <3> DEFINE e == [c EXCEPT !.st = "transfer", !.size = m.opt]
    <3>1. e \in ClientType
      BY <1>1, <2>1 DEF ClientType
    <3>2. ClientMove(p, m, e, {ClientAck(p, 0)})
      BY <1>7, <2>2 DEF ClientGetsOack
    <3> HIDE DEF e
    <3> QED BY <1>3, <2>2, <3>1, <3>2, ClientStepInv
  <2>3. CASE Mode[p] # "read"
    <3> DEFINE e == [c EXCEPT !.st = "transfer", !.size = m.opt, !.blk = 1]
    <3>1. e \in ClientType /\ e.blk = 1
      BY <1>1, <2>1 DEF ClientType
    <3>2. ClientMove(p, m, e, {ClientData(p, 1, m.opt)})
      BY <1>7, <2>3 DEF ClientGetsOack
    <3> HIDE DEF e
    <3>3. ClientData(p, 1, m.opt) \in Outgoing
      BY <1>3, <2>1
    <3> QED BY <2>3, <3>1, <3>2, <3>3, ClientStepInv
  <2> QED BY <2>2, <2>3
<1>8. ASSUME NEW m \in net, ClientGetsData(p, m)
      PROVE  Inv'
  <2> DEFINE st == IF Len(m.data) < c.size THEN "done" ELSE "transfer"
             e == [c EXCEPT !.blk = @ + 1, !.got = @ \o m.data, !.st = st]
  <2>1. st \in {"done", "transfer"} /\ c.got \o m.data \in Seq(Int) /\ Mode[p] = "read"
    BY <1>2, <1>8 DEF Inv, Outgoing, Datagram, ClientGetsData
  <2>2. ClientMove(p, m, e, {ClientAck(p, c.blk + 1)})
    BY <1>8 DEF ClientGetsData
  <2> HIDE DEF st
  <2>3. e \in ClientType
    BY <1>1, <1>2, <2>1 DEF ClientType
  <2>4. ClientAck(p, c.blk + 1) \in Outgoing
    BY <1>2, <1>3
  <2> HIDE DEF e, c
  <2> QED BY <2>1, <2>2, <2>3, <2>4, ClientStepInv
<1>9. ASSUME NEW m \in net, ClientGetsAck(p, m)
      PROVE  Inv'
  <2> DEFINE f == [c EXCEPT !.st = "done"]
             e == [c EXCEPT !.st = "transfer", !.blk = @ + 1]
  <2>1. f \in ClientType /\ f.st = "done" /\ e \in ClientType /\ e.blk = c.blk + 1
    BY <1>1, <1>2 DEF ClientType
  <2>2. \/ ClientMove(p, m, f, {})
        \/ ClientMove(p, m, e, {ClientData(p, c.blk + 1, c.size)})
    BY <1>9 DEF ClientGetsAck
  <2>3. ClientData(p, c.blk + 1, c.size) \in Outgoing
    BY <1>2, <1>3
  <2> HIDE DEF e, f, c
  <2>4. ASSUME ClientMove(p, m, f, {})
        PROVE  Inv'
    BY <2>1, <2>4, ClientStepInv
  <2>5. ASSUME ClientMove(p, m, e, {ClientData(p, c.blk + 1, c.size)})
        PROVE  Inv'
    <3>1. {ClientData(p, c.blk + 1, c.size)} \subseteq Outgoing /\ e.blk # 0
      BY <1>2, <2>1, <2>3
    <3> QED BY <2>1, <2>5, <3>1, ClientStepInv
  <2> QED BY <2>2, <2>4, <2>5
<1>10. ASSUME NEW m \in net, ClientGetsError(p, m)
       PROVE  Inv'
  <2> DEFINE e == [c EXCEPT !.st = "failed"]
  <2>1. e \in ClientType /\ e.st = "failed"
    BY <1>1 DEF ClientType
  <2>2. ClientMove(p, m, e, {})
    BY <1>10 DEF ClientGetsError
  <2> HIDE DEF e
  <2> QED BY <2>1, <2>2, ClientStepInv
<1> QED BY <1>4, <1>5, <1>6, <1>7, <1>8, <1>9, <1>10 DEF Client, ClientReceives

-----------------------------------------------------------------------------
LEMMA NextInv == Inv /\ [Next]_vars => Inv'
<1> SUFFICES ASSUME Inv, [Next]_vars PROVE Inv'
  OBVIOUS
<1>1. CASE Poll
  BY <1>1, PollInv
<1>2. ASSUME NEW p \in Peers, Client(p) PROVE Inv'
  BY <1>2, ClientInv
<1>3. CASE \/ ClearRuntime \/ TftpOff \/ TftpOn
           \/ \E n \in Fnbrs : BasicFileOpen(n) \/ BasicFileClose(n)
  BY <1>3, DeviceInv
<1>4. CASE UNCHANGED vars
  BY <1>4 DEF vars, Inv, TypeOK, Sound, Owned
<1> QED BY <1>1, <1>2, <1>3, <1>4 DEF Next

\* Every variable keeps its type: the session's block number stays a 16-bit
\* number and its block size within the packet buffer of send_data_block,
\* its file number within FileTable, for every sequence of requests, losses,
\* repeats, file system errors, RUNs and OPTION TFTP commands.
THEOREM TypeCorrect == Spec => []TypeOK
<1>1. Spec => []Inv
  BY InitInv, NextInv, PTL DEF Spec
<1>2. Inv => TypeOK
  BY DEF Inv
<1> QED BY <1>1, <1>2, PTL

\* No sequence of transfers, takeovers, failures, RUNs and OPTION TFTP OFFs
\* strands a file number: mm_net_tftp_close before every open is enough.
THEOREM NoFileNumberLeaks == Spec => []NoStrandedFile
<1>1. Spec => []Inv
  BY InitInv, NextInv, PTL DEF Spec
<1> QED BY <1>1, InvIsNoStrandedFile, PTL

-----------------------------------------------------------------------------
(***************************************************************************)
(* What is transferred.  A file goes out in blocks; the facts below keep   *)
(* the offset of a block as one number, so that the provers see sums only. *)
(***************************************************************************)
Size(p) == parse_request_block_size(Asked[p])

\* Block k of a file s sent in blocks of z bytes, and which k there are: the
\* last block is the first one shorter than z, empty if need be.
Chunk(s, k, z) == Bytes(s, (k - 1) * z, z)
IsBlock(s, k, z) == k \in Nat \ {0} /\ (k - 1) * z <= Len(s)
IsLast(s, k, z) == IsBlock(s, k, z) /\ Len(Chunk(s, k, z)) < z

\* No transfer needs a block number that wraps.
FilesFit ==
    \A p \in Peers : /\ Len(Upload[p]) < (BlockMod - 1) * Size(p)
                     /\ Len(Served) < (BlockMod - 1) * Size(p)

\* p waits for the answer to a request with an option: no data of its transfer,
\* in its own or in the default size, is on the way.
Asking(p) == accepted_option(Asked[p]) /\ client[p].st \in {"idle", "asked"}

\* An active session serves a peer that asked for it, with that peer's size.
SessionRight(d) ==
    /\ d.content["src"] = Served
    /\ d.session.active =>
         /\ Mode[d.session.peer] = IF d.session.write_mode THEN "write" ELSE "read"
         /\ d.session.block_size = Size(d.session.peer)

\* Block k is the one expected next: the file holds all the blocks before it.
WriterRight(d) ==
    LET p == d.session.peer
        k == d.session.block
    IN  /\ d.files[d.fnbr] = "dst"
        /\ IsBlock(Upload[p], k, Size(p))
        /\ d.content["dst"] = Bytes(Upload[p], 0, (k - 1) * Size(p))

\* Block k was the last one read; or block 1 has yet to be.
ReaderRight(d) ==
    LET p == d.session.peer
        k == d.session.block
        bytes == Chunk(Served, k, Size(p))
        pos == d.pos[d.fnbr]
    IN  /\ IsBlock(Served, k, Size(p))
        /\ \/ /\ pos = (k - 1) * Size(p) + Len(bytes)
              /\ d.session.last_data = (Len(bytes) < Size(p))
           \/ k = 1 /\ pos = 0 /\ ~d.session.last_data

\* The data of an active session, if no ACK of its peer was mistimed.
DataRight(d, mi) ==
    IF d.session.write_mode THEN WriterRight(d)
    ELSE /\ d.files[d.fnbr] = "src"
         /\ d.session.peer \notin mi => ReaderRight(d)

DevRight(d, cu, mi) ==
    /\ SessionRight(d)
    /\ d.session.active /\ d.session.peer \notin cu => DataRight(d, mi)

ToServerRight(m) ==
    LET p == m.peer
    IN  /\ m.op = "RRQ" => Mode[p] = "read" /\ m.opt = Asked[p]
        /\ m.op = "WRQ" => Mode[p] = "write" /\ m.opt = Asked[p]
        /\ m.op \in {"DATA", "ACK"} => ~Asking(p)
        /\ m.op = "DATA" => /\ IsBlock(Upload[p], m.blk, Size(p))
                            /\ m.data = Chunk(Upload[p], m.blk, Size(p))

ToClientRight(m) ==
    LET p == m.peer
    IN  /\ m.op = "OACK" => m.opt = Size(p)
        /\ m.op \in {"DATA", "ACK"} => ~Asking(p)
        /\ m.op = "DATA" /\ p \notin cut \cup mistimed =>
             IsBlock(Served, m.blk, Size(p)) /\ m.data = Chunk(Served, m.blk, Size(p))
        /\ m.op = "ACK" /\ p \notin cut /\ IsLast(Upload[p], m.blk, Size(p)) =>
             stored[p] = Upload[p]

MessageRight(m) == IF m.to = "server" THEN ToServerRight(m) ELSE ToClientRight(m)

NetRight == \A m \in net : MessageRight(m)

ClientRight(p, c) ==
    /\ c.st \in {"idle", "asked"} => c.blk = 0 /\ c.got = <<>> /\ c.size = BlockSize
    /\ c.st = "transfer" => c.size = Size(p)
    /\ Mode[p] # "read" /\ c.st = "transfer" => IsBlock(Upload[p], c.blk, Size(p))
    /\ Mode[p] = "write" /\ c.st = "done" /\ p \notin cut => stored[p] = Upload[p]
    /\ Mode[p] = "read" /\ p \notin cut \cup mistimed =>
         /\ c.got = Bytes(Served, 0, Len(c.got))
         /\ c.st = "transfer" => Len(c.got) = c.blk * Size(p)
         /\ c.st = "done" => c.got = Served

TransferInv ==
    /\ DevRight(dev, cut, mistimed)
    /\ NetRight
    /\ \A p \in Peers : ClientRight(p, client[p])

-----------------------------------------------------------------------------
\* A piece of a file: its length and its bytes.
LEMMA BytesProperties ==
    ASSUME NEW s \in Seq(Int), NEW o \in Nat, NEW n \in Nat, o <= Len(s)
    PROVE  /\ Bytes(s, o, n) \in Seq(Int)
           /\ Len(Bytes(s, o, n)) = (IF o + n < Len(s) THEN n ELSE Len(s) - o)
           /\ \A i \in 1 .. Len(Bytes(s, o, n)) : Bytes(s, o, n)[i] = s[o + i]
<1> DEFINE e == IF o + n < Len(s) THEN o + n ELSE Len(s)
<1>1. Len(s) \in Nat /\ s \in [1 .. Len(s) -> Int]
  BY LenProperties
<1>2. e \in Int /\ e <= Len(s) /\ o + 1 \in Int /\ o + 1 >= 1
  BY <1>1
<1>a. o <= e /\ e - o = (IF o + n < Len(s) THEN n ELSE Len(s) - o)
  BY <1>1
<1>3. Bytes(s, o, n) = SubSeq(s, o + 1, e)
  BY DEF Bytes
<1> HIDE DEF e
<1>4. \A i \in o + 1 .. e : s[i] \in Int
  BY <1>1, <1>2
<1>5. /\ SubSeq(s, o + 1, e) \in Seq(Int)
      /\ Len(SubSeq(s, o + 1, e)) = (IF o + 1 <= e THEN e - (o + 1) + 1 ELSE 0)
      /\ \A i \in 1 .. e - (o + 1) + 1 : SubSeq(s, o + 1, e)[i] = s[o + 1 + i - 1]
  BY <1>2, <1>4, SubSeqProperties
<1>6. (IF o + 1 <= e THEN e - (o + 1) + 1 ELSE 0) = e - o /\ e - (o + 1) + 1 = e - o
  BY <1>2, <1>a
<1>7. \A i \in 1 .. e - o : o + 1 + i - 1 = o + i
  BY <1>2
<1> DEFINE t == Bytes(s, o, n)
<1>8. t \in Seq(Int) /\ Len(t) = e - o
  BY <1>3, <1>5, <1>6
<1>9. \A i \in 1 .. e - o : t[i] = s[o + i]
  <2>1. \A i \in 1 .. e - o : t[i] = s[o + 1 + i - 1]
    BY <1>3, <1>5, <1>6
  <2> HIDE DEF t
  <2> QED BY <1>7, <2>1
<1> HIDE DEF t
<1>10. /\ t \in Seq(Int)
       /\ Len(t) = (IF o + n < Len(s) THEN n ELSE Len(s) - o)
       /\ \A i \in 1 .. Len(t) : t[i] = s[o + i]
  BY <1>8, <1>9, <1>a
<1> QED BY <1>10 DEF t

\* Appending the next piece to a prefix gives the longer prefix.
LEMMA BytesAppend ==
    ASSUME NEW s \in Seq(Int), NEW o \in Nat, NEW n \in Nat, o <= Len(s)
    PROVE  Bytes(s, 0, o) \o Bytes(s, o, n) = Bytes(s, 0, o + n)
<1> DEFINE a == Bytes(s, 0, o)
           b == Bytes(s, o, n)
           c == Bytes(s, 0, o + n)
<1>1. Len(s) \in Nat /\ 0 <= Len(s) /\ o + n \in Nat /\ 0 \in Nat
  BY LenProperties
<1>a. /\ (IF 0 + o < Len(s) THEN o ELSE Len(s) - 0) = o
      /\ (IF 0 + (o + n) < Len(s) THEN o + n ELSE Len(s) - 0)
           = (IF o + n < Len(s) THEN o + n ELSE Len(s))
  BY <1>1
<1>2. /\ a \in Seq(Int) /\ Len(a) = o
      /\ \A i \in 1 .. Len(a) : a[i] = s[0 + i]
  <2>1. /\ a \in Seq(Int) /\ Len(a) = (IF 0 + o < Len(s) THEN o ELSE Len(s) - 0)
        /\ \A i \in 1 .. Len(a) : a[i] = s[0 + i]
    BY <1>1, BytesProperties
  <2> HIDE DEF a
  <2> QED BY <1>a, <2>1
<1>3. /\ b \in Seq(Int) /\ Len(b) = (IF o + n < Len(s) THEN n ELSE Len(s) - o)
      /\ \A i \in 1 .. Len(b) : b[i] = s[o + i]
  BY <1>1, BytesProperties
<1>4. /\ c \in Seq(Int) /\ Len(c) = (IF o + n < Len(s) THEN o + n ELSE Len(s))
      /\ \A i \in 1 .. Len(c) : c[i] = s[0 + i]
  <2>1. /\ c \in Seq(Int)
        /\ Len(c) = (IF 0 + (o + n) < Len(s) THEN o + n ELSE Len(s) - 0)
        /\ \A i \in 1 .. Len(c) : c[i] = s[0 + i]
    BY <1>1, BytesProperties
  <2> HIDE DEF c
  <2> QED BY <1>a, <2>1
<1> HIDE DEF a, b, c
<1>5. a \o b \in Seq(Int) /\ Len(a \o b) = Len(a) + Len(b)
        /\ \A i \in 1 .. Len(a) + Len(b) :
             (a \o b)[i] = IF i <= Len(a) THEN a[i] ELSE b[i - Len(a)]
  <2>1. a \in Seq(Int) /\ b \in Seq(Int)
    BY <1>2, <1>3
  <2> QED BY <2>1, ConcatProperties
<1>6. Len(a) + Len(b) = Len(c) /\ Len(a) \in Nat /\ Len(b) \in Nat
  BY <1>1, <1>2, <1>3, <1>4
<1>7. ASSUME NEW i \in 1 .. Len(c)
      PROVE  (a \o b)[i] = c[i]
  <2>0. i \in 1 .. Len(a) + Len(b)
    BY <1>6
  <2>1. CASE i <= Len(a)
    <3>1. i \in 1 .. Len(a)
      BY <1>6, <2>0, <2>1
    <3>2. (a \o b)[i] = a[i] /\ a[i] = s[0 + i] /\ c[i] = s[0 + i]
      BY <1>2, <1>4, <1>5, <2>0, <2>1, <3>1
    <3> QED BY <3>2
  <2>2. CASE i > Len(a)
    <3>1. i - Len(a) \in 1 .. Len(b) /\ o + (i - Len(a)) = 0 + i
      BY <1>1, <1>2, <1>6, <2>2
    <3>2. b[i - Len(a)] = s[0 + i]
      BY <1>3, <3>1
    <3>3. (a \o b)[i] = b[i - Len(a)]
      <4>1. ~ (i <= Len(a))
        BY <1>6, <2>0, <2>2
      <4> QED BY <1>5, <2>0, <4>1
    <3>4. c[i] = s[0 + i]
      BY <1>4
    <3> QED BY <3>2, <3>3, <3>4
  <2> QED BY <1>6, <2>1, <2>2
<1>8. a \o b = c
  BY <1>4, <1>5, <1>6, <1>7, SeqEqual
<1> QED BY <1>8 DEF a, b, c

\* A prefix at least as long as the file is the file.
LEMMA BytesWhole ==
    ASSUME NEW s \in Seq(Int), NEW n \in Nat, Len(s) <= n
    PROVE  Bytes(s, 0, n) = s
<1>1. Len(s) \in Nat /\ 0 \in Nat /\ 0 <= Len(s)
  BY LenProperties
<1> DEFINE b == Bytes(s, 0, n)
<1>2. /\ b \in Seq(Int) /\ Len(b) = (IF 0 + n < Len(s) THEN n ELSE Len(s) - 0)
      /\ \A i \in 1 .. Len(b) : b[i] = s[0 + i]
  BY <1>1, BytesProperties
<1>3. (IF 0 + n < Len(s) THEN n ELSE Len(s) - 0) = Len(s) /\ \A i \in Int : 0 + i = i
  BY <1>1
<1> HIDE DEF b
<1>4. Len(b) = Len(s) /\ \A i \in 1 .. Len(b) : b[i] = s[i]
  BY <1>2, <1>3
<1>5. b = s
  BY <1>2, <1>4, SeqEqual
<1> QED BY <1>5 DEF b

\* The blocks of a file: block k starts at (k - 1) * z; a full block is
\* followed by another, a short one completes the file.
LEMMA BlockProperties ==
    ASSUME NEW s \in Seq(Int), NEW k, NEW z \in Nat \ {0}, IsBlock(s, k, z)
    PROVE  /\ k \in Nat \ {0} /\ (k - 1) * z \in Nat /\ (k - 1) * z <= Len(s)
           /\ k * z = (k - 1) * z + z
           /\ (k + 1) - 1 = k
           /\ Chunk(s, k, z) \in Seq(Int)
           /\ Len(Chunk(s, k, z)) \in 0 .. z
           /\ IsLast(s, k, z) =>
                /\ Bytes(s, 0, k * z) = s
                /\ ~ IsBlock(s, k + 1, z)
           /\ ~ IsLast(s, k, z) =>
                /\ Len(Chunk(s, k, z)) = z
                /\ IsBlock(s, k + 1, z)
           /\ Bytes(s, 0, (k - 1) * z) \o Chunk(s, k, z) = Bytes(s, 0, k * z)
<1>1. k \in Nat \ {0} /\ k - 1 \in Nat /\ k + 1 \in Nat \ {0} /\ (k + 1) - 1 = k
        /\ (k - 1) * z <= Len(s) /\ z \in Nat
  BY DEF IsBlock
<1> DEFINE o == (k - 1) * z
<1>2. o \in Nat
  <2>1. \A a, b \in Nat : a * b \in Nat
    OBVIOUS
  <2> QED BY <1>1, <2>1
<1>3. k * z = o + z
  BY <1>1
<1>4. o <= Len(s) /\ Len(s) \in Nat /\ Chunk(s, k, z) = Bytes(s, o, z)
  BY <1>1, LenProperties DEF Chunk
<1>5. IsBlock(s, k + 1, z) <=> o + z <= Len(s)
  BY <1>1, <1>3 DEF IsBlock
<1> HIDE DEF o
<1>6. /\ Bytes(s, o, z) \in Seq(Int)
      /\ Len(Bytes(s, o, z)) = (IF o + z < Len(s) THEN z ELSE Len(s) - o)
  BY <1>1, <1>2, <1>4, BytesProperties
<1>7. Len(Bytes(s, o, z)) < z <=> Len(s) < o + z
  BY <1>1, <1>2, <1>4, <1>6
<1>8. IsLast(s, k, z) <=> Len(s) < o + z
  BY <1>4, <1>7 DEF IsLast
<1>9. Len(s) < o + z => Bytes(s, 0, o + z) = s
  <2>1. o + z \in Nat
    BY <1>1, <1>2
  <2> QED BY <1>4, <2>1, BytesWhole
<1>10. Bytes(s, 0, o) \o Bytes(s, o, z) = Bytes(s, 0, o + z)
  BY <1>1, <1>2, <1>4, BytesAppend
<1>11. Len(Bytes(s, o, z)) \in 0 .. z /\ (~ (Len(s) < o + z) => Len(Bytes(s, o, z)) = z)
  BY <1>1, <1>2, <1>4, <1>6
<1>12. ~ (Len(s) < o + z) <=> o + z <= Len(s)
  BY <1>1, <1>2, <1>4
<1>13. /\ k \in Nat \ {0} /\ o \in Nat /\ o <= Len(s)
       /\ k * z = o + z
       /\ (k + 1) - 1 = k
       /\ Chunk(s, k, z) \in Seq(Int)
       /\ Len(Chunk(s, k, z)) \in 0 .. z
       /\ IsLast(s, k, z) => Bytes(s, 0, k * z) = s /\ ~ IsBlock(s, k + 1, z)
       /\ ~ IsLast(s, k, z) => Len(Chunk(s, k, z)) = z /\ IsBlock(s, k + 1, z)
       /\ Bytes(s, 0, o) \o Chunk(s, k, z) = Bytes(s, 0, k * z)
  BY <1>1, <1>2, <1>3, <1>4, <1>5, <1>6, <1>8, <1>9, <1>10, <1>11, <1>12
<1> QED BY <1>13 DEF o

\* Every file has a first block.
LEMMA FirstBlock ==
    ASSUME NEW s \in Seq(Int), NEW z \in Nat \ {0}
    PROVE  /\ IsBlock(s, 1, z) /\ (1 - 1) * z = 0 /\ Bytes(s, 0, 0) = <<>>
           /\ ~ IsBlock(s, 0, z)
<1>1. (1 - 1) * z = 0 /\ 0 <= Len(s) /\ 1 \in Nat \ {0} /\ 0 \in Nat
  BY LenProperties
<1>2. Bytes(s, 0, 0) \in Seq(Int) /\ Len(Bytes(s, 0, 0)) = 0
  BY <1>1, BytesProperties, LenProperties
<1>3. Bytes(s, 0, 0) = <<>>
  BY <1>2, EmptySeq
<1> QED BY <1>1, <1>3 DEF IsBlock

\* In a file that fits, block numbers do not wrap.
LEMMA BlockFits ==
    ASSUME NEW s \in Seq(Int), NEW k, NEW z \in Nat \ {0}, IsBlock(s, k, z),
           Len(s) < (BlockMod - 1) * z
    PROVE  /\ k \in 1 .. BlockMod - 1
           /\ k % BlockMod = k
           /\ Prev16(k) = k - 1
           /\ IsBlock(s, k + 1, z) => Next16(k) = k + 1
<1>1. BlockMod \in Nat \ {0, 1} /\ k \in Nat \ {0} /\ Len(s) \in Nat
  BY ServerAssumption, LenProperties DEF IsBlock
<1>2. \A j : IsBlock(s, j, z) => j \in 1 .. BlockMod - 1
  <2> SUFFICES ASSUME NEW j, IsBlock(s, j, z), ~ (j < BlockMod) PROVE FALSE
    <3>1. \A j \in Nat \ {0} : j < BlockMod => j \in 1 .. BlockMod - 1
      BY <1>1
    <3> QED BY <3>1 DEF IsBlock
  <2>1. j \in Nat \ {0} /\ (j - 1) * z <= Len(s)
    BY DEF IsBlock
  <2>2. PICK e \in Nat : j - 1 = (BlockMod - 1) + e
    <3>1. j - BlockMod \in Nat /\ j - 1 = (BlockMod - 1) + (j - BlockMod)
      BY <1>1, <2>1
    <3> QED BY <3>1
  <2>3. (j - 1) * z = (BlockMod - 1) * z + e * z
    BY <1>1, <2>2
  <2>4. e * z \in Nat
    <3>1. \A a, b \in Nat : a * b \in Nat
      OBVIOUS
    <3> QED BY <3>1
  <2>5. (BlockMod - 1) * z \in Nat
    <3>1. \A a, b \in Nat : a * b \in Nat
      OBVIOUS
    <3>2. BlockMod - 1 \in Nat
      BY <1>1
    <3> QED BY <3>1, <3>2
  <2> DEFINE x == (BlockMod - 1) * z
             y == (j - 1) * z
             w == e * z
  <2>6. y = x + w /\ w \in Nat /\ x \in Nat /\ y <= Len(s) /\ Len(s) < x
    BY <2>1, <2>3, <2>4, <2>5
  <2> HIDE DEF x, y, w
  <2> QED BY <1>1, <2>6
<1>3. k \in 1 .. BlockMod - 1
  BY <1>2
<1>4. \A a, b \in Nat : a < b => a % b = a
  OBVIOUS
<1>5. k % BlockMod = k
  BY <1>1, <1>3, <1>4
<1>6. Prev16(k) = k - 1
  <2>1. k + BlockMod - 1 = BlockMod + (k - 1) /\ k - 1 \in 0 .. BlockMod - 1
    BY <1>1, <1>3
  <2>2. \A a, b \in Nat : a < b => (b + a) % b = a
    OBVIOUS
  <2>3. (BlockMod + (k - 1)) % BlockMod = k - 1
    <3>1. k - 1 \in Nat /\ k - 1 < BlockMod /\ BlockMod \in Nat
      BY <1>1, <1>3
    <3> QED BY <2>2, <3>1
  <2> QED BY <2>1, <2>3 DEF Prev16
<1>7. ASSUME IsBlock(s, k + 1, z) PROVE Next16(k) = k + 1
  <2>1. k + 1 \in 1 .. BlockMod - 1
    BY <1>2, <1>7
  <2>2. k + 1 \in Nat /\ k + 1 < BlockMod /\ BlockMod \in Nat
    BY <1>1, <2>1
  <2>3. (k + 1) % BlockMod = k + 1
    BY <1>4, <2>2
  <2> QED BY <2>3 DEF Next16
<1> QED BY <1>3, <1>5, <1>6, <1>7

LEMMA PeerFacts ==
    ASSUME NEW p \in Peers
    PROVE  /\ Size(p) \in 1 .. BlockSize /\ Size(p) \in Nat \ {0}
           /\ Upload[p] \in Seq(Int) /\ Served \in Seq(Int) /\ Asked[p] \in Nat
           /\ ~ accepted_option(Asked[p]) => Size(p) = BlockSize
           /\ FilesFit => /\ Len(Upload[p]) < (BlockMod - 1) * Size(p)
                          /\ Len(Served) < (BlockMod - 1) * Size(p)
<1>1. Asked[p] \in Nat /\ Upload[p] \in Seq(Int) /\ Served \in Seq(Int)
        /\ BlockSize \in Nat
  BY ServerAssumption
<1>2. Size(p) \in 1 .. BlockSize
  BY <1>1, BlockSizeType DEF Size
<1>3. Size(p) \in Nat \ {0}
  BY <1>1, <1>2
<1>4. ~ accepted_option(Asked[p]) => Size(p) = BlockSize
  BY DEF Size, parse_request_block_size
<1> QED BY <1>1, <1>2, <1>3, <1>4 DEF FilesFit

-----------------------------------------------------------------------------
(***************************************************************************)
(* What the handlers' steps do to the data.                                *)
(***************************************************************************)

\* A session that outlives its close has no file.
LEMMA CloseRight ==
    ASSUME NEW d, NEW io \in BOOLEAN, Sound(d), SessionRight(d)
    PROVE  /\ SessionRight(tftp_close(d, io))
           /\ tftp_close(d, io).session.active =>
                tftp_close(d, io).files[tftp_close(d, io).fnbr] = NoFile
<1> DEFINE e == tftp_close(d, io)
<1>1. d \in DevType
  BY DEF Sound
<1>2. e.content = d.content /\ e.session \in {d.session, Idle} /\ e.fnbr = d.fnbr
  BY <1>1 DEF tftp_close, DevType
<1>3. e.session.active => e.files[d.fnbr] = NoFile
  BY <1>1 DEF tftp_close, DevType, Idle
<1> HIDE DEF e
<1>4. SessionRight(e)
  BY <1>2 DEF SessionRight, Idle
<1> QED BY <1>2, <1>3, <1>4 DEF e

\* A session that is opened expects block 1 and has read nothing.
LEMMA OpenRight ==
    ASSUME NEW d, NEW m \in Datagram, NEW write \in BOOLEAN,
           Sound(d), ~d.session.active, FreeFnbrs(d) # {}, SessionRight(d),
           m.opt = Asked[m.peer], Mode[m.peer] = IF write THEN "write" ELSE "read"
    PROVE  LET e == OpenFile(d, m, write)
           IN  /\ SessionRight(e)
               /\ e.session.active /\ e.session.peer = m.peer
               /\ e.session.write_mode = write /\ e.session.block = 1
               /\ e.session.block_size = Size(m.peer)
               /\ e.files[e.fnbr] = IF write THEN "dst" ELSE "src"
               /\ e.pos[e.fnbr] = 0 /\ ~e.session.last_data
               /\ write => WriterRight(e)
               /\ ~write => ReaderRight(e)
<1> DEFINE n == FindFreeFileNbr(d)
           s == [active |-> TRUE, write_mode |-> write,
                 last_data |-> FALSE, block |-> 1 % BlockMod,
                 block_size |-> parse_request_block_size(m.opt),
                 peer |-> m.peer]
           name == IF write THEN "dst" ELSE "src"
           dst == IF write THEN <<>> ELSE d.content["dst"]
           e == OpenFile(d, m, write)
<1>1. n \in Fnbrs /\ d \in DevType
  BY FreeNumberExists DEF FreeFnbrs, Sound
<1>2. e = [d EXCEPT !.fnbr = n, !.files[n] = name, !.pos[n] = 0,
                    !.content["dst"] = dst, !.fserror = FALSE, !.session = s]
  BY DEF OpenFile
<1>3. 1 % BlockMod = 1
  <2>1. BlockMod \in Nat /\ 1 < BlockMod
    BY ServerAssumption
  <2>2. \A a, b \in Nat : a < b => a % b = a
    OBVIOUS
  <2> QED BY <2>1, <2>2
<1>4. /\ s.active /\ s.write_mode = write /\ s.peer = m.peer /\ s.block = 1
      /\ ~s.last_data /\ s.block_size = Size(m.peer)
  BY <1>3 DEF Size
<1>5. write => dst = <<>>
  OBVIOUS
<1> HIDE DEF n, s, dst, e
<1>6. /\ e.session = s /\ e.fnbr = n /\ e.files[n] = name /\ e.pos[n] = 0
      /\ e.content["src"] = d.content["src"]
      /\ e.content["dst"] = dst
  BY <1>1, <1>2 DEF DevType, FileNames
<1>7. SessionRight(e)
  BY <1>4, <1>6 DEF SessionRight
<1>8. m.peer \in Peers
  BY DEF Datagram
<1>9. /\ IsBlock(Upload[m.peer], 1, Size(m.peer)) /\ IsBlock(Served, 1, Size(m.peer))
      /\ (1 - 1) * Size(m.peer) = 0
      /\ Bytes(Upload[m.peer], 0, 0) = <<>>
  BY <1>8, PeerFacts, FirstBlock
<1>10. write => WriterRight(e)
  BY <1>4, <1>5, <1>6, <1>9 DEF WriterRight
<1>11. ~write => ReaderRight(e)
  BY <1>4, <1>6, <1>9 DEF ReaderRight
<1>12. /\ e.session.active /\ e.session.peer = m.peer
       /\ e.session.write_mode = write /\ e.session.block = 1
       /\ e.session.block_size = Size(m.peer)
       /\ e.files[e.fnbr] = name
       /\ e.pos[e.fnbr] = 0 /\ ~e.session.last_data
  BY <1>4, <1>6
<1> QED BY <1>7, <1>10, <1>11, <1>12 DEF e

\* The device stands before block session.block of the served file.
Ready(d, cu, mi) ==
    LET p == d.session.peer
        k == d.session.block
    IN  /\ d.session.active /\ ~d.session.write_mode
        /\ p \notin cu => d.files[d.fnbr] = "src"
        /\ p \notin cu \cup mi => /\ IsBlock(Served, k, Size(p))
                                  /\ d.pos[d.fnbr] = (k - 1) * Size(p)

\* A reader's session after a block, and the answer that went out.
SentRight(e, out, p, cu, mi) ==
    /\ SessionRight(e)
    /\ e.session.active /\ e.files[e.fnbr] # NoFile /\ e.session.peer \notin cu
         => DataRight(e, mi)
    /\ \A x \in out :
         /\ x.to = "client" /\ x.peer = p /\ x.op \in {"ERROR", "DATA"}
         /\ x.op = "DATA" /\ p \notin cu \cup mi =>
              /\ IsBlock(Served, x.blk, Size(p))
              /\ x.data = Chunk(Served, x.blk, Size(p))

\* send_data_block reads that block and sends it under its number.
LEMMA SendRight ==
    ASSUME NEW d, NEW fails, NEW cu, NEW mi, Sound(d), SessionRight(d),
           Ready(d, cu, mi)
    PROVE  SentRight(send_data_block(d, fails), DataReply(d, fails),
                     d.session.peer, cu, mi)
<1> DEFINE e == send_data_block(d, fails)
           p == d.session.peer
           k == d.session.block
<1>1. /\ d \in DevType /\ p \in Peers /\ d.session.active /\ ~d.session.write_mode
      /\ p \notin cu => d.files[d.fnbr] = "src"
      /\ p \notin cu \cup mi => /\ IsBlock(Served, k, Size(p))
                                /\ d.pos[d.fnbr] = (k - 1) * Size(p)
  BY DEF Sound, Ready
<1>2. CASE ReadFails(d, fails)
  <2>1. e = tftp_close(d, "reclose" \in fails) /\ ("reclose" \in fails) \in BOOLEAN
    BY <1>2 DEF send_data_block
  <2>2. DataReply(d, fails) = {ToClient(p, "ERROR", 0, <<>>, 0)}
    BY <1>2 DEF DataReply, send_error
  <2>3. \A x \in DataReply(d, fails) :
          x.to = "client" /\ x.peer = p /\ x.op = "ERROR"
    BY <2>2 DEF ToClient
  <2>4. SessionRight(e) /\ (e.session.active => e.files[e.fnbr] = NoFile)
    BY <2>1, CloseRight
  <2> HIDE DEF e
  <2>5. SentRight(e, DataReply(d, fails), p, cu, mi)
    BY <2>3, <2>4 DEF SentRight
  <2> QED BY <2>5 DEF e
<1>3. CASE ~ReadFails(d, fails)
  <2> DEFINE bytes == ReadBytes(d)
             last == LastBlock(d)
             q == d.pos[d.fnbr] + Len(bytes)
  <2>1. e = [d EXCEPT !.session.last_data = last, !.pos[d.fnbr] = q]
    BY <1>3 DEF send_data_block
  <2>2. DataReply(d, fails) = {ToClient(p, "DATA", k, bytes, 0)}
    BY <1>3 DEF DataReply
  <2>3. last = (Len(bytes) < d.session.block_size)
    BY DEF LastBlock
  <2>4. d.files[d.fnbr] = "src" =>
          bytes = Bytes(Served, d.pos[d.fnbr], Size(p))
    BY <1>1 DEF ReadBytes, SessionRight
  <2>5. \A x \in DataReply(d, fails) :
          /\ x.to = "client" /\ x.peer = p /\ x.op = "DATA"
          /\ x.blk = k /\ x.data = bytes
    BY <2>2 DEF ToClient
  <2>6. d.session.block_size = Size(p)
    BY <1>1 DEF SessionRight
  <2> HIDE DEF last, bytes, q, e
  <2>7. /\ e.session.last_data = last /\ e.session.peer = p /\ e.session.block = k
        /\ e.session.active = d.session.active
        /\ e.session.write_mode = d.session.write_mode
        /\ e.session.block_size = d.session.block_size
        /\ e.pos[d.fnbr] = q /\ e.fnbr = d.fnbr /\ e.files = d.files
        /\ e.content = d.content
    BY <1>1, <2>1 DEF DevType, SessionType
  <2>8. SessionRight(e)
    BY <2>7 DEF SessionRight
  <2>9. ASSUME p \notin cu, p \notin mi
        PROVE  bytes = Chunk(Served, k, Size(p)) /\ IsBlock(Served, k, Size(p))
    BY <1>1, <2>4, <2>9 DEF Chunk
  <2>10. ASSUME p \notin cu
         PROVE  DataRight(e, mi)
    <3>1. e.files[e.fnbr] = "src" /\ ~ e.session.write_mode
      BY <1>1, <2>7, <2>10
    <3>2. ASSUME p \notin mi
          PROVE  ReaderRight(e)
      <4>1. q = (k - 1) * Size(p) + Len(Chunk(Served, k, Size(p)))
        BY <1>1, <2>9, <2>10, <3>2 DEF q
      <4>2. last = (Len(Chunk(Served, k, Size(p))) < Size(p))
        BY <2>3, <2>6, <2>9, <2>10, <3>2
      <4> QED BY <2>7, <2>9, <2>10, <3>2, <4>1, <4>2 DEF ReaderRight
    <3> QED BY <2>7, <3>1, <3>2 DEF DataRight
  <2>11. SentRight(e, DataReply(d, fails), p, cu, mi)
    BY <2>5, <2>7, <2>8, <2>9, <2>10 DEF SentRight
  <2> QED BY <2>11 DEF e
<1> QED BY <1>2, <1>3

-----------------------------------------------------------------------------
(***************************************************************************)
(* A handler keeps TransferInv if the device it leaves and the datagrams   *)
(* it sends are right.                                                     *)
(***************************************************************************)
LEMMA HandledRight ==
    ASSUME Inv, TransferInv, NEW m, NEW d, NEW out, Handled(m, d, out),
           mistimed \subseteq mistimed',
           \A p \in Peers \ cut' : stored'[p] = stored[p] \/ stored'[p] = Upload[p],
           SessionRight(d),
           d.session.active /\ d.files[d.fnbr] # NoFile /\ d.session.peer \notin cut
             => DataRight(d, mistimed'),
           \A x \in out : MessageRight(x)'
    PROVE  TransferInv'
<1>1. /\ dev' = d /\ client' = client /\ net' \subseteq net \cup out
      /\ cut \subseteq cut'
      /\ d.session.active /\ d.files[d.fnbr] = NoFile => d.session.peer \in cut'
  BY DEF Handled
<1>2. DevRight(dev', cut', mistimed')
  BY <1>1 DEF DevRight
<1>3. DevRight(dev, cut, mistimed)'
  BY <1>2 DEF DevRight, SessionRight, DataRight, WriterRight, ReaderRight
<1>4. ASSUME NEW x \in net
      PROVE  MessageRight(x)'
  <2>1. MessageRight(x) /\ x.peer \in Peers
    BY DEF TransferInv, NetRight, Inv, Outgoing, Datagram
  <2>2. CASE x.to = "server"
    BY <1>1, <2>1, <2>2 DEF MessageRight, ToServerRight, Asking
  <2>3. CASE x.to # "server"
    <3>1. ToClientRight(x)
      BY <2>1, <2>3 DEF MessageRight
    <3>2. ToClientRight(x)'
      BY <1>1, <2>1, <3>1 DEF ToClientRight, Asking
    <3> QED BY <2>3, <3>2 DEF MessageRight
  <2> QED BY <2>2, <2>3
<1>5. NetRight'
  BY <1>1, <1>4 DEF NetRight
<1>6. ASSUME NEW p \in Peers
      PROVE  ClientRight(p, client[p])'
  <2>1. ClientRight(p, client[p])
    BY DEF TransferInv
  <2>2. client'[p] = client[p]
    BY <1>1
  <2>3. p \notin cut' => p \notin cut /\ (stored'[p] = stored[p] \/ stored'[p] = Upload[p])
    BY <1>1
  <2> QED BY <1>1, <2>1, <2>2, <2>3 DEF ClientRight
<1> QED BY <1>3, <1>5, <1>6 DEF TransferInv

\* The short answers: an ERROR says nothing, an OACK the size, an ACK that
\* the block it names is stored.
LEMMA RepliesRight ==
    ASSUME NEW p \in Peers, NEW b, NEW size
    PROVE  /\ \A x \in send_error(p) : MessageRight(x)'
           /\ size = Size(p) => \A x \in send_oack(p, size) : MessageRight(x)'
           /\ /\ ~ Asking(p)'
              /\ p \notin cut' /\ IsLast(Upload[p], b, Size(p)) => stored'[p] = Upload[p]
              => \A x \in send_ack(p, b) : MessageRight(x)'
<1>1. \A x \in send_error(p) : MessageRight(x)'
  BY DEF send_error, ToClient, MessageRight, ToClientRight
<1>2. size = Size(p) => \A x \in send_oack(p, size) : MessageRight(x)'
  BY DEF send_oack, ToClient, MessageRight, ToClientRight
<1>3. ASSUME ~ Asking(p)',
             p \notin cut' /\ IsLast(Upload[p], b, Size(p)) => stored'[p] = Upload[p],
             NEW x \in send_ack(p, b)
      PROVE  MessageRight(x)'
  <2>1. x.to = "client" /\ x.op = "ACK" /\ x.peer = p /\ x.blk = b
    BY <1>3 DEF send_ack, ToClient
  <2> QED BY <1>3, <2>1 DEF MessageRight, ToClientRight
<1> QED BY <1>1, <1>2, <1>3

\* What a request of m's peer leads to.
LEMMA StartRight ==
    ASSUME FilesFit, Inv, TransferInv, NEW m \in net, NEW write \in BOOLEAN,
           m.to = "server", m.op = IF write THEN "WRQ" ELSE "RRQ", Start(m, write)
    PROVE  TransferInv'
<1>1. m \in Datagram /\ m.peer \in Peers /\ Sound(dev) /\ SessionRight(dev)
  BY DEF Inv, Outgoing, Datagram, TransferInv, DevRight
<1>2. m.opt = Asked[m.peer] /\ Mode[m.peer] = IF write THEN "write" ELSE "read"
  <2>1. ToServerRight(m)
    BY DEF TransferInv, NetRight, MessageRight
  <2> QED BY <2>1 DEF ToServerRight
<1>3. PICK fails \in SUBSET {"mount", "open", "read", "close", "reclose"} :
        LET d == tftp_close(dev, "close" \in fails)
            o == OpenFile(d, m, write)
        IN  /\ UNCHANGED <<stored, mistimed>>
            /\ IF d.session.active THEN Handled(m, d, {})
               ELSE IF "mount" \in fails THEN Handled(m, d, send_error(m.peer))
               ELSE IF FreeFnbrs(d) = {} THEN Handled(m, d, {})
               ELSE IF "open" \in fails
                    THEN Handled(m, [d EXCEPT !.fnbr = FindFreeFileNbr(d),
                                              !.fserror = TRUE], {})
               ELSE IF accepted_option(m.opt)
                    THEN Handled(m, o, send_oack(m.peer, o.session.block_size))
               ELSE IF write THEN Handled(m, o, send_ack(m.peer, 0))
               ELSE Handled(m, send_data_block(o, fails), DataReply(o, fails))
  BY DEF Start
<1> DEFINE d == tftp_close(dev, "close" \in fails)
           o == OpenFile(d, m, write)
           e == [d EXCEPT !.fnbr = FindFreeFileNbr(d), !.fserror = TRUE]
<1>4. /\ Sound(d) /\ SessionRight(d)
      /\ d.session.active => d.files[d.fnbr] = NoFile
  <2>1. ("close" \in fails) \in BOOLEAN
    OBVIOUS
  <2> QED BY <1>1, <2>1, CloseKeepsOwnership, CloseRight
<1>5. UNCHANGED <<stored, mistimed>>
  BY <1>3
<1>6. \A x \in send_error(m.peer) : MessageRight(x)'
  BY <1>1, RepliesRight
<1>7. CASE d.session.active \/ "mount" \in fails \/ FreeFnbrs(d) = {}
  <2>1. Handled(m, d, {}) \/ Handled(m, d, send_error(m.peer))
    BY <1>3, <1>7
  <2> HIDE DEF d
  <2> QED BY <1>4, <1>5, <1>6, <2>1, HandledRight
<1>8. CASE ~d.session.active /\ "mount" \notin fails /\ FreeFnbrs(d) # {}
  <2>1. \/ Handled(m, e, {})
        \/ accepted_option(m.opt) /\ Handled(m, o, send_oack(m.peer, o.session.block_size))
        \/ ~accepted_option(m.opt) /\ write /\ Handled(m, o, send_ack(m.peer, 0))
        \/ /\ ~accepted_option(m.opt) /\ ~write
           /\ Handled(m, send_data_block(o, fails), DataReply(o, fails))
    BY <1>3, <1>8
  <2> HIDE DEF d
  <2>2. SessionRight(e) /\ ~e.session.active
    BY <1>4, <1>8 DEF SessionRight, Sound, DevType
  <2>3. /\ SessionRight(o)
        /\ o.session.active /\ o.session.peer = m.peer
        /\ o.session.write_mode = write /\ o.session.block = 1
        /\ o.session.block_size = Size(m.peer)
        /\ o.files[o.fnbr] = IF write THEN "dst" ELSE "src"
        /\ o.pos[o.fnbr] = 0
        /\ write => WriterRight(o)
        /\ ~write => ReaderRight(o)
    BY <1>1, <1>2, <1>4, <1>8, OpenRight
  <2>4. Sound(o)
    BY <1>1, <1>4, <1>8, OpenTakesOwnership
  <2> HIDE DEF o, e
  <2>5. DataRight(o, mistimed')
    BY <2>3 DEF DataRight
  <2>6. CASE Handled(m, e, {})
    BY <1>5, <2>2, <2>6, HandledRight
  <2>7. CASE Handled(m, o, send_oack(m.peer, o.session.block_size))
    <3>1. \A x \in send_oack(m.peer, o.session.block_size) : MessageRight(x)'
      BY <1>1, <2>3, RepliesRight
    <3> QED BY <1>5, <2>3, <2>5, <2>7, <3>1, HandledRight
  <2>a. ASSUME ~accepted_option(m.opt), client' = client
        PROVE  ~ Asking(m.peer)'
    BY <1>2, <2>a DEF Asking
  <2>8. CASE ~accepted_option(m.opt) /\ write /\ Handled(m, o, send_ack(m.peer, 0))
    <3>1. client' = client
      BY <2>8 DEF Handled
    <3>2. ~ IsLast(Upload[m.peer], 0, Size(m.peer))
      BY <1>1, PeerFacts, FirstBlock DEF IsLast
    <3>3. \A x \in send_ack(m.peer, 0) : MessageRight(x)'
      BY <1>1, <2>8, <2>a, <3>1, <3>2, RepliesRight
    <3> QED BY <1>5, <2>3, <2>5, <2>8, <3>3, HandledRight
  <2>9. CASE /\ ~accepted_option(m.opt) /\ ~write
             /\ Handled(m, send_data_block(o, fails), DataReply(o, fails))
    <3>1. client' = client /\ cut \subseteq cut'
      BY <2>9 DEF Handled
    <3>2. Ready(o, cut, mistimed')
      <4>1. (1 - 1) * Size(m.peer) = 0 /\ IsBlock(Served, 1, Size(m.peer))
        BY <1>1, PeerFacts, FirstBlock
      <4> QED BY <2>3, <2>9, <4>1 DEF Ready
    <3> DEFINE s == send_data_block(o, fails)
    <3>3. SentRight(s, DataReply(o, fails), m.peer, cut, mistimed')
      BY <2>3, <2>4, <3>2, SendRight
    <3> HIDE DEF s
    <3>4. ASSUME NEW x \in DataReply(o, fails)
          PROVE  MessageRight(x)'
      <4>1. /\ x.to = "client" /\ x.peer = m.peer /\ x.op \in {"ERROR", "DATA"}
            /\ x.op = "DATA" /\ x.peer \notin cut \cup mistimed' =>
                 /\ IsBlock(Served, x.blk, Size(x.peer))
                 /\ x.data = Chunk(Served, x.blk, Size(x.peer))
        BY <3>3 DEF SentRight
      <4>2. ~ Asking(x.peer)'
        BY <2>9, <2>a, <3>1, <4>1
      <4>3. ToClientRight(x)'
        BY <3>1, <4>1, <4>2 DEF ToClientRight
      <4> QED BY <4>1, <4>3 DEF MessageRight
    <3>5. Handled(m, s, DataReply(o, fails))
      BY <2>9 DEF s
    <3> QED BY <1>5, <3>3, <3>4, <3>5, HandledRight DEF SentRight
  <2> QED BY <2>1, <2>6, <2>7, <2>8, <2>9
<1> QED BY <1>7, <1>8

\* An ACK moves a reader on by one block, from where the session really is.
LEMMA HandleAckRight ==
    ASSUME FilesFit, Inv, TransferInv, NEW m \in net, HandleAck(m)
    PROVE  TransferInv'
<1> DEFINE p == dev.session.peer
           k == dev.session.block
           z == Size(p)
           next == [dev EXCEPT !.session.block = Next16(@)]
<1>1. /\ m.to = "server" /\ m.op = "ACK" /\ m.peer = p /\ p \in Peers
      /\ dev.session.active /\ ~dev.session.write_mode
      /\ UNCHANGED stored
      /\ mistimed' = IF Mistimed(m) THEN mistimed \cup {m.peer} ELSE mistimed
  BY DEF HandleAck, Arrives, OfTransfer, Inv, Sound
<1>2. PICK fails \in SUBSET {"read", "close", "reclose"} :
        IF StartsData(m)
        THEN Handled(m, send_data_block(dev, fails), DataReply(dev, fails))
        ELSE IF m.blk # dev.session.block
        THEN Handled(m, dev, {})
        ELSE IF dev.session.last_data
        THEN Handled(m, tftp_close(dev, "close" \in fails), {})
        ELSE Handled(m, send_data_block(next, fails), DataReply(next, fails))
  BY DEF HandleAck
<1>3. /\ Sound(dev) /\ SessionRight(dev) /\ dev \in DevType
      /\ p \notin cut => DataRight(dev, mistimed)
      /\ mistimed \subseteq mistimed'
  BY <1>1 DEF Inv, Sound, TransferInv, DevRight
<1>4. p \notin cut => dev.files[dev.fnbr] = "src"
  BY <1>1, <1>3 DEF DataRight
<1>5. p \notin cut \cup mistimed' => ReaderRight(dev) /\ ~Mistimed(m)
  BY <1>1, <1>3 DEF DataRight
<1>6. ~Asking(p)
  BY <1>1 DEF TransferInv, NetRight, MessageRight, ToServerRight
<1>7. ASSUME NEW d, NEW x \in DataReply(d, fails), client' = client, cut \subseteq cut',
             SentRight(send_data_block(d, fails), DataReply(d, fails), p, cut, mistimed')
      PROVE  MessageRight(x)'
  <2>1. /\ x.to = "client" /\ x.peer = p /\ x.op \in {"ERROR", "DATA"}
        /\ x.op = "DATA" /\ x.peer \notin cut \cup mistimed' =>
             /\ IsBlock(Served, x.blk, Size(x.peer))
             /\ x.data = Chunk(Served, x.blk, Size(x.peer))
    BY <1>7 DEF SentRight
  <2>2. ~ Asking(x.peer)'
    BY <1>6, <1>7, <2>1 DEF Asking
  <2>3. ToClientRight(x)'
    BY <1>7, <2>1, <2>2 DEF ToClientRight
  <2> QED BY <2>1, <2>3 DEF MessageRight
<1>8. ASSUME NEW d, Sound(d), SessionRight(d), d.session.peer = p, Ready(d, cut, mistimed'),
             Handled(m, send_data_block(d, fails), DataReply(d, fails))
      PROVE  TransferInv'
  <2> DEFINE s == send_data_block(d, fails)
  <2>1. SentRight(s, DataReply(d, fails), p, cut, mistimed')
    BY <1>8, SendRight
  <2>2. client' = client /\ cut \subseteq cut'
    BY <1>8 DEF Handled
  <2>3. \A x \in DataReply(d, fails) : MessageRight(x)'
    BY <1>7, <2>1, <2>2
  <2>4. Handled(m, s, DataReply(d, fails))
    BY <1>8
  <2> HIDE DEF s
  <2> QED BY <1>1, <1>3, <2>1, <2>3, <2>4, HandledRight DEF SentRight
<1>9. CASE StartsData(m)
  <2>1. p \notin cut \cup mistimed' => dev.pos[dev.fnbr] = 0 /\ k = 1
    BY <1>5, <1>9 DEF StartsData, Mistimed, DataSent
  <2>2. (1 - 1) * z = 0
    BY <1>1, PeerFacts, FirstBlock
  <2>3. Ready(dev, cut, mistimed')
    BY <1>1, <1>4, <1>5, <2>1, <2>2 DEF Ready, ReaderRight
  <2> QED BY <1>2, <1>3, <1>8, <1>9, <2>3
<1>10. CASE ~StartsData(m) /\ m.blk # dev.session.block
  <2>1. Handled(m, dev, {})
    BY <1>2, <1>10
  <2>2. p \notin cut => DataRight(dev, mistimed')
    BY <1>3 DEF DataRight
  <2> QED BY <1>1, <1>3, <2>1, <2>2, HandledRight
<1>11. CASE ~StartsData(m) /\ m.blk = dev.session.block /\ dev.session.last_data
  <2> DEFINE e == tftp_close(dev, "close" \in fails)
  <2>1. Handled(m, e, {})
    BY <1>2, <1>11
  <2>2. SessionRight(e) /\ (e.session.active => e.files[e.fnbr] = NoFile)
    <3>1. ("close" \in fails) \in BOOLEAN
      OBVIOUS
    <3> QED BY <1>3, <3>1, CloseRight
  <2> HIDE DEF e
  <2> QED BY <1>1, <1>3, <2>1, <2>2, HandledRight
<1>12. CASE ~StartsData(m) /\ m.blk = dev.session.block /\ ~dev.session.last_data
  <2>1. Handled(m, send_data_block(next, fails), DataReply(next, fails))
    BY <1>2, <1>12
  <2>2. Next16(k) \in 0 .. BlockMod - 1
    <3>1. k \in Nat
      BY <1>3, ServerAssumption DEF DevType, SessionType
    <3> QED BY <3>1, BlockArithmetic
  <2>3. /\ next \in DevType /\ next.session.block = Next16(k)
        /\ next.session.active = dev.session.active
        /\ next.session.write_mode = dev.session.write_mode
        /\ next.session.peer = p
        /\ next.session.block_size = dev.session.block_size
        /\ next.fnbr = dev.fnbr /\ next.files = dev.files /\ next.pos = dev.pos
        /\ next.content = dev.content
    BY <1>3, <2>2 DEF DevType, SessionType
  <2> HIDE DEF next
  <2>4. Sound(next) /\ SessionRight(next)
    BY <1>3, <2>3 DEF Sound, Owned, SessionRight
  <2>5. ASSUME p \notin cut \cup mistimed'
        PROVE  /\ IsBlock(Served, Next16(k), z)
               /\ dev.pos[dev.fnbr] = (Next16(k) - 1) * z
    <3> DEFINE bytes == Chunk(Served, k, z)
    <3>0. IsBlock(Served, k, z)
      BY <1>5, <2>5 DEF ReaderRight
    <3>1. z \in Nat \ {0} /\ Served \in Seq(Int) /\ Len(Served) < (BlockMod - 1) * z
      BY <1>1, PeerFacts
    <3>2. dev.pos[dev.fnbr] = (k - 1) * z + Len(bytes) /\ ~ (Len(bytes) < z)
      <4>1. ~ (k = 1 /\ dev.pos[dev.fnbr] = 0 /\ ~dev.session.last_data)
        BY <1>5, <1>12, <2>5 DEF Mistimed, DataSent
      <4> QED BY <1>5, <1>12, <2>5, <4>1 DEF ReaderRight
    <3>3. ~ IsLast(Served, k, z)
      BY <3>2 DEF IsLast
    <3>4. Len(bytes) = z /\ IsBlock(Served, k + 1, z) /\ k * z = (k - 1) * z + z
            /\ (k + 1) - 1 = k
      BY <3>0, <3>1, <3>3, BlockProperties
    <3>5. Next16(k) = k + 1
      BY <3>0, <3>1, <3>4, BlockFits
    <3> QED BY <3>2, <3>4, <3>5
  <2>6. Ready(next, cut, mistimed')
    BY <1>1, <1>4, <2>3, <2>5 DEF Ready
  <2> QED BY <1>8, <2>1, <2>3, <2>4, <2>6
<1> QED BY <1>9, <1>10, <1>11, <1>12

\* A DATA block appends its bytes to the uploaded file.
LEMMA WrittenRight ==
    ASSUME FilesFit, Inv, TransferInv, NEW m \in net, NEW n \in 0 .. Len(m.data),
           m.to = "server", m.op = "DATA", OfTransfer(m, TRUE), ~OutOfOrder(m),
           m.data # <<>> => dev.files[dev.fnbr] # NoFile
    PROVE  LET w == Written(m, n)
               p == m.peer
               k == dev.session.block
           IN  /\ SessionRight(w) /\ SessionRight(Accepted(w))
               /\ n = Len(m.data) /\ p \notin cut =>
                    /\ w.content["dst"] = Bytes(Upload[p], 0, k * Size(p))
                    /\ IsBlock(Upload[p], k, Size(p))
                    /\ m.data = Chunk(Upload[p], k, Size(p))
                    /\ w.files[w.fnbr] = "dst"
               /\ w.session = dev.session
<1> DEFINE w == Written(m, n)
           p == m.peer
           k == dev.session.block
           z == Size(p)
           f == dev.files[dev.fnbr]
           bytes == SubSeq(m.data, 1, n)
<1>1. /\ dev \in DevType /\ SessionRight(dev) /\ p \in Peers /\ dev.session.peer = p
      /\ dev.session.active /\ dev.session.write_mode /\ m.blk = k
      /\ p \notin cut => WriterRight(dev)
      /\ m \in Datagram
  BY DEF Inv, Sound, TransferInv, DevRight, DataRight, OfTransfer, OutOfOrder, Outgoing, Datagram
<1>2. IsBlock(Upload[p], k, z) /\ m.data = Chunk(Upload[p], k, z)
  <2>1. ToServerRight(m)
    BY DEF TransferInv, NetRight, MessageRight
  <2> QED BY <1>1, <2>1 DEF ToServerRight
<1>3. f # "src"
  BY <1>1 DEF Inv, Sound, Owned, DevType
<1>4. n = Len(m.data) => bytes = m.data
  <2>1. m.data \in Seq(Int)
    BY <1>1 DEF Datagram
  <2> QED BY <2>1, SubSeqFull
<1>5. /\ w.session = dev.session /\ w.fnbr = dev.fnbr /\ w.files = dev.files
      /\ w.content["src"] = Served
      /\ n = Len(m.data) /\ f = "dst" => w.content["dst"] = dev.content["dst"] \o m.data
  <2>1. CASE m.data = <<>>
    <3>1. dev.content["dst"] \in Seq(Int)
      BY <1>1 DEF DevType, FileNames
    <3>2. dev.content["dst"] \o <<>> = dev.content["dst"]
      BY <3>1, ConcatEmptySeq
    <3>3. w = dev
      BY <2>1 DEF Written
    <3> HIDE DEF w
    <3> QED BY <1>1, <2>1, <3>2, <3>3 DEF SessionRight
  <2>2. CASE m.data # <<>>
    <3>1. f \in FileNames
      BY <1>1, <2>2 DEF DevType
    <3>2. w = [dev EXCEPT !.content[f] = @ \o bytes, !.fserror = FALSE]
      BY <2>2 DEF Written
    <3> HIDE DEF f, w, bytes
    <3>3. /\ w.session = dev.session /\ w.fnbr = dev.fnbr /\ w.files = dev.files
          /\ w.content["src"] = dev.content["src"]
          /\ f = "dst" => w.content["dst"] = dev.content["dst"] \o bytes
      BY <1>1, <1>3, <3>1, <3>2 DEF DevType, FileNames
    <3> QED BY <1>1, <1>4, <3>3 DEF SessionRight
  <2> QED BY <2>1, <2>2
<1> HIDE DEF w
<1>6. SessionRight(w)
  BY <1>1, <1>5 DEF SessionRight
<1>7. SessionRight(Accepted(w))
  <2>1. w \in DevType
    BY <1>1, WrittenSound DEF w, Sound
  <2>2. /\ Accepted(w).content = w.content
        /\ Accepted(w).session.active = w.session.active
        /\ Accepted(w).session.peer = w.session.peer
        /\ Accepted(w).session.write_mode = w.session.write_mode
        /\ Accepted(w).session.block_size = w.session.block_size
    BY <2>1 DEF Accepted, DevType, SessionType
  <2> QED BY <1>6, <2>2 DEF SessionRight
<1>8. ASSUME n = Len(m.data), p \notin cut
      PROVE  /\ w.content["dst"] = Bytes(Upload[p], 0, k * z)
             /\ w.files[w.fnbr] = "dst"
  <2>1. f = "dst" /\ dev.content["dst"] = Bytes(Upload[p], 0, (k - 1) * z)
    BY <1>1, <1>8 DEF WriterRight
  <2>2. Bytes(Upload[p], 0, (k - 1) * z) \o Chunk(Upload[p], k, z) = Bytes(Upload[p], 0, k * z)
    <3> DEFINE u == Upload[p]
    <3>1. z \in Nat \ {0} /\ u \in Seq(Int) /\ IsBlock(u, k, z)
      BY <1>1, <1>2, PeerFacts
    <3> HIDE DEF z, k, u
    <3>2. Bytes(u, 0, (k - 1) * z) \o Chunk(u, k, z) = Bytes(u, 0, k * z)
      BY <3>1, BlockProperties
    <3> QED BY <3>2 DEF u
  <2> QED BY <1>2, <1>5, <1>8, <2>1, <2>2
<1>9. /\ SessionRight(w) /\ SessionRight(Accepted(w))
      /\ n = Len(m.data) /\ p \notin cut =>
           /\ w.content["dst"] = Bytes(Upload[p], 0, k * z)
           /\ IsBlock(Upload[p], k, z)
           /\ m.data = Chunk(Upload[p], k, z)
           /\ w.files[w.fnbr] = "dst"
      /\ w.session = dev.session
  BY <1>2, <1>5, <1>6, <1>7, <1>8
<1> QED BY <1>9 DEF w

LEMMA HandleDataRight ==
    ASSUME FilesFit, Inv, TransferInv, NEW m \in net, HandleData(m)
    PROVE  TransferInv'
<1> DEFINE p == m.peer
           k == dev.session.block
           z == Size(p)
           u == Upload[p]
<1>1. /\ m.to = "server" /\ m.op = "DATA" /\ OfTransfer(m, TRUE) /\ m \in Datagram
      /\ dev.session.peer = p /\ p \in Peers /\ dev.session.active /\ dev.session.write_mode
      /\ Sound(dev) /\ SessionRight(dev) /\ dev \in DevType
      /\ p \notin cut => WriterRight(dev)
  BY DEF HandleData, Arrives, OfTransfer, Inv, Sound, TransferInv, DevRight, DataRight,
         Outgoing, Datagram
<1>2. ~Asking(p)
  BY <1>1 DEF TransferInv, NetRight, MessageRight, ToServerRight
<1>3. z \in Nat \ {0} /\ u \in Seq(Int) /\ Len(u) < (BlockMod - 1) * z
  BY <1>1, PeerFacts
<1>4. dev.session.block_size = z
  BY <1>1 DEF SessionRight
<1>5. CASE OutOfOrder(m)
  <2>1. /\ Handled(m, dev, send_ack(p, Prev16(k)))
        /\ UNCHANGED <<stored, mistimed>>
    BY <1>5 DEF HandleData
  <2>2. client' = client /\ cut \subseteq cut'
    BY <2>1 DEF Handled
  <2>3. ASSUME p \notin cut
        PROVE  ~ IsLast(u, Prev16(k), z)
    <3>1. IsBlock(u, k, z)
      BY <1>1, <2>3 DEF WriterRight
    <3> HIDE DEF k, z, u
    <3>2. Prev16(k) = k - 1 /\ k \in Nat \ {0}
      BY <1>3, <3>1, BlockFits DEF IsBlock
    <3>3. k - 1 + 1 = k
      BY <3>2
    <3>4. IsLast(u, k - 1, z) => ~ IsBlock(u, k - 1 + 1, z)
      <4> DEFINE j == k - 1
      <4> HIDE DEF j
      <4>1. IsLast(u, j, z) => ~ IsBlock(u, j + 1, z)
        BY <1>3, BlockProperties DEF IsLast
      <4> QED BY <4>1 DEF j
    <3> QED BY <3>1, <3>2, <3>3, <3>4
  <2>4. ~ Asking(p)'
    BY <1>2, <2>2 DEF Asking
  <2>5. \A x \in send_ack(p, Prev16(k)) : MessageRight(x)'
    BY <1>1, <2>2, <2>3, <2>4, RepliesRight
  <2>6. p \notin cut => DataRight(dev, mistimed')
    BY <1>1 DEF DataRight
  <2> QED BY <1>1, <2>1, <2>5, <2>6, HandledRight
<1>6. CASE ~OutOfOrder(m)
  <2>1. PICK fails \in SUBSET {"write", "short", "close"}, n \in 0 .. Len(m.data) :
            /\ UNCHANGED mistimed
            /\ IF WriteThrows(m, fails)
               THEN /\ Handled(m, [dev EXCEPT !.files[dev.fnbr] = NoFile,
                                              !.fserror = TRUE], {})
                    /\ UNCHANGED stored
               ELSE IF ShortWrite(m, n)
               THEN /\ Handled(m, tftp_close(Written(m, n), "close" \in fails),
                               send_error(m.peer))
                    /\ UNCHANGED stored
               ELSE IF Len(m.data) < dev.session.block_size
               THEN /\ Handled(m, tftp_close(Accepted(Written(m, n)), "close" \in fails),
                               send_ack(m.peer, m.blk))
                    /\ stored' = [stored EXCEPT ![m.peer] =
                                    Written(m, n).content["dst"]]
               ELSE /\ Handled(m, Accepted(Written(m, n)), send_ack(m.peer, m.blk))
                    /\ UNCHANGED stored
    BY <1>6 DEF HandleData
  <2>2. ("close" \in fails) \in BOOLEAN
    OBVIOUS
  <2>3. CASE WriteThrows(m, fails)
    <3> DEFINE e == [dev EXCEPT !.files[dev.fnbr] = NoFile, !.fserror = TRUE]
    <3>1. Handled(m, e, {}) /\ UNCHANGED <<stored, mistimed>>
      BY <2>1, <2>3
    <3>2. e.session = dev.session /\ e.content = dev.content /\ e.files[e.fnbr] = NoFile
      BY <1>1 DEF DevType
    <3> HIDE DEF e
    <3>3. SessionRight(e)
      BY <1>1, <3>2 DEF SessionRight
    <3> QED BY <3>1, <3>2, <3>3, HandledRight
  <2>4. CASE ~WriteThrows(m, fails)
    <3> DEFINE w == Written(m, n)
               a == Accepted(w)
    <3>1. m.data # <<>> => dev.files[dev.fnbr] # NoFile
      BY <2>4 DEF WriteThrows
    <3>2. /\ SessionRight(w) /\ SessionRight(a)
          /\ n = Len(m.data) /\ p \notin cut =>
               /\ w.content["dst"] = Bytes(u, 0, k * z)
               /\ IsBlock(u, k, z)
               /\ m.data = Chunk(u, k, z)
               /\ w.files[w.fnbr] = "dst"
          /\ w.session = dev.session
      BY <1>1, <1>6, <3>1, WrittenRight
    <3>3. Sound(w) /\ Sound(a)
      BY <1>1, <3>1, WrittenSound
    <3>4. m.blk = k
      BY <1>6 DEF OutOfOrder
    <3>5. CASE ShortWrite(m, n)
      <4> DEFINE e == tftp_close(w, "close" \in fails)
      <4>1. Handled(m, e, send_error(m.peer)) /\ UNCHANGED <<stored, mistimed>>
        BY <2>1, <2>4, <3>5
      <4> HIDE DEF w
      <4>2. SessionRight(e) /\ (e.session.active => e.files[e.fnbr] = NoFile)
        BY <2>2, <3>2, <3>3, CloseRight
      <4> HIDE DEF e
      <4>3. \A x \in send_error(m.peer) : MessageRight(x)'
        BY <1>1, RepliesRight
      <4> QED BY <4>1, <4>2, <4>3, HandledRight
    <3>6. CASE ~ShortWrite(m, n) /\ Len(m.data) < dev.session.block_size
      <4> DEFINE e == tftp_close(a, "close" \in fails)
                 bytes == w.content["dst"]
      <4>1. /\ Handled(m, e, send_ack(p, k)) /\ UNCHANGED mistimed
            /\ stored' = [stored EXCEPT ![p] = bytes]
        BY <2>1, <2>4, <3>4, <3>6
      <4> HIDE DEF w, a
      <4>2. SessionRight(e) /\ (e.session.active => e.files[e.fnbr] = NoFile)
        BY <2>2, <3>2, <3>3, CloseRight
      <4> HIDE DEF e
      <4>3. client' = client /\ cut \subseteq cut'
        BY <4>1 DEF Handled
      <4>4. p \notin cut => bytes = u
        <5> SUFFICES ASSUME p \notin cut PROVE bytes = u
          OBVIOUS
        <5>1. n = Len(m.data)
          BY <3>6 DEF ShortWrite
        <5>2. IsLast(u, k, z)
          BY <1>4, <3>2, <3>6, <5>1 DEF IsLast
        <5>3. Bytes(u, 0, k * z) = u
          <6> HIDE DEF u, k, z
          <6> QED BY <1>3, <5>2, BlockProperties DEF IsLast
        <5> QED BY <3>2, <5>1, <5>3
      <4> HIDE DEF bytes
      <4>5. stored'[p] = bytes /\ \A q \in Peers \ {p} : stored'[q] = stored[q]
        BY <1>1, <4>1 DEF Inv, TypeOK
      <4>6. ~ Asking(p)'
        BY <1>2, <4>3 DEF Asking
      <4>7. \A x \in send_ack(p, k) : MessageRight(x)'
        BY <1>1, <4>3, <4>4, <4>5, <4>6, RepliesRight
      <4>8. \A q \in Peers \ cut' : stored'[q] = stored[q] \/ stored'[q] = Upload[q]
        BY <4>3, <4>4, <4>5
      <4> QED BY <4>1, <4>2, <4>7, <4>8, HandledRight
    <3>7. CASE ~ShortWrite(m, n) /\ ~(Len(m.data) < dev.session.block_size)
      <4>1. Handled(m, a, send_ack(p, k)) /\ UNCHANGED <<stored, mistimed>>
        BY <2>1, <2>4, <3>4, <3>7
      <4>2. client' = client /\ cut \subseteq cut'
        BY <4>1 DEF Handled
      <4>3. ~ Asking(p)'
        BY <1>2, <4>2 DEF Asking
      <4>4. n = Len(m.data)
        BY <3>7 DEF ShortWrite
      <4> HIDE DEF w
      <4>5. /\ a.session.peer = p /\ a.session.write_mode
            /\ a.session.block = Next16(k) /\ a.files[a.fnbr] = w.files[w.fnbr]
            /\ a.content = w.content
        BY <1>1, <3>2, <3>3 DEF Accepted, Sound, DevType, SessionType
      <4> HIDE DEF a
      <4>6. ASSUME p \notin cut
            PROVE  ~ IsLast(u, k, z) /\ DataRight(a, mistimed')
        <5>1. ~ IsLast(u, k, z) /\ IsBlock(u, k, z)
          BY <1>4, <3>2, <3>7, <4>4, <4>6 DEF IsLast
        <5>2. IsBlock(u, k + 1, z) /\ (k + 1) - 1 = k
          <6> HIDE DEF u, k, z
          <6> QED BY <1>3, <5>1, BlockProperties
        <5>3. Next16(k) = k + 1
          <6> HIDE DEF u, k, z
          <6> QED BY <1>3, <5>1, <5>2, BlockFits
        <5>4. a.content["dst"] = Bytes(u, 0, k * z) /\ a.files[a.fnbr] = "dst"
          BY <3>2, <4>4, <4>5, <4>6
        <5>5. WriterRight(a)
          BY <4>5, <5>2, <5>3, <5>4 DEF WriterRight
        <5> QED BY <4>5, <5>1, <5>5 DEF DataRight
      <4>7. \A x \in send_ack(p, k) : MessageRight(x)'
        BY <1>1, <4>2, <4>3, <4>6, RepliesRight
      <4> QED BY <3>2, <4>1, <4>5, <4>6, <4>7, HandledRight
    <3> QED BY <3>5, <3>6, <3>7
  <2> QED BY <2>3, <2>4
<1> QED BY <1>5, <1>6

LEMMA PollRight ==
    ASSUME FilesFit, Inv, TransferInv, Poll
    PROVE  TransferInv'
<1>1. PICK m \in net :
        \/ BadRequest(m) \/ StartRead(m) \/ StartWrite(m)
        \/ HandleData(m) \/ HandleAck(m) \/ HandleError(m) \/ Ignored(m)
  BY DEF Poll
<1>2. /\ m.peer \in Peers /\ Sound(dev) /\ SessionRight(dev)
      /\ dev.session.active /\ dev.session.peer \notin cut => DataRight(dev, mistimed)
  BY DEF Inv, Outgoing, Datagram, TransferInv, DevRight
<1>3. CASE BadRequest(m)
  <2>1. Handled(m, dev, send_error(m.peer)) /\ UNCHANGED <<stored, mistimed>>
    BY <1>3 DEF BadRequest
  <2>2. \A x \in send_error(m.peer) : MessageRight(x)'
    BY <1>2, RepliesRight
  <2> QED BY <1>2, <2>1, <2>2, HandledRight
<1>4. CASE StartRead(m)
  BY <1>4, StartRight DEF StartRead, Arrives
<1>5. CASE StartWrite(m)
  BY <1>5, StartRight DEF StartWrite, Arrives
<1>6. CASE HandleData(m)
  BY <1>6, HandleDataRight
<1>7. CASE HandleAck(m)
  BY <1>7, HandleAckRight
<1>8. CASE HandleError(m)
  <2>1. PICK fails \in SUBSET {"close"} :
          Handled(m, tftp_close(dev, "close" \in fails), {})
    BY <1>8 DEF HandleError
  <2> DEFINE e == tftp_close(dev, "close" \in fails)
  <2>2. ("close" \in fails) \in BOOLEAN
    OBVIOUS
  <2>3. SessionRight(e) /\ (e.session.active => e.files[e.fnbr] = NoFile)
    BY <1>2, <2>2, CloseRight
  <2>4. UNCHANGED <<stored, mistimed>>
    BY <1>8 DEF HandleError
  <2>5. Handled(m, e, {})
    BY <2>1
  <2> HIDE DEF e
  <2> QED BY <2>3, <2>4, <2>5, HandledRight
<1>9. CASE Ignored(m)
  <2>1. Handled(m, dev, {}) /\ UNCHANGED <<stored, mistimed>>
    BY <1>9 DEF Ignored
  <2> QED BY <1>2, <2>1, HandledRight
<1> QED BY <1>1, <1>3, <1>4, <1>5, <1>6, <1>7, <1>8, <1>9

-----------------------------------------------------------------------------
\* RUN, OPTION TFTP and the program's own file do not touch the file of a
\* session that is not cut.
LEMMA DeviceStepRight ==
    ASSUME Inv, TransferInv, NEW d, dev' = d, SessionRight(d), cut \subseteq cut',
           d.session.active /\ d.session.peer \notin cut' => DataRight(d, mistimed),
           UNCHANGED <<net, client, stored, mistimed>>
    PROVE  TransferInv'
<1>1. DevRight(dev', cut', mistimed')
  BY DEF DevRight
<1>2. DevRight(dev, cut, mistimed)'
  BY <1>1 DEF DevRight, SessionRight, DataRight, WriterRight, ReaderRight
<1>3. ASSUME NEW x \in net
      PROVE  MessageRight(x)'
  <2>1. MessageRight(x)
    BY DEF TransferInv, NetRight
  <2>2. CASE x.to = "server"
    BY <2>1, <2>2 DEF MessageRight, ToServerRight, Asking
  <2>3. CASE x.to # "server"
    <3>1. ToClientRight(x)
      BY <2>1, <2>3 DEF MessageRight
    <3>2. ToClientRight(x)'
      BY <2>1, <3>1 DEF ToClientRight, Asking
    <3> QED BY <2>3, <3>2 DEF MessageRight
  <2> QED BY <2>2, <2>3
<1>4. NetRight'
  BY <1>3 DEF NetRight
<1>5. ASSUME NEW p \in Peers
      PROVE  ClientRight(p, client[p])'
  <2>1. ClientRight(p, client[p])
    BY DEF TransferInv
  <2> QED BY <2>1 DEF ClientRight
<1> QED BY <1>2, <1>4, <1>5 DEF TransferInv

LEMMA DeviceRight ==
    ASSUME Inv, TransferInv,
           \/ ClearRuntime \/ TftpOff \/ TftpOn
           \/ \E n \in Fnbrs : BasicFileOpen(n) \/ BasicFileClose(n)
    PROVE  TransferInv'
<1>1. /\ dev \in DevType /\ Sound(dev) /\ SessionRight(dev)
      /\ dev.session.active /\ dev.session.peer \notin cut => DataRight(dev, mistimed)
  BY DEF Inv, Sound, TransferInv, DevRight
<1>2. CASE ClearRuntime
  <2> DEFINE d == [dev EXCEPT !.files = [n \in Fnbrs |-> NoFile],
                              !.fserror = @ /\ FreeFnbrs(dev) = Fnbrs]
  <2>1. dev' = d /\ UNCHANGED <<net, client, stored, mistimed>>
    BY <1>2 DEF ClearRuntime
  <2>2. d.session = dev.session /\ d.content = dev.content
    BY <1>1 DEF DevType
  <2>3. cut \subseteq cut' /\ (dev.session.active => dev.session.peer \in cut')
    BY <1>2 DEF ClearRuntime
  <2> HIDE DEF d
  <2>4. SessionRight(d)
    BY <1>1, <2>2 DEF SessionRight
  <2> QED BY <2>1, <2>2, <2>3, <2>4, DeviceStepRight
<1>3. CASE TftpOff
  <2>1. PICK fails \in SUBSET {"close"} :
          LET d == tftp_close(dev, "close" \in fails)
          IN  /\ dev' = d
              /\ cut' = IF d.session.active THEN cut \cup {d.session.peer} ELSE cut
    BY <1>3 DEF TftpOff
  <2> DEFINE d == tftp_close(dev, "close" \in fails)
  <2>2. ("close" \in fails) \in BOOLEAN
    OBVIOUS
  <2>3. SessionRight(d)
    BY <1>1, <2>2, CloseRight
  <2>4. dev' = d /\ cut \subseteq cut' /\ (d.session.active => d.session.peer \in cut')
    BY <2>1
  <2>5. UNCHANGED <<net, client, stored, mistimed>>
    BY <1>3 DEF TftpOff
  <2> HIDE DEF d
  <2> QED BY <2>3, <2>4, <2>5, DeviceStepRight
<1>4. CASE TftpOn
  <2>1. dev' = dev /\ cut' = cut /\ UNCHANGED <<net, client, stored, mistimed>>
    BY <1>4 DEF TftpOn
  <2> QED BY <1>1, <2>1, DeviceStepRight
<1>5. ASSUME NEW n \in Fnbrs, BasicFileOpen(n)
      PROVE  TransferInv'
  <2> DEFINE d == [dev EXCEPT !.files[n] = "basic", !.pos[n] = 0,
                              !.content["basic"] = <<>>, !.fserror = FALSE]
  <2>1. /\ dev' = d /\ cut' = cut /\ UNCHANGED <<net, client, stored, mistimed>>
        /\ dev.files[n] = NoFile
    BY <1>5 DEF BasicFileOpen
  <2>2. /\ d.session = dev.session /\ d.fnbr = dev.fnbr
        /\ d.content["src"] = dev.content["src"] /\ d.content["dst"] = dev.content["dst"]
        /\ n # dev.fnbr => /\ d.files[dev.fnbr] = dev.files[dev.fnbr]
                           /\ d.pos[dev.fnbr] = dev.pos[dev.fnbr]
    BY <1>1 DEF DevType, FileNames
  <2> HIDE DEF d
  <2>3. SessionRight(d)
    BY <1>1, <2>2 DEF SessionRight
  <2>4. ASSUME d.session.active, d.session.peer \notin cut'
        PROVE  DataRight(d, mistimed)
    <3>1. DataRight(dev, mistimed)
      BY <1>1, <2>1, <2>2, <2>4
    <3>2. n # dev.fnbr
      BY <2>1, <3>1 DEF DataRight, WriterRight, NoFile
    <3> QED BY <2>2, <3>1, <3>2 DEF DataRight, WriterRight, ReaderRight
  <2> QED BY <2>1, <2>3, <2>4, DeviceStepRight
<1>6. ASSUME NEW n \in Fnbrs, BasicFileClose(n)
      PROVE  TransferInv'
  <2> DEFINE d == [dev EXCEPT !.files[n] = NoFile, !.fserror = FALSE]
  <2>1. /\ dev' = d /\ UNCHANGED <<net, client, stored, mistimed>>
        /\ cut \subseteq cut'
        /\ dev.session.active /\ dev.fnbr = n => dev.session.peer \in cut'
    BY <1>6 DEF BasicFileClose
  <2>2. /\ d.session = dev.session /\ d.fnbr = dev.fnbr /\ d.pos = dev.pos
        /\ d.content = dev.content
        /\ n # dev.fnbr => d.files[dev.fnbr] = dev.files[dev.fnbr]
    BY <1>1 DEF DevType
  <2> HIDE DEF d
  <2>3. SessionRight(d)
    BY <1>1, <2>2 DEF SessionRight
  <2>4. ASSUME d.session.active, d.session.peer \notin cut'
        PROVE  DataRight(d, mistimed)
    <3>1. DataRight(dev, mistimed) /\ n # dev.fnbr
      BY <1>1, <2>1, <2>2, <2>4
    <3> QED BY <2>2, <3>1 DEF DataRight, WriterRight, ReaderRight
  <2> QED BY <2>1, <2>3, <2>4, DeviceStepRight
<1> QED BY <1>2, <1>3, <1>4, <1>5, <1>6

-----------------------------------------------------------------------------
(***************************************************************************)
(* The clients.                                                            *)
(***************************************************************************)
LEMMA ClientStepRight ==
    ASSUME Inv, TransferInv, NEW p \in Peers, NEW c, NEW packets,
           \/ ClientSends(p, c, packets)
           \/ \E m \in net : ClientMove(p, m, c, packets),
           ClientRight(p, c),
           c.st \in {"idle", "asked"} => client[p].st \in {"idle", "asked"},
           \A x \in packets : MessageRight(x)'
    PROVE  TransferInv'
<1>1. /\ client' = [client EXCEPT ![p] = c]
      /\ net' \subseteq net \cup packets
      /\ UNCHANGED <<dev, stored, cut, mistimed>>
  BY DEF ClientSends, ClientMove
<1>2. /\ client'[p] = c
      /\ \A q \in Peers : q # p => client'[q] = client[q]
  BY <1>1 DEF Inv, TypeOK
<1>3. DevRight(dev, cut, mistimed)'
  BY <1>1 DEF TransferInv, DevRight, SessionRight, DataRight, WriterRight, ReaderRight
<1>4. \A q \in Peers : Asking(q)' => Asking(q)
  BY <1>2 DEF Asking
<1>5. ASSUME NEW x \in net
      PROVE  MessageRight(x)'
  <2>1. MessageRight(x) /\ x.peer \in Peers
    BY DEF TransferInv, NetRight, Inv, Outgoing, Datagram
  <2>2. CASE x.to = "server"
    BY <1>4, <2>1, <2>2 DEF MessageRight, ToServerRight
  <2>3. CASE x.to # "server"
    <3>1. ToClientRight(x)
      BY <2>1, <2>3 DEF MessageRight
    <3>2. ToClientRight(x)'
      BY <1>1, <1>4, <2>1, <3>1 DEF ToClientRight
    <3> QED BY <2>3, <3>2 DEF MessageRight
  <2> QED BY <2>2, <2>3
<1>6. NetRight'
  BY <1>1, <1>5 DEF NetRight
<1>7. ASSUME NEW q \in Peers
      PROVE  ClientRight(q, client[q])'
  <2>1. CASE q = p
    BY <1>1, <1>2, <2>1 DEF ClientRight
  <2>2. CASE q # p
    <3>1. ClientRight(q, client[q]) /\ client'[q] = client[q]
      BY <1>2, <2>2 DEF TransferInv
    <3> QED BY <1>1, <3>1 DEF ClientRight
  <2> QED BY <2>1, <2>2
<1> QED BY <1>3, <1>6, <1>7 DEF TransferInv

\* What the clients send is right: block b of an upload goes under its number.
LEMMA ClientPacketsRight ==
    ASSUME FilesFit, NEW p \in Peers, NEW b
    PROVE  /\ MessageRight(Request(p))'
           /\ MessageRight(ToServer(p, "ERROR", 0, <<>>, 0))'
           /\ ~ Asking(p)' => MessageRight(ClientAck(p, b))'
           /\ ~ Asking(p)' /\ IsBlock(Upload[p], b, Size(p)) =>
                MessageRight(ClientData(p, b, Size(p)))'
<1>1. MessageRight(Request(p))'
  BY DEF Request, ToServer, MessageRight, ToServerRight
<1>2. MessageRight(ToServer(p, "ERROR", 0, <<>>, 0))'
  BY DEF ToServer, MessageRight, ToServerRight
<1>3. ~ Asking(p)' => MessageRight(ClientAck(p, b))'
  BY DEF ClientAck, ToServer, MessageRight, ToServerRight
<1>4. ASSUME ~ Asking(p)', IsBlock(Upload[p], b, Size(p))
      PROVE  MessageRight(ClientData(p, b, Size(p)))'
  <2> DEFINE x == ClientData(p, b, Size(p))
  <2>1. b % BlockMod = b
    <3> DEFINE u == Upload[p]
               z == Size(p)
    <3>1. z \in Nat \ {0} /\ u \in Seq(Int) /\ IsBlock(u, b, z)
            /\ Len(u) < (BlockMod - 1) * z
      BY <1>4, PeerFacts
    <3> HIDE DEF u, z
    <3> QED BY <3>1, BlockFits
  <2>2. /\ x.to = "server" /\ x.op = "DATA" /\ x.peer = p /\ x.blk = b
        /\ x.data = Chunk(Upload[p], b, Size(p))
    BY <2>1 DEF ClientData, ToServer, Chunk
  <2> HIDE DEF x
  <2>3. MessageRight(x)'
    BY <1>4, <2>2 DEF MessageRight, ToServerRight
  <2> QED BY <2>3 DEF x
<1> QED BY <1>1, <1>2, <1>3, <1>4

\* The client sent its next state's packets: it no longer waits for an answer.
LEMMA NotAsking ==
    ASSUME Inv, NEW p \in Peers, NEW c, client' = [client EXCEPT ![p] = c],
           c.st \notin {"idle", "asked"}
    PROVE  ~ Asking(p)'
BY DEF Inv, TypeOK, Asking

\* A datagram always moves a client past its request.
LEMMA ClientMoveRight ==
    ASSUME Inv, TransferInv, NEW p \in Peers, NEW m \in net, NEW c, NEW packets,
           ClientMove(p, m, c, packets), ClientRight(p, c),
           c.st \notin {"idle", "asked"},
           \A x \in packets : MessageRight(x)'
    PROVE  TransferInv'
<1>1. \E y \in net : ClientMove(p, y, c, packets)
  OBVIOUS
<1> QED BY <1>1, ClientStepRight

LEMMA GetsOackRight ==
    ASSUME FilesFit, Inv, TransferInv, NEW p \in Peers, NEW m \in net,
           ClientGetsOack(p, m)
    PROVE  TransferInv'
<1> DEFINE c == client[p]
           z == Size(p)
<1>1. c \in ClientType /\ ClientRight(p, c) /\ c.st = "asked"
  BY DEF Inv, TypeOK, TransferInv, ClientGetsOack
<1>2. m.to = "client" /\ m.peer = p /\ m.op = "OACK"
  BY DEF ClientGetsOack, ClientMove
<1>3. m.opt = z
  BY <1>2 DEF TransferInv, NetRight, MessageRight, ToClientRight
<1>4. /\ z \in Nat \ {0} /\ Upload[p] \in Seq(Int) /\ Served \in Seq(Int)
      /\ IsBlock(Upload[p], 1, z) /\ Bytes(Served, 0, 0) = <<>>
  BY PeerFacts, FirstBlock
<1>5. c.blk = 0 /\ c.got = <<>>
  BY <1>1 DEF ClientRight
<1>6. CASE Mode[p] = "read"
  <2> DEFINE e == [c EXCEPT !.st = "transfer", !.size = m.opt]
  <2>1. ClientMove(p, m, e, {ClientAck(p, 0)})
    BY <1>6 DEF ClientGetsOack
  <2>2. e.st = "transfer" /\ e.size = z /\ e.blk = 0 /\ e.got = <<>>
    BY <1>1, <1>3, <1>5 DEF ClientType
  <2> HIDE DEF e, c
  <2>3. Len(<<>>) = 0 /\ 0 * z = 0
    BY <1>4
  <2> HIDE DEF z
  <2>4. ClientRight(p, e)
    <3>1. Len(e.got) = e.blk * z /\ e.got = Bytes(Served, 0, Len(e.got))
      BY <1>4, <2>2, <2>3
    <3> QED BY <1>6, <2>2, <3>1 DEF ClientRight, z
  <2>5. client' = [client EXCEPT ![p] = e]
    BY <2>1 DEF ClientMove
  <2>6. ~ Asking(p)'
    BY <2>2, <2>5, NotAsking
  <2>7. \A x \in {ClientAck(p, 0)} : MessageRight(x)'
    BY <2>6, ClientPacketsRight
  <2> QED BY <2>1, <2>2, <2>4, <2>7, ClientMoveRight
<1>7. CASE Mode[p] # "read"
  <2> DEFINE e == [c EXCEPT !.st = "transfer", !.size = m.opt, !.blk = 1]
  <2>1. ClientMove(p, m, e, {ClientData(p, 1, z)})
    BY <1>3, <1>7 DEF ClientGetsOack
  <2>2. e.st = "transfer" /\ e.size = z /\ e.blk = 1
    BY <1>1, <1>3 DEF ClientType
  <2> HIDE DEF e, c
  <2>4. ClientRight(p, e)
    BY <1>4, <1>7, <2>2 DEF ClientRight
  <2>5. client' = [client EXCEPT ![p] = e]
    BY <2>1 DEF ClientMove
  <2>6. ~ Asking(p)'
    BY <2>2, <2>5, NotAsking
  <2>7. \A x \in {ClientData(p, 1, z)} : MessageRight(x)'
    BY <1>4, <2>6, ClientPacketsRight
  <2> QED BY <2>1, <2>2, <2>4, <2>7, ClientMoveRight
<1> QED BY <1>6, <1>7

\* A client in a transfer knows the size: it was told, or it is the default.
LEMMA SizeKnown ==
    ASSUME Inv, TransferInv, NEW p \in Peers, ~Asking(p),
           client[p].st \in {"asked", "transfer"}
    PROVE  client[p].size = Size(p)
<1>1. ClientRight(p, client[p])
  BY DEF TransferInv
<1>2. CASE client[p].st = "transfer"
  BY <1>1, <1>2 DEF ClientRight
<1>3. CASE client[p].st = "asked"
  BY <1>1, <1>3, PeerFacts DEF ClientRight, Asking
<1> QED BY <1>2, <1>3

\* The block a reader waits for is a block of the served file.
LEMMA ReaderWaits ==
    ASSUME FilesFit, Inv, TransferInv, NEW p \in Peers, Mode[p] = "read",
           client[p].st \in {"asked", "transfer"}, p \notin cut \cup mistimed
    PROVE  LET c == client[p]
           IN  /\ c.got = Bytes(Served, 0, Len(c.got))
               /\ Len(c.got) = c.blk * Size(p)
               /\ IsBlock(Served, c.blk + 1, Size(p)) /\ (c.blk + 1) - 1 = c.blk
               /\ (c.blk + 1) % BlockMod = c.blk + 1 /\ c.blk % BlockMod = c.blk
<1> DEFINE c == client[p]
           z == Size(p)
           b == c.blk
           got == c.got
<1>1. c \in ClientType /\ ClientRight(p, c)
  BY DEF Inv, TypeOK, TransferInv
<1>2. b \in Nat /\ z \in Nat \ {0} /\ Served \in Seq(Int) /\ Len(Served) < (BlockMod - 1) * z
  BY <1>1, PeerFacts DEF ClientType
<1>3. got = Bytes(Served, 0, Len(got)) /\ Len(got) = b * z
  <2>1. CASE c.st = "transfer"
    BY <1>1, <2>1 DEF ClientRight
  <2>2. CASE c.st = "asked"
    <3>1. got = <<>> /\ b = 0
      BY <1>1, <2>2 DEF ClientRight
    <3>2. Len(<<>>) = 0 /\ 0 * z = 0 /\ Bytes(Served, 0, 0) = <<>>
      BY <1>2, FirstBlock
    <3> HIDE DEF got, b
    <3> QED BY <3>1, <3>2
  <2> QED BY <2>1, <2>2
<1> HIDE DEF c, b, z, got
<1>4. b * z <= Len(Served)
  <2> DEFINE o == b * z
  <2>1. o \in Nat
    <3>1. \A x, y \in Nat : x * y \in Nat
      OBVIOUS
    <3> QED BY <1>2, <3>1
  <2>2. Len(Bytes(Served, 0, o)) = o
    BY <1>3
  <2> HIDE DEF o
  <2>3. Len(Served) \in Nat /\ 0 \in Nat /\ 0 <= Len(Served)
    BY <1>2, LenProperties
  <2>4. Len(Bytes(Served, 0, o)) = IF 0 + o < Len(Served) THEN o ELSE Len(Served) - 0
    BY <1>2, <2>1, <2>3, BytesProperties
  <2>5. o <= Len(Served)
    BY <2>1, <2>2, <2>3, <2>4
  <2> QED BY <2>5 DEF o
<1> DEFINE k == b + 1
<1>5. k \in Nat \ {0} /\ k - 1 = b
  BY <1>2
<1>6. IsBlock(Served, k, z)
  BY <1>4, <1>5 DEF IsBlock
<1>7. k \in 1 .. BlockMod - 1 /\ k % BlockMod = k
  <2> HIDE DEF k
  <2> QED BY <1>2, <1>6, BlockFits
<1>8. b % BlockMod = b
  <2>1. \A x, y \in Nat : x < y => x % y = x
    OBVIOUS
  <2>2. b < BlockMod /\ BlockMod \in Nat
    BY <1>2, <1>7, ServerAssumption
  <2> QED BY <1>2, <2>1, <2>2
<1> QED BY <1>3, <1>5, <1>6, <1>7, <1>8 DEF c, z, b, got

LEMMA GetsDataRight ==
    ASSUME FilesFit, Inv, TransferInv, NEW p \in Peers, NEW m \in net,
           ClientGetsData(p, m)
    PROVE  TransferInv'
<1> DEFINE c == client[p]
           z == Size(p)
           b == c.blk
           st == IF Len(m.data) < c.size THEN "done" ELSE "transfer"
           e == [c EXCEPT !.blk = @ + 1, !.got = @ \o m.data, !.st = st]
<1>1. /\ c \in ClientType /\ ClientRight(p, c) /\ c.st \in {"asked", "transfer"}
      /\ Mode[p] = "read" /\ m.blk = (b + 1) % BlockMod
  BY DEF Inv, TypeOK, TransferInv, ClientGetsData
<1>2. /\ m.to = "client" /\ m.peer = p /\ m.op = "DATA"
      /\ ClientMove(p, m, e, {ClientAck(p, b + 1)})
  BY DEF ClientGetsData, ClientMove
<1>3. ToClientRight(m)
  BY <1>2 DEF TransferInv, NetRight, MessageRight
<1>4. c.size = z
  <2>1. ~Asking(p)
    BY <1>2, <1>3 DEF ToClientRight
  <2> QED BY <1>1, <2>1, SizeKnown
<1>5. z \in Nat \ {0} /\ Served \in Seq(Int) /\ Len(Served) < (BlockMod - 1) * z
  BY PeerFacts
<1>6. b \in Nat /\ c.got \in Seq(Int)
  BY <1>1 DEF ClientType
<1>7. /\ e.blk = b + 1 /\ e.got = c.got \o m.data /\ e.st = st
      /\ e.size = z /\ e.st \in {"done", "transfer"}
      /\ e.st = "done" <=> Len(m.data) < z
  BY <1>1, <1>4 DEF ClientType
<1>8. ASSUME p \notin cut \cup mistimed
      PROVE  /\ e.got = Bytes(Served, 0, Len(e.got))
             /\ e.st = "transfer" => Len(e.got) = e.blk * z
             /\ e.st = "done" => e.got = Served
  <2> DEFINE got == c.got
             data == m.data
  <2>1. IsBlock(Served, m.blk, z) /\ data = Chunk(Served, m.blk, z)
    BY <1>2, <1>3, <1>8 DEF ToClientRight
  <2>2. /\ got = Bytes(Served, 0, Len(got)) /\ Len(got) = b * z
        /\ IsBlock(Served, b + 1, z) /\ (b + 1) - 1 = b /\ (b + 1) % BlockMod = b + 1
    BY <1>1, <1>8, ReaderWaits
  <2>3. e.got = got \o data
    BY <1>7
  <2> HIDE DEF e, c, b, z, got, data
  <2> DEFINE k == b + 1
  <2>6. m.blk = k
    BY <1>1, <2>2 DEF b, c
  <2>7. /\ Bytes(Served, 0, b * z) \o Chunk(Served, k, z) = Bytes(Served, 0, k * z)
        /\ IsLast(Served, k, z) => Bytes(Served, 0, k * z) = Served
        /\ ~IsLast(Served, k, z) => Len(Chunk(Served, k, z)) = z
        /\ k * z = b * z + z
        /\ Chunk(Served, k, z) \in Seq(Int)
    <3>1. IsBlock(Served, k, z) /\ k - 1 = b
      BY <2>2
    <3> HIDE DEF k
    <3>2. /\ Bytes(Served, 0, (k - 1) * z) \o Chunk(Served, k, z) = Bytes(Served, 0, k * z)
          /\ IsLast(Served, k, z) => Bytes(Served, 0, k * z) = Served
          /\ ~IsLast(Served, k, z) => Len(Chunk(Served, k, z)) = z
          /\ k * z = (k - 1) * z + z
          /\ Chunk(Served, k, z) \in Seq(Int)
      <4> DEFINE f == Served
      <4>1. f \in Seq(Int) /\ IsBlock(f, k, z)
        BY <1>5, <3>1
      <4> HIDE DEF f
      <4>2. /\ Bytes(f, 0, (k - 1) * z) \o Chunk(f, k, z) = Bytes(f, 0, k * z)
            /\ IsLast(f, k, z) => Bytes(f, 0, k * z) = f
            /\ ~IsLast(f, k, z) => Len(Chunk(f, k, z)) = z
            /\ k * z = (k - 1) * z + z
            /\ Chunk(f, k, z) \in Seq(Int)
        BY SMTT(30), <1>5, <4>1, BlockProperties
      <4> QED BY <4>2 DEF f
    <3> QED BY <3>1, <3>2
  <2>8. IsLast(Served, k, z) <=> e.st = "done"
    <3>1. IsLast(Served, k, z) <=> Len(data) < z
      BY <2>1, <2>6 DEF IsLast
    <3> QED BY <1>7, <3>1 DEF data
  <2>9. e.got = Bytes(Served, 0, k * z)
    BY <2>1, <2>2, <2>3, <2>6, <2>7
  <2>10. CASE e.st = "done"
    <3>1. e.got = Served
      BY <2>7, <2>8, <2>9, <2>10
    <3>2. Bytes(Served, 0, Len(Served)) = Served
      BY <1>5, BytesWhole, LenProperties
    <3> QED BY <2>10, <3>1, <3>2
  <2>11. CASE e.st = "transfer"
    <3>1. Len(data) = z
      BY <2>1, <2>6, <2>7, <2>8, <2>11
    <3>2. Len(e.got) = Len(got) + Len(data)
      <4>1. got \in Seq(Int) /\ data \in Seq(Int)
        BY <1>6, <2>1, <2>6, <2>7 DEF got
      <4> QED BY <2>3, <4>1, ConcatProperties
    <3>3. Len(e.got) = k * z
      BY <2>2, <2>7, <3>1, <3>2
    <3> QED BY <1>7, <2>9, <2>11, <3>3
  <2> QED BY <1>7, <2>10, <2>11
<1> HIDE DEF e, c, st
<1>9. ClientRight(p, e)
  BY <1>1, <1>7, <1>8 DEF ClientRight
<1>10. client' = [client EXCEPT ![p] = e]
  BY <1>2 DEF ClientMove
<1>11. ~ Asking(p)'
  BY <1>7, <1>10, NotAsking
<1>12. \A x \in {ClientAck(p, b + 1)} : MessageRight(x)'
  BY <1>11, ClientPacketsRight
<1> QED BY <1>2, <1>7, <1>9, <1>12, ClientMoveRight

LEMMA GetsAckRight ==
    ASSUME FilesFit, Inv, TransferInv, NEW p \in Peers, NEW m \in net,
           ClientGetsAck(p, m)
    PROVE  TransferInv'
<1> DEFINE c == client[p]
           z == Size(p)
           b == c.blk
           u == Upload[p]
<1>1. /\ c \in ClientType /\ ClientRight(p, c) /\ c.st \in {"asked", "transfer"}
      /\ Mode[p] = "write" /\ m.blk = b % BlockMod /\ m.op = "ACK"
  BY DEF Inv, TypeOK, TransferInv, ClientGetsAck
<1>2. m.to = "client" /\ m.peer = p
  BY DEF ClientGetsAck, ClientMove
<1>3. ToClientRight(m)
  BY <1>2 DEF TransferInv, NetRight, MessageRight
<1>4. c.size = z
  <2>1. ~Asking(p)
    BY <1>1, <1>2, <1>3 DEF ToClientRight
  <2> QED BY <1>1, <2>1, SizeKnown
<1>5. z \in Nat \ {0} /\ u \in Seq(Int) /\ Len(u) < (BlockMod - 1) * z
  BY PeerFacts
<1>6. b \in Nat
  BY <1>1 DEF ClientType
<1>7. b # 0 => IsBlock(u, b, z)
  BY <1>1 DEF ClientRight
<1>8. IF b # 0 /\ Len(Chunk(u, b, z)) < z
      THEN ClientMove(p, m, [c EXCEPT !.st = "done"], {})
      ELSE ClientMove(p, m, [c EXCEPT !.st = "transfer", !.blk = @ + 1],
                      {ClientData(p, b + 1, z)})
  BY <1>4 DEF ClientGetsAck, Chunk
<1>9. CASE b # 0 /\ Len(Chunk(u, b, z)) < z
  <2> DEFINE e == [c EXCEPT !.st = "done"]
  <2>1. ClientMove(p, m, e, {}) /\ e.st = "done"
    BY <1>1, <1>8, <1>9 DEF ClientType
  <2>2. IsLast(u, b, z)
    BY <1>7, <1>9 DEF IsLast
  <2>3. m.blk = b
    <3>1. b % BlockMod = b
      <4> HIDE DEF u, b, z, c
      <4> QED BY <1>5, <1>7, <1>9, BlockFits
    <3> QED BY <1>1, <3>1
  <2>4. p \notin cut => stored[p] = u
    BY <1>1, <1>2, <1>3, <2>2, <2>3 DEF ToClientRight
  <2> HIDE DEF e, c
  <2>5. ClientRight(p, e)
    BY <1>1, <2>1, <2>4 DEF ClientRight
  <2>6. \A x \in {} : MessageRight(x)'
    OBVIOUS
  <2> QED BY <2>1, <2>5, <2>6, ClientMoveRight
<1>10. CASE ~ (b # 0 /\ Len(Chunk(u, b, z)) < z)
  <2> DEFINE e == [c EXCEPT !.st = "transfer", !.blk = @ + 1]
  <2>1. ClientMove(p, m, e, {ClientData(p, b + 1, z)})
    BY <1>8, <1>10
  <2>2. e.st = "transfer" /\ e.blk = b + 1 /\ e.size = z
    BY <1>1, <1>4 DEF ClientType
  <2>3. IsBlock(u, b + 1, z)
    <3> HIDE DEF u, b, z, c
    <3>1. CASE b = 0
      <4>1. 0 + 1 = 1
        OBVIOUS
      <4> QED BY <1>5, <3>1, <4>1, FirstBlock
    <3>2. CASE b # 0
      <4>1. ~ IsLast(u, b, z)
        BY <1>10, <3>2 DEF IsLast
      <4> QED BY <1>5, <1>7, <3>2, <4>1, BlockProperties
    <3> QED BY <3>1, <3>2
  <2> HIDE DEF e, c
  <2>4. ClientRight(p, e)
    BY <1>1, <2>2, <2>3 DEF ClientRight
  <2>5. client' = [client EXCEPT ![p] = e]
    BY <2>1 DEF ClientMove
  <2>6. ~ Asking(p)'
    BY <2>2, <2>5, NotAsking
  <2>7. \A x \in {ClientData(p, b + 1, z)} : MessageRight(x)'
    BY <2>3, <2>6, ClientPacketsRight
  <2> QED BY <2>1, <2>2, <2>4, <2>7, ClientMoveRight
<1> QED BY <1>9, <1>10

LEMMA ClientStepsRight ==
    ASSUME FilesFit, Inv, TransferInv, NEW p \in Peers, Client(p)
    PROVE  TransferInv'
<1> DEFINE c == client[p]
<1>1. c \in ClientType /\ ClientRight(p, c)
  BY DEF Inv, TypeOK, TransferInv
<1>2. CASE ClientStart(p)
  <2> DEFINE e == [c EXCEPT !.st = "asked"]
  <2>1. ClientSends(p, e, {Request(p)}) /\ c.st = "idle"
    BY <1>2 DEF ClientStart
  <2>2. /\ e.st = "asked" /\ e.blk = c.blk /\ e.got = c.got /\ e.size = c.size
    BY <1>1 DEF ClientType
  <2> HIDE DEF e
  <2>3. ClientRight(p, e)
    BY <1>1, <2>1, <2>2 DEF ClientRight
  <2>4. \A x \in {Request(p)} : MessageRight(x)'
    BY ClientPacketsRight
  <2> QED BY <2>1, <2>2, <2>3, <2>4, ClientStepRight
<1>3. CASE ClientTimeout(p)
  <2> DEFINE e == [c EXCEPT !.tries = @ + 1]
  <2>1. ClientSends(p, e, {LastPacket(p)}) /\ c.st \in {"asked", "transfer"}
    BY <1>3 DEF ClientTimeout
  <2>2. e.st = c.st /\ e.blk = c.blk /\ e.got = c.got /\ e.size = c.size
    BY <1>1 DEF ClientType
  <2> HIDE DEF e
  <2>3. ClientRight(p, e)
    BY <1>1, <2>2 DEF ClientRight
  <2>4. client'[p].st = c.st
    BY <2>1, <2>2 DEF ClientSends, Inv, TypeOK
  <2>5. ASSUME NEW x \in {LastPacket(p)}
        PROVE  MessageRight(x)'
    <3>1. CASE c.st = "asked"
      <4>1. x = Request(p)
        BY <3>1 DEF LastPacket
      <4>2. \A y \in {Request(p)} : MessageRight(y)'
        BY ClientPacketsRight
      <4> QED BY <4>1, <4>2
    <3>2. CASE c.st = "transfer" /\ Mode[p] = "read"
      <4>1. x = ClientAck(p, c.blk)
        BY <3>2 DEF LastPacket
      <4>2. ~ Asking(p)'
        BY <2>4, <3>2 DEF Asking
      <4>3. \A y \in {ClientAck(p, c.blk)} : MessageRight(y)'
        BY <4>2, ClientPacketsRight
      <4> QED BY <4>1, <4>3
    <3>3. CASE c.st = "transfer" /\ Mode[p] # "read"
      <4>1. x = ClientData(p, c.blk, Size(p)) /\ IsBlock(Upload[p], c.blk, Size(p))
        BY <1>1, <3>3 DEF LastPacket, ClientRight
      <4>2. ~ Asking(p)'
        BY <2>4, <3>3 DEF Asking
      <4>3. \A y \in {ClientData(p, c.blk, Size(p))} : MessageRight(y)'
        BY <4>1, <4>2, ClientPacketsRight
      <4> QED BY <4>1, <4>3
    <3> QED BY <2>1, <3>1, <3>2, <3>3
  <2>6. ClientSends(p, e, {LastPacket(p)}) /\ (e.st \in {"idle", "asked"} => c.st \in {"idle", "asked"})
    BY <2>1, <2>2
  <2> DEFINE packets == {LastPacket(p)}
  <2>7. ClientSends(p, e, packets) /\ \A x \in packets : MessageRight(x)'
    BY <2>1, <2>5
  <2> HIDE DEF packets
  <2> QED BY <2>3, <2>6, <2>7, ClientStepRight
<1>4. CASE ClientGivesUp(p)
  <2> DEFINE e == [c EXCEPT !.st = "failed"]
  <2>1. PICK packets \in {{}, {ToServer(p, "ERROR", 0, <<>>, 0)}} :
          ClientSends(p, e, packets)
    BY <1>4 DEF ClientGivesUp
  <2>2. e.st = "failed" /\ e.blk = c.blk /\ e.got = c.got /\ e.size = c.size
    BY <1>1 DEF ClientType
  <2> HIDE DEF e
  <2>3. ClientRight(p, e)
    BY <1>1, <2>2 DEF ClientRight
  <2>4. \A x \in {ToServer(p, "ERROR", 0, <<>>, 0)} : MessageRight(x)'
    BY ClientPacketsRight
  <2>5. \A x \in packets : MessageRight(x)'
    BY <2>1, <2>4
  <2>6. ~ (e.st \in {"idle", "asked"})
    BY <2>2
  <2> QED BY <2>1, <2>3, <2>5, <2>6, ClientStepRight
<1>5. ASSUME NEW m \in net, ClientGetsError(p, m)
      PROVE  TransferInv'
  <2> DEFINE e == [c EXCEPT !.st = "failed"]
  <2>1. ClientMove(p, m, e, {})
    BY <1>5 DEF ClientGetsError
  <2>2. e.st = "failed" /\ e.blk = c.blk /\ e.got = c.got /\ e.size = c.size
    BY <1>1 DEF ClientType
  <2> HIDE DEF e
  <2>3. ClientRight(p, e)
    BY <1>1, <2>2 DEF ClientRight
  <2>4. e.st \notin {"idle", "asked"} /\ \A x \in {} : MessageRight(x)'
    BY <2>2
  <2> QED BY <2>1, <2>3, <2>4, ClientMoveRight
<1> QED BY <1>2, <1>3, <1>4, <1>5, GetsOackRight, GetsDataRight, GetsAckRight
        DEF Client, ClientReceives

-----------------------------------------------------------------------------
LEMMA InitRight == Init => TransferInv
<1> SUFFICES ASSUME Init PROVE TransferInv
  OBVIOUS
<1>1. DevRight(dev, cut, mistimed)
  BY DEF Init, DevRight, SessionRight, Idle, FileNames
<1>2. NetRight
  BY DEF Init, NetRight
<1>3. ASSUME NEW p \in Peers
      PROVE  ClientRight(p, client[p])
  <2>1. /\ client[p].st = "idle" /\ client[p].blk = 0 /\ client[p].got = <<>>
        /\ client[p].size = BlockSize
    BY DEF Init
  <2>2. Len(<<>>) = 0 /\ Bytes(Served, 0, 0) = <<>>
    BY PeerFacts, FirstBlock
  <2>3. client[p].got = Bytes(Served, 0, Len(client[p].got))
    BY <2>1, <2>2
  <2> QED BY <2>1, <2>3 DEF ClientRight
<1> QED BY <1>1, <1>2, <1>3 DEF TransferInv

LEMMA NextRight == FilesFit /\ Inv /\ TransferInv /\ [Next]_vars => TransferInv'
<1> SUFFICES ASSUME FilesFit, Inv, TransferInv, [Next]_vars PROVE TransferInv'
  OBVIOUS
<1>1. CASE Poll
  BY <1>1, PollRight
<1>2. ASSUME NEW p \in Peers, Client(p) PROVE TransferInv'
  BY <1>2, ClientStepsRight
<1>3. CASE \/ ClearRuntime \/ TftpOff \/ TftpOn
           \/ \E n \in Fnbrs : BasicFileOpen(n) \/ BasicFileClose(n)
  BY <1>3, DeviceRight
<1>4. CASE UNCHANGED vars
  <2>1. dev' = dev /\ cut' = cut /\ UNCHANGED <<net, client, stored, mistimed>>
    BY <1>4 DEF vars
  <2>2. /\ SessionRight(dev)
        /\ dev.session.active /\ dev.session.peer \notin cut => DataRight(dev, mistimed)
    BY DEF TransferInv, DevRight
  <2> QED BY <2>1, <2>2, DeviceStepRight
<1> QED BY <1>1, <1>2, <1>3, <1>4 DEF Next

LEMMA FilesFitTransferInv == ASSUME FilesFit PROVE Spec => [](Inv /\ TransferInv)
<1>1. Init => Inv /\ TransferInv
  BY InitInv, InitRight
<1>2. Inv /\ TransferInv /\ [Next]_vars => (Inv /\ TransferInv)'
  BY NextInv, NextRight
<1> QED BY <1>1, <1>2, PTL DEF Spec

\* When a writing client sees its last block acknowledged, the file held its
\* bytes, each once and in order: for any number of clients, any uploads short
\* enough for 16-bit block numbers and any block sizes asked for, with
\* datagrams lost, repeated and reordered, file system calls failing, and the
\* session taken over or restarted at any point (the DATA branch of
\* mm_net_tftp_handle_packet).
THEOREM UploadsAreWhole == ASSUME FilesFit PROVE Spec => []UploadIsWhole
<1>1. TransferInv => UploadIsWhole
  BY DEF TransferInv, ClientRight, UploadIsWhole
<1>2. Spec => [](Inv /\ TransferInv)
  BY FilesFitTransferInv
<1> QED BY <1>1, <1>2, PTL

-----------------------------------------------------------------------------
(***************************************************************************)
(* The ambiguity of block 1 comes with the option only: a client that asks *)
(* for no block size sends no ACK 0, and its session sends block 1 at once.*)
(***************************************************************************)
Plain(p) == ~accepted_option(Asked[p])

PlainAck(m) ==
    m.to = "server" /\ m.op = "ACK" /\ Plain(m.peer) /\ m.peer \notin cut => m.blk # 0

PlainOack(m) == m.to = "client" /\ m.op = "OACK" => ~Plain(m.peer)

PlainClient(p) ==
    Plain(p) /\ p \notin cut /\ Mode[p] = "read" /\ client[p].st = "transfer" =>
        client[p].blk # 0

\* A plain reader's session has its block 1 out.
OutOnce(d) == d.pos[d.fnbr] # 0 \/ d.session.last_data
PlainSession(d) ==
    d.session.active /\ ~d.session.write_mode /\ Plain(d.session.peer) => OutOnce(d)

PlainInv ==
    /\ \A m \in net : PlainAck(m) /\ PlainOack(m)
    /\ \A p \in Peers : PlainClient(p) /\ (p \in mistimed => p \in cut \/ ~Plain(p))
    /\ dev.session.peer \notin cut => PlainSession(dev)

\* Reading a block leaves the offset past 0 or the last block found.
LEMMA SendIsOut ==
    ASSUME NEW d, NEW fails, Sound(d), d.session.active,
           d.session.block_size \in Nat \ {0}
    PROVE  /\ \/ ReadFails(d, fails)
              \/ OutOnce(send_data_block(d, fails))
           /\ ReadFails(d, fails) /\ send_data_block(d, fails).session.active =>
                send_data_block(d, fails).files[send_data_block(d, fails).fnbr] = NoFile
           /\ \A x \in DataReply(d, fails) : x.to = "client" /\ x.op # "OACK"
<1> DEFINE e == send_data_block(d, fails)
<1>1. d \in DevType
  BY DEF Sound
<1>2. CASE ReadFails(d, fails)
  <2>1. e = tftp_close(d, "reclose" \in fails)
    BY <1>2 DEF send_data_block
  <2>2. e.session.active => e.files[e.fnbr] = NoFile
    BY <1>1, <2>1 DEF tftp_close, DevType, Idle
  <2>3. \A x \in DataReply(d, fails) : x.to = "client" /\ x.op # "OACK"
    BY <1>2 DEF DataReply, send_error, ToClient
  <2> QED BY <1>2, <2>2, <2>3
<1>3. CASE ~ReadFails(d, fails)
  <2> DEFINE n == Len(ReadBytes(d))
             q == d.pos[d.fnbr] + n
             last == LastBlock(d)
  <2>1. e = [d EXCEPT !.session.last_data = last, !.pos[d.fnbr] = q]
    BY <1>3 DEF send_data_block
  <2>2. n \in Nat
    <3>1. d.content[d.files[d.fnbr]] \in Seq(Int) /\ d.pos[d.fnbr] \in Nat
      BY <1>1, <1>3 DEF ReadFails, DevType
    <3> QED BY <3>1, BytesType DEF ReadBytes
  <2>3. last = (n < d.session.block_size)
    BY DEF LastBlock
  <2>4. d.pos[d.fnbr] \in Nat
    BY <1>1 DEF DevType
  <2>5. q # 0 \/ last
    <3> DEFINE o == d.pos[d.fnbr]
               z == d.session.block_size
    <3>1. o \in Nat /\ z \in Nat \ {0} /\ n \in Nat
      BY <2>2, <2>4
    <3> HIDE DEF n, o, z
    <3>2. o + n # 0 \/ n < z
      BY <3>1
    <3> QED BY <2>3, <3>2 DEF o, z
  <2> HIDE DEF n, last
  <2> HIDE DEF q, e
  <2>6. e.session.last_data = last /\ e.fnbr = d.fnbr /\ e.pos[d.fnbr] = q
    BY <1>1, <2>1 DEF DevType, SessionType
  <2>7. OutOnce(e)
    BY <2>5, <2>6 DEF OutOnce
  <2>8. \A x \in DataReply(d, fails) : x.to = "client" /\ x.op # "OACK"
    BY <1>3 DEF DataReply, ToClient
  <2> QED BY <1>3, <2>7, <2>8 DEF e
<1> QED BY <1>2, <1>3

LEMMA HandledPlain ==
    ASSUME Inv, TransferInv, PlainInv, NEW m, NEW d, NEW out, Handled(m, d, out),
           \A p \in Peers : p \in mistimed' => p \in mistimed \/ p \in cut \/ ~Plain(p),
           d.session.active /\ d.files[d.fnbr] # NoFile /\ d.session.peer \notin cut
             => PlainSession(d),
           \A x \in out : x.to = "client" /\ (x.op = "OACK" => ~Plain(x.peer))
    PROVE  PlainInv'
<1>1. /\ dev' = d /\ client' = client /\ net' \subseteq net \cup out
      /\ cut \subseteq cut'
      /\ d.session.active /\ d.files[d.fnbr] = NoFile => d.session.peer \in cut'
  BY DEF Handled
<1>2. \A x \in net' : PlainAck(x)' /\ PlainOack(x)
  BY <1>1 DEF PlainInv, PlainAck, PlainOack
<1>3. \A p \in Peers : PlainClient(p)'
  BY <1>1 DEF PlainInv, PlainClient
<1>4. \A p \in Peers : p \in mistimed' => p \in cut' \/ ~Plain(p)
  BY <1>1 DEF PlainInv
<1>5. d.session.peer \notin cut' => PlainSession(d)
  BY <1>1 DEF PlainSession
<1>6. dev'.session.peer \notin cut' => PlainSession(dev)'
  BY <1>1, <1>5 DEF PlainSession, OutOnce
<1> QED BY <1>2, <1>3, <1>4, <1>6 DEF PlainInv, PlainOack

\* A request of a plain reader has its block 1 sent at once.
LEMMA StartPlain ==
    ASSUME Inv, TransferInv, PlainInv, NEW m \in net, NEW write \in BOOLEAN,
           m.to = "server", m.op = IF write THEN "WRQ" ELSE "RRQ", Start(m, write)
    PROVE  PlainInv'
<1>1. m \in Datagram /\ m.peer \in Peers /\ Sound(dev) /\ SessionRight(dev)
  BY DEF Inv, Outgoing, Datagram, TransferInv, DevRight
<1>2. m.opt = Asked[m.peer] /\ Mode[m.peer] = IF write THEN "write" ELSE "read"
  <2>1. ToServerRight(m)
    BY DEF TransferInv, NetRight, MessageRight
  <2> QED BY <2>1 DEF ToServerRight
<1>3. PICK fails \in SUBSET {"mount", "open", "read", "close", "reclose"} :
        LET d == tftp_close(dev, "close" \in fails)
            o == OpenFile(d, m, write)
        IN  /\ UNCHANGED mistimed
            /\ IF d.session.active THEN Handled(m, d, {})
               ELSE IF "mount" \in fails THEN Handled(m, d, send_error(m.peer))
               ELSE IF FreeFnbrs(d) = {} THEN Handled(m, d, {})
               ELSE IF "open" \in fails
                    THEN Handled(m, [d EXCEPT !.fnbr = FindFreeFileNbr(d),
                                              !.fserror = TRUE], {})
               ELSE IF accepted_option(m.opt)
                    THEN Handled(m, o, send_oack(m.peer, o.session.block_size))
               ELSE IF write THEN Handled(m, o, send_ack(m.peer, 0))
               ELSE Handled(m, send_data_block(o, fails), DataReply(o, fails))
  BY DEF Start
<1> DEFINE d == tftp_close(dev, "close" \in fails)
           o == OpenFile(d, m, write)
           e == [d EXCEPT !.fnbr = FindFreeFileNbr(d), !.fserror = TRUE]
<1>4. /\ Sound(d) /\ SessionRight(d)
      /\ d.session.active => d.files[d.fnbr] = NoFile
  <2>1. ("close" \in fails) \in BOOLEAN
    OBVIOUS
  <2> QED BY <1>1, <2>1, CloseKeepsOwnership, CloseRight
<1>5. mistimed' = mistimed
  BY <1>3
<1>6. /\ \A x \in send_error(m.peer) : x.to = "client" /\ x.op # "OACK"
      /\ \A x \in send_ack(m.peer, 0) : x.to = "client" /\ x.op # "OACK"
  BY DEF send_error, send_ack, ToClient
<1>7. CASE d.session.active \/ "mount" \in fails \/ FreeFnbrs(d) = {}
  <2>1. Handled(m, d, {}) \/ Handled(m, d, send_error(m.peer))
    BY <1>3, <1>7
  <2> HIDE DEF d
  <2> QED BY <1>4, <1>5, <1>6, <2>1, HandledPlain
<1>8. CASE ~d.session.active /\ "mount" \notin fails /\ FreeFnbrs(d) # {}
  <2>1. \/ Handled(m, e, {})
        \/ accepted_option(m.opt) /\ Handled(m, o, send_oack(m.peer, o.session.block_size))
        \/ write /\ Handled(m, o, send_ack(m.peer, 0))
        \/ ~write /\ Handled(m, send_data_block(o, fails), DataReply(o, fails))
    BY <1>3, <1>8
  <2> HIDE DEF d
  <2>2. ~e.session.active
    BY <1>4, <1>8 DEF Sound, DevType
  <2>3. /\ o.session.active /\ o.session.peer = m.peer
        /\ o.session.write_mode = write
        /\ o.session.block_size = Size(m.peer)
    BY <1>1, <1>2, <1>4, <1>8, OpenRight
  <2>4. Sound(o)
    BY <1>1, <1>4, <1>8, OpenTakesOwnership
  <2> HIDE DEF o, e
  <2>5. CASE Handled(m, e, {})
    BY <1>5, <2>2, <2>5, HandledPlain
  <2>6. CASE accepted_option(m.opt) /\ Handled(m, o, send_oack(m.peer, o.session.block_size))
    <3>1. ~Plain(m.peer)
      BY <1>2, <2>6 DEF Plain
    <3>2. \A x \in send_oack(m.peer, o.session.block_size) :
            x.to = "client" /\ ~Plain(x.peer)
      BY <3>1 DEF send_oack, ToClient
    <3>3. PlainSession(o)
      BY <2>3, <3>1 DEF PlainSession
    <3> QED BY <1>5, <2>6, <3>2, <3>3, HandledPlain
  <2>7. CASE write /\ Handled(m, o, send_ack(m.peer, 0))
    <3>1. PlainSession(o)
      BY <2>3, <2>7 DEF PlainSession
    <3> QED BY <1>5, <1>6, <2>7, <3>1, HandledPlain
  <2>8. CASE ~write /\ Handled(m, send_data_block(o, fails), DataReply(o, fails))
    <3> DEFINE s == send_data_block(o, fails)
    <3>1. /\ ReadFails(o, fails) \/ OutOnce(s)
          /\ ReadFails(o, fails) /\ s.session.active => s.files[s.fnbr] = NoFile
          /\ \A x \in DataReply(o, fails) : x.to = "client" /\ x.op # "OACK"
      BY <1>1, <2>3, <2>4, PeerFacts, SendIsOut
    <3>2. Handled(m, s, DataReply(o, fails))
      BY <2>8
    <3> HIDE DEF s
    <3>3. s.session.active /\ s.files[s.fnbr] # NoFile => PlainSession(s)
      BY <3>1 DEF PlainSession
    <3> QED BY <1>5, <3>1, <3>2, <3>3, HandledPlain
  <2> QED BY <2>1, <2>5, <2>6, <2>7, <2>8
<1> QED BY <1>7, <1>8

\* No ACK of a plain reader is mistimed.
LEMMA HandleAckPlain ==
    ASSUME Inv, TransferInv, PlainInv, NEW m \in net, HandleAck(m)
    PROVE  PlainInv'
<1> DEFINE p == dev.session.peer
           next == [dev EXCEPT !.session.block = Next16(@)]
<1>1. /\ m.to = "server" /\ m.op = "ACK" /\ m.peer = p /\ p \in Peers
      /\ dev.session.active /\ ~dev.session.write_mode
      /\ mistimed' = IF Mistimed(m) THEN mistimed \cup {p} ELSE mistimed
      /\ Sound(dev) /\ SessionRight(dev) /\ dev \in DevType
      /\ PlainAck(m) /\ (p \notin cut => PlainSession(dev))
  BY DEF HandleAck, Arrives, OfTransfer, Inv, Sound, TransferInv, DevRight, PlainInv
<1>2. PICK fails \in SUBSET {"read", "close", "reclose"} :
        IF StartsData(m)
        THEN Handled(m, send_data_block(dev, fails), DataReply(dev, fails))
        ELSE IF m.blk # dev.session.block
        THEN Handled(m, dev, {})
        ELSE IF dev.session.last_data
        THEN Handled(m, tftp_close(dev, "close" \in fails), {})
        ELSE Handled(m, send_data_block(next, fails), DataReply(next, fails))
  BY DEF HandleAck
<1>3. p \notin cut /\ Plain(p) => ~Mistimed(m)
  BY <1>1 DEF PlainAck, PlainSession, OutOnce, Mistimed, DataSent
<1>4. \A q \in Peers : q \in mistimed' => q \in mistimed \/ q \in cut \/ ~Plain(q)
  BY <1>1, <1>3
<1>5. dev.session.block_size \in Nat \ {0}
  BY <1>1, PeerFacts DEF SessionRight
<1>6. ASSUME NEW d, Sound(d), d.session.active, d.session.block_size \in Nat \ {0},
             Handled(m, send_data_block(d, fails), DataReply(d, fails))
      PROVE  PlainInv'
  <2> DEFINE s == send_data_block(d, fails)
  <2>1. /\ ReadFails(d, fails) \/ OutOnce(s)
        /\ ReadFails(d, fails) /\ s.session.active => s.files[s.fnbr] = NoFile
        /\ \A x \in DataReply(d, fails) : x.to = "client" /\ x.op # "OACK"
    BY <1>6, SendIsOut
  <2>2. Handled(m, s, DataReply(d, fails))
    BY <1>6
  <2> HIDE DEF s
  <2>3. s.session.active /\ s.files[s.fnbr] # NoFile => PlainSession(s)
    BY <2>1 DEF PlainSession
  <2> QED BY <1>4, <2>1, <2>2, <2>3, HandledPlain
<1>7. CASE StartsData(m)
  BY <1>1, <1>2, <1>5, <1>6, <1>7
<1>8. CASE ~StartsData(m) /\ m.blk # dev.session.block
  <2>1. Handled(m, dev, {})
    BY <1>2, <1>8
  <2> QED BY <1>1, <1>4, <2>1, HandledPlain
<1>9. CASE ~StartsData(m) /\ m.blk = dev.session.block /\ dev.session.last_data
  <2> DEFINE e == tftp_close(dev, "close" \in fails)
  <2>1. Handled(m, e, {})
    BY <1>2, <1>9
  <2>2. e.session.active => e.files[e.fnbr] = NoFile
    <3>1. ("close" \in fails) \in BOOLEAN
      OBVIOUS
    <3> QED BY <1>1, <3>1, CloseRight
  <2> HIDE DEF e
  <2> QED BY <1>4, <2>1, <2>2, HandledPlain
<1>10. CASE ~StartsData(m) /\ m.blk = dev.session.block /\ ~dev.session.last_data
  <2>1. Handled(m, send_data_block(next, fails), DataReply(next, fails))
    BY <1>2, <1>10
  <2>2. Next16(dev.session.block) \in 0 .. BlockMod - 1
    <3>1. dev.session.block \in Nat
      BY <1>1, ServerAssumption DEF DevType, SessionType
    <3> QED BY <3>1, BlockArithmetic
  <2>3. /\ next \in DevType
        /\ next.session.active = dev.session.active
        /\ next.session.write_mode = dev.session.write_mode
        /\ next.session.peer = p
        /\ next.session.block_size = dev.session.block_size
        /\ next.fnbr = dev.fnbr /\ next.files = dev.files
    BY <1>1, <2>2 DEF DevType, SessionType
  <2> HIDE DEF next
  <2>4. Sound(next)
    BY <1>1, <2>3 DEF Sound, Owned
  <2> QED BY <1>1, <1>5, <1>6, <2>1, <2>3, <2>4
<1> QED BY <1>7, <1>8, <1>9, <1>10

\* DATA belongs to a session that writes, and leaves one or none.
LEMMA HandleDataPlain ==
    ASSUME Inv, TransferInv, PlainInv, NEW m \in net, HandleData(m)
    PROVE  PlainInv'
<1>1. dev.session.active /\ dev.session.write_mode /\ dev \in DevType /\ Sound(dev)
  BY DEF HandleData, OfTransfer, Inv, Sound
<1>2. mistimed' = mistimed
  BY DEF HandleData
<1>3. /\ \A x \in send_error(m.peer) : x.to = "client" /\ x.op # "OACK"
      /\ \A b : \A x \in send_ack(m.peer, b) : x.to = "client" /\ x.op # "OACK"
  BY DEF send_error, send_ack, ToClient
<1>4. ASSUME NEW d, NEW out, Handled(m, d, out),
             d.session.active => d.session.write_mode,
             \A x \in out : x.to = "client" /\ x.op # "OACK"
      PROVE  PlainInv'
  <2>1. PlainSession(d)
    BY <1>4 DEF PlainSession
  <2> QED BY <1>2, <1>4, <2>1, HandledPlain
<1>5. CASE OutOfOrder(m)
  <2>1. Handled(m, dev, send_ack(m.peer, Prev16(dev.session.block)))
    BY <1>5 DEF HandleData
  <2> QED BY <1>1, <1>3, <1>4, <2>1
<1>6. CASE ~OutOfOrder(m)
  <2>1. PICK fails \in SUBSET {"write", "short", "close"}, n \in 0 .. Len(m.data) :
            IF WriteThrows(m, fails)
            THEN Handled(m, [dev EXCEPT !.files[dev.fnbr] = NoFile,
                                        !.fserror = TRUE], {})
            ELSE IF ShortWrite(m, n)
            THEN Handled(m, tftp_close(Written(m, n), "close" \in fails),
                         send_error(m.peer))
            ELSE IF Len(m.data) < dev.session.block_size
            THEN Handled(m, tftp_close(Accepted(Written(m, n)), "close" \in fails),
                         send_ack(m.peer, m.blk))
            ELSE Handled(m, Accepted(Written(m, n)), send_ack(m.peer, m.blk))
    BY <1>6 DEF HandleData
  <2>2. CASE WriteThrows(m, fails)
    <3> DEFINE e == [dev EXCEPT !.files[dev.fnbr] = NoFile, !.fserror = TRUE]
    <3>1. Handled(m, e, {})
      BY <2>1, <2>2
    <3>2. e.session = dev.session
      BY <1>1 DEF DevType
    <3> HIDE DEF e
    <3> QED BY <1>1, <1>4, <3>1, <3>2
  <2>3. CASE ~WriteThrows(m, fails)
    <3> DEFINE w == Written(m, n)
               a == Accepted(w)
               e == tftp_close(w, "close" \in fails)
               f == tftp_close(a, "close" \in fails)
    <3>1. \/ Handled(m, e, send_error(m.peer))
          \/ Handled(m, f, send_ack(m.peer, m.blk))
          \/ Handled(m, a, send_ack(m.peer, m.blk))
      BY <2>1, <2>3
    <3>2. Sound(w) /\ Sound(a)
      <4>1. m.data # <<>> => dev.files[dev.fnbr] # NoFile
        BY <2>3 DEF WriteThrows
      <4>2. m \in Datagram
        BY DEF Inv, Outgoing
      <4> QED BY <1>1, <4>1, <4>2, WrittenSound DEF HandleData, OfTransfer
    <3>3. w.session = dev.session
      BY <1>1 DEF Written, DevType
    <3> HIDE DEF w
    <3>4. a.session.write_mode
      BY <1>1, <3>2, <3>3 DEF Accepted, Sound, DevType, SessionType
    <3> HIDE DEF a
    <3>5. (e.session.active => e.session.write_mode) /\ (f.session.active => f.session.write_mode)
      BY <1>1, <3>2, <3>3, <3>4 DEF tftp_close, Sound, DevType, Idle
    <3> HIDE DEF e, f
    <3> QED BY <1>3, <1>4, <3>1, <3>4, <3>5
  <2> QED BY <2>2, <2>3
<1> QED BY <1>5, <1>6

LEMMA PollPlain ==
    ASSUME Inv, TransferInv, PlainInv, Poll
    PROVE  PlainInv'
<1>1. PICK m \in net :
        \/ BadRequest(m) \/ StartRead(m) \/ StartWrite(m)
        \/ HandleData(m) \/ HandleAck(m) \/ HandleError(m) \/ Ignored(m)
  BY DEF Poll
<1>2. /\ Sound(dev) /\ SessionRight(dev)
      /\ dev.session.peer \notin cut => PlainSession(dev)
  BY DEF Inv, TransferInv, DevRight, PlainInv
<1>3. CASE BadRequest(m)
  <2>1. Handled(m, dev, send_error(m.peer)) /\ mistimed' = mistimed
    BY <1>3 DEF BadRequest
  <2>2. \A x \in send_error(m.peer) : x.to = "client" /\ x.op # "OACK"
    BY DEF send_error, ToClient
  <2> QED BY <1>2, <2>1, <2>2, HandledPlain
<1>4. CASE StartRead(m)
  BY <1>4, StartPlain DEF StartRead, Arrives
<1>5. CASE StartWrite(m)
  BY <1>5, StartPlain DEF StartWrite, Arrives
<1>6. CASE HandleError(m)
  <2>1. PICK fails \in SUBSET {"close"} :
          Handled(m, tftp_close(dev, "close" \in fails), {})
    BY <1>6 DEF HandleError
  <2> DEFINE e == tftp_close(dev, "close" \in fails)
  <2>2. ("close" \in fails) \in BOOLEAN
    OBVIOUS
  <2>3. e.session.active => e.files[e.fnbr] = NoFile
    BY <1>2, <2>2, CloseRight
  <2>4. mistimed' = mistimed /\ Handled(m, e, {})
    BY <1>6, <2>1 DEF HandleError
  <2> HIDE DEF e
  <2> QED BY <2>3, <2>4, HandledPlain
<1>7. CASE Ignored(m)
  <2>1. Handled(m, dev, {}) /\ mistimed' = mistimed
    BY <1>7 DEF Ignored
  <2> QED BY <1>2, <2>1, HandledPlain
<1> QED BY <1>1, <1>3, <1>4, <1>5, <1>6, <1>7, HandleDataPlain, HandleAckPlain

\* The rest of the device: nothing touches the offset of an open file.
LEMMA DevicePlain ==
    ASSUME Inv, TransferInv, PlainInv,
           \/ ClearRuntime \/ TftpOff \/ TftpOn
           \/ \E n \in Fnbrs : BasicFileOpen(n) \/ BasicFileClose(n)
    PROVE  PlainInv'
<1>1. /\ dev \in DevType /\ Sound(dev) /\ SessionRight(dev)
      /\ dev.session.active /\ dev.session.peer \notin cut => DataRight(dev, mistimed)
      /\ dev.session.peer \notin cut => PlainSession(dev)
  BY DEF Inv, Sound, TransferInv, DevRight, PlainInv
<1>2. ASSUME NEW d, dev' = d, cut \subseteq cut', UNCHANGED <<net, client, mistimed>>,
             d.session.active /\ d.session.peer \notin cut' => PlainSession(d)
      PROVE  PlainInv'
  <2>1. \A x \in net' : PlainAck(x)' /\ PlainOack(x)
    BY <1>2 DEF PlainInv, PlainAck
  <2>2. \A p \in Peers : PlainClient(p)' /\ (p \in mistimed' => p \in cut' \/ ~Plain(p))
    BY <1>2 DEF PlainInv, PlainClient
  <2>3. dev'.session.peer \notin cut' => PlainSession(dev)'
    BY <1>2 DEF PlainSession, OutOnce
  <2> QED BY <2>1, <2>2, <2>3 DEF PlainInv, PlainOack
<1>3. CASE ClearRuntime
  <2>1. UNCHANGED <<net, client, mistimed>> /\ cut \subseteq cut'
          /\ dev'.session = dev.session
          /\ (dev.session.active => dev.session.peer \in cut')
    BY <1>1, <1>3 DEF ClearRuntime, DevType
  <2> QED BY <1>2, <2>1
<1>4. CASE TftpOff
  <2>1. UNCHANGED <<net, client, mistimed>> /\ cut \subseteq cut'
          /\ (dev'.session.active => dev'.session.peer \in cut')
    BY <1>4 DEF TftpOff
  <2> QED BY <1>2, <2>1
<1>5. CASE TftpOn
  BY <1>1, <1>2, <1>5 DEF TftpOn
<1>6. ASSUME NEW n \in Fnbrs, BasicFileOpen(n)
      PROVE  PlainInv'
  <2> DEFINE d == [dev EXCEPT !.files[n] = "basic", !.pos[n] = 0,
                              !.content["basic"] = <<>>, !.fserror = FALSE]
  <2>1. /\ dev' = d /\ cut' = cut /\ UNCHANGED <<net, client, mistimed>>
        /\ dev.files[n] = NoFile
    BY <1>6 DEF BasicFileOpen
  <2>2. /\ d.session = dev.session /\ d.fnbr = dev.fnbr
        /\ n # dev.fnbr => d.pos[dev.fnbr] = dev.pos[dev.fnbr]
    BY <1>1 DEF DevType
  <2> HIDE DEF d
  <2>3. dev.session.active /\ dev.session.peer \notin cut => n # dev.fnbr
    BY <1>1, <2>1 DEF DataRight, WriterRight, NoFile
  <2>4. d.session.active /\ d.session.peer \notin cut' => PlainSession(d)
    BY <1>1, <2>1, <2>2, <2>3 DEF PlainSession, OutOnce
  <2> QED BY <1>2, <2>1, <2>4
<1>7. ASSUME NEW n \in Fnbrs, BasicFileClose(n)
      PROVE  PlainInv'
  <2> DEFINE d == [dev EXCEPT !.files[n] = NoFile, !.fserror = FALSE]
  <2>1. dev' = d /\ UNCHANGED <<net, client, mistimed>> /\ cut \subseteq cut'
    BY <1>7 DEF BasicFileClose
  <2>2. d.session = dev.session /\ d.fnbr = dev.fnbr /\ d.pos = dev.pos
    BY <1>1 DEF DevType
  <2> HIDE DEF d
  <2>3. d.session.active /\ d.session.peer \notin cut' => PlainSession(d)
    BY <1>1, <2>1, <2>2 DEF PlainSession, OutOnce
  <2> QED BY <1>2, <2>1, <2>3
<1> QED BY <1>3, <1>4, <1>5, <1>6, <1>7

\* A client step keeps the invariant if what it sends and becomes is right.
LEMMA ClientStepPlain ==
    ASSUME Inv, PlainInv, NEW p \in Peers, NEW c, NEW packets,
           client' = [client EXCEPT ![p] = c], net' \subseteq net \cup packets,
           UNCHANGED <<dev, cut, mistimed>>,
           Plain(p) /\ p \notin cut /\ Mode[p] = "read" /\ c.st = "transfer" => c.blk # 0,
           \A x \in packets : PlainAck(x) /\ PlainOack(x)
    PROVE  PlainInv'
<1>1. client'[p] = c /\ \A q \in Peers : q # p => client'[q] = client[q]
  BY DEF Inv, TypeOK
<1>2. \A q \in Peers : PlainClient(q)'
  BY <1>1 DEF PlainInv, PlainClient
<1>3. \A x \in net' : PlainAck(x)' /\ PlainOack(x)
  BY DEF PlainInv, PlainAck
<1>4. \A q \in Peers : q \in mistimed' => q \in cut' \/ ~Plain(q)
  BY DEF PlainInv
<1>5. dev'.session.peer \notin cut' => PlainSession(dev)'
  BY DEF PlainInv, PlainSession, OutOnce
<1> QED BY <1>2, <1>3, <1>4, <1>5 DEF PlainInv, PlainOack

LEMMA ClientSendsPlain ==
    ASSUME Inv, PlainInv, NEW p \in Peers, NEW c, NEW packets, ClientSends(p, c, packets),
           Plain(p) /\ p \notin cut /\ Mode[p] = "read" /\ c.st = "transfer" => c.blk # 0,
           \A x \in packets : PlainAck(x) /\ PlainOack(x)
    PROVE  PlainInv'
BY ClientStepPlain DEF ClientSends

LEMMA ClientMovePlain ==
    ASSUME Inv, PlainInv, NEW p \in Peers, NEW c, NEW packets, NEW m,
           ClientMove(p, m, c, packets),
           Plain(p) /\ p \notin cut /\ Mode[p] = "read" /\ c.st = "transfer" => c.blk # 0,
           \A x \in packets : PlainAck(x) /\ PlainOack(x)
    PROVE  PlainInv'
<1>1. /\ client' = [client EXCEPT ![p] = c] /\ net' \subseteq net \cup packets
      /\ UNCHANGED <<dev, cut, mistimed>>
  BY DEF ClientMove
<1> QED BY <1>1, ClientStepPlain

LEMMA ClientPlain ==
    ASSUME FilesFit, Inv, TransferInv, PlainInv, NEW p \in Peers, Client(p)
    PROVE  PlainInv'
<1> DEFINE c == client[p]
<1>1. c \in ClientType /\ PlainClient(p) /\ ClientRight(p, c)
  BY DEF Inv, TypeOK, TransferInv, PlainInv
<1>2. ASSUME NEW x, x.to = "server", x.op # "ACK"
      PROVE  PlainAck(x) /\ PlainOack(x)
  BY <1>2 DEF PlainAck, PlainOack
<1>3. /\ Request(p).to = "server" /\ Request(p).op # "ACK"
      /\ \A b, z : ClientData(p, b, z).to = "server" /\ ClientData(p, b, z).op # "ACK"
      /\ \A b : /\ ClientAck(p, b).to = "server" /\ ClientAck(p, b).peer = p
                /\ ClientAck(p, b).op = "ACK" /\ ClientAck(p, b).blk = b % BlockMod
  BY DEF Request, ClientData, ClientAck, ToServer
<1>4. CASE ClientStart(p)
  <2> DEFINE e == [c EXCEPT !.st = "asked"]
  <2>1. ClientSends(p, e, {Request(p)})
    BY <1>4 DEF ClientStart
  <2>2. e.st = "asked"
    BY <1>1 DEF ClientType
  <2> HIDE DEF e
  <2> QED BY <1>2, <1>3, <2>1, <2>2, ClientSendsPlain
<1>5. CASE ClientTimeout(p)
  <2> DEFINE e == [c EXCEPT !.tries = @ + 1]
             x == LastPacket(p)
  <2>1. ClientSends(p, e, {x}) /\ c.st \in {"asked", "transfer"}
    BY <1>5 DEF ClientTimeout
  <2>2. e.st = c.st /\ e.blk = c.blk
    BY <1>1 DEF ClientType
  <2>3. PlainAck(x) /\ PlainOack(x)
    <3>1. CASE c.st = "asked" \/ Mode[p] # "read"
      <4>1. x = Request(p) \/ x = ClientData(p, c.blk, c.size)
        BY <3>1 DEF LastPacket
      <4>2. x.to = "server" /\ x.op # "ACK"
        BY <1>3, <4>1
      <4> QED BY <1>2, <4>2
    <3>2. CASE c.st = "transfer" /\ Mode[p] = "read"
      <4>1. x = ClientAck(p, c.blk)
        BY <3>2 DEF LastPacket
      <4>2. ASSUME Plain(p), p \notin cut
            PROVE  c.blk % BlockMod # 0
        <5>1. p \notin mistimed /\ c.blk # 0
          BY <1>1, <3>2, <4>2 DEF PlainInv, PlainClient
        <5>2. c.blk % BlockMod = c.blk
          BY <2>1, <3>2, <4>2, <5>1, ReaderWaits
        <5> QED BY <5>1, <5>2
      <4> HIDE DEF x
      <4> QED BY <1>3, <4>1, <4>2 DEF PlainAck, PlainOack
    <3> QED BY <2>1, <3>1, <3>2
  <2> HIDE DEF e, x
  <2>4. Plain(p) /\ p \notin cut /\ Mode[p] = "read" /\ e.st = "transfer" => e.blk # 0
    BY <1>1, <2>2 DEF PlainClient
  <2> QED BY <2>1, <2>3, <2>4, ClientSendsPlain
<1>6. CASE ClientGivesUp(p)
  <2> DEFINE e == [c EXCEPT !.st = "failed"]
             x == ToServer(p, "ERROR", 0, <<>>, 0)
  <2>1. PICK packets \in {{}, {x}} : ClientSends(p, e, packets)
    BY <1>6 DEF ClientGivesUp
  <2>2. e.st = "failed" /\ x.to = "server" /\ x.op # "ACK"
    BY <1>1 DEF ClientType, ToServer
  <2> HIDE DEF e, x
  <2>3. \A y \in packets : PlainAck(y) /\ PlainOack(y)
    BY <1>2, <2>1, <2>2
  <2> QED BY <2>1, <2>2, <2>3, ClientSendsPlain
<1>7. ASSUME NEW m \in net, ClientGetsOack(p, m)
      PROVE  PlainInv'
  <2>1. m.to = "client" /\ m.peer = p /\ m.op = "OACK"
    BY <1>7 DEF ClientGetsOack, ClientMove
  <2>2. ~Plain(p)
    BY <2>1 DEF PlainInv, PlainOack
  <2>3. PICK e, x : ClientMove(p, m, e, {x}) /\ x \in {ClientAck(p, 0), ClientData(p, 1, m.opt)}
    BY <1>7 DEF ClientGetsOack
  <2>4. PlainAck(x) /\ PlainOack(x)
    BY <1>2, <1>3, <2>2, <2>3 DEF PlainAck, PlainOack
  <2> QED BY <2>2, <2>3, <2>4, ClientMovePlain
<1>8. ASSUME NEW m \in net, ClientGetsData(p, m)
      PROVE  PlainInv'
  <2> DEFINE b == c.blk
             st == IF Len(m.data) < c.size THEN "done" ELSE "transfer"
             e == [c EXCEPT !.blk = @ + 1, !.got = @ \o m.data, !.st = st]
             x == ClientAck(p, b + 1)
  <2>1. /\ ClientMove(p, m, e, {x}) /\ Mode[p] = "read"
        /\ c.st \in {"asked", "transfer"}
    BY <1>8 DEF ClientGetsData
  <2>2. e.blk = b + 1 /\ b \in Nat
    BY <1>1 DEF ClientType
  <2>3. b + 1 # 0
    BY <2>2
  <2>4. ASSUME Plain(p), p \notin cut
        PROVE  (b + 1) % BlockMod = b + 1
    <3>1. p \notin mistimed
      BY <2>4 DEF PlainInv
    <3> QED BY <2>1, <2>4, <3>1, ReaderWaits
  <2>5. x.to = "server" /\ x.peer = p /\ x.op = "ACK" /\ x.blk = (b + 1) % BlockMod
    BY <1>3
  <2> HIDE DEF e, x, b
  <2>6. PlainAck(x) /\ PlainOack(x)
    BY <2>3, <2>4, <2>5 DEF PlainAck, PlainOack
  <2>7. e.blk # 0
    BY <2>2, <2>3
  <2> QED BY <2>1, <2>6, <2>7, ClientMovePlain
<1>9. ASSUME NEW m \in net, ClientGetsAck(p, m)
      PROVE  PlainInv'
  <2>1. PICK e, packets :
          /\ ClientMove(p, m, e, packets) /\ Mode[p] = "write"
          /\ packets \in {{}, {ClientData(p, c.blk + 1, c.size)}}
    BY <1>9 DEF ClientGetsAck
  <2>2. \A x \in packets : PlainAck(x) /\ PlainOack(x)
    BY <1>2, <1>3, <2>1
  <2> QED BY <2>1, <2>2, ClientMovePlain
<1>10. ASSUME NEW m \in net, ClientGetsError(p, m)
       PROVE  PlainInv'
  <2> DEFINE e == [c EXCEPT !.st = "failed"]
  <2>1. ClientMove(p, m, e, {})
    BY <1>10 DEF ClientGetsError
  <2>2. e.st = "failed"
    BY <1>1 DEF ClientType
  <2> HIDE DEF e
  <2> QED BY <2>1, <2>2, ClientMovePlain
<1> QED BY <1>4, <1>5, <1>6, <1>7, <1>8, <1>9, <1>10 DEF Client, ClientReceives

LEMMA NextPlain ==
    FilesFit /\ Inv /\ TransferInv /\ PlainInv /\ [Next]_vars => PlainInv'
<1> SUFFICES ASSUME FilesFit, Inv, TransferInv, PlainInv, [Next]_vars PROVE PlainInv'
  OBVIOUS
<1>1. CASE Poll
  BY <1>1, PollPlain
<1>2. ASSUME NEW p \in Peers, Client(p) PROVE PlainInv'
  BY <1>2, ClientPlain
<1>3. CASE \/ ClearRuntime \/ TftpOff \/ TftpOn
           \/ \E n \in Fnbrs : BasicFileOpen(n) \/ BasicFileClose(n)
  BY <1>3, DevicePlain
<1>4. CASE UNCHANGED vars
  BY <1>4 DEF vars, PlainInv, PlainAck, PlainClient, PlainSession, OutOnce
<1> QED BY <1>1, <1>2, <1>3, <1>4 DEF Next

\* What a reading client has is a prefix of the served file, and all of it
\* when it saw a short block, under the same circumstances, unless it asked for
\* a block size and one of its ACKs came while block 1 was ambiguous (the ACK
\* branch of mm_net_tftp_handle_packet and send_data_block).
THEOREM DownloadsArePrefixes == ASSUME FilesFit PROVE Spec => []DownloadIsPrefix
<1>1. Init => PlainInv
  BY DEF Init, PlainInv, PlainClient, PlainSession, Idle
<1>2. FilesFit /\ Inv /\ TransferInv /\ PlainInv /\ [Next]_vars => PlainInv'
  BY NextPlain
<1>3. TransferInv /\ PlainInv => DownloadIsPrefix
  BY DEF TransferInv, PlainInv, ClientRight, Plain, DownloadIsPrefix
<1>4. Spec => [](Inv /\ TransferInv)
  BY FilesFitTransferInv
<1>5. (Inv /\ TransferInv) /\ PlainInv /\ [Next]_vars => PlainInv'
  BY <1>2
<1> QED BY <1>1, <1>3, <1>4, <1>5, PTL DEF Spec
=============================================================================
