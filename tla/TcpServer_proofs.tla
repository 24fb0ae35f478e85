-------------------------- MODULE TcpServer_proofs --------------------------
(***************************************************************************)
(* What TcpServer guarantees for any clients and any number of connection  *)
(* and request slots: BASIC never loses a connection it was given, and     *)
(* until a client hangs up requests, answers and console input stay with   *)
(* the connections they belong to.                                         *)
(***************************************************************************)
EXTENDS TcpServer, TLAPS, FiniteSetTheorems, WellFoundedInduction

-----------------------------------------------------------------------------
(* The inductive invariant.                                                *)

\* A slot that is marked pending has data, and so has a request with a handle.
Filled ==
    /\ \A i \in Conns : slot[i].pending => slot[i].rx # <<>>
    /\ \A j \in Requests : svc[j].conn # 0 => svc[j].req # <<>>

\* Slots and pcbs point at each other.
Linked ==
    /\ \A c \in Clients :
         /\ peer[c].state # "half"
         /\ peer[c].state = "open" => peer[c].arg \in Conns /\ slot[peer[c].arg].pcb = c
    /\ \A i \in Conns : slot[i].pcb # NoClient =>
         peer[slot[i].pcb].state = "open" /\ peer[slot[i].pcb].arg = i

\* A slot without a pcb is empty, the others hold what their client sent.
Clean ==
    \A i \in Conns :
        /\ slot[i].pcb = NoClient => slot[i] = EmptySlot
        /\ slot[i].pcb # NoClient => slot[i].server = Server(slot[i].pcb)
        /\ ~slot[i].closed /\ ~slot[i].failed
        /\ slot[i].delivered => slot[i].server = "http"
        /\ \A k \in DOMAIN slot[i].rx : slot[i].rx[k] = slot[i].pcb

\* A request is the data of the delivered connection whose handle it holds, and
\* no other request holds that handle.
Held ==
    /\ \A j \in Requests :
         IF svc[j].conn = 0 THEN svc[j].req = <<>>
         ELSE /\ slot[svc[j].conn].pcb # NoClient
              /\ slot[svc[j].conn].delivered
              /\ \A k \in DOMAIN svc[j].req : svc[j].req[k] = slot[svc[j].conn].pcb
    /\ \A j, k \in Requests : svc[j].conn = svc[k].conn /\ svc[j].conn # 0 => j = k

\* No connection makes a second request.
Once ==
    \A c \in Clients :
        /\ peer[c].got <= 1
        /\ peer[c].state = "new" => peer[c].got = 0
        /\ peer[c].state = "open" /\ ~slot[peer[c].arg].delivered => peer[c].got = 0

\* The console connection is a telnet client's.
ConsoleLinked == tel # 0 => slot[tel].pcb # NoClient /\ slot[tel].server = "telnet"

Quiet == /\ Linked /\ Clean /\ Held /\ Once /\ ConsoleLinked
         /\ console \subseteq TelnetClients /\ AnswerReachesAsker

TcpInv == TypeOK /\ Filled /\ NoOrphan /\ (hangups = 0 => Quiet)
-----------------------------------------------------------------------------
(* Sets of slot numbers.                                                   *)

\* A set of naturals that is not empty has a smallest element.
LEMMA MinIsMember ==
    ASSUME NEW S, S \subseteq Nat, S # {}
    PROVE  Min(S) \in S
<1>1. PICK x \in S : \A y \in S : ~(<<y, x>> \in OpToRel(<, Nat))
  BY NatLessThanWellFounded, WFMin, Zenon
<1>2. ASSUME NEW y \in S PROVE ~(y < x)
  <2>1. y < x => <<y, x>> \in OpToRel(<, Nat)
    BY Zenon DEF OpToRel
  <2> QED
    BY <1>1, <2>1, Zenon
<1>3. \A y \in S : x <= y
  BY <1>2
<1> QED
  BY <1>3, Zenon DEF Min

\* Two members of a finite set of naturals have different ranks.
LEMMA RankInjective ==
    ASSUME NEW S, S \subseteq Nat, IsFiniteSet(S), NEW m \in S, NEW n \in S,
           Rank(m, S) = Rank(n, S)
    PROVE  m = n
<1> DEFINE Upto(x) == {y \in S : y <= x}
<1>1. ASSUME NEW x \in S, NEW y \in S, x < y, Rank(x, S) = Rank(y, S)
      PROVE  FALSE
  <2>1. IsFiniteSet(Upto(y))
    BY FS_Subset
  <2>2. Upto(x) \in SUBSET Upto(y)
    <3>1. x \in Nat /\ y \in Nat
      OBVIOUS
    <3>2. \A z \in S : z \in Nat /\ (z <= x => z <= y)
      BY <1>1, <3>1
    <3> QED
      BY <3>2
  <2>3. Upto(y) = Upto(x)
    BY <1>1, <2>1, <2>2, FS_Subset DEF Rank
  <2>4. y \in Upto(y) /\ y \notin Upto(x)
    BY <1>1
  <2> QED
    BY <2>3, <2>4
<1>2. m < n \/ n < m \/ m = n
  OBVIOUS
<1> QED
  BY <1>1, <1>2

\* The poll gives a request to one connection and a connection to one request.
LEMMA PairsOneToOne ==
    ASSUME NEW x \in Pairs, NEW y \in Pairs
    PROVE  x[1] = y[1] <=> x[2] = y[2]
<1>1. Deliverable \subseteq Nat /\ FreeRequests \subseteq Nat
  BY TcpAssumption DEF Deliverable, Waiting, FreeRequests, Conns, Requests
<1>2. IsFiniteSet(Conns) /\ IsFiniteSet(Requests)
  BY TcpAssumption, FS_Interval DEF Conns, Requests
<1>3. Deliverable \in SUBSET Conns /\ FreeRequests \in SUBSET Requests
  BY DEF Deliverable, Waiting, FreeRequests
<1>4. IsFiniteSet(Deliverable) /\ IsFiniteSet(FreeRequests)
  BY <1>2, <1>3, FS_Subset
<1>5. /\ x[1] \in Deliverable /\ x[2] \in FreeRequests
      /\ y[1] \in Deliverable /\ y[2] \in FreeRequests
      /\ Rank(x[1], Deliverable) = Rank(x[2], FreeRequests)
      /\ Rank(y[1], Deliverable) = Rank(y[2], FreeRequests)
  BY DEF Pairs
<1> QED
  BY <1>1, <1>4, <1>5, RankInjective
-----------------------------------------------------------------------------
(* Types, and data wherever data is due.                                   *)

Typed == TypeOK /\ Filled

\* The type of each variable by itself: what most steps need.
LEMMA Types ==
    ASSUME TypeOK
    PROVE  /\ slot \in [Conns -> SlotType] /\ peer \in [Clients -> PeerType]
           /\ svc \in [Requests -> RequestType]
           /\ tel \in Conns \cup {0}
           /\ hangups \in 0 .. MaxHangups /\ hangups \in Nat
BY TcpAssumption DEF TypeOK

LEMMA EmptyTyped == EmptySlot \in SlotType /\ EmptyRequest \in RequestType
BY DEF EmptySlot, SlotType, EmptyRequest, RequestType

LEMMA EmptyFields ==
    /\ EmptySlot.pcb = NoClient /\ EmptySlot.server = "none" /\ EmptySlot.rx = <<>>
    /\ ~EmptySlot.closed /\ ~EmptySlot.failed /\ ~EmptySlot.pending /\ ~EmptySlot.delivered
    /\ EmptyRequest.conn = 0 /\ EmptyRequest.req = <<>>
BY DEF EmptySlot, EmptyRequest

\* What Accept writes.
LEMMA NewSlot ==
    ASSUME NEW c \in Clients
    PROVE  LET new == [EmptySlot EXCEPT !.pcb = c, !.server = Server(c), !.accepted = TRUE]
           IN  /\ new \in SlotType /\ new.pcb = c /\ new.server = Server(c)
               /\ ~new.closed /\ ~new.failed /\ ~new.pending /\ ~new.delivered
               /\ new.accepted /\ new.rx = <<>>
<1>1. Server(c) \in {"http", "telnet"}
  BY DEF Server
<1>2. [EmptySlot EXCEPT !.pcb = c, !.server = Server(c), !.accepted = TRUE] \in SlotType
  BY <1>1, EmptyTyped DEF SlotType
<1> QED
  BY <1>2 DEF EmptySlot

\* The slot after new data, and after its data was taken.
LEMMA SlotUpdates ==
    ASSUME NEW s \in SlotType, NEW q \in Seq(Clients), NEW a \in BOOLEAN, NEW p \in BOOLEAN
    PROVE  /\ [s EXCEPT !.rx = q, !.pending = TRUE] \in SlotType
           /\ [s EXCEPT !.accepted = a, !.rx = q, !.pending = p] \in SlotType
BY DEF SlotType

\* The slot after its delivery.
LEMMA DeliveredSlot ==
    ASSUME NEW s \in SlotType
    PROVE  /\ Delivered(s) \in SlotType
           /\ Delivered(s).pcb = s.pcb /\ Delivered(s).server = s.server
           /\ Delivered(s).closed = s.closed /\ Delivered(s).failed = s.failed
           /\ Delivered(s).accepted = FALSE /\ Delivered(s).pending = FALSE
           /\ Delivered(s).delivered = TRUE /\ Delivered(s).rx = <<>>
<1> DEFINE e == <<>>
<1>1. e \in Seq(Clients)
  OBVIOUS
<1>2. Delivered(s) = [s EXCEPT !.accepted = FALSE, !.pending = FALSE, !.rx = e, !.delivered = TRUE]
  BY DEF Delivered
<1> HIDE DEF e
<1>3. Delivered(s) \in SlotType
  BY <1>1, <1>2 DEF SlotType
<1>4. /\ Delivered(s).pcb = s.pcb /\ Delivered(s).server = s.server
      /\ Delivered(s).closed = s.closed /\ Delivered(s).failed = s.failed
      /\ Delivered(s).accepted = FALSE /\ Delivered(s).pending = FALSE
      /\ Delivered(s).delivered = TRUE /\ Delivered(s).rx = e
  BY <1>2 DEF SlotType
<1> QED
  BY <1>3, <1>4 DEF e

\* One more segment.
LEMMA MoreData ==
    ASSUME NEW q \in Seq(Clients), NEW c \in Clients
    PROVE  /\ Append(q, c) \in Seq(Clients) /\ Append(q, c) # <<>>
           /\ \A k \in DOMAIN Append(q, c) : Append(q, c)[k] = c \/ (k \in DOMAIN q /\ Append(q, c)[k] = q[k])
<1>1. Append(q, c) \in Seq(Clients) /\ Len(Append(q, c)) = Len(q) + 1
  OBVIOUS
<1>2. Append(q, c) # <<>>
  <2>1. Len(q) \in Nat /\ Len(<<>>) = 0
    OBVIOUS
  <2>2. Len(Append(q, c)) # Len(<<>>)
    BY <1>1, <2>1
  <2> QED
    BY <2>2, Zenon
<1>3. \A k \in 1 .. Len(q) : Append(q, c)[k] = q[k]
  OBVIOUS
<1>4. Append(q, c)[Len(q) + 1] = c
  OBVIOUS
<1>5. DOMAIN Append(q, c) = 1 .. Len(q) + 1 /\ DOMAIN q = 1 .. Len(q) /\ Len(q) \in Nat
  BY <1>1
<1>6. ASSUME NEW k \in DOMAIN Append(q, c), k # Len(q) + 1
      PROVE  k \in 1 .. Len(q)
  BY <1>5, <1>6
<1>7. ASSUME NEW k \in DOMAIN Append(q, c)
      PROVE  Append(q, c)[k] = c \/ (k \in DOMAIN q /\ Append(q, c)[k] = q[k])
  <2>1. CASE k = Len(q) + 1
    BY <1>4, <2>1
  <2>2. CASE k # Len(q) + 1
    <3>1. k \in 1 .. Len(q)
      BY <1>6, <1>7, <2>2
    <3> QED
      BY <1>3, <1>5, <3>1, Zenon
  <2> QED
    BY <2>1, <2>2
<1> QED
  BY <1>1, <1>2, <1>7, Zenon

LEMMA FreeConn ==
    ASSUME FreeConns # {}
    PROVE  Min(FreeConns) \in Conns /\ slot[Min(FreeConns)].pcb = NoClient
<1>1. FreeConns \subseteq Nat
  BY TcpAssumption DEF FreeConns, Conns
<1>2. Min(FreeConns) \in FreeConns
  BY <1>1, MinIsMember
<1> QED
  BY <1>2 DEF FreeConns

LEMMA InitTyped == Init => Typed
<1> SUFFICES ASSUME Init PROVE Typed
  OBVIOUS
<1>1. [state |-> "new", arg |-> 0, sent |-> 0, got |-> 0] \in PeerType
  BY DEF PeerType
<1>2. 0 \in 0 .. MaxHangups /\ 0 \in 0 .. MaxRuns
  BY TcpAssumption
<1>3. TypeOK
  BY <1>1, <1>2, EmptyTyped DEF Init, TypeOK
<1>4. Filled
  BY DEF Init, Filled, EmptySlot, EmptyRequest
<1> QED
  BY <1>3, <1>4 DEF Typed

LEMMA CallbackTyped ==
    ASSUME Typed, NEW c \in Clients,
           Accept(c) \/ Refuse(c) \/ Receive(c) \/ Fin(c) \/ Reset(c)
    PROVE  Typed'
<1>0. slot \in [Conns -> SlotType] /\ peer \in [Clients -> PeerType]
  BY Types DEF Typed
<1>1. CASE Accept(c)
  <2> DEFINE i == Min(FreeConns)
             new == [EmptySlot EXCEPT !.pcb = c, !.server = Server(c), !.accepted = TRUE]
  <2>1. i \in Conns
    BY <1>1, FreeConn DEF Accept
  <2>2. new \in SlotType /\ ~new.pending
    BY NewSlot
  <2>3. slot' = [slot EXCEPT ![i] = new] /\ peer' = [peer EXCEPT ![c].state = "open", ![c].arg = i]
    BY <1>1 DEF Accept
  <2> HIDE DEF i, new
  <2>4. slot' \in [Conns -> SlotType]
    BY <1>0, <2>1, <2>2, <2>3
  <2>5. peer' \in [Clients -> PeerType]
    BY <1>0, <2>1, <2>3 DEF PeerType
  <2>6. Filled'
    BY <1>0, <1>1, <2>1, <2>2, <2>3 DEF Typed, Filled, Accept
  <2> QED
    BY <1>1, <2>4, <2>5, <2>6 DEF Typed, TypeOK, Accept
<1>2. CASE Refuse(c)
  <2>1. peer' \in [Clients -> PeerType]
    BY <1>0, <1>2 DEF Refuse, PeerType
  <2> QED
    BY <1>2, <2>1 DEF Refuse, Typed, TypeOK, Filled
<1>3. CASE Receive(c)
  <2> DEFINE i == peer[c].arg
  <2>1. slot' = [slot EXCEPT ![i].rx = Append(@, c), ![i].pending = TRUE]
    BY <1>3 DEF Receive
  <2>2. peer' = [peer EXCEPT ![c].sent = @ + 1]
    BY <1>3 DEF Receive
  <2> HIDE DEF i
  <2>3. peer' \in [Clients -> PeerType]
    BY <1>0, <2>2 DEF PeerType
  <2>4. \A k \in Conns : slot[k].rx \in Seq(Clients)
    BY <1>0 DEF SlotType
  <2>5. \A k \in Conns : Append(slot[k].rx, c) \in Seq(Clients) /\ Append(slot[k].rx, c) # <<>>
    BY <2>4, MoreData
  <2>6. slot' \in [Conns -> SlotType]
    <3>1. \A k \in Conns :
            [slot[k] EXCEPT !.rx = Append(slot[k].rx, c), !.pending = TRUE] \in SlotType
      BY <1>0, <2>5, SlotUpdates
    <3>2. slot' = [slot EXCEPT ![i] = [slot[i] EXCEPT !.rx = Append(slot[i].rx, c), !.pending = TRUE]]
      BY <1>0, <2>1
    <3> QED
      BY <1>0, <3>1, <3>2
  <2>7. \A k \in Conns : slot'[k].pending => slot'[k].rx # <<>>
    <3> SUFFICES ASSUME NEW k \in Conns, slot'[k].pending PROVE slot'[k].rx # <<>>
      OBVIOUS
    <3>1. CASE k = i
      <4>1. slot'[k].rx = Append(slot[k].rx, c)
        BY <1>0, <2>1, <3>1 DEF SlotType
      <4> QED
        BY <2>5, <4>1
    <3>2. CASE k # i
      BY <1>0, <2>1, <3>2 DEF Typed, Filled
    <3> QED
      BY <3>1, <3>2
  <2> QED
    BY <1>3, <2>3, <2>6, <2>7 DEF Typed, TypeOK, Filled, Receive
<1>4. CASE Fin(c)
  <2> DEFINE i == peer[c].arg
  <2>1. /\ slot' = [slot EXCEPT ![i].closed = TRUE, ![i].pcb = NoClient]
        /\ peer' = [peer EXCEPT ![c].state = "half"]
    BY <1>4 DEF Fin
  <2> HIDE DEF i
  <2>2. slot' \in [Conns -> SlotType]
    BY ZenonT(40), <1>0, <2>1 DEF SlotType
  <2>3. peer' \in [Clients -> PeerType]
    BY <1>0, <2>1 DEF PeerType
  <2>4. \A k \in Conns : slot'[k].pending = slot[k].pending /\ slot'[k].rx = slot[k].rx
    BY <1>0, <2>1 DEF SlotType
  <2>5. hangups' \in 0 .. MaxHangups
    BY <1>4, TcpAssumption DEF Fin, Typed, TypeOK
  <2> QED
    BY <1>4, <2>2, <2>3, <2>4, <2>5 DEF Typed, TypeOK, Filled, Fin
<1>5. CASE Reset(c)
  <2> DEFINE i == peer[c].arg
  <2>1. /\ slot' = [slot EXCEPT ![i].failed = TRUE, ![i].pcb = NoClient]
        /\ peer' = [peer EXCEPT ![c].state = "gone"]
    BY <1>5 DEF Reset
  <2> HIDE DEF i
  <2>2. slot' \in [Conns -> SlotType]
    BY ZenonT(40), <1>0, <2>1 DEF SlotType
  <2>3. peer' \in [Clients -> PeerType]
    BY <1>0, <2>1 DEF PeerType
  <2>4. \A k \in Conns : slot'[k].pending = slot[k].pending /\ slot'[k].rx = slot[k].rx
    BY <1>0, <2>1 DEF SlotType
  <2>5. hangups' \in 0 .. MaxHangups
    BY <1>5, TcpAssumption DEF Reset, Typed, TypeOK
  <2> QED
    BY <1>5, <2>2, <2>3, <2>4, <2>5 DEF Typed, TypeOK, Filled, Reset
<1> QED
  BY <1>1, <1>2, <1>3, <1>4, <1>5

\* Closing leaves slots and peers of their type.
LEMMA WithoutTyped ==
    ASSUME NEW s \in [Conns -> SlotType], peer \in [Clients -> PeerType], NEW closing
    PROVE  /\ SlotsWithout(s, closing) \in [Conns -> SlotType]
           /\ PeersWithout(slot, closing) \in [Clients -> PeerType]
           /\ \A i \in Conns : \/ SlotsWithout(s, closing)[i] = EmptySlot
                               \/ SlotsWithout(s, closing)[i] = s[i]
<1>1. \A c \in Clients : [peer[c] EXCEPT !.state = "gone", !.arg = 0] \in PeerType
  BY DEF PeerType
<1>2. PeersWithout(slot, closing) \in [Clients -> PeerType]
  BY <1>1 DEF PeersWithout
<1> QED
  BY <1>2, EmptyTyped DEF SlotsWithout

LEMMA CloseTyped ==
    ASSUME Typed, NEW J, J \subseteq Requests, CloseRequests(J)
    PROVE  /\ slot' \in [Conns -> SlotType] /\ peer' \in [Clients -> PeerType]
           /\ svc' \in [Requests -> RequestType] /\ Filled'
<1>0. /\ slot \in [Conns -> SlotType] /\ peer \in [Clients -> PeerType]
      /\ svc \in [Requests -> RequestType]
  BY Types DEF Typed
<1> DEFINE closing == {svc[j].conn : j \in J}
<1>1. /\ slot' = SlotsWithout(slot, closing) /\ peer' = PeersWithout(slot, closing)
      /\ svc' = [j \in Requests |-> IF j \in J THEN EmptyRequest ELSE svc[j]]
  BY DEF CloseRequests
<1> HIDE DEF closing
<1>2. slot' \in [Conns -> SlotType] /\ peer' \in [Clients -> PeerType]
  BY <1>0, <1>1, WithoutTyped
<1>3. svc' \in [Requests -> RequestType]
  BY <1>0, <1>1, EmptyTyped
<1>4. \A i \in Conns : slot'[i].pending => slot'[i].rx # <<>>
  <2> SUFFICES ASSUME NEW i \in Conns, slot'[i].pending PROVE slot'[i].rx # <<>>
    OBVIOUS
  <2>1. slot'[i] = EmptySlot \/ slot'[i] = slot[i]
    BY <1>0, <1>1, WithoutTyped
  <2>2. ~EmptySlot.pending
    BY DEF EmptySlot
  <2> QED
    BY <2>1, <2>2 DEF Typed, Filled
<1>5. \A j \in Requests : svc'[j].conn # 0 => svc'[j].req # <<>>
  <2>1. EmptyRequest.conn = 0
    BY DEF EmptyRequest
  <2> QED
    BY <1>1, <2>1 DEF Typed, Filled
<1> QED
  BY <1>2, <1>3, <1>4, <1>5 DEF Filled

\* An answer goes from a client to a client.
LEMMA AnswerTyped ==
    ASSUME Typed, NEW j \in Requests, Sends(j)
    PROVE  Answer(j) \subseteq Clients \X Clients
<1>0. slot \in [Conns -> SlotType] /\ svc \in [Requests -> RequestType]
  BY Types DEF Typed
<1>1. svc[j].conn \in Conns /\ slot[svc[j].conn].pcb \in Clients
  BY <1>0 DEF Sends, RequestType, SlotType
<1>2. svc[j].req \in Seq(Clients) /\ svc[j].req # <<>>
  BY <1>0 DEF Sends, RequestType, Typed, Filled
<1>3. svc[j].req[1] \in Clients
  BY <1>2
<1> QED
  BY <1>1, <1>3 DEF Answer

\* What a poll does to the slots, the requests and the peers it pairs, and that
\* it leaves the others alone.
LEMMA PollIs ==
    ASSUME tcp_service_poll
    PROVE  /\ \A x \in Pairs :
                /\ x[1] \in Conns /\ x[1] \in Waiting /\ x[2] \in Requests /\ svc[x[2]].conn = 0
                /\ slot'[x[1]] = Delivered(slot[x[1]])
                /\ svc'[x[2]] = [conn |-> x[1], inttrig |-> TRUE, req |-> slot[x[1]].rx]
           /\ \A i \in Conns : (\A x \in Pairs : x[1] # i) => slot'[i] = slot[i]
           /\ \A j \in Requests : (\A x \in Pairs : x[2] # j) => svc'[j] = svc[j]
           /\ \A c \in Clients :
                \/ peer'[c] = peer[c]
                \/ \E x \in Pairs : /\ slot[x[1]].rx[1] = c
                                    /\ peer'[c] = [peer[c] EXCEPT !.got = @ + 1]
           /\ DOMAIN slot' = Conns /\ DOMAIN svc' = Requests /\ DOMAIN peer' = Clients
           /\ slot' = [i \in Conns |-> slot'[i]] /\ svc' = [j \in Requests |-> svc'[j]]
           /\ peer' = [c \in Clients |-> peer'[c]]
<1> DEFINE taken == {x[1] : x \in Pairs}
           chosen(j) == CHOOSE i \in taken : <<i, j>> \in Pairs
<1>1. /\ svc' = [j \in Requests |->
                    IF \E x \in Pairs : x[2] = j
                    THEN [conn |-> chosen(j), inttrig |-> TRUE, req |-> slot[chosen(j)].rx]
                    ELSE svc[j]]
      /\ slot' = [i \in Conns |-> IF i \in taken THEN Delivered(slot[i]) ELSE slot[i]]
      /\ peer' = [c \in Clients |-> IF \E i \in taken : slot[i].rx[1] = c
                                    THEN [peer[c] EXCEPT !.got = @ + 1] ELSE peer[c]]
  BY DEF tcp_service_poll
<1>2. ASSUME NEW x \in Pairs
      PROVE  /\ x[1] \in taken /\ chosen(x[2]) = x[1]
             /\ x[1] \in Conns /\ x[1] \in Waiting /\ x[2] \in Requests /\ svc[x[2]].conn = 0
  <2>1. x = <<x[1], x[2]>> /\ x[1] \in Deliverable /\ x[2] \in FreeRequests
    BY DEF Pairs
  <2>2. x[1] \in Conns /\ x[1] \in Waiting /\ x[2] \in Requests /\ svc[x[2]].conn = 0
    BY <2>1 DEF Deliverable, Waiting, FreeRequests
  <2>3. x[1] \in taken /\ <<x[1], x[2]>> \in Pairs
    BY <2>1
  <2>4. \A i \in taken : <<i, x[2]>> \in Pairs => i = x[1]
    BY PairsOneToOne
  <2>5. chosen(x[2]) = x[1]
    BY <2>3, <2>4
  <2> QED
    BY <2>2, <2>3, <2>5
<1>3. \A i : i \in taken => \E x \in Pairs : x[1] = i
  OBVIOUS
<1> HIDE DEF taken, chosen
<1>4. ASSUME NEW c \in Clients
      PROVE  \/ peer'[c] = peer[c]
             \/ \E x \in Pairs : /\ slot[x[1]].rx[1] = c
                                 /\ peer'[c] = [peer[c] EXCEPT !.got = @ + 1]
  BY <1>1, <1>3
<1>5. ASSUME NEW x \in Pairs
      PROVE  /\ slot'[x[1]] = Delivered(slot[x[1]])
             /\ svc'[x[2]] = [conn |-> x[1], inttrig |-> TRUE, req |-> slot[x[1]].rx]
  BY <1>1, <1>2
<1>6. \A i \in Conns : (\A x \in Pairs : x[1] # i) => slot'[i] = slot[i]
  BY <1>1, <1>3
<1>7. \A j \in Requests : (\A x \in Pairs : x[2] # j) => svc'[j] = svc[j]
  BY <1>1
<1>8. /\ DOMAIN slot' = Conns /\ DOMAIN svc' = Requests /\ DOMAIN peer' = Clients
      /\ slot' = [i \in Conns |-> slot'[i]] /\ svc' = [j \in Requests |-> svc'[j]]
      /\ peer' = [c \in Clients |-> peer'[c]]
  BY <1>1
<1> QED
  BY <1>2, <1>4, <1>5, <1>6, <1>7, <1>8, Zenon

\* The same for one slot, and for one request.
LEMMA PollSlot ==
    ASSUME tcp_service_poll, NEW i \in Conns
    PROVE  \/ slot'[i] = slot[i] /\ \A x \in Pairs : x[1] # i
           \/ /\ slot'[i] = Delivered(slot[i]) /\ i \in Waiting
              /\ \E j \in Requests : svc'[j] = [conn |-> i, inttrig |-> TRUE, req |-> slot[i].rx]
<1>1. CASE \E x \in Pairs : x[1] = i
  <2>1. PICK x \in Pairs : x[1] = i
    BY <1>1
  <2>2. /\ x[1] \in Waiting /\ x[2] \in Requests /\ slot'[x[1]] = Delivered(slot[x[1]])
        /\ svc'[x[2]] = [conn |-> x[1], inttrig |-> TRUE, req |-> slot[x[1]].rx]
    BY PollIs, Zenon
  <2> QED
    BY <2>1, <2>2
<1>2. CASE \A x \in Pairs : x[1] # i
  BY <1>2, PollIs, Zenon
<1> QED
  BY <1>1, <1>2

LEMMA PollRequest ==
    ASSUME tcp_service_poll, NEW j \in Requests
    PROVE  \/ svc'[j] = svc[j] /\ \A x \in Pairs : x[2] # j
           \/ /\ svc[j].conn = 0
              /\ \E x \in Pairs :
                   /\ x[2] = j /\ x[1] \in Conns /\ x[1] \in Waiting
                   /\ slot'[x[1]] = Delivered(slot[x[1]])
                   /\ svc'[j] = [conn |-> x[1], inttrig |-> TRUE, req |-> slot[x[1]].rx]
<1>1. CASE \E x \in Pairs : x[2] = j
  <2>1. PICK x \in Pairs : x[2] = j
    BY <1>1
  <2>2. /\ x[1] \in Conns /\ x[1] \in Waiting /\ svc[x[2]].conn = 0
        /\ slot'[x[1]] = Delivered(slot[x[1]])
        /\ svc'[x[2]] = [conn |-> x[1], inttrig |-> TRUE, req |-> slot[x[1]].rx]
    BY PollIs, Zenon
  <2> QED
    BY <2>1, <2>2
<1>2. CASE \A x \in Pairs : x[2] # j
  BY <1>2, PollIs, Zenon
<1> QED
  BY <1>1, <1>2

LEMMA PollTyped ==
    ASSUME Typed, tcp_service_poll
    PROVE  Typed'
<1>0. /\ slot \in [Conns -> SlotType] /\ peer \in [Clients -> PeerType]
      /\ svc \in [Requests -> RequestType]
  BY Types DEF Typed
<1>1. ASSUME NEW i \in Conns
      PROVE  slot'[i] \in SlotType /\ (slot'[i].pending => slot'[i].rx # <<>>)
  <2>1. slot'[i] = slot[i] \/ slot'[i] = Delivered(slot[i])
    BY PollSlot
  <2> QED
    BY <1>0, <2>1, DeliveredSlot DEF Typed, Filled
<1>2. ASSUME NEW c \in Clients
      PROVE  peer'[c] \in PeerType
  <2>1. peer'[c] = peer[c] \/ peer'[c] = [peer[c] EXCEPT !.got = @ + 1]
    BY PollIs, Zenon
  <2>2. [peer[c] EXCEPT !.got = @ + 1] \in PeerType
    BY <1>0 DEF PeerType
  <2> QED
    BY <1>0, <2>1, <2>2
<1>3. ASSUME NEW j \in Requests
      PROVE  svc'[j] \in RequestType /\ (svc'[j].conn # 0 => svc'[j].req # <<>>)
  <2>1. CASE svc'[j] = svc[j]
    BY <1>0, <2>1 DEF Typed, Filled
  <2>2. CASE svc'[j] # svc[j]
    <3>1. PICK i \in Conns : /\ slot[i].pending
                             /\ svc'[j] = [conn |-> i, inttrig |-> TRUE, req |-> slot[i].rx]
      BY <2>2, PollRequest DEF Waiting
    <3>2. slot[i].rx \in Seq(Clients) /\ slot[i].rx # <<>>
      BY <1>0, <3>1 DEF SlotType, Typed, Filled
    <3> QED
      BY <3>1, <3>2 DEF RequestType
  <2> QED
    BY <2>1, <2>2
<1>4. /\ slot' \in [Conns -> SlotType] /\ peer' \in [Clients -> PeerType]
      /\ svc' \in [Requests -> RequestType]
  BY <1>1, <1>2, <1>3, PollIs, Zenon
<1>5. Filled'
  BY <1>1, <1>3 DEF Filled
<1> QED
  BY <1>4, <1>5 DEF Typed, TypeOK, tcp_service_poll

LEMMA RequestTyped ==
    ASSUME Typed, NEW j \in Requests, Read(j) \/ Send(j) \/ Transmit(j) \/ Close(j)
    PROVE  Typed'
<1>0. svc \in [Requests -> RequestType]
  BY Types DEF Typed
<1>1. CASE Read(j)
  <2>1. svc' = [svc EXCEPT ![j].inttrig = FALSE]
    BY <1>1 DEF Read
  <2>2. svc' \in [Requests -> RequestType]
    BY <1>0, <2>1 DEF RequestType
  <2>3. \A k \in Requests : svc'[k].conn = svc[k].conn /\ svc'[k].req = svc[k].req
    BY <1>0, <2>1 DEF RequestType
  <2> QED
    BY <1>1, <2>2, <2>3 DEF Read, Typed, TypeOK, Filled
<1>2. CASE Send(j)
  BY <1>2, AnswerTyped DEF Send, Typed, TypeOK, Filled
<1>3. CASE Transmit(j)
  <2>1. /\ slot' \in [Conns -> SlotType] /\ peer' \in [Clients -> PeerType]
        /\ svc' \in [Requests -> RequestType] /\ Filled'
    BY <1>3, CloseTyped DEF Transmit
  <2> QED
    BY <1>3, <2>1, AnswerTyped DEF Transmit, Typed, TypeOK
<1>4. CASE Close(j)
  <2>1. /\ slot' \in [Conns -> SlotType] /\ peer' \in [Clients -> PeerType]
        /\ svc' \in [Requests -> RequestType] /\ Filled'
    BY <1>4, CloseTyped DEF Close
  <2> QED
    BY <1>4, <2>1 DEF Close, Typed, TypeOK
<1> QED
  BY <1>1, <1>2, <1>3, <1>4

LEMMA ClearTyped ==
    ASSUME Typed, clear_requests
    PROVE  Typed'
<1>1. /\ slot' \in [Conns -> SlotType] /\ peer' \in [Clients -> PeerType]
      /\ svc' \in [Requests -> RequestType] /\ Filled'
  BY CloseTyped DEF clear_requests
<1>2. runs' \in 0 .. MaxRuns
  BY TcpAssumption DEF clear_requests, Typed, TypeOK
<1> QED
  BY <1>1, <1>2 DEF clear_requests, Typed, TypeOK

\* The connection telnet works on is a slot: its own, or one that calls.
LEMMA TelnetConnIsSlot ==
    ASSUME tel \in Conns \cup {0}, TelnetConn # 0
    PROVE  TelnetConn \in Conns /\ (TelnetConn = tel \/ TelnetConn \in Calling)
<1>1. Calling \subseteq Nat /\ Calling \subseteq Conns
  BY TcpAssumption DEF Calling, Conns
<1>2. Calling # {} => Min(Calling) \in Calling
  BY <1>1, MinIsMember
<1> QED
  BY <1>1, <1>2 DEF TelnetConn

\* What the receive loop of pico_telnet_poll leaves of the slots.
ReadSlots(i) ==
    [slot EXCEPT ![i].accepted = IF tel = 0 THEN FALSE ELSE @,
                 ![i].rx = <<>>,
                 ![i].pending = IF slot[i].rx # <<>> THEN FALSE ELSE @]

LEMMA AfterReading ==
    ASSUME Typed, NEW i \in Conns
    PROVE  /\ ReadSlots(i) \in [Conns -> SlotType]
           /\ \A k \in Conns : k # i => ReadSlots(i)[k] = slot[k]
           /\ ReadSlots(i)[i].pcb = slot[i].pcb /\ ReadSlots(i)[i].server = slot[i].server
           /\ ReadSlots(i)[i].closed = slot[i].closed /\ ReadSlots(i)[i].failed = slot[i].failed
           /\ ReadSlots(i)[i].delivered = slot[i].delivered
           /\ ~ReadSlots(i)[i].pending /\ ReadSlots(i)[i].rx = <<>>
<1>0. slot \in [Conns -> SlotType] /\ slot[i] \in SlotType
  BY Types DEF Typed
<1> DEFINE e == <<>>
           a == IF tel = 0 THEN FALSE ELSE slot[i].accepted
           p == IF slot[i].rx # <<>> THEN FALSE ELSE slot[i].pending
           after == [slot[i] EXCEPT !.accepted = a, !.rx = e, !.pending = p]
<1>1. e \in Seq(Clients) /\ a \in BOOLEAN /\ p \in BOOLEAN
  <2>1. slot[i].accepted \in BOOLEAN /\ slot[i].pending \in BOOLEAN
    BY <1>0 DEF SlotType
  <2>2. e \in Seq(Clients)
    OBVIOUS
  <2> QED
    BY <2>1, <2>2
<1>2. ~p
  BY <1>0 DEF Typed, Filled
<1>3. ReadSlots(i) = [slot EXCEPT ![i] = after]
  BY <1>0 DEF ReadSlots
<1> HIDE DEF e, a, p
<1>4. after \in SlotType
  BY <1>0, <1>1, SlotUpdates
<1>5. /\ after.pcb = slot[i].pcb /\ after.server = slot[i].server
      /\ after.closed = slot[i].closed /\ after.failed = slot[i].failed
      /\ after.delivered = slot[i].delivered /\ after.pending = p /\ after.rx = e
  BY <1>0 DEF SlotType
<1> HIDE DEF after
<1>6. ReadSlots(i) \in [Conns -> SlotType] /\ ReadSlots(i)[i] = after
  BY <1>0, <1>3, <1>4
<1>7. \A k \in Conns : k # i => ReadSlots(i)[k] = slot[k]
  BY <1>0, <1>3
<1> QED
  BY <1>2, <1>5, <1>6, <1>7 DEF e

\* The two outcomes of pico_telnet_poll.
LEMMA PollTelnet ==
    ASSUME telnet_poll
    PROVE  LET i == TelnetConn
               over == slot[i].closed \/ slot[i].failed \/ slot[i].pcb = NoClient
           IN  /\ i # 0
               /\ console' = console \cup {slot[i].rx[k] : k \in DOMAIN slot[i].rx}
               /\ \/ /\ over /\ slot' = SlotsWithout(ReadSlots(i), {i})
                     /\ peer' = PeersWithout(slot, {i}) /\ tel' = 0
                  \/ ~over /\ slot' = ReadSlots(i) /\ tel' = i /\ UNCHANGED peer
               /\ UNCHANGED <<svc, answers, hangups, runs>>
BY DEF telnet_poll, ReadSlots

LEMMA TelnetTyped ==
    ASSUME Typed, telnet_poll \/ telnet_close_conn
    PROVE  Typed'
<1> DEFINE i == TelnetConn
<1>0. /\ slot \in [Conns -> SlotType] /\ peer \in [Clients -> PeerType]
      /\ tel \in Conns \cup {0}
  BY Types DEF Typed
<1>1. i \in Conns
  BY <1>0, TelnetConnIsSlot DEF telnet_poll, telnet_close_conn
<1>2. ~EmptySlot.pending
  BY DEF EmptySlot
<1>3. CASE telnet_poll
  <2>1. ReadSlots(i) \in [Conns -> SlotType]
    BY <1>1, AfterReading
  <2>2. slot' = SlotsWithout(ReadSlots(i), {i}) \/ slot' = ReadSlots(i)
    BY <1>3, PollTelnet
  <2>3. peer' = PeersWithout(slot, {i}) \/ peer' = peer
    BY <1>3, PollTelnet
  <2>4. tel' \in Conns \cup {0}
    BY <1>1, <1>3, PollTelnet
  <2>5. slot' \in [Conns -> SlotType] /\ peer' \in [Clients -> PeerType]
    BY <1>0, <2>1, <2>2, <2>3, WithoutTyped
  <2>6. {slot[i].rx[k] : k \in DOMAIN slot[i].rx} \subseteq Clients
    <3>1. slot[i].rx \in Seq(Clients)
      BY <1>0, <1>1 DEF SlotType
    <3> QED
      BY <3>1
  <2>7. console' \subseteq Clients
    BY <1>3, <2>6, PollTelnet DEF Typed, TypeOK
  <2>8. \A k \in Conns : slot'[k].pending => slot'[k].rx # <<>>
    <3> SUFFICES ASSUME NEW k \in Conns, slot'[k].pending PROVE slot'[k].rx # <<>>
      OBVIOUS
    <3>1. slot'[k] = EmptySlot \/ slot'[k] = ReadSlots(i)[k]
      BY <1>0, <2>1, <2>2, WithoutTyped
    <3>2. k # i /\ slot'[k] = slot[k]
      BY <1>1, <1>2, <3>1, AfterReading
    <3> QED
      BY <3>2 DEF Typed, Filled
  <2> QED
    BY <1>3, <2>4, <2>5, <2>7, <2>8, PollTelnet DEF Typed, TypeOK, Filled
<1>4. CASE telnet_close_conn
  <2>1. slot' = SlotsWithout(slot, {i}) /\ peer' = PeersWithout(slot, {i})
    BY <1>4 DEF telnet_close_conn
  <2>2. slot' \in [Conns -> SlotType] /\ peer' \in [Clients -> PeerType]
    BY <1>0, <2>1, WithoutTyped
  <2>3. \A k \in Conns : slot'[k] = EmptySlot \/ slot'[k] = slot[k]
    BY <1>0, <2>1, WithoutTyped
  <2>4. hangups' \in 0 .. MaxHangups
    BY <1>4, TcpAssumption DEF telnet_close_conn, Typed, TypeOK
  <2> QED
    BY <1>2, <1>4, <2>2, <2>3, <2>4 DEF telnet_close_conn, Typed, TypeOK, Filled
<1> QED
  BY <1>3, <1>4

\* Every step keeps the types.
LEMMA NextTyped == Typed /\ [Next]_vars => Typed'
<1> SUFFICES ASSUME Typed, [Next]_vars PROVE Typed'
  OBVIOUS
<1>1. CASE UNCHANGED vars
  BY <1>1 DEF vars, Typed, TypeOK, Filled
<1> QED
  BY <1>1, CallbackTyped, PollTyped, RequestTyped, ClearTyped, TelnetTyped DEF Next
-----------------------------------------------------------------------------
(* No connection BASIC was given is lost.                                  *)

\* A step that delivers nothing and leaves the handles of the requests alone.
LEMMA NothingDelivered ==
    ASSUME NoOrphan,
           \A i \in Conns : slot'[i].delivered /\ slot'[i].pcb # NoClient =>
                              slot[i].delivered /\ slot[i].pcb # NoClient,
           \A j \in Requests : svc'[j].conn = svc[j].conn
    PROVE  NoOrphan'
BY DEF NoOrphan

LEMMA CallbackNoOrphan ==
    ASSUME Typed, NoOrphan, NEW c \in Clients,
           Accept(c) \/ Refuse(c) \/ Receive(c) \/ Fin(c) \/ Reset(c)
    PROVE  NoOrphan'
<1>0. slot \in [Conns -> SlotType]
  BY Types DEF Typed
<1>1. CASE Accept(c)
  <2> DEFINE i == Min(FreeConns)
             new == [EmptySlot EXCEPT !.pcb = c, !.server = Server(c), !.accepted = TRUE]
  <2>1. i \in Conns /\ slot' = [slot EXCEPT ![i] = new] /\ ~new.delivered /\ UNCHANGED svc
    BY <1>1, FreeConn, NewSlot DEF Accept
  <2> HIDE DEF i, new
  <2>2. \A k \in Conns : slot'[k] = slot[k] \/ ~slot'[k].delivered
    BY <1>0, <2>1
  <2> QED
    BY <2>1, <2>2, NothingDelivered
<1>2. CASE Refuse(c)
  BY <1>2, NothingDelivered DEF Refuse
<1>3. CASE Receive(c)
  <2>1. slot' = [slot EXCEPT ![peer[c].arg].rx = Append(@, c), ![peer[c].arg].pending = TRUE]
    BY <1>3 DEF Receive
  <2>2. \A k \in Conns : slot'[k].delivered = slot[k].delivered /\ slot'[k].pcb = slot[k].pcb
    BY <1>0, <2>1 DEF SlotType
  <2> QED
    BY <1>3, <2>2, NothingDelivered DEF Receive
<1>4. CASE Fin(c)
  <2>1. slot' = [slot EXCEPT ![peer[c].arg].closed = TRUE, ![peer[c].arg].pcb = NoClient]
    BY <1>4 DEF Fin
  <2>2. \A k \in Conns : /\ slot'[k].delivered = slot[k].delivered
                         /\ slot'[k].pcb = slot[k].pcb \/ slot'[k].pcb = NoClient
    BY <1>0, <2>1 DEF SlotType
  <2> QED
    BY <1>4, <2>2, NothingDelivered DEF Fin
<1>5. CASE Reset(c)
  <2>1. slot' = [slot EXCEPT ![peer[c].arg].failed = TRUE, ![peer[c].arg].pcb = NoClient]
    BY <1>5 DEF Reset
  <2>2. \A k \in Conns : /\ slot'[k].delivered = slot[k].delivered
                         /\ slot'[k].pcb = slot[k].pcb \/ slot'[k].pcb = NoClient
    BY <1>0, <2>1 DEF SlotType
  <2> QED
    BY <1>5, <2>2, NothingDelivered DEF Reset
<1> QED
  BY <1>1, <1>2, <1>3, <1>4, <1>5

\* The connection of a request that is closed goes with it.
LEMMA CloseNoOrphan ==
    ASSUME Typed, NoOrphan, NEW J, J \subseteq Requests, CloseRequests(J)
    PROVE  NoOrphan'
<1> DEFINE closing == {svc[j].conn : j \in J}
<1>1. /\ slot' = [i \in Conns |-> IF i \in closing /\ Valid(slot[i]) THEN EmptySlot ELSE slot[i]]
      /\ svc' = [j \in Requests |-> IF j \in J THEN EmptyRequest ELSE svc[j]]
  BY DEF CloseRequests, SlotsWithout
<1>2. \A j \in J : svc[j].conn \in closing
  OBVIOUS
<1> HIDE DEF closing
<1> SUFFICES ASSUME NEW i \in Conns, slot'[i].delivered, slot'[i].pcb # NoClient
             PROVE  \E j \in Requests : svc'[j].conn = i
  BY DEF NoOrphan
<1>3. slot'[i] # EmptySlot
  BY DEF EmptySlot
<1>4. slot'[i] = slot[i] /\ ~(i \in closing /\ Valid(slot[i]))
  BY <1>1, <1>3
<1>5. i \notin closing
  BY <1>4 DEF Valid
<1>6. PICK j \in Requests : svc[j].conn = i
  BY <1>4 DEF NoOrphan
<1>7. svc'[j] = svc[j]
  BY <1>1, <1>2, <1>5, <1>6
<1> QED
  BY <1>6, <1>7

\* A connection is delivered together with a request that holds its handle, and
\* only requests without a handle are taken for it.
LEMMA PollNoOrphan ==
    ASSUME Typed, NoOrphan, tcp_service_poll
    PROVE  NoOrphan'
<1> SUFFICES ASSUME NEW i \in Conns, slot'[i].delivered, slot'[i].pcb # NoClient
             PROVE  \E j \in Requests : svc'[j].conn = i
  BY DEF NoOrphan
<1>1. CASE slot'[i] = slot[i] /\ \A x \in Pairs : x[1] # i
  <2>1. PICK j \in Requests : svc[j].conn = i
    BY <1>1 DEF NoOrphan
  <2>2. i # 0
    BY TcpAssumption DEF Conns
  <2>3. svc'[j] = svc[j]
    BY <2>1, <2>2, PollRequest
  <2> QED
    BY <2>1, <2>3
<1>2. CASE \E j \in Requests : svc'[j] = [conn |-> i, inttrig |-> TRUE, req |-> slot[i].rx]
  BY <1>2
<1> QED
  BY <1>1, <1>2, PollSlot

LEMMA TelnetNoOrphan ==
    ASSUME Typed, NoOrphan, telnet_poll \/ telnet_close_conn
    PROVE  NoOrphan'
<1> DEFINE i == TelnetConn
<1>0. slot \in [Conns -> SlotType] /\ peer \in [Clients -> PeerType] /\ tel \in Conns \cup {0}
  BY Types DEF Typed
<1>1. i \in Conns
  BY <1>0, TelnetConnIsSlot DEF telnet_poll, telnet_close_conn
<1>2. ~EmptySlot.delivered
  BY DEF EmptySlot
<1>3. UNCHANGED svc
  BY DEF telnet_poll, telnet_close_conn
<1>4. CASE telnet_poll
  <2>1. slot' = SlotsWithout(ReadSlots(i), {i}) \/ slot' = ReadSlots(i)
    BY <1>4, PollTelnet
  <2>2. \A k \in Conns : slot'[k] = EmptySlot \/ slot'[k] = ReadSlots(i)[k]
    BY <1>0, <1>1, <2>1, AfterReading, WithoutTyped
  <2>3. \A k \in Conns : ReadSlots(i)[k].delivered = slot[k].delivered /\ ReadSlots(i)[k].pcb = slot[k].pcb
    BY <1>1, AfterReading
  <2> QED
    BY <1>2, <1>3, <2>2, <2>3, NothingDelivered
<1>5. CASE telnet_close_conn
  <2>1. \A k \in Conns : slot'[k] = EmptySlot \/ slot'[k] = slot[k]
    BY <1>0, <1>5, WithoutTyped DEF telnet_close_conn
  <2> QED
    BY <1>2, <1>3, <2>1, NothingDelivered
<1> QED
  BY <1>4, <1>5

LEMMA NextNoOrphan == Typed /\ NoOrphan /\ [Next]_vars => NoOrphan'
<1> SUFFICES ASSUME Typed, NoOrphan, [Next]_vars PROVE NoOrphan'
  OBVIOUS
<1>0. svc \in [Requests -> RequestType]
  BY Types DEF Typed
<1>1. CASE UNCHANGED vars
  BY <1>1 DEF vars, NoOrphan
<1>2. ASSUME NEW j \in Requests, Read(j) PROVE NoOrphan'
  <2>1. \A k \in Requests : svc'[k].conn = svc[k].conn
    BY <1>0, <1>2 DEF Read, RequestType
  <2> QED
    BY <1>2, <2>1, NothingDelivered DEF Read
<1>3. ASSUME NEW j \in Requests, Send(j) PROVE NoOrphan'
  BY <1>3, NothingDelivered DEF Send
<1>4. ASSUME NEW j \in Requests, Transmit(j) \/ Close(j) PROVE NoOrphan'
  BY <1>4, CloseNoOrphan DEF Transmit, Close
<1>5. CASE clear_requests
  BY <1>5, CloseNoOrphan DEF clear_requests
<1> QED
  BY <1>1, <1>2, <1>3, <1>4, <1>5, CallbackNoOrphan, PollNoOrphan, TelnetNoOrphan DEF Next
-----------------------------------------------------------------------------
(* As long as nobody hangs up.                                             *)

LEMMA InitQuiet == Init => Quiet
<1> SUFFICES ASSUME Init PROVE Quiet
  OBVIOUS
<1>1. /\ \A i \in Conns : slot[i] = EmptySlot
      /\ \A c \in Clients : peer[c].state = "new" /\ peer[c].got = 0
      /\ \A j \in Requests : svc[j] = EmptyRequest
      /\ tel = 0 /\ console = {} /\ answers = {}
  BY DEF Init
<1>2. Linked
  BY <1>1 DEF Linked, EmptySlot
<1>3. Clean
  BY <1>1, EmptyFields DEF Clean
<1>4. Held
  BY <1>1, EmptyFields DEF Held
<1>5. Once
  BY <1>1 DEF Once
<1> QED
  BY <1>1, <1>2, <1>3, <1>4, <1>5 DEF Quiet, ConsoleLinked, AnswerReachesAsker

\* A new connection takes an empty slot, which no request and no console holds.
LEMMA AcceptQuiet ==
    ASSUME Typed, Quiet, NEW c \in Clients, Accept(c)
    PROVE  Quiet'
<1> DEFINE i == Min(FreeConns)
           new == [EmptySlot EXCEPT !.pcb = c, !.server = Server(c), !.accepted = TRUE]
<1>0. /\ slot \in [Conns -> SlotType] /\ peer \in [Clients -> PeerType]
      /\ svc \in [Requests -> RequestType] /\ tel \in Conns \cup {0}
  BY Types DEF Typed
<1>1. i \in Conns /\ slot[i].pcb = NoClient
  BY FreeConn DEF Accept
<1>2. /\ new.pcb = c /\ new.server = Server(c) /\ ~new.closed /\ ~new.failed
      /\ ~new.delivered /\ new.rx = <<>>
  BY NewSlot
<1>3. /\ slot' = [slot EXCEPT ![i] = new]
      /\ peer' = [peer EXCEPT ![c].state = "open", ![c].arg = i]
      /\ peer[c].state = "new"
      /\ UNCHANGED <<svc, tel, console, answers>>
  BY DEF Accept
<1> HIDE DEF i, new
<1>4. slot'[i] = new /\ \A k \in Conns : k # i => slot'[k] = slot[k]
  BY <1>0, <1>1, <1>3
<1>5. /\ peer'[c].state = "open" /\ peer'[c].arg = i /\ peer'[c].got = peer[c].got
      /\ \A d \in Clients : d # c => peer'[d] = peer[d]
  BY <1>0, <1>3 DEF PeerType
<1>6. c # NoClient
  BY TcpAssumption
<1>7. \A k \in Conns : slot[k].pcb # NoClient => slot[k].pcb \in Clients
  BY <1>0 DEF SlotType
<1>8. Linked'
  <2>1. ASSUME NEW d \in Clients
        PROVE  /\ peer'[d].state # "half"
               /\ peer'[d].state = "open" => peer'[d].arg \in Conns /\ slot'[peer'[d].arg].pcb = d
    <3>1. CASE d = c
      BY <1>1, <1>2, <1>4, <1>5, <3>1
    <3>2. CASE d # c
      <4>1. peer'[d] = peer[d] /\ d # NoClient
        BY <1>5, <3>2, TcpAssumption
      <4> QED
        BY <1>1, <1>4, <4>1 DEF Quiet, Linked
    <3> QED
      BY <3>1, <3>2
  <2>2. ASSUME NEW k \in Conns, slot'[k].pcb # NoClient
        PROVE  peer'[slot'[k].pcb].state = "open" /\ peer'[slot'[k].pcb].arg = k
    <3>1. CASE k = i
      BY <1>2, <1>4, <1>5, <3>1
    <3>2. CASE k # i
      <4>1. slot'[k] = slot[k] /\ slot[k].pcb \in Clients /\ peer[slot[k].pcb].state = "open"
        BY <1>4, <1>7, <2>2, <3>2 DEF Quiet, Linked
      <4>2. slot[k].pcb # c /\ peer[slot[k].pcb].arg = k
        BY <1>3, <2>2, <4>1 DEF Quiet, Linked
      <4> QED
        BY <1>5, <4>1, <4>2
    <3> QED
      BY <3>1, <3>2
  <2> QED
    BY <2>1, <2>2 DEF Linked
<1>9. Clean'
  <2>1. ASSUME NEW k \in Conns
        PROVE  /\ slot'[k].pcb = NoClient => slot'[k] = EmptySlot
               /\ slot'[k].pcb # NoClient => slot'[k].server = Server(slot'[k].pcb)
               /\ ~slot'[k].closed /\ ~slot'[k].failed
               /\ slot'[k].delivered => slot'[k].server = "http"
               /\ \A n \in DOMAIN slot'[k].rx : slot'[k].rx[n] = slot'[k].pcb
    <3>1. CASE k = i
      BY <1>2, <1>4, <1>6, <3>1
    <3>2. CASE k # i
      BY <1>4, <3>2 DEF Quiet, Clean
    <3> QED
      BY <3>1, <3>2
  <2> QED
    BY <2>1 DEF Clean
<1>10. \A j \in Requests : svc[j].conn # 0 => svc[j].conn \in Conns /\ svc[j].conn # i
  BY <1>0, <1>1 DEF RequestType, Quiet, Held
<1>11. Held'
  BY <1>3, <1>4, <1>10 DEF Quiet, Held
<1>12. Once'
  <2> SUFFICES ASSUME NEW d \in Clients
               PROVE  /\ peer'[d].got <= 1
                      /\ peer'[d].state = "new" => peer'[d].got = 0
                      /\ peer'[d].state = "open" /\ ~slot'[peer'[d].arg].delivered => peer'[d].got = 0
    BY DEF Once
  <2>1. CASE d = c
    BY <1>3, <1>5, <2>1 DEF Quiet, Once
  <2>2. CASE d # c
    <3>1. peer'[d] = peer[d] /\ d # NoClient
      BY <1>5, <2>2, TcpAssumption
    <3>2. peer[d].state = "open" => slot'[peer[d].arg] = slot[peer[d].arg]
      BY <1>1, <1>4, <3>1 DEF Quiet, Linked
    <3> QED
      BY <3>1, <3>2 DEF Quiet, Once
  <2> QED
    BY <2>1, <2>2
<1>13. ConsoleLinked'
  BY <1>0, <1>1, <1>3, <1>4 DEF Quiet, ConsoleLinked
<1> QED
  BY <1>3, <1>8, <1>9, <1>11, <1>12, <1>13 DEF Quiet, AnswerReachesAsker

LEMMA RefuseQuiet ==
    ASSUME Typed, Quiet, NEW c \in Clients, Refuse(c)
    PROVE  Quiet'
<1>0. slot \in [Conns -> SlotType] /\ peer \in [Clients -> PeerType]
  BY Types DEF Typed
<1>1. /\ peer' = [peer EXCEPT ![c].state = "gone"] /\ peer[c].state = "new"
      /\ UNCHANGED <<slot, svc, tel, console, answers>>
  BY DEF Refuse
<1>2. /\ peer'[c].state = "gone" /\ peer'[c].got = peer[c].got
      /\ \A d \in Clients : d # c => peer'[d] = peer[d]
  BY <1>0, <1>1 DEF PeerType
<1>3. \A k \in Conns : slot[k].pcb # NoClient => slot[k].pcb \in Clients /\ slot[k].pcb # c
  BY <1>0, <1>1 DEF SlotType, Quiet, Linked
<1>4. Linked'
  BY <1>1, <1>2, <1>3 DEF Quiet, Linked
<1>5. Once'
  BY <1>1, <1>2 DEF Quiet, Once
<1> QED
  BY <1>1, <1>4, <1>5 DEF Quiet, Clean, Held, ConsoleLinked, AnswerReachesAsker

\* Data goes to the slot of the client that sent it.
LEMMA ReceiveQuiet ==
    ASSUME Typed, Quiet, NEW c \in Clients, Receive(c)
    PROVE  Quiet'
<1> DEFINE i == peer[c].arg
<1>0. /\ slot \in [Conns -> SlotType] /\ peer \in [Clients -> PeerType]
      /\ svc \in [Requests -> RequestType] /\ tel \in Conns \cup {0}
  BY Types DEF Typed
<1>1. /\ peer[c].state = "open"
      /\ peer' = [peer EXCEPT ![c].sent = @ + 1]
      /\ slot' = [slot EXCEPT ![i].rx = Append(@, c), ![i].pending = TRUE]
      /\ UNCHANGED <<svc, tel, console, answers>>
  BY DEF Receive
<1>2. i \in Conns /\ slot[i].pcb = c
  BY <1>1 DEF Quiet, Linked
<1> HIDE DEF i
<1>3. /\ \A k \in Conns : k # i => slot'[k] = slot[k]
      /\ \A k \in Conns : /\ slot'[k].pcb = slot[k].pcb /\ slot'[k].server = slot[k].server
                          /\ slot'[k].closed = slot[k].closed /\ slot'[k].failed = slot[k].failed
                          /\ slot'[k].delivered = slot[k].delivered
      /\ slot'[i].rx = Append(slot[i].rx, c)
  BY <1>0, <1>1, <1>2 DEF SlotType
<1>4. \A d \in Clients : /\ peer'[d].state = peer[d].state /\ peer'[d].arg = peer[d].arg
                         /\ peer'[d].got = peer[d].got
  BY <1>0, <1>1 DEF PeerType
<1>5. c # NoClient
  BY TcpAssumption
<1>6. \A k \in Conns : slot[k].pcb # NoClient => slot[k].pcb \in Clients
  BY <1>0 DEF SlotType
<1>7. Linked'
  BY <1>3, <1>4, <1>6 DEF Quiet, Linked
<1>8. \A k \in DOMAIN slot'[i].rx : slot'[i].rx[k] = c
  <2> DEFINE q == slot[i].rx
  <2>1. q \in Seq(Clients) /\ \A k \in DOMAIN q : q[k] = c
    BY <1>0, <1>2 DEF SlotType, Quiet, Clean
  <2> HIDE DEF q
  <2>2. \A k \in DOMAIN Append(q, c) : Append(q, c)[k] = c
    BY <2>1, MoreData
  <2> QED
    BY <1>3, <2>2 DEF q
<1>9. Clean'
  <2>1. ASSUME NEW k \in Conns
        PROVE  /\ slot'[k].pcb = NoClient => slot'[k] = EmptySlot
               /\ slot'[k].pcb # NoClient => slot'[k].server = Server(slot'[k].pcb)
               /\ ~slot'[k].closed /\ ~slot'[k].failed
               /\ slot'[k].delivered => slot'[k].server = "http"
               /\ \A n \in DOMAIN slot'[k].rx : slot'[k].rx[n] = slot'[k].pcb
    <3>1. CASE k = i
      BY SMTT(30), <1>2, <1>3, <1>5, <1>8, <3>1 DEF Quiet, Clean
    <3>2. CASE k # i
      BY <1>3, <3>2 DEF Quiet, Clean
    <3> QED
      BY <3>1, <3>2
  <2> QED
    BY <2>1 DEF Clean
<1>10. \A j \in Requests : svc[j].conn # 0 => svc[j].conn \in Conns
  BY <1>0 DEF RequestType
<1>11. Held'
  <2>1. svc' = svc
    BY <1>1
  <2>2. \A j \in Requests : svc[j].conn # 0 =>
          /\ slot'[svc[j].conn].pcb = slot[svc[j].conn].pcb
          /\ slot'[svc[j].conn].delivered = slot[svc[j].conn].delivered
    BY <1>3, <1>10
  <2> QED
    BY <2>1, <2>2 DEF Quiet, Held
<1>12. Once'
  BY <1>3, <1>4 DEF Quiet, Once, Linked
<1>13. ConsoleLinked'
  BY <1>0, <1>1, <1>3 DEF Quiet, ConsoleLinked
<1> QED
  BY <1>1, <1>7, <1>9, <1>11, <1>12, <1>13 DEF Quiet, AnswerReachesAsker

\* A waiting connection was never delivered, so nobody holds its handle, and its
\* data is its own.
LEMMA PollQuiet ==
    ASSUME Typed, Quiet, tcp_service_poll
    PROVE  Quiet'
<1>0. /\ slot \in [Conns -> SlotType] /\ peer \in [Clients -> PeerType]
      /\ svc \in [Requests -> RequestType] /\ tel \in Conns \cup {0}
  BY Types DEF Typed
<1>1. UNCHANGED <<tel, console, answers>>
  BY DEF tcp_service_poll
<1>2. ASSUME NEW i \in Waiting
      PROVE  /\ i \in Conns /\ slot[i].pcb # NoClient /\ slot[i].pcb \in Clients
             /\ slot[i].server = "http" /\ ~slot[i].delivered
             /\ slot[i].rx \in Seq(Clients) /\ slot[i].rx # <<>>
             /\ \A k \in DOMAIN slot[i].rx : slot[i].rx[k] = slot[i].pcb
  <2>1. i \in Conns /\ slot[i].pcb # NoClient /\ slot[i].server = "http" /\ slot[i].pending
        /\ ~slot[i].delivered
    BY DEF Waiting
  <2> QED
    BY <1>0, <2>1 DEF SlotType, Quiet, Clean, Typed, Filled
<1>3. ASSUME NEW i \in Conns
      PROVE  /\ slot'[i].pcb = slot[i].pcb /\ slot'[i].server = slot[i].server
             /\ slot'[i].closed = slot[i].closed /\ slot'[i].failed = slot[i].failed
             /\ slot[i].delivered => slot'[i].delivered
             /\ slot'[i] = slot[i] \/ (slot'[i].delivered /\ slot'[i].rx = <<>> /\ i \in Waiting)
  <2>1. CASE slot'[i] = slot[i]
    BY <2>1
  <2>2. CASE slot'[i] = Delivered(slot[i]) /\ i \in Waiting
    <3>1. slot[i] \in SlotType
      BY <1>0
    <3> QED
      BY <2>2, <3>1, DeliveredSlot
  <2> QED
    BY <2>1, <2>2, PollSlot
<1>4. ASSUME NEW c \in Clients
      PROVE  /\ peer'[c].state = peer[c].state /\ peer'[c].arg = peer[c].arg
             /\ \/ peer'[c].got = peer[c].got
                \/ \E x \in Pairs : slot[x[1]].rx[1] = c /\ peer'[c].got = peer[c].got + 1
  <2>1. CASE peer'[c] = peer[c]
    BY <2>1
  <2>2. CASE \E x \in Pairs : /\ slot[x[1]].rx[1] = c
                              /\ peer'[c] = [peer[c] EXCEPT !.got = @ + 1]
    BY <1>0, <2>2 DEF PeerType
  <2> QED
    BY <2>1, <2>2, PollIs, Zenon
<1>5. Linked'
  <2>1. ASSUME NEW c \in Clients
        PROVE  /\ peer'[c].state # "half"
               /\ peer'[c].state = "open" => peer'[c].arg \in Conns /\ slot'[peer'[c].arg].pcb = c
    BY <1>3, <1>4 DEF Quiet, Linked
  <2>2. ASSUME NEW k \in Conns, slot'[k].pcb # NoClient
        PROVE  peer'[slot'[k].pcb].state = "open" /\ peer'[slot'[k].pcb].arg = k
    <3>1. slot[k].pcb \in Clients /\ slot[k].pcb # NoClient /\ slot'[k].pcb = slot[k].pcb
      BY <1>0, <1>3, <2>2 DEF SlotType
    <3> QED
      BY <1>4, <3>1 DEF Quiet, Linked
  <2> QED
    BY <2>1, <2>2 DEF Linked
<1>6. Clean'
  <2>1. ASSUME NEW k \in Conns
        PROVE  /\ slot'[k].pcb = NoClient => slot'[k] = EmptySlot
               /\ slot'[k].pcb # NoClient => slot'[k].server = Server(slot'[k].pcb)
               /\ ~slot'[k].closed /\ ~slot'[k].failed
               /\ slot'[k].delivered => slot'[k].server = "http"
               /\ \A n \in DOMAIN slot'[k].rx : slot'[k].rx[n] = slot'[k].pcb
    <3>1. CASE slot'[k] = slot[k]
      BY <3>1 DEF Quiet, Clean
    <3>2. CASE slot'[k] # slot[k]
      BY <1>2, <1>3, <3>2 DEF Quiet, Clean
    <3> QED
      BY <3>1, <3>2
  <2> QED
    BY <2>1 DEF Clean
<1>7. ASSUME NEW j \in Requests
      PROVE  \/ svc'[j] = svc[j]
             \/ \E x \in Pairs : /\ x[2] = j /\ x[1] \in Waiting /\ slot'[x[1]].delivered
                                 /\ svc'[j].conn = x[1] /\ svc'[j].req = slot[x[1]].rx
  <2>1. CASE \E x \in Pairs : /\ x[2] = j /\ x[1] \in Waiting
                              /\ slot'[x[1]] = Delivered(slot[x[1]])
                              /\ svc'[j] = [conn |-> x[1], inttrig |-> TRUE, req |-> slot[x[1]].rx]
    <3>1. PICK x \in Pairs : /\ x[2] = j /\ x[1] \in Waiting
                             /\ slot'[x[1]] = Delivered(slot[x[1]])
                             /\ svc'[j] = [conn |-> x[1], inttrig |-> TRUE, req |-> slot[x[1]].rx]
      BY <2>1
    <3>2. slot[x[1]] \in SlotType
      BY <1>0, <1>2, <3>1
    <3>3. slot'[x[1]].delivered
      BY <3>1, <3>2, DeliveredSlot
    <3> QED
      BY <3>1, <3>3
  <2> QED
    BY <2>1, PollRequest
<1>8. \A j \in Requests : svc[j].conn # 0 =>
         /\ svc[j].conn \in Conns /\ slot[svc[j].conn].delivered
         /\ slot[svc[j].conn].pcb # NoClient
  BY <1>0 DEF RequestType, Quiet, Held
<1>9. Held'
  <2>1. ASSUME NEW j \in Requests
        PROVE  IF svc'[j].conn = 0 THEN svc'[j].req = <<>>
               ELSE /\ slot'[svc'[j].conn].pcb # NoClient
                    /\ slot'[svc'[j].conn].delivered
                    /\ \A k \in DOMAIN svc'[j].req : svc'[j].req[k] = slot'[svc'[j].conn].pcb
    <3>1. CASE svc'[j] = svc[j]
      BY <1>3, <1>8, <3>1 DEF Quiet, Held
    <3>2. CASE svc'[j] # svc[j]
      <4>1. PICK x \in Pairs : /\ x[2] = j /\ x[1] \in Waiting /\ slot'[x[1]].delivered
                               /\ svc'[j].conn = x[1] /\ svc'[j].req = slot[x[1]].rx
        BY <1>7, <3>2
      <4>2. x[1] \in Conns /\ x[1] # 0
        BY <1>2, <4>1, TcpAssumption DEF Conns
      <4> QED
        BY <1>2, <1>3, <4>1, <4>2
    <3> QED
      BY <3>1, <3>2
  <2>2. ASSUME NEW j \in Requests, NEW k \in Requests,
               svc'[j].conn = svc'[k].conn, svc'[j].conn # 0
        PROVE  j = k
    <3>1. ASSUME NEW m \in Requests, NEW n \in Requests, svc'[m] = svc[m], svc'[n] # svc[n],
                 svc'[m].conn = svc'[n].conn, svc'[m].conn # 0
          PROVE  FALSE
      <4>1. svc'[n].conn \in Waiting
        BY <1>7, <3>1
      <4> QED
        BY <1>2, <1>8, <3>1, <4>1
    <3>2. CASE svc'[j] = svc[j] /\ svc'[k] = svc[k]
      BY <2>2, <3>2 DEF Quiet, Held
    <3>3. CASE svc'[j] # svc[j] /\ svc'[k] # svc[k]
      <4>1. PICK x \in Pairs : x[2] = j /\ svc'[j].conn = x[1]
        BY <1>7, <3>3
      <4>2. PICK y \in Pairs : y[2] = k /\ svc'[k].conn = y[1]
        BY <1>7, <3>3
      <4> QED
        BY <2>2, <4>1, <4>2, PairsOneToOne
    <3> QED
      BY <2>2, <3>1, <3>2, <3>3
  <2> QED
    BY <2>1, <2>2 DEF Held
<1>10. Once'
  <2> SUFFICES ASSUME NEW c \in Clients
               PROVE  /\ peer'[c].got <= 1
                      /\ peer'[c].state = "new" => peer'[c].got = 0
                      /\ peer'[c].state = "open" /\ ~slot'[peer'[c].arg].delivered => peer'[c].got = 0
    BY DEF Once
  <2>1. CASE peer'[c].got = peer[c].got
    <3>1. peer[c].state = "open" => (slot[peer[c].arg].delivered => slot'[peer[c].arg].delivered)
      BY <1>3 DEF Quiet, Linked
    <3> QED
      BY <1>4, <2>1, <3>1 DEF Quiet, Once
  <2>2. CASE \E x \in Pairs : slot[x[1]].rx[1] = c /\ peer'[c].got = peer[c].got + 1
    <3>1. PICK x \in Pairs : slot[x[1]].rx[1] = c /\ peer'[c].got = peer[c].got + 1
      BY <2>2
    <3> DEFINE i == x[1]
               q == slot[i].rx
    <3>2. i \in Waiting /\ i \in Conns
      BY PollIs, Zenon
    <3>3. slot'[i].delivered
      <4>1. slot'[i] = Delivered(slot[i])
        BY PollIs, Zenon
      <4> QED
        BY <1>0, <3>2, <4>1, DeliveredSlot
    <3>4. q \in Seq(Clients) /\ q # <<>> /\ \A k \in DOMAIN q : q[k] = slot[i].pcb
      BY <1>2, <3>2
    <3> HIDE DEF q
    <3>5. 1 \in DOMAIN q
      BY <3>4
    <3>6. slot[i].pcb = c
      BY <3>1, <3>4, <3>5 DEF q
    <3>7. peer[c].state = "open" /\ peer[c].arg = i /\ peer[c].got = 0
      BY <1>2, <3>2, <3>6 DEF Quiet, Linked, Once
    <3> QED
      BY <1>4, <3>1, <3>3, <3>7
  <2> QED
    BY <1>4, <2>1, <2>2
<1>11. ConsoleLinked'
  BY <1>0, <1>1, <1>3 DEF Quiet, ConsoleLinked
<1> QED
  BY <1>1, <1>5, <1>6, <1>9, <1>10, <1>11 DEF Quiet, AnswerReachesAsker

\* Closing requests takes their connections with them and no others, and none
\* of them is the console.
LEMMA CloseQuiet ==
    ASSUME Typed, Quiet, NEW J, J \subseteq Requests, CloseRequests(J), tel' = tel
    PROVE  Linked' /\ Clean' /\ Held' /\ Once' /\ ConsoleLinked'
<1> DEFINE closing == {svc[j].conn : j \in J}
<1>0. /\ slot \in [Conns -> SlotType] /\ peer \in [Clients -> PeerType]
      /\ svc \in [Requests -> RequestType] /\ tel \in Conns \cup {0}
  BY Types DEF Typed
<1>1. /\ slot' = [i \in Conns |-> IF i \in closing /\ Valid(slot[i]) THEN EmptySlot ELSE slot[i]]
      /\ peer' = [c \in Clients |-> IF \E i \in closing : i # 0 /\ slot[i].pcb = c
                                    THEN [peer[c] EXCEPT !.state = "gone", !.arg = 0]
                                    ELSE peer[c]]
      /\ svc' = [j \in Requests |-> IF j \in J THEN EmptyRequest ELSE svc[j]]
  BY DEF CloseRequests, SlotsWithout, PeersWithout
<1>2. \A j \in J : svc[j].conn \in closing
  OBVIOUS
<1>3. ASSUME NEW i \in closing, i # 0
      PROVE  /\ i \in Conns /\ slot[i].pcb # NoClient /\ slot[i].delivered
             /\ \A j \in Requests : svc[j].conn = i => j \in J
  <2>1. PICK j \in J : svc[j].conn = i
    OBVIOUS
  <2> QED
    BY <1>0, <1>3, <2>1 DEF RequestType, Quiet, Held
<1> HIDE DEF closing
<1>4. \A i \in Conns : i # 0
  BY TcpAssumption DEF Conns
<1>5. \A i \in Conns : slot'[i] = IF i \in closing THEN EmptySlot ELSE slot[i]
  BY <1>1, <1>3, <1>4 DEF Valid
<1>6. \A k \in Conns : slot[k].pcb # NoClient => slot[k].pcb \in Clients
  BY <1>0 DEF SlotType
<1>7. ASSUME NEW c \in Clients
      PROVE  \/ /\ peer'[c].state = "gone" /\ peer'[c].got = peer[c].got
                /\ \E i \in closing : i # 0 /\ slot[i].pcb = c
             \/ peer'[c] = peer[c] /\ \A i \in closing : i = 0 \/ slot[i].pcb # c
  BY <1>0, <1>1 DEF PeerType
<1>8. Linked'
  <2>1. ASSUME NEW c \in Clients
        PROVE  /\ peer'[c].state # "half"
               /\ peer'[c].state = "open" => peer'[c].arg \in Conns /\ slot'[peer'[c].arg].pcb = c
    <3>1. CASE peer'[c].state = "gone"
      BY <3>1
    <3>2. CASE peer'[c] = peer[c] /\ \A i \in closing : i = 0 \/ slot[i].pcb # c
      BY <1>4, <1>5, <3>2 DEF Quiet, Linked
    <3> QED
      BY <1>7, <3>1, <3>2
  <2>2. ASSUME NEW k \in Conns, slot'[k].pcb # NoClient
        PROVE  peer'[slot'[k].pcb].state = "open" /\ peer'[slot'[k].pcb].arg = k
    <3>1. k \notin closing /\ slot'[k] = slot[k]
      BY <1>5, <2>2, EmptyFields
    <3>2. slot[k].pcb \in Clients /\ peer[slot[k].pcb].state = "open" /\ peer[slot[k].pcb].arg = k
      BY <1>6, <2>2, <3>1 DEF Quiet, Linked
    <3>3. \A i \in closing : i # 0 => slot[i].pcb # slot[k].pcb
      BY <1>3, <3>1, <3>2 DEF Quiet, Linked
    <3>4. peer'[slot[k].pcb] = peer[slot[k].pcb]
      BY <1>7, <3>2, <3>3
    <3> QED
      BY <3>1, <3>2, <3>4
  <2> QED
    BY <2>1, <2>2 DEF Linked
<1>9. Clean'
  <2>1. ASSUME NEW k \in Conns
        PROVE  /\ slot'[k].pcb = NoClient => slot'[k] = EmptySlot
               /\ slot'[k].pcb # NoClient => slot'[k].server = Server(slot'[k].pcb)
               /\ ~slot'[k].closed /\ ~slot'[k].failed
               /\ slot'[k].delivered => slot'[k].server = "http"
               /\ \A n \in DOMAIN slot'[k].rx : slot'[k].rx[n] = slot'[k].pcb
    <3>1. CASE slot'[k] = slot[k]
      BY <3>1 DEF Quiet, Clean
    <3>2. CASE slot'[k] = EmptySlot
      BY <3>2, EmptyFields
    <3> QED
      BY <1>5, <3>1, <3>2
  <2> QED
    BY <2>1 DEF Clean
<1>10. ASSUME NEW j \in Requests
       PROVE  \/ svc'[j].conn = 0 /\ svc'[j].req = <<>>
              \/ /\ svc'[j] = svc[j]
                 /\ svc[j].conn # 0 => slot'[svc[j].conn] = slot[svc[j].conn]
  <2>1. CASE j \in J
    BY <1>1, <2>1, EmptyFields
  <2>2. CASE j \notin J
    <3>1. svc'[j] = svc[j]
      BY <1>1, <2>2
    <3>2. svc[j].conn # 0 => svc[j].conn \in Conns /\ svc[j].conn \notin closing
      BY <1>0, <1>3, <2>2 DEF RequestType
    <3> QED
      BY <1>5, <3>1, <3>2
  <2> QED
    BY <2>1, <2>2
<1>11. Held'
  <2>1. ASSUME NEW j \in Requests
        PROVE  IF svc'[j].conn = 0 THEN svc'[j].req = <<>>
               ELSE /\ slot'[svc'[j].conn].pcb # NoClient
                    /\ slot'[svc'[j].conn].delivered
                    /\ \A k \in DOMAIN svc'[j].req : svc'[j].req[k] = slot'[svc'[j].conn].pcb
    BY <1>10 DEF Quiet, Held
  <2>2. \A j, k \in Requests : svc'[j].conn = svc'[k].conn /\ svc'[j].conn # 0 => j = k
    BY <1>10 DEF Quiet, Held
  <2> QED
    BY <2>1, <2>2 DEF Held
<1>12. Once'
  <2> SUFFICES ASSUME NEW c \in Clients
               PROVE  /\ peer'[c].got <= 1
                      /\ peer'[c].state = "new" => peer'[c].got = 0
                      /\ peer'[c].state = "open" /\ ~slot'[peer'[c].arg].delivered => peer'[c].got = 0
    BY DEF Once
  <2>1. CASE peer'[c].state = "gone" /\ peer'[c].got = peer[c].got
    BY <2>1 DEF Quiet, Once
  <2>2. CASE peer'[c] = peer[c] /\ \A i \in closing : i = 0 \/ slot[i].pcb # c
    <3>1. peer[c].state = "open" => slot'[peer[c].arg] = slot[peer[c].arg]
      BY <1>4, <1>5, <2>2 DEF Quiet, Linked
    <3> QED
      BY <2>2, <3>1 DEF Quiet, Once
  <2> QED
    BY <1>7, <2>1, <2>2
<1>13. ConsoleLinked'
  <2>1. tel # 0 => tel \notin closing
    <3>1. slot[tel].delivered => slot[tel].server = "http" \/ tel = 0
      BY <1>0 DEF Quiet, Clean
    <3> QED
      BY <1>3, <3>1 DEF Quiet, ConsoleLinked
  <2> QED
    BY <1>0, <1>5, <2>1 DEF Quiet, ConsoleLinked
<1> QED
  BY <1>8, <1>9, <1>11, <1>12, <1>13

\* BASIC reads, answers and closes requests.
LEMMA RequestQuiet ==
    ASSUME Typed, Quiet, NEW j \in Requests, Read(j) \/ Send(j) \/ Transmit(j) \/ Close(j)
    PROVE  Quiet'
<1>0. svc \in [Requests -> RequestType]
  BY Types DEF Typed
<1>1. CASE Read(j)
  <2>1. /\ svc' = [svc EXCEPT ![j].inttrig = FALSE]
        /\ UNCHANGED <<slot, peer, tel, console, answers>>
    BY <1>1 DEF Read
  <2>2. \A k \in Requests : svc'[k].conn = svc[k].conn /\ svc'[k].req = svc[k].req
    BY <1>0, <2>1 DEF RequestType
  <2>3. Held'
    BY <2>1, <2>2 DEF Quiet, Held
  <2> QED
    BY <2>1, <2>3 DEF Quiet, Linked, Clean, Once, ConsoleLinked, AnswerReachesAsker
<1>2. ASSUME Sends(j), answers' = answers \cup Answer(j)
      PROVE  AnswerReachesAsker'
  <2>1. svc[j].req \in Seq(Clients) /\ svc[j].req # <<>>
    BY <1>0, <1>2 DEF Sends, RequestType, Typed, Filled
  <2>2. 1 \in DOMAIN svc[j].req
    BY <2>1
  <2>3. svc[j].req[1] = slot[svc[j].conn].pcb
    BY <1>2, <2>2 DEF Sends, Quiet, Held
  <2> QED
    BY <1>2, <2>3 DEF Answer, Quiet, AnswerReachesAsker
<1>3. CASE Send(j)
  BY <1>2, <1>3 DEF Send, Quiet, Linked, Clean, Held, Once, ConsoleLinked
<1>4. CASE Transmit(j)
  <2>1. CloseRequests({j}) /\ UNCHANGED <<tel, console>>
    BY <1>4 DEF Transmit
  <2>2. AnswerReachesAsker'
    BY <1>2, <1>4 DEF Transmit
  <2>3. Linked' /\ Clean' /\ Held' /\ Once' /\ ConsoleLinked'
    BY <2>1, CloseQuiet
  <2> QED
    BY <2>1, <2>2, <2>3 DEF Quiet
<1>5. CASE Close(j)
  <2>1. CloseRequests({j}) /\ UNCHANGED <<tel, console, answers>>
    BY <1>5 DEF Close
  <2>2. Linked' /\ Clean' /\ Held' /\ Once' /\ ConsoleLinked'
    BY <2>1, CloseQuiet
  <2> QED
    BY <2>1, <2>2 DEF Quiet, AnswerReachesAsker
<1> QED
  BY <1>1, <1>3, <1>4, <1>5

LEMMA ClearQuiet ==
    ASSUME Typed, Quiet, clear_requests
    PROVE  Quiet'
<1>1. CloseRequests(Requests) /\ UNCHANGED <<tel, console, answers>>
  BY DEF clear_requests
<1>2. Linked' /\ Clean' /\ Held' /\ Once' /\ ConsoleLinked'
  BY <1>1, CloseQuiet
<1> QED
  BY <1>1, <1>2 DEF Quiet, AnswerReachesAsker

\* The console reads the slot of a telnet client, whose connection has not ended.
LEMMA TelnetQuiet ==
    ASSUME Typed, Quiet, telnet_poll
    PROVE  Quiet'
<1> DEFINE i == TelnetConn
<1>0. /\ slot \in [Conns -> SlotType] /\ peer \in [Clients -> PeerType]
      /\ svc \in [Requests -> RequestType] /\ tel \in Conns \cup {0}
  BY Types DEF Typed
<1>1. i \in Conns /\ (i = tel \/ i \in Calling) /\ i # 0
  BY <1>0, TelnetConnIsSlot DEF telnet_poll
<1>2. slot[i].pcb # NoClient /\ slot[i].server = "telnet"
  BY <1>1 DEF Calling, Quiet, ConsoleLinked
<1>3. ~slot[i].closed /\ ~slot[i].failed
  BY <1>1 DEF Quiet, Clean
<1>4. /\ slot' = ReadSlots(i) /\ tel' = i /\ UNCHANGED <<peer, svc, answers>>
      /\ console' = console \cup {slot[i].rx[k] : k \in DOMAIN slot[i].rx}
  BY <1>2, <1>3, PollTelnet
<1>5. \A k \in Conns : /\ slot'[k].pcb = slot[k].pcb /\ slot'[k].server = slot[k].server
                       /\ slot'[k].delivered = slot[k].delivered
  BY <1>1, <1>4, AfterReading
<1>6. Linked'
  BY <1>4, <1>5 DEF Quiet, Linked
<1>7. Clean'
  <2>1. ASSUME NEW k \in Conns
        PROVE  /\ slot'[k].pcb = NoClient => slot'[k] = EmptySlot
               /\ slot'[k].pcb # NoClient => slot'[k].server = Server(slot'[k].pcb)
               /\ ~slot'[k].closed /\ ~slot'[k].failed
               /\ slot'[k].delivered => slot'[k].server = "http"
               /\ \A n \in DOMAIN slot'[k].rx : slot'[k].rx[n] = slot'[k].pcb
    <3>1. CASE k = i
      <4>1. /\ slot'[i].rx = <<>> /\ slot'[i].pcb = slot[i].pcb /\ slot'[i].server = slot[i].server
            /\ slot'[i].closed = slot[i].closed /\ slot'[i].failed = slot[i].failed
            /\ slot'[i].delivered = slot[i].delivered
        BY <1>1, <1>4, AfterReading
      <4> QED
        BY <1>1, <1>2, <1>3, <3>1, <4>1 DEF Quiet, Clean
    <3>2. CASE k # i
      <4>1. slot'[k] = slot[k]
        BY <1>1, <1>4, <3>2, AfterReading
      <4> QED
        BY <4>1 DEF Quiet, Clean
    <3> QED
      BY <3>1, <3>2
  <2> QED
    BY <2>1 DEF Clean
<1>8. Held'
  <2>1. \A j \in Requests : svc[j].conn # 0 => svc[j].conn \in Conns
    BY <1>0 DEF RequestType
  <2>2. \A j \in Requests : svc[j].conn # 0 =>
          /\ slot'[svc[j].conn].pcb = slot[svc[j].conn].pcb
          /\ slot'[svc[j].conn].delivered = slot[svc[j].conn].delivered
    BY <1>5, <2>1
  <2>3. svc' = svc
    BY <1>4
  <2> QED
    BY <2>2, <2>3 DEF Quiet, Held
<1>9. Once'
  <2>1. \A c \in Clients : peer[c].state = "open" =>
          slot'[peer[c].arg].delivered = slot[peer[c].arg].delivered
    BY <1>5 DEF Quiet, Linked
  <2> QED
    BY <1>4, <2>1 DEF Quiet, Once
<1>10. ConsoleLinked'
  BY <1>1, <1>2, <1>4, <1>5 DEF ConsoleLinked
<1>11. \A k \in DOMAIN slot[i].rx : slot[i].rx[k] \in TelnetClients
  <2>1. slot[i].pcb \in Clients /\ Server(slot[i].pcb) = "telnet"
    BY <1>0, <1>1, <1>2 DEF SlotType, Quiet, Clean
  <2>2. slot[i].pcb \in TelnetClients
    BY <2>1 DEF Server, Clients
  <2> QED
    BY <1>1, <2>2 DEF Quiet, Clean
<1> QED
  BY <1>4, <1>6, <1>7, <1>8, <1>9, <1>10, <1>11 DEF Quiet, AnswerReachesAsker

-----------------------------------------------------------------------------
(* The theorems.                                                           *)

LEMMA NextQuiet ==
    ASSUME Typed, hangups = 0 => Quiet, [Next]_vars, hangups' = 0
    PROVE  Quiet'
<1>0. hangups \in Nat
  BY Types DEF Typed
<1>1. CASE UNCHANGED vars
  BY <1>1 DEF vars, Quiet, Linked, Clean, Held, Once, ConsoleLinked, AnswerReachesAsker
<1>2. ASSUME NEW c \in Clients, Accept(c) \/ Refuse(c) \/ Receive(c) PROVE Quiet'
  <2>1. hangups' = hangups
    BY <1>2 DEF Accept, Refuse, Receive
  <2> QED
    BY <1>2, <2>1, AcceptQuiet, RefuseQuiet, ReceiveQuiet
<1>3. ASSUME NEW c \in Clients, Fin(c) \/ Reset(c) PROVE FALSE
  BY <1>0, <1>3 DEF Fin, Reset
<1>4. CASE tcp_service_poll
  BY <1>4, PollQuiet DEF tcp_service_poll
<1>5. ASSUME NEW j \in Requests, Read(j) \/ Send(j) \/ Transmit(j) \/ Close(j) PROVE Quiet'
  <2>1. hangups' = hangups
    BY <1>5 DEF Read, Send, Transmit, Close
  <2> QED
    BY <1>5, <2>1, RequestQuiet
<1>6. CASE clear_requests
  BY <1>6, ClearQuiet DEF clear_requests
<1>7. CASE telnet_poll
  BY <1>7, TelnetQuiet DEF telnet_poll
<1>8. ~telnet_close_conn
  BY <1>0 DEF telnet_close_conn
<1> QED
  BY <1>1, <1>2, <1>3, <1>4, <1>5, <1>6, <1>7, <1>8 DEF Next

\* The inductive invariant, from which the rest follows.
THEOREM TcpInvariant == Spec => []TcpInv
<1>1. Init => TcpInv
  <2>1. Init => NoOrphan
    BY EmptyFields DEF Init, NoOrphan
  <2> QED
    BY <2>1, InitTyped, InitQuiet DEF TcpInv, Typed
<1>2. TcpInv /\ [Next]_vars => TcpInv'
  BY NextTyped, NextNoOrphan, NextQuiet DEF TcpInv, Typed
<1> QED
  BY <1>1, <1>2, PTL DEF Spec

\* Every variable keeps its type, for any clients, slots and request slots.
THEOREM TcpTypeCorrect == Spec => []TypeOK
<1>1. TcpInv => TypeOK
  BY DEF TcpInv
<1> QED
  BY <1>1, TcpInvariant, PTL

\* Whatever the clients do, a live connection that mm_net_tcp_service_poll gave to
\* BASIC is held by a request, so WEB TRANSMIT or WEB TCP CLOSE can end it.
THEOREM NoConnectionLost == Spec => []NoOrphan
<1>1. TcpInv => NoOrphan
  BY DEF TcpInv
<1> QED
  BY <1>1, TcpInvariant, PTL

\* Until a client hangs up, WEB TRANSMIT and WEB TCP SEND answer the connection
\* the request came from.
THEOREM AnswersGoHome == Spec => []PatientAnswers
<1>1. TcpInv => PatientAnswers
  BY DEF TcpInv, Quiet, PatientAnswers
<1> QED
  BY <1>1, TcpInvariant, PTL

\* Until a client hangs up, a request is made of one connection's data and a
\* connection makes at most one request.
THEOREM RequestsStaySeparate == Spec => []RequestsAreSeparate
<1>1. TcpInv => RequestsAreSeparate
  <2> SUFFICES ASSUME TcpInv, hangups = 0 PROVE
        /\ \A i \in Conns : \A k \in DOMAIN slot[i].rx : slot[i].rx[k] = slot[i].pcb
        /\ \A j \in Requests : \A k \in DOMAIN svc[j].req : svc[j].req[k] = svc[j].req[1]
        /\ \A c \in Clients : peer[c].got <= 1
    BY DEF RequestsAreSeparate
  <2>1. svc \in [Requests -> RequestType]
    BY Types DEF TcpInv
  <2>2. ASSUME NEW j \in Requests, NEW k \in DOMAIN svc[j].req
        PROVE  svc[j].req[k] = svc[j].req[1]
    <3>1. svc[j].req \in Seq(Clients)
      BY <2>1 DEF RequestType
    <3>2. 1 \in DOMAIN svc[j].req /\ svc[j].req # <<>>
      BY <2>2, <3>1
    <3> QED
      BY <2>2, <3>2 DEF TcpInv, Quiet, Held
  <2> QED
    BY <2>2 DEF TcpInv, Quiet, Clean, Once
<1> QED
  BY <1>1, TcpInvariant, PTL

\* Until a client hangs up, only telnet clients reach the console.
THEOREM ConsoleStaysTelnet == Spec => []ConsoleIsTelnet
<1>1. TcpInv => ConsoleIsTelnet
  BY DEF TcpInv, Quiet, ConsoleIsTelnet
<1> QED
  BY <1>1, TcpInvariant, PTL
=============================================================================
