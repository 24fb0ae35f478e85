----------------------------- MODULE TcpServer -----------------------------
(***************************************************************************)
(* The connections the Pico WEB ports accept: the connection slots of      *)
(* drivers/net_lwip_raw/hal_net_lwip.c and their lwIP callbacks, the       *)
(* request slots of the HTTP server (shared/net/mm_net_service.c,          *)
(* MMtcpserver.c) and the console connection of telnet (MMtelnet.c).       *)
(*                                                                         *)
(* A client is one TCP connection to one of the two listeners, which stay  *)
(* open (NetLifecycle is about them), so a client stands for its pcb too.  *)
(* A segment of data is the client that sent it.  lwIP runs its callbacks  *)
(* from cyw43_arch_poll only, so each callback and each poll is atomic.    *)
(***************************************************************************)
EXTENDS Integers, Sequences, FiniteSets, FiniteSetsExt

CONSTANTS
    HttpClients, TelnetClients,
    NoClient,       \* a NULL pcb
    MaxConns,       \* LWIP_HAL_MAX_TCP_CONNS (8)
    MaxPcb,         \* request slots of the HTTP server (8)
    ReadBuffer,     \* TCP_READ_BUFFER_SIZE, in segments
    MaxSegments,    \* bound: segments each client sends
    MaxHangups,     \* bound: connections the clients end on their own
    MaxRuns         \* bound: RUNs and OPTION TCP SERVER PORTs

Clients == HttpClients \cup TelnetClients

ASSUME TcpAssumption ==
    /\ HttpClients \cap TelnetClients = {}
    /\ NoClient \notin Clients
    /\ {MaxConns, MaxPcb, ReadBuffer} \subseteq Nat \ {0}
    /\ MaxSegments \in [HttpClients \cup TelnetClients -> Nat]
    /\ {MaxHangups, MaxRuns} \subseteq Nat

VARIABLES
    slot,      \* tcp_conn_slots
    peer,      \* the remote side of each connection: see PeerType
    svc,       \* pico_tcp_slots
    tel,       \* pico_telnet_conn, 0 for none
    console,   \* history: clients whose bytes reached the console
    answers,   \* history: <<whose request, who got the answer>>
    hangups, runs   \* how much of each bound is used

vars == <<slot, peer, svc, tel, console, answers, hangups, runs>>

-----------------------------------------------------------------------------
Conns == 1 .. MaxConns
Requests == 1 .. MaxPcb

SlotType == [pcb : Clients \cup {NoClient}, server : {"http", "telnet", "none"},
             closed : BOOLEAN, failed : BOOLEAN, accepted : BOOLEAN,
             pending : BOOLEAN, delivered : BOOLEAN, rx : Seq(Clients)]
EmptySlot == [pcb |-> NoClient, server |-> "none", closed |-> FALSE, failed |-> FALSE,
              accepted |-> FALSE, pending |-> FALSE, delivered |-> FALSE, rx |-> <<>>]

\* state: "new", "open", "half" once its FIN is in (and lwIP keeps the pcb), or
\* "gone"; arg: the slot lwIP passes to the callbacks of the pcb, 0 for NULL;
\* got: how often BASIC was handed a request of this connection.
PeerType == [state : {"new", "open", "half", "gone"}, arg : Conns \cup {0},
             sent : Nat, got : Nat]

RequestType == [conn : Conns \cup {0}, inttrig : BOOLEAN, req : Seq(Clients)]
\* mutant: an empty request is marked with a handle of -1
EmptyRequest_MinusOne == [conn |-> -1, inttrig |-> FALSE, req |-> <<>>]

EmptyRequest == [conn |-> 0, inttrig |-> FALSE, req |-> <<>>]

Server(c) == IF c \in HttpClients THEN "http" ELSE "telnet"

-----------------------------------------------------------------------------
(* lwIP callbacks *)

FreeConns == {i \in Conns : slot[i].pcb = NoClient}

\* tcp_server_accept_cb: the first slot without a pcb is cleared and taken, in
\* whatever state it is; without one the connection is aborted.
Accept(c) ==
    LET i == Min(FreeConns)
    IN  /\ peer[c].state = "new"
        /\ FreeConns # {}
        /\ slot' = [slot EXCEPT ![i] = [EmptySlot EXCEPT !.pcb = c, !.server = Server(c),
                                                         !.accepted = TRUE]]
        /\ peer' = [peer EXCEPT ![c].state = "open", ![c].arg = i]
        /\ UNCHANGED <<svc, tel, console, answers, hangups, runs>>

Refuse(c) ==
    /\ peer[c].state = "new"
    /\ FreeConns = {}
    /\ peer' = [peer EXCEPT ![c].state = "gone"]
    /\ UNCHANGED <<slot, svc, tel, console, answers, hangups, runs>>

\* tcp_server_conn_recv_cb with data.
Receive(c) ==
    LET i == peer[c].arg
    IN  /\ peer[c].state = "open"
        /\ peer[c].sent < MaxSegments[c]
        /\ peer' = [peer EXCEPT ![c].sent = @ + 1]
        /\ slot' = [slot EXCEPT ![i].rx = Append(@, c), ![i].pending = TRUE]
        /\ UNCHANGED <<svc, tel, console, answers, hangups, runs>>

\* tcp_server_conn_recv_cb with a FIN: the slot forgets the pcb, but the pcb
\* keeps the slot as its argument and is never closed.
Fin(c) ==
    LET i == peer[c].arg
    IN  /\ peer[c].state = "open"
        /\ hangups < MaxHangups
        /\ hangups' = hangups + 1
        /\ slot' = [slot EXCEPT ![i].closed = TRUE, ![i].pcb = NoClient]
        /\ peer' = [peer EXCEPT ![c].state = "half"]
        /\ UNCHANGED <<svc, tel, console, answers, runs>>

\* tcp_server_conn_err_cb, for a reset: it hits whoever owns the slot by now.
Reset(c) ==
    LET i == peer[c].arg
    IN  /\ peer[c].state \in {"open", "half"}
        /\ hangups < MaxHangups
        /\ hangups' = hangups + 1
        /\ slot' = [slot EXCEPT ![i].failed = TRUE, ![i].pcb = NoClient]
        /\ peer' = [peer EXCEPT ![c].state = "gone"]
        /\ UNCHANGED <<svc, tel, console, answers, runs>>

-----------------------------------------------------------------------------
(* Connection handles *)

\* tcp_conn_slot: the slots a handle is good for.
Valid(s) == s.pcb # NoClient \/ s.closed \/ s.delivered \/ s.pending \/ s.accepted

\* hal_net_tcp_conn_close of a set of handles: what it leaves of the slots and
\* of the connections they hold at that moment.
SlotsWithout(s, closing) ==
    [i \in Conns |-> IF i \in closing /\ Valid(s[i]) THEN EmptySlot ELSE s[i]]

\* mutant: the callbacks stay attached to the closed connection
PeersWithout_Attached(s, closing) == peer

PeersWithout(s, closing) ==
    [c \in Clients |->
        IF \E i \in closing : i # 0 /\ s[i].pcb = c
        THEN [peer[c] EXCEPT !.state = "gone", !.arg = 0]
        ELSE peer[c]]

-----------------------------------------------------------------------------
(* The HTTP server *)

\* Position of n in S, from 1.
Rank(n, S) == Cardinality({m \in S : m <= n})

\* hal_net_tcp_accept_event: slots with data no request was made of yet.
Waiting == {i \in Conns : /\ slot[i].pcb # NoClient /\ slot[i].server = "http"
                          /\ slot[i].pending /\ ~slot[i].delivered}

\* mutant: data that fills the buffer does not fit
Deliverable_Strict == {i \in Waiting : \A k \in Waiting : k <= i => Len(slot[k].rx) < ReadBuffer}

\* The event loop of mm_net_tcp_service_poll ends at the first slot whose data
\* does not fit the request buffer.
Deliverable == {i \in Waiting : \A k \in Waiting : k <= i => Len(slot[k].rx) <= ReadBuffer}

FreeRequests == {j \in Requests : svc[j].conn = 0 /\ ~svc[j].inttrig}

\* The request each waiting connection goes to: first to first.
Pairs == {x \in Deliverable \X FreeRequests :
              Rank(x[1], Deliverable) = Rank(x[2], FreeRequests)}

Delivered(s) == [s EXCEPT !.accepted = FALSE, !.pending = FALSE, !.rx = <<>>, !.delivered = TRUE]

tcp_service_poll ==
    LET taken == {x[1] : x \in Pairs}
    IN  /\ Pairs # {}
        /\ svc' = [j \in Requests |->
                      IF \E x \in Pairs : x[2] = j
                      THEN LET i == CHOOSE i \in taken : <<i, j>> \in Pairs
                           IN  [conn |-> i, inttrig |-> TRUE, req |-> slot[i].rx]
                      ELSE svc[j]]
        /\ slot' = [i \in Conns |-> IF i \in taken THEN Delivered(slot[i]) ELSE slot[i]]
        /\ peer' = [c \in Clients |->
                       IF \E i \in taken : slot[i].rx[1] = c
                       THEN [peer[c] EXCEPT !.got = @ + 1] ELSE peer[c]]
        /\ UNCHANGED <<tel, console, answers, hangups, runs>>

\* WEB TCP READ: the request is no longer pending, the slot stays taken.
Read(j) ==
    /\ svc[j].inttrig
    /\ svc' = [svc EXCEPT ![j].inttrig = FALSE]
    /\ UNCHANGED <<slot, peer, tel, console, answers, hangups, runs>>

\* mm_net_tcp_service_send fails on a handle without a pcb.
Sends(j) == svc[j].conn # 0 /\ slot[svc[j].conn].pcb # NoClient
Answer(j) == {<<svc[j].req[1], slot[svc[j].conn].pcb>>}

\* mutant: the request is dropped and its connection left as it is
CloseRequests_Forgets(J) ==
    /\ UNCHANGED <<slot, peer>>
    /\ svc' = [j \in Requests |-> IF j \in J THEN EmptyRequest ELSE svc[j]]

\* mutant: the request keeps its handle
CloseRequests_KeepsHandle(J) ==
    LET closing == {svc[j].conn : j \in J}
    IN  /\ slot' = SlotsWithout(slot, closing)
        /\ peer' = PeersWithout(slot, closing)
        /\ svc' = [j \in Requests |-> IF j \in J THEN [svc[j] EXCEPT !.inttrig = FALSE] ELSE svc[j]]

\* mm_net_tcp_service_close_slot for the requests J.
CloseRequests(J) ==
    LET closing == {svc[j].conn : j \in J}
    IN  /\ slot' = SlotsWithout(slot, closing)
        /\ peer' = PeersWithout(slot, closing)
        /\ svc' = [j \in Requests |-> IF j \in J THEN EmptyRequest ELSE svc[j]]

\* WEB TCP SEND.
Send(j) ==
    /\ Sends(j)
    /\ answers' = answers \cup Answer(j)
    /\ UNCHANGED <<slot, peer, svc, tel, console, hangups, runs>>

\* WEB TRANSMIT answers and closes.  TRANSMIT CODE and PAGE keep the request
\* when the send fails, TRANSMIT FILE closes it all the same.
Transmit(j) ==
    /\ Sends(j)
    /\ answers' = answers \cup Answer(j)
    /\ CloseRequests({j})
    /\ UNCHANGED <<tel, console, hangups, runs>>

\* WEB TCP CLOSE, and a TRANSMIT FILE whose send fails.
Close(j) ==
    /\ svc[j].conn # 0
    /\ CloseRequests({j})
    /\ UNCHANGED <<tel, console, answers, hangups, runs>>

\* RUN, and OPTION TCP SERVER PORT, which reopens the listener: the requests
\* are closed, connections BASIC has not seen stay.
clear_requests ==
    /\ runs < MaxRuns
    /\ runs' = runs + 1
    /\ CloseRequests(Requests)
    /\ UNCHANGED <<tel, console, answers, hangups>>

-----------------------------------------------------------------------------
(* The telnet console *)

\* mutant: any new connection is taken for a console
Calling_AnyServer == {i \in Conns : slot[i].pcb # NoClient /\ slot[i].accepted}

Calling == {i \in Conns : slot[i].pcb # NoClient /\ slot[i].server = "telnet"
                          /\ slot[i].accepted}

\* The connection pico_telnet_poll works on: the one it has, or the first that
\* hal_net_tcp_accept_conn finds.
TelnetConn ==
    IF tel # 0 THEN tel ELSE IF Calling = {} THEN 0 ELSE Min(Calling)

\* The receive loop of pico_telnet_poll takes everything the slot has, then
\* closes the connection if the slot says it ended.
telnet_poll ==
    LET i == TelnetConn
        s == slot[i]
        over == s.closed \/ s.failed \/ s.pcb = NoClient
        read == [slot EXCEPT ![i].accepted = IF tel = 0 THEN FALSE ELSE @,
                             ![i].rx = <<>>,
                             ![i].pending = IF s.rx # <<>> THEN FALSE ELSE @]
    IN  /\ i # 0
        /\ console' = console \cup {s.rx[k] : k \in DOMAIN s.rx}
        /\ IF over
           THEN /\ slot' = SlotsWithout(read, {i})
                /\ peer' = PeersWithout(slot, {i})
                /\ tel' = 0
           ELSE slot' = read /\ tel' = i /\ UNCHANGED peer
        /\ UNCHANGED <<svc, answers, hangups, runs>>

\* A send on the console connection times out, in TelnetPutC or, for the
\* connection just accepted, in pico_telnet_poll.
telnet_close_conn ==
    /\ TelnetConn # 0
    /\ hangups < MaxHangups
    /\ hangups' = hangups + 1
    /\ slot' = SlotsWithout(slot, {TelnetConn})
    /\ peer' = PeersWithout(slot, {TelnetConn})
    /\ tel' = 0
    /\ UNCHANGED <<svc, console, answers, runs>>

-----------------------------------------------------------------------------
Init ==
    /\ slot = [i \in Conns |-> EmptySlot]
    /\ peer = [c \in Clients |-> [state |-> "new", arg |-> 0, sent |-> 0, got |-> 0]]
    /\ svc = [j \in Requests |-> EmptyRequest]
    /\ tel = 0
    /\ console = {}
    /\ answers = {}
    /\ hangups = 0
    /\ runs = 0

Next ==
    \/ \E c \in Clients : Accept(c) \/ Refuse(c) \/ Receive(c) \/ Fin(c) \/ Reset(c)
    \/ tcp_service_poll
    \/ \E j \in Requests : Read(j) \/ Send(j) \/ Transmit(j) \/ Close(j)
    \/ clear_requests
    \/ telnet_poll \/ telnet_close_conn

Spec == Init /\ [][Next]_vars

\* The main loop keeps polling and the program answers or closes every request.
FairSpec ==
    /\ Spec
    /\ WF_vars(tcp_service_poll)
    /\ \A j \in Requests : WF_vars(Transmit(j) \/ Close(j))

-----------------------------------------------------------------------------
(* Properties *)

\* Every variable has its type.
TypeOK ==
    /\ slot \in [Conns -> SlotType]
    /\ peer \in [Clients -> PeerType]
    /\ svc \in [Requests -> RequestType]
    /\ tel \in Conns \cup {0}
    /\ console \subseteq Clients
    /\ answers \subseteq Clients \X Clients
    /\ hangups \in 0 .. MaxHangups
    /\ runs \in 0 .. MaxRuns

\* A live connection whose request BASIC was given can always still be answered
\* or closed: some request holds its handle, whatever the clients do.
NoOrphan ==
    \A i \in Conns :
        slot[i].delivered /\ slot[i].pcb # NoClient => \E j \in Requests : svc[j].conn = i

\* porttools/network_conformance.py: what WEB TRANSMIT or WEB TCP SEND sends for
\* a request goes to the connection the request came from.
AnswerReachesAsker == \A a \in answers : a[1] = a[2]

\* It does so as long as nobody hangs up before the answer.
PatientAnswers == hangups = 0 => AnswerReachesAsker

\* The data BASIC is given as one request comes from one connection, and no
\* connection makes two requests, until a client hangs up.
RequestsAreSeparate ==
    hangups = 0 =>
        /\ \A i \in Conns : \A k \in DOMAIN slot[i].rx : slot[i].rx[k] = slot[i].pcb
        /\ \A j \in Requests : \A k \in DOMAIN svc[j].req : svc[j].req[k] = svc[j].req[1]
        /\ \A c \in Clients : peer[c].got <= 1

\* Only telnet clients type at the console: no byte of an HTTP request gets there
\* until a client hangs up.
ConsoleIsTelnet == hangups = 0 => console \subseteq TelnetClients

\* Nothing of c's can be made a request of: a late reset of the connection that
\* had its slot before took the slot from it, or a slot up to its own holds more
\* than the request buffer, where hal_net_tcp_accept_event stops with an error.
Blocked(c) ==
    /\ peer[c].state = "open"
    /\ \/ slot[peer[c].arg].pcb # c
       \/ \E i \in Waiting : i <= peer[c].arg /\ Len(slot[i].rx) > ReadBuffer

\* A connection with data that no request was made of is handed to BASIC or ends,
\* even behind other clients and with more clients than request slots, unless it
\* is blocked for good or its bytes went to the console, for a telnet client whose
\* slot it was given.  A block that ends, because the client with the large
\* request hangs up, is no excuse.
RequestsAreServed ==
    \A c \in HttpClients :
        \/ <>[]Blocked(c)
        \/ (peer[c].state = "open" /\ peer[c].sent > 0)
               ~> (peer[c].got > 0 \/ peer[c].state # "open" \/ c \in console)
=============================================================================
