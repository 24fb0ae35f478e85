---------------------------- MODULE NetLifecycle ----------------------------
(***************************************************************************)
(* The listeners of the Pico WEB ports and the options that configure      *)
(* them: boot, WEB CONNECT, the OPTION setters and the telnet poll         *)
(* (shared/net/mm_net_lifecycle.c, MMsetwifi.c, MMtelnet.c, MMudp.c,       *)
(* MMtftp.c, mm_net_service.c) over the socket slots of                    *)
(* drivers/net_lwip_raw/hal_net_lwip.c.                                    *)
(*                                                                         *)
(* A port number is a natural number and 0 disables a service.  Telnet and *)
(* TFTP have one port each, so their ON is their port number.  The web     *)
(* console has no hooks on this port and so no listener.                   *)
(***************************************************************************)
EXTENDS Integers, FiniteSets

CONSTANTS
    TcpPorts,       \* ports OPTION TCP SERVER PORT is given
    UdpPorts,       \* ports OPTION UDP SERVER PORT is given
    TelnetPort,     \* 23
    TftpPort,       \* 69
    MaxTcpServers,  \* LWIP_HAL_MAX_TCP_SERVERS
    MaxUdpSocks,    \* LWIP_HAL_MAX_UDP_SOCKS
    Supported,      \* services whose hal_net_capabilities() bits are set
    MaxFaults,      \* bound: binds that fail for want of memory
    MaxThrows       \* bound: closes of a TFTP transfer that throw

Services == {"tcp", "udp", "tftp", "telnet"}

ASSUME LifecycleAssumption ==
    /\ TcpPorts \subseteq Nat \ {0} /\ UdpPorts \subseteq Nat \ {0}
    /\ TelnetPort \in Nat \ {0} /\ TftpPort \in Nat \ {0}
    /\ MaxTcpServers \in Nat /\ MaxUdpSocks \in Nat
    /\ Supported \subseteq Services
    /\ MaxFaults \in Nat /\ MaxThrows \in Nat

VARIABLES
    opt,       \* Option.TCP_PORT, UDP_PORT, Telnet, disabletftp, as saved
    ssid,      \* *Option.SSID # 0, as saved
    wifi,      \* WIFIconnected
    started,   \* startupcomplete
    nets,      \* slots, handles and ports: see NetType
    last,      \* history: how the last attempt to open or close s ended
    faults, throws   \* how much of each bound is used

vars == <<opt, ssid, wifi, started, nets, last, faults, throws>>

-----------------------------------------------------------------------------
Protocol(s) == IF s \in {"tcp", "telnet"} THEN "tcp" ELSE "udp"

Slots == ({"tcp"} \X (1 .. MaxTcpServers)) \cup ({"udp"} \X (1 .. MaxUdpSocks))
NoSlot == <<"none", 0>>

\* What each service can be configured to.
Choices(s) ==
    {0} \cup CASE s = "tcp" -> TcpPorts
               [] s = "udp" -> UdpPorts
               [] s = "tftp" -> {TftpPort}
               [] s = "telnet" -> {TelnetPort}

Ports == {0, TelnetPort, TftpPort} \cup TcpPorts \cup UdpPorts

\* pcb: the port each slot of tcp_server_slots and udp_slots is bound to, or 0;
\* handle: svc->server, svc->socket, pico_tftp_socket and pico_telnet_server;
\* port: svc->port, which only the tcp and udp services keep.
NetType == [pcb : [Slots -> Nat],
            handle : [Services -> Slots \cup {NoSlot}],
            port : [{"tcp", "udp"} -> Nat]]

Closed == [pcb |-> [x \in Slots |-> 0],
           handle |-> [s \in Services |-> NoSlot],
           port |-> [s \in {"tcp", "udp"} |-> 0]]

-----------------------------------------------------------------------------
FreeSlots(n, k) == {x \in Slots : x[1] = k /\ n.pcb[x] = 0}
\* mutant: the loop's result is used although no slot was free or looked at
FirstFree_Unset(n, k) == <<k, 0>>

FirstFree(n, k) ==
    CHOOSE x \in FreeSlots(n, k) : \A y \in FreeSlots(n, k) : x[2] <= y[2]

\* lwIP refuses a second listener or socket on a port of the same protocol.
InUse(n, k, p) == \E x \in Slots : x[1] = k /\ n.pcb[x] = p

CanBind(n, s, p, fault) ==
    /\ ~fault
    /\ FreeSlots(n, Protocol(s)) # {}
    /\ ~InUse(n, Protocol(s), p)

\* hal_net_tcp_server_open and hal_net_udp_bind for a service with no handle.
Bind(n, s, p) ==
    LET x == FirstFree(n, Protocol(s))
    IN  [n EXCEPT !.pcb[x] = p, !.handle[s] = x]

Release(n, s) ==
    IF n.handle[s] = NoSlot THEN n
    ELSE [n EXCEPT !.pcb[n.handle[s]] = 0, !.handle[s] = NoSlot]

SetPort(n, s, p) ==
    IF s \in {"tcp", "udp"} THEN [n EXCEPT !.port[s] = p] ELSE n

\* mutant: the handle is forgotten and its slot stays bound
Stop_Leaks(n, s) == SetPort([n EXCEPT !.handle[s] = NoSlot], s, 0)

\* mm_net_tcp_service_stop, mm_net_udp_service_stop, pico_telnet_close and the
\* socket half of pico_tftp_close.
Stop(n, s) == SetPort(Release(n, s), s, 0)

\* mutant: an open service is kept whatever its port
AlreadyOpen_AnyPort(n, s, p) == n.handle[s] # NoSlot

\* The tcp and udp services rebind when the port changes; tftp and telnet have
\* one port each and keep what is open.
AlreadyOpen(n, s, p) ==
    /\ n.handle[s] # NoSlot
    /\ s \in {"tcp", "udp"} => n.port[s] = p

\* What an open_* hook leaves, and whether it succeeds.
Rebound(n, s, p, fault) ==
    IF CanBind(Stop(n, s), s, p, fault)
    THEN [net |-> SetPort(Bind(Stop(n, s), s, p), s, p), ok |-> TRUE]
    ELSE [net |-> Stop(n, s), ok |-> FALSE]

OpenService(n, s, p, fault) ==
    IF AlreadyOpen(n, s, p) THEN [net |-> n, ok |-> TRUE]
    ELSE Rebound(n, s, p, fault)

Result(ok) == IF ok THEN "ok" ELSE "failed"

-----------------------------------------------------------------------------
\* mm_net_lifecycle_on_network_ready: one service after the other, and none
\* after the first that fails (open_udp_server throws, with the same effect).
\* f is the service whose bind finds no memory, if any.
ReadyStep(a, s, f) ==
    IF opt[s] = 0 \/ s \notin Supported THEN a
    ELSE IF ~a.ok THEN [a EXCEPT !.last[s] = "skipped"]
    ELSE LET r == OpenService(a.net, s, opt[s], s = f)
         IN  [net |-> r.net, ok |-> r.ok, last |-> [a.last EXCEPT ![s] = Result(r.ok)]]

on_network_ready(f) ==
    LET a0 == [net |-> nets, ok |-> TRUE, last |-> last]
    IN  ReadyStep(ReadyStep(ReadyStep(ReadyStep(a0, "tcp", f), "udp", f), "tftp", f), "telnet", f)

Fault(f) == IF f \in Services THEN 1 ELSE 0

\* mm_net_lifecycle_wifi_connect: without an SSID hal_net_wifi_connect clears
\* WIFIconnected and reports success; the access point may refuse or time out,
\* or leave no IP address.
ConnectFails ==
    /\ wifi' = FALSE
    /\ UNCHANGED <<nets, last, faults>>

ConnectWorks(f) ==
    LET a == on_network_ready(f)
    IN  /\ faults + Fault(f) <= MaxFaults
        /\ wifi' = TRUE
        /\ nets' = a.net
        /\ last' = a.last
        /\ faults' = faults + Fault(f)

WebConnect(named, f) == ConnectFails \/ (named /\ ConnectWorks(f))

\* port_repl_wifi_arch_init_and_connect; hal_net_init may fail, and then the
\* device runs without a network until it is reset.
Boot(f) ==
    /\ ~started
    /\ started' = TRUE
    /\ WebConnect(ssid, f)
    /\ UNCHANGED <<opt, ssid, throws>>

\* WEB CONNECT with credentials stores them, with or without an SSID; without,
\* it needs a link that hal_net_wifi_status reports as failed, whatever
\* WIFIconnected says.  named: whether an SSID is stored when it connects.
WebConnectCommand(named, f) ==
    /\ started
    /\ ssid' = named
    /\ WebConnect(named, f)
    /\ UNCHANGED <<opt, started, throws>>

-----------------------------------------------------------------------------
\* The OPTION setters: the option is saved first, then the listener follows if
\* the network is up.
Enable(s, p, fault) ==
    LET r == OpenService(nets, s, p, fault)
    IN  /\ s \in Supported
        /\ p # 0
        /\ opt' = [opt EXCEPT ![s] = p]
        /\ IF wifi
           THEN /\ faults + (IF fault THEN 1 ELSE 0) <= MaxFaults
                /\ nets' = r.net
                /\ last' = [last EXCEPT ![s] = Result(r.ok)]
                /\ faults' = faults + (IF fault THEN 1 ELSE 0)
           ELSE ~fault /\ UNCHANGED <<nets, last, faults>>
        /\ UNCHANGED <<ssid, wifi, started, throws>>

\* mutant: only a connected device closes the listener
Disable_WhenConnected(s) ==
    /\ s \in Supported
    /\ opt' = [opt EXCEPT ![s] = 0]
    /\ nets' = IF wifi THEN Stop(nets, s) ELSE nets
    /\ last' = [last EXCEPT ![s] = "none"]
    /\ UNCHANGED <<ssid, wifi, started, faults, throws>>

Disable(s) ==
    /\ s \in Supported
    /\ opt' = [opt EXCEPT ![s] = 0]
    /\ nets' = Stop(nets, s)
    /\ last' = [last EXCEPT ![s] = "none"]
    /\ UNCHANGED <<ssid, wifi, started, faults, throws>>

\* OPTION TFTP OFF in a transfer whose file does not close: the error leaves
\* pico_tftp_close before the socket is closed.
DisableThrows ==
    /\ "tftp" \in Supported
    /\ nets.handle["tftp"] # NoSlot
    /\ throws < MaxThrows
    /\ opt' = [opt EXCEPT !["tftp"] = 0]
    /\ last' = [last EXCEPT !["tftp"] = "threw"]
    /\ throws' = throws + 1
    /\ UNCHANGED <<ssid, wifi, started, nets, faults>>

\* OPTION WIFI stores credentials and resets; RESET and a power cycle reset
\* with what is stored.  Only the saved options survive.
Reset ==
    /\ ssid' \in BOOLEAN
    /\ wifi' = FALSE
    /\ started' = FALSE
    /\ nets' = Closed
    /\ last' = [s \in Services |-> "none"]
    /\ UNCHANGED <<opt, faults, throws>>

\* pico_telnet_poll, as far as the listener goes.  ProcessWeb polls nothing
\* once the device has started and is not connected.
PollCloses ==
    /\ opt["telnet"] = 0 \/ ~wifi
    /\ nets' = Stop(nets, "telnet")
    /\ UNCHANGED <<last, faults>>

PollOpens(fault) ==
    LET r == OpenService(nets, "telnet", TelnetPort, fault)
    IN  /\ opt["telnet"] # 0 /\ wifi
        /\ nets.handle["telnet"] = NoSlot
        /\ faults + (IF fault THEN 1 ELSE 0) <= MaxFaults
        /\ nets' = r.net
        /\ last' = [last EXCEPT !["telnet"] = Result(r.ok)]
        /\ faults' = faults + (IF fault THEN 1 ELSE 0)

\* mutant: a missing listener is never reopened
pico_telnet_poll_NoReopen(fault) ==
    /\ wifi \/ ~started
    /\ PollCloses
    /\ UNCHANGED <<opt, ssid, wifi, started, throws>>

pico_telnet_poll(fault) ==
    /\ wifi \/ ~started
    /\ PollCloses \/ PollOpens(fault)
    /\ UNCHANGED <<opt, ssid, wifi, started, throws>>

-----------------------------------------------------------------------------
Init ==
    /\ opt \in {o \in [Services -> Ports] : \A s \in Services : o[s] \in Choices(s)}
    /\ ssid \in BOOLEAN
    /\ wifi = FALSE
    /\ started = FALSE
    /\ nets = Closed
    /\ last = [s \in Services |-> "none"]
    /\ faults = 0
    /\ throws = 0

Next ==
    \/ \E f \in Supported \cup {"none"} : Boot(f)
    \/ \E named \in BOOLEAN, f \in Supported \cup {"none"} : WebConnectCommand(named, f)
    \/ \E s \in Services, fault \in BOOLEAN :
           \E p \in Choices(s) : Enable(s, p, fault)
    \/ \E s \in Services : Disable(s)
    \/ DisableThrows
    \/ Reset
    \/ \E fault \in BOOLEAN : pico_telnet_poll(fault)

Spec == Init /\ [][Next]_vars

\* The main loop keeps calling ProcessWeb.
FairSpec == Spec /\ WF_vars(\E fault \in BOOLEAN : pico_telnet_poll(fault))

-----------------------------------------------------------------------------
(* Properties *)

\* Every variable has its type: handles name slots that exist, and the saved
\* options are ones a setter accepts.
TypeOK ==
    /\ opt \in [Services -> Ports] /\ \A s \in Services : opt[s] \in Choices(s)
    /\ {ssid, wifi, started} \subseteq BOOLEAN
    /\ nets \in NetType
    /\ last \in [Services -> {"none", "ok", "failed", "skipped", "threw"}]
    /\ faults \in 0 .. MaxFaults
    /\ throws \in 0 .. MaxThrows

\* No slot leaks and no handle dangles: a slot is bound exactly when one
\* service, and only one, holds its handle, whatever order of connections,
\* option changes, clashes of ports and failing binds led there.
SlotsOwned ==
    /\ \A x \in Slots : nets.pcb[x] # 0 <=> \E s \in Services : nets.handle[s] = x
    /\ \A s, t \in Services :
           nets.handle[s] = nets.handle[t] => s = t \/ nets.handle[s] = NoSlot

\* A service that is switched off has no listener, on line or off line, unless
\* closing its transfer threw.
DisabledIsClosed ==
    \A s \in Services :
        opt[s] = 0 => nets.handle[s] = NoSlot \/ last[s] = "threw"

Listening(s) == nets.handle[s] # NoSlot /\ nets.pcb[nets.handle[s]] = opt[s]

\* While the device is connected every service that is switched on listens, and
\* on the port that is configured, unless its open failed or the boot or
\* reconnection that should have opened it stopped at an earlier service.
ConfiguredIsOpen ==
    \A s \in Supported :
        wifi /\ opt[s] # 0 => Listening(s) \/ last[s] \in {"failed", "skipped"}

\* A telnet listener that could not be opened is opened by the poll once memory
\* is back, as long as no other listener holds its port.
TelnetComesBack ==
    (wifi /\ opt["telnet"] # 0)
        ~> (Listening("telnet") \/ ~wifi \/ opt["telnet"] = 0
               \/ InUse(nets, "tcp", TelnetPort))
=============================================================================
