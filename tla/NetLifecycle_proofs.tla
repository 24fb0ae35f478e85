------------------------ MODULE NetLifecycle_proofs ------------------------
(***************************************************************************)
(* Listeners, slots and saved options stay consistent, for any ports, any  *)
(* number of slots, any set of supported services and any number of        *)
(* failing binds.                                                          *)
(***************************************************************************)
EXTENDS NetLifecycle, TLAPS, WellFoundedInduction

Kept == {"tcp", "udp"}

\* SlotsOwned of any slots and handles n.
Owned(n) ==
    /\ \A x \in Slots : n.pcb[x] # 0 <=> \E s \in Services : n.handle[s] = x
    /\ \A s, t \in Services :
           n.handle[s] = n.handle[t] => s = t \/ n.handle[s] = NoSlot

\* A handle's slot is bound to the port the service believes it has.
PortsAgree(n) ==
    \A s \in Services : n.handle[s] # NoSlot =>
        n.pcb[n.handle[s]] \in IF s \in Kept THEN {n.port[s]} ELSE Choices(s)

Good(n) == n \in NetType /\ Owned(n) /\ PortsAgree(n)

OpenAt(n, s, p) == n.handle[s] # NoSlot /\ n.pcb[n.handle[s]] = p

\* From n to m only the listener of s changes.
SameOthers(n, m, s) ==
    \A t \in Services \ {s} :
        /\ m.handle[t] = n.handle[t]
        /\ n.handle[t] # NoSlot => m.pcb[n.handle[t]] = n.pcb[n.handle[t]]

Off(n, l) == \A s \in Services : opt[s] = 0 => n.handle[s] = NoSlot \/ l[s] = "threw"

On(n, l, S) ==
    \A s \in S \cap Supported :
        opt[s] # 0 => OpenAt(n, s, opt[s]) \/ l[s] \in {"failed", "skipped"}

\* The inductive invariant: PortsAgree is what makes the shortcut of an
\* already open service sound.
Inv ==
    /\ TypeOK
    /\ Good(nets)
    /\ Off(nets, last)
    /\ wifi => On(nets, last, Services)

-----------------------------------------------------------------------------
LEMMA SlotFacts ==
    /\ NoSlot \notin Slots
    /\ \A x \in Slots : x[2] \in Nat
BY LifecycleAssumption DEF NoSlot, Slots

\* The loop of hal_net_udp_bind and hal_net_tcp_server_open finds a free slot
\* when there is one.
LEMMA FirstFreeIsFree ==
    ASSUME NEW n \in NetType, NEW k, FreeSlots(n, k) # {}
    PROVE  FirstFree(n, k) \in FreeSlots(n, k)
<1> DEFINE R == OpToRel(<, Nat)
           F == FreeSlots(n, k)
           T == {x[2] : x \in F}
<1>1. F \subseteq Slots
  BY DEF FreeSlots
<1>2. T \subseteq Nat /\ T # {}
  BY <1>1, SlotFacts
<1>3. IsWellFoundedOn(R, Nat)
  BY NatLessThanWellFounded
<1>4. \E t \in T : \A y \in T : ~ (<<y, t>> \in R)
  <2> HIDE DEF R, T
  <2> QED BY <1>2, <1>3, WFMin
<1>5. PICK x \in F : \A y \in F : ~ (<<y[2], x[2]>> \in R)
  BY <1>4
<1>6. ASSUME NEW y \in F PROVE x[2] <= y[2]
  <2>1. x[2] \in Nat /\ y[2] \in Nat
    BY <1>1, SlotFacts
  <2>2. ~ (y[2] < x[2])
    BY <1>5, <2>1 DEF OpToRel
  <2> QED BY <2>1, <2>2
<1>7. \E z \in F : \A y \in F : z[2] <= y[2]
  BY <1>6
<1> QED BY <1>7 DEF FirstFree

\* Closing a listener frees its slot and touches no other.
LEMMA StopGood ==
    ASSUME NEW n, Good(n), NEW s \in Services
    PROVE  /\ Good(Stop(n, s))
           /\ Stop(n, s).handle[s] = NoSlot
           /\ SameOthers(n, Stop(n, s), s)
<1> DEFINE r == Release(n, s)
           m == Stop(n, s)
<1>1. n \in NetType /\ Owned(n) /\ PortsAgree(n)
  BY DEF Good
<1>2. /\ r \in NetType
      /\ r.port = n.port
      /\ r.handle = [n.handle EXCEPT ![s] = NoSlot]
      /\ \A x \in Slots : r.pcb[x] = IF x = n.handle[s] THEN 0 ELSE n.pcb[x]
  BY <1>1, SlotFacts DEF NetType, Release
<1>3. /\ m \in NetType
      /\ m.handle = r.handle
      /\ m.pcb = r.pcb
      /\ \A t \in Kept : m.port[t] = IF t = s THEN 0 ELSE n.port[t]
  <2> HIDE DEF r
  <2> QED BY <1>2 DEF NetType, Stop, SetPort, Kept, r
<1> HIDE DEF r, m
<1>4. \A t \in Services : n.handle[t] \in Slots \cup {NoSlot}
  BY <1>1 DEF NetType
<1>5. m.handle[s] = NoSlot /\ \A t \in Services \ {s} : m.handle[t] = n.handle[t]
  BY <1>1, <1>2, <1>3 DEF NetType
<1>6. \A x \in Slots : m.pcb[x] = IF x = n.handle[s] THEN 0 ELSE n.pcb[x]
  BY <1>2, <1>3
<1>7. SameOthers(n, m, s)
  BY <1>1, <1>4, <1>5, <1>6 DEF SameOthers, Owned
<1>8. Owned(m)
  BY <1>1, <1>4, <1>5, <1>6, SlotFacts DEF Owned
<1>9. PortsAgree(m)
  BY <1>1, <1>3, <1>5, <1>7 DEF PortsAgree, SameOthers
<1> QED BY <1>3, <1>5, <1>7, <1>8, <1>9 DEF Good, m

\* Binding a closed service takes a slot no other service holds.
LEMMA BindGood ==
    ASSUME NEW n, Good(n), NEW s \in Services, NEW p \in Choices(s) \ {0},
           n.handle[s] = NoSlot, FreeSlots(n, Protocol(s)) # {}
    PROVE  /\ Good(SetPort(Bind(n, s, p), s, p))
           /\ OpenAt(SetPort(Bind(n, s, p), s, p), s, p)
           /\ SameOthers(n, SetPort(Bind(n, s, p), s, p), s)
<1> DEFINE x == FirstFree(n, Protocol(s))
           b == Bind(n, s, p)
           m == SetPort(b, s, p)
<1>1. n \in NetType /\ Owned(n) /\ PortsAgree(n)
  BY DEF Good
<1>2. x \in Slots /\ n.pcb[x] = 0
  BY <1>1, FirstFreeIsFree DEF FreeSlots
<1>3. p \in Nat \ {0}
  BY LifecycleAssumption DEF Choices, Services
<1> HIDE DEF x
<1>4. /\ b \in NetType
      /\ b.port = n.port
      /\ b.handle = [n.handle EXCEPT ![s] = x]
      /\ b.pcb = [n.pcb EXCEPT ![x] = p]
  BY <1>1, <1>2, <1>3 DEF NetType, Bind, x
<1>5. /\ m \in NetType
      /\ m.handle = b.handle
      /\ m.pcb = b.pcb
      /\ \A t \in Kept : m.port[t] = IF t = s THEN p ELSE n.port[t]
  <2> HIDE DEF b
  <2> QED BY <1>3, <1>4 DEF NetType, SetPort, Kept, m
<1> HIDE DEF b, m
<1>6. /\ m.handle[s] = x
      /\ \A t \in Services \ {s} : m.handle[t] = n.handle[t] /\ n.handle[t] # x
      /\ \A y \in Slots : m.pcb[y] = IF y = x THEN p ELSE n.pcb[y]
  BY <1>1, <1>2, <1>4, <1>5 DEF NetType, Owned
<1>7. \A t \in Services : n.handle[t] \in Slots \cup {NoSlot}
  BY <1>1 DEF NetType
<1>8. OpenAt(m, s, p) /\ SameOthers(n, m, s)
  BY <1>2, <1>6, <1>7, SlotFacts DEF OpenAt, SameOthers
<1>9. Owned(m)
  <2>1. ASSUME NEW y \in Slots
        PROVE  m.pcb[y] # 0 <=> \E t \in Services : m.handle[t] = y
    <3>1. CASE y = x
      BY <1>3, <1>6, <3>1
    <3>2. CASE y # x
      <4>1. m.pcb[y] = n.pcb[y]
        BY <1>6, <3>2
      <4>2. \A t \in Services : m.handle[t] = y <=> n.handle[t] = y
        BY <1>6, <3>2, SlotFacts
      <4> QED BY <1>1, <4>1, <4>2 DEF Owned
    <3> QED BY <3>1, <3>2
  <2>2. ASSUME NEW t \in Services, NEW u \in Services, m.handle[t] = m.handle[u]
        PROVE  t = u \/ m.handle[t] = NoSlot
    <3>1. CASE t # s /\ u # s
      BY <1>1, <1>6, <2>2, <3>1 DEF Owned
    <3>2. CASE t = s \/ u = s
      BY <1>6, <2>2, <3>2
    <3> QED BY <3>1, <3>2
  <2> QED BY <2>1, <2>2 DEF Owned
<1>10. PortsAgree(m)
  <2> SUFFICES ASSUME NEW t \in Services, m.handle[t] # NoSlot
               PROVE  m.pcb[m.handle[t]] \in IF t \in Kept THEN {m.port[t]} ELSE Choices(t)
    BY DEF PortsAgree
  <2>1. CASE t = s
    BY <1>5, <1>8, <2>1 DEF OpenAt
  <2>2. CASE t # s
    <3>1. m.handle[t] = n.handle[t] /\ m.pcb[n.handle[t]] = n.pcb[n.handle[t]]
      BY <1>6, <1>8, <2>2 DEF SameOthers
    <3>2. t \in Kept => m.port[t] = n.port[t]
      BY <1>5, <2>2
    <3> QED BY <1>1, <3>1, <3>2 DEF PortsAgree
  <2> QED BY <2>1, <2>2
<1> QED BY <1>5, <1>8, <1>9, <1>10 DEF Good, m, b

\* What an open hook does: it succeeds with a listener on the port asked for, or
\* fails with the service closed or as it was.
LEMMA OpenGood ==
    ASSUME NEW n, Good(n), NEW s \in Services, NEW p \in Choices(s) \ {0},
           NEW fault \in BOOLEAN
    PROVE  LET r == OpenService(n, s, p, fault)
           IN  /\ Good(r.net)
               /\ r.ok \in BOOLEAN
               /\ r.ok => OpenAt(r.net, s, p)
               /\ SameOthers(n, r.net, s)
<1>1. CASE AlreadyOpen(n, s, p)
  <2>1. OpenService(n, s, p, fault) = [net |-> n, ok |-> TRUE]
    BY <1>1 DEF OpenService
  <2>2. s \in Kept => n.port[s] = p
    BY <1>1 DEF AlreadyOpen, Kept
  <2>3. s \notin Kept => Choices(s) \ {0} = {p}
    BY LifecycleAssumption DEF Choices, Services, Kept
  <2>4. n.handle[s] \in Slots
    BY <1>1 DEF AlreadyOpen, Good, NetType
  <2>5. n.pcb[n.handle[s]] # 0
    BY <2>4 DEF Good, Owned
  <2>6. OpenAt(n, s, p)
    BY <1>1, <2>2, <2>3, <2>5 DEF AlreadyOpen, OpenAt, Good, PortsAgree
  <2>7. SameOthers(n, n, s)
    BY DEF SameOthers
  <2> QED BY <2>1, <2>6, <2>7
<1>2. CASE ~AlreadyOpen(n, s, p)
  <2> DEFINE c == Stop(n, s)
             m == SetPort(Bind(c, s, p), s, p)
  <2>1. Good(c) /\ c.handle[s] = NoSlot /\ SameOthers(n, c, s)
    BY StopGood
  <2>2. CASE CanBind(c, s, p, fault)
    <3>1. OpenService(n, s, p, fault) = [net |-> m, ok |-> TRUE]
      BY <1>2, <2>2 DEF OpenService, Rebound
    <3>2. Good(m) /\ OpenAt(m, s, p) /\ SameOthers(c, m, s)
      <4> HIDE DEF c
      <4> QED BY <2>1, <2>2, BindGood DEF CanBind
    <3>3. SameOthers(n, m, s)
      <4> HIDE DEF c, m
      <4> QED BY <2>1, <3>2 DEF SameOthers
    <3> HIDE DEF m
    <3> QED BY <3>1, <3>2, <3>3
  <2>3. CASE ~CanBind(c, s, p, fault)
    <3>1. OpenService(n, s, p, fault) = [net |-> c, ok |-> FALSE]
      BY <1>2, <2>3 DEF OpenService, Rebound
    <3> HIDE DEF c
    <3> QED BY <2>1, <3>1
  <2> QED BY <2>2, <2>3
<1> QED BY <1>1, <1>2

-----------------------------------------------------------------------------
Results == {"none", "ok", "failed", "skipped", "threw"}

\* What on_network_ready has established once it has dealt with the services S.
Reached(a, S) ==
    /\ a = [net |-> a.net, ok |-> a.ok, last |-> a.last]
    /\ Good(a.net)
    /\ a.ok \in BOOLEAN
    /\ a.last \in [Services -> Results]
    /\ Off(a.net, a.last)
    /\ On(a.net, a.last, S)

LEMMA ReadyStepReached ==
    ASSUME TypeOK, NEW S, S \subseteq Services, NEW s \in Services \ S, NEW f,
           NEW a, Reached(a, S)
    PROVE  Reached(ReadyStep(a, s, f), S \cup {s})
<1>1. CASE opt[s] = 0 \/ s \notin Supported
  <2>1. ReadyStep(a, s, f) = a
    BY <1>1 DEF ReadyStep
  <2> QED BY <1>1, <2>1 DEF Reached, On
<1>2. CASE ~(opt[s] = 0 \/ s \notin Supported) /\ ~a.ok
  <2> DEFINE l == [a.last EXCEPT ![s] = "skipped"]
  <2>1. ReadyStep(a, s, f) = [net |-> a.net, ok |-> a.ok, last |-> l]
    BY <1>2 DEF ReadyStep, Reached
  <2>2. /\ l \in [Services -> Results]
        /\ l[s] = "skipped"
        /\ \A t \in Services \ {s} : l[t] = a.last[t]
    BY DEF Reached, Results
  <2> HIDE DEF l
  <2>3. Off(a.net, l)
    BY <1>2, <2>2 DEF Reached, Off
  <2>4. On(a.net, l, S \cup {s})
    BY <2>2 DEF Reached, On
  <2> QED BY <2>1, <2>2, <2>3, <2>4 DEF Reached
<1>3. CASE ~(opt[s] = 0 \/ s \notin Supported) /\ a.ok
  <2> DEFINE r == OpenService(a.net, s, opt[s], s = f)
             l == [a.last EXCEPT ![s] = Result(r.ok)]
  <2>1. ReadyStep(a, s, f) = [net |-> r.net, ok |-> r.ok, last |-> l]
    BY <1>3 DEF ReadyStep
  <2>2. opt[s] \in Choices(s) \ {0} /\ (s = f) \in BOOLEAN
    BY <1>3 DEF TypeOK
  <2>3. /\ Good(r.net)
        /\ r.ok \in BOOLEAN
        /\ r.ok => OpenAt(r.net, s, opt[s])
        /\ SameOthers(a.net, r.net, s)
    <3> DEFINE b == (s = f)
    <3>1. b \in BOOLEAN
      OBVIOUS
    <3> HIDE DEF b
    <3> QED BY <2>2, <3>1, OpenGood DEF Reached, b
  <2> HIDE DEF r
  <2>4. /\ l \in [Services -> Results]
        /\ l[s] = Result(r.ok)
        /\ \A t \in Services \ {s} : l[t] = a.last[t]
    BY <2>3 DEF Reached, Results, Result
  <2> HIDE DEF l
  <2>5. Off(r.net, l)
    BY <1>3, <2>3, <2>4 DEF Reached, Off, SameOthers
  <2>6. ASSUME NEW t \in (S \cup {s}) \cap Supported, opt[t] # 0
        PROVE  OpenAt(r.net, t, opt[t]) \/ l[t] \in {"failed", "skipped"}
    <3>1. CASE t = s
      BY <2>3, <2>4, <3>1 DEF Result
    <3>2. CASE t # s
      BY <2>3, <2>4, <2>6, <3>2 DEF Reached, On, OpenAt, SameOthers
    <3> QED BY <3>1, <3>2
  <2>7. On(r.net, l, S \cup {s})
    BY <2>6 DEF On
  <2> QED BY <2>1, <2>3, <2>4, <2>5, <2>7 DEF Reached
<1> QED BY <1>1, <1>2, <1>3 DEF Reached

\* A connection leaves every configured service listening, failed or skipped.
LEMMA ReadyGood ==
    ASSUME Inv, NEW f
    PROVE  Reached(on_network_ready(f), Services)
<1> DEFINE a0 == [net |-> nets, ok |-> TRUE, last |-> last]
           a1 == ReadyStep(a0, "tcp", f)
           a2 == ReadyStep(a1, "udp", f)
           a3 == ReadyStep(a2, "tftp", f)
           a4 == ReadyStep(a3, "telnet", f)
<1>1. Reached(a0, {})
  BY DEF Inv, TypeOK, Reached, On, Results
<1> HIDE DEF a0
<1>2. Reached(a1, {"tcp"})
  <2>1. {} \subseteq Services /\ "tcp" \in Services \ {} /\ {} \cup {"tcp"} = {"tcp"}
    BY DEF Services
  <2> QED BY <1>1, <2>1, ReadyStepReached DEF Inv
<1> HIDE DEF a1
<1>3. Reached(a2, {"tcp", "udp"})
  <2>1. /\ {"tcp"} \subseteq Services /\ "udp" \in Services \ {"tcp"}
        /\ {"tcp"} \cup {"udp"} = {"tcp", "udp"}
    BY DEF Services
  <2> QED BY <1>2, <2>1, ReadyStepReached DEF Inv
<1> HIDE DEF a2
<1>4. Reached(a3, {"tcp", "udp", "tftp"})
  <2>1. /\ {"tcp", "udp"} \subseteq Services /\ "tftp" \in Services \ {"tcp", "udp"}
        /\ {"tcp", "udp"} \cup {"tftp"} = {"tcp", "udp", "tftp"}
    BY DEF Services
  <2> QED BY <1>3, <2>1, ReadyStepReached DEF Inv
<1> HIDE DEF a3
<1>5. Reached(a4, Services)
  <2>1. /\ {"tcp", "udp", "tftp"} \subseteq Services
        /\ "telnet" \in Services \ {"tcp", "udp", "tftp"}
        /\ {"tcp", "udp", "tftp"} \cup {"telnet"} = Services
    BY DEF Services
  <2> QED BY <1>4, <2>1, ReadyStepReached DEF Inv
<1>6. on_network_ready(f) = a4
  BY DEF on_network_ready, a0, a1, a2, a3
<1> QED BY <1>5, <1>6

-----------------------------------------------------------------------------
LEMMA InitInv == Init => Inv
<1> SUFFICES ASSUME Init PROVE Inv
  OBVIOUS
<1>1. Closed \in NetType /\ \A s \in Services : Closed.handle[s] = NoSlot
  BY DEF Closed, NetType
<1>2. \A x \in Slots : Closed.pcb[x] = 0
  BY DEF Closed
<1>3. Good(Closed)
  BY <1>1, <1>2, SlotFacts DEF Good, Owned, PortsAgree
<1>4. opt \in [Services -> Ports] /\ \A s \in Services : opt[s] \in Choices(s)
  BY Zenon DEF Init
<1>5. nets \in NetType /\ {ssid, wifi, started} \subseteq BOOLEAN
  BY <1>1 DEF Init
<1>6. faults \in 0 .. MaxFaults /\ throws \in 0 .. MaxThrows
  BY LifecycleAssumption DEF Init
<1>7. last \in [Services -> {"none", "ok", "failed", "skipped", "threw"}]
  BY DEF Init
<1>8. TypeOK
  BY <1>4, <1>5, <1>6, <1>7 DEF TypeOK
<1> QED BY <1>1, <1>3, <1>8 DEF Init, Inv, Off

\* One service is opened, by its OPTION setter or by the telnet poll.
LEMMA OpenInv ==
    ASSUME Inv, NEW s \in Services, NEW p \in Choices(s) \ {0}, NEW fault \in BOOLEAN,
           opt' = [opt EXCEPT ![s] = p],
           nets' = OpenService(nets, s, p, fault).net,
           last' = [last EXCEPT ![s] = Result(OpenService(nets, s, p, fault).ok)]
    PROVE  /\ Good(nets')
           /\ last' \in [Services -> Results]
           /\ Off(nets, last)'
           /\ On(nets, last, Services) => On(nets, last, Services)'
<1> DEFINE r == OpenService(nets, s, p, fault)
<1>2. /\ Good(r.net)
      /\ r.ok \in BOOLEAN
      /\ r.ok => OpenAt(r.net, s, p)
      /\ SameOthers(nets, r.net, s)
  BY OpenGood DEF Inv
<1>3. nets' = r.net /\ last' = [last EXCEPT ![s] = Result(r.ok)]
  OBVIOUS
<1> HIDE DEF r
<1>4. /\ last' \in [Services -> Results]
      /\ last'[s] = Result(r.ok)
      /\ \A t \in Services \ {s} : last'[t] = last[t]
  BY <1>2, <1>3 DEF Inv, TypeOK, Results, Result
<1>5. opt'[s] = p /\ p # 0 /\ \A t \in Services \ {s} : opt'[t] = opt[t]
  BY DEF Inv, TypeOK
<1>6. Off(nets, last)'
  BY <1>2, <1>3, <1>4, <1>5 DEF Inv, Off, SameOthers
<1>7. ASSUME On(nets, last, Services), NEW t \in Services \cap Supported, opt'[t] # 0
      PROVE  OpenAt(nets, t, opt[t])' \/ last'[t] \in {"failed", "skipped"}
  <2>1. CASE t = s
    BY <1>2, <1>3, <1>4, <1>5, <2>1 DEF Result, OpenAt
  <2>2. CASE t # s
    BY <1>2, <1>3, <1>4, <1>5, <1>7, <2>2 DEF On, OpenAt, SameOthers
  <2> QED BY <2>1, <2>2
<1> QED BY <1>2, <1>3, <1>4, <1>6, <1>7 DEF On

LEMMA EnableInv ==
    ASSUME Inv, NEW s \in Services, NEW p \in Choices(s), NEW fault \in BOOLEAN,
           Enable(s, p, fault)
    PROVE  Inv'
<1>1. s \in Supported /\ p \in Choices(s) \ {0} /\ p \in Ports
  BY DEF Enable, Choices, Ports, Services
<1>2. opt' \in [Services -> Ports] /\ \A t \in Services : opt'[t] \in Choices(t)
  BY <1>1 DEF Inv, TypeOK, Enable
<1>3. CASE wifi
  <2>1. /\ Good(nets')
        /\ last' \in [Services -> Results]
        /\ Off(nets, last)'
        /\ On(nets, last, Services)'
    BY <1>1, <1>3, OpenInv DEF Inv, Enable
  <2>2. TypeOK'
    BY <1>2, <1>3, <2>1, LifecycleAssumption DEF Inv, TypeOK, Enable, Results, Good
  <2> QED BY <2>1, <2>2 DEF Inv
<1>4. CASE ~wifi
  <2>1. UNCHANGED <<nets, last, faults, wifi, ssid, started, throws>>
    BY <1>4 DEF Enable
  <2>2. opt' = [opt EXCEPT ![s] = p] /\ p # 0
    BY DEF Enable
  <2>3. Off(nets, last)'
    BY <2>1, <2>2 DEF Inv, TypeOK, Off
  <2>4. TypeOK'
    BY <1>2, <2>1 DEF Inv, TypeOK
  <2> QED BY <1>4, <2>1, <2>3, <2>4 DEF Inv
<1> QED BY <1>3, <1>4

\* One service is closed, by its OPTION setter or by the telnet poll.
LEMMA CloseInv ==
    ASSUME Inv, NEW s \in Services, nets' = Stop(nets, s),
           \A t \in Services \ {s} : last'[t] = last[t] /\ opt'[t] = opt[t],
           opt'[s] = 0 \/ ~wifi'
    PROVE  /\ Good(nets')
           /\ Off(nets, last)'
           /\ (wifi' => wifi) => (wifi => On(nets, last, Services))'
<1>1. /\ Good(nets')
      /\ nets'.handle[s] = NoSlot
      /\ SameOthers(nets, nets', s)
  BY StopGood DEF Inv
<1>2. Off(nets, last)'
  BY <1>1 DEF Inv, Off, SameOthers
<1>3. ASSUME wifi' => wifi, wifi', NEW t \in Services \cap Supported, opt'[t] # 0
      PROVE  OpenAt(nets, t, opt[t])' \/ last'[t] \in {"failed", "skipped"}
  <2>1. t # s
    BY <1>3
  <2> QED BY <1>1, <1>3, <2>1 DEF Inv, On, OpenAt, SameOthers
<1> QED BY <1>1, <1>2, <1>3 DEF On

LEMMA DisableInv ==
    ASSUME Inv, NEW s \in Services, Disable(s)
    PROVE  Inv'
<1>1. /\ opt' \in [Services -> Ports] /\ opt'[s] = 0
      /\ \A t \in Services \ {s} : opt'[t] = opt[t]
      /\ \A t \in Services : opt'[t] \in Choices(t)
  BY DEF Disable, Inv, TypeOK, Ports, Choices
<1>2. /\ last' \in [Services -> Results]
      /\ \A t \in Services \ {s} : last'[t] = last[t]
  BY DEF Disable, Inv, TypeOK, Results
<1>3. nets' = Stop(nets, s) /\ UNCHANGED <<ssid, wifi, started, faults, throws>>
  BY DEF Disable
<1>4. Good(nets') /\ Off(nets, last)' /\ (wifi => On(nets, last, Services))'
  BY <1>1, <1>2, <1>3, CloseInv
<1>5. TypeOK'
  BY <1>1, <1>2, <1>3, <1>4 DEF Inv, TypeOK, Results, Good
<1> QED BY <1>4, <1>5 DEF Inv

LEMMA ThrowInv ==
    ASSUME Inv, DisableThrows
    PROVE  Inv'
<1>1. "tftp" \in Services
  BY DEF Services
<1>2. /\ opt' \in [Services -> Ports] /\ opt'["tftp"] = 0
      /\ \A t \in Services \ {"tftp"} : opt'[t] = opt[t]
      /\ \A t \in Services : opt'[t] \in Choices(t)
  BY <1>1 DEF DisableThrows, Inv, TypeOK, Ports, Choices
<1>3. /\ last' \in [Services -> Results] /\ last'["tftp"] = "threw"
      /\ \A t \in Services \ {"tftp"} : last'[t] = last[t]
  BY <1>1 DEF DisableThrows, Inv, TypeOK, Results
<1>4. UNCHANGED <<ssid, wifi, started, nets, faults>> /\ throws' \in 0 .. MaxThrows
  BY LifecycleAssumption DEF DisableThrows, Inv, TypeOK
<1>5. Off(nets, last)'
  BY <1>2, <1>3, <1>4 DEF Inv, Off
<1>6. (wifi => On(nets, last, Services))'
  BY <1>2, <1>3, <1>4 DEF Inv, On, OpenAt
<1>7. TypeOK'
  BY <1>2, <1>3, <1>4 DEF Inv, TypeOK, Results
<1> QED BY <1>4, <1>5, <1>6, <1>7 DEF Inv

LEMMA ConnectInv ==
    ASSUME Inv, NEW named \in BOOLEAN, NEW f, WebConnect(named, f),
           ssid' \in BOOLEAN, started' \in BOOLEAN, UNCHANGED <<opt, throws>>
    PROVE  Inv'
<1>1. CASE ConnectFails
  <2>1. wifi' = FALSE /\ UNCHANGED <<nets, last, faults>>
    BY <1>1 DEF ConnectFails
  <2>2. Off(nets, last)'
    BY <2>1 DEF Inv, Off
  <2> QED BY <2>1, <2>2 DEF Inv, TypeOK
<1>2. CASE ConnectWorks(f)
  <2> DEFINE a == on_network_ready(f)
  <2>1. Reached(a, Services)
    BY ReadyGood
  <2>2. nets' = a.net /\ last' = a.last /\ wifi' = TRUE /\ faults' \in 0 .. MaxFaults
    BY <1>2, LifecycleAssumption DEF ConnectWorks, Fault, Inv, TypeOK
  <2> HIDE DEF a
  <2>3. Off(nets, last)' /\ On(nets, last, Services)' /\ Good(nets')
    BY <2>1, <2>2 DEF Reached, Off, On, OpenAt
  <2>4. TypeOK'
    BY <2>1, <2>2, <2>3 DEF Inv, TypeOK, Reached, Results, Good
  <2> QED BY <2>3, <2>4 DEF Inv
<1> QED BY <1>1, <1>2 DEF WebConnect

LEMMA ResetInv ==
    ASSUME Inv, Reset
    PROVE  Inv'
<1>1. Closed \in NetType /\ \A s \in Services : Closed.handle[s] = NoSlot
  BY DEF Closed, NetType
<1>2. \A x \in Slots : Closed.pcb[x] = 0
  BY DEF Closed
<1>3. Good(Closed)
  BY <1>1, <1>2, SlotFacts DEF Good, Owned, PortsAgree
<1>4. TypeOK'
  BY <1>1 DEF Reset, Inv, TypeOK
<1> QED BY <1>1, <1>3, <1>4 DEF Reset, Inv, Off

LEMMA PollInv ==
    ASSUME Inv, NEW fault \in BOOLEAN, pico_telnet_poll(fault)
    PROVE  Inv'
<1>1. "telnet" \in Services /\ UNCHANGED <<opt, ssid, wifi, started, throws>>
  BY DEF Services, pico_telnet_poll
<1>2. CASE PollCloses
  <2>1. Good(nets') /\ Off(nets, last)' /\ (wifi => On(nets, last, Services))'
    BY <1>1, <1>2, CloseInv DEF PollCloses
  <2>2. TypeOK'
    BY <1>1, <1>2, <2>1 DEF Inv, TypeOK, PollCloses, Good
  <2> QED BY <2>1, <2>2 DEF Inv
<1>3. CASE PollOpens(fault)
  <2>1. opt["telnet"] = TelnetPort /\ TelnetPort \in Choices("telnet") \ {0}
    BY <1>1, <1>3, LifecycleAssumption DEF PollOpens, Inv, TypeOK, Choices
  <2>2. opt' = [opt EXCEPT !["telnet"] = TelnetPort]
    BY <1>1, <2>1 DEF Inv, TypeOK
  <2>3. /\ Good(nets')
        /\ last' \in [Services -> Results]
        /\ Off(nets, last)'
        /\ On(nets, last, Services)'
    BY <1>1, <1>3, <2>1, <2>2, OpenInv DEF PollOpens, Inv
  <2>4. TypeOK'
    BY <1>1, <1>3, <2>3, LifecycleAssumption DEF Inv, TypeOK, PollOpens, Results, Good
  <2> QED BY <2>3, <2>4 DEF Inv
<1> QED BY <1>2, <1>3 DEF pico_telnet_poll

LEMMA NextInv == Inv /\ [Next]_vars => Inv'
<1> SUFFICES ASSUME Inv, [Next]_vars PROVE Inv'
  OBVIOUS
<1>1. ASSUME NEW f, Boot(f) PROVE Inv'
  <2>1. ssid \in BOOLEAN /\ ssid' \in BOOLEAN /\ started' \in BOOLEAN
    BY <1>1 DEF Boot, Inv, TypeOK
  <2> QED BY <1>1, <2>1, ConnectInv DEF Boot
<1>2. ASSUME NEW named \in BOOLEAN, NEW f, WebConnectCommand(named, f) PROVE Inv'
  <2>1. ssid' \in BOOLEAN /\ started' \in BOOLEAN
    BY <1>2 DEF WebConnectCommand, Inv, TypeOK
  <2> QED BY <1>2, <2>1, ConnectInv DEF WebConnectCommand
<1>3. ASSUME NEW s \in Services, NEW fault \in BOOLEAN, NEW p \in Choices(s),
             Enable(s, p, fault)
      PROVE  Inv'
  BY <1>3, EnableInv
<1>4. ASSUME NEW s \in Services, Disable(s) PROVE Inv'
  BY <1>4, DisableInv
<1>5. CASE DisableThrows
  BY <1>5, ThrowInv
<1>6. CASE Reset
  BY <1>6, ResetInv
<1>7. ASSUME NEW fault \in BOOLEAN, pico_telnet_poll(fault) PROVE Inv'
  BY <1>7, PollInv
<1>8. CASE UNCHANGED vars
  BY <1>8 DEF vars, Inv, TypeOK, Off, On, OpenAt
<1> QED BY <1>1, <1>2, <1>3, <1>4, <1>5, <1>6, <1>7, <1>8 DEF Next

LEMMA InvHolds == Spec => []Inv
BY InitInv, NextInv, PTL DEF Spec

\* No slot of the HAL is leaked or shared and no handle dangles, however
\* connections, option changes, port clashes and failing binds interleave.
THEOREM NoSlotLeaks == Spec => []SlotsOwned
<1>1. Inv => SlotsOwned
  BY DEF Inv, Good, Owned, SlotsOwned
<1> QED BY <1>1, InvHolds, PTL

\* Switching a service off closes its listener, connected or not; only a TFTP
\* close that throws leaves one open.
THEOREM OffMeansClosed == Spec => []DisabledIsClosed
<1>1. Inv => DisabledIsClosed
  BY DEF Inv, Off, DisabledIsClosed
<1> QED BY <1>1, InvHolds, PTL

\* On a connected device a configured service listens on its configured port,
\* or its open failed, or on_network_ready never got to it.
THEOREM OnMeansOpen == Spec => []ConfiguredIsOpen
<1>1. Inv => ConfiguredIsOpen
  BY LifecycleAssumption DEF Inv, On, OpenAt, ConfiguredIsOpen, Listening
<1> QED BY <1>1, InvHolds, PTL

\* Every variable keeps its type.
THEOREM LifecycleTypeCorrect == Spec => []TypeOK
<1>1. Inv => TypeOK
  BY DEF Inv
<1> QED BY <1>1, InvHolds, PTL
=============================================================================
