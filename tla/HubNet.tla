-------------------------------- MODULE HubNet --------------------------------
(***************************************************************************)
(* How the hub gets online and to its server: the Ethernet chip's link,     *)
(* the DHCP client, the resolver and the ARP table under net_uip.c, and     *)
(* what pbhub.c does about its connection.  One request goes to the chip    *)
(* at a time and its answer may come much later, twice or never.            *)
(*                                                                          *)
(* The LAN is outside src/: a router, which answers DHCP and DNS and        *)
(* carries what goes to the server, and a peer that asks for the hub's      *)
(* address.  The server's end of the connection is in HubTcp.               *)
(***************************************************************************)
EXTENDS Arp, Resolver

CONSTANTS
  UIP_UDP_CONNS,
  UIP_MAXSYNRTX,
  DHCP_TIMEOUT_S,   \* seconds from link up to the watchdog
  ARP_TIMEOUT_S,    \* seconds between two runs of uip_arp_timer, less one
  Router, Peer,     \* the addresses of the LAN
  PeerMac,
  MaxFails          \* bound on failures: link, power, router, server

ASSUME HubNetAssumption ==
  /\ UIP_UDP_CONNS \in Nat \ {0} /\ UIP_MAXSYNRTX \in Nat \ {0}
  /\ DHCP_TIMEOUT_S \in Nat \ {0}
  /\ ARP_TIMEOUT_S \in Nat /\ MaxFails \in Nat
  /\ Addresses = {Router, Peer} /\ Router # Peer /\ PeerMac \in Macs

VARIABLES
  hub,      \* the hub's memory
  lan,      \* cable and router
  fails     \* failures so far

vars == <<hub, lan, fails>>

RouterMacs == Macs \ {PeerMac}
UdpSlots == 1..UIP_UDP_CONNS

(***************************************************************************)
(*   up          ether_cc1110.c's eth_link_up                               *)
(*   online, dhcp_timer, arp_timer   net_uip.c's                            *)
(*   st, dconn   dhcpc.c's dhcp_st and dhcp_state.conn (0 for NULL)         *)
(*   udp         whose each of uIP's UDP connections is; rconn resolv_conn  *)
(*   names, seqno     the resolver's;   arp, arptime   the ARP table's      *)
(*   connected   pbhub.c's flag                                             *)
(*   tcp, nrtx   the state of uIP's only TCP connection, its SYNs sent      *)
(*   tx          the frames given to ether_tx in this step                  *)
(***************************************************************************)
DhcpStates == {"DISCOVER", "DISCOVER_WAIT", "WAITACK", "COMPLETE"}
TcpStates == {"CLOSED", "SYN_SENT", "ESTABLISHED"}

\* The requests that answers can come to; arg tells them apart.
Requests ==
  {[kind |-> k, arg |-> k] : k \in {"discover", "request", "syn"}}
  \cup [kind : {"query"}, arg : Ids] \cup [kind : {"who"}, arg : RouterMacs]

\* net_init: nothing is connected, dhcp_st as initialised.
Boot ==
  [up |-> FALSE, online |-> FALSE, dhcp_timer |-> 0, arp_timer |-> ARP_TIMEOUT_S,
   st |-> "DISCOVER", dconn |-> 0, udp |-> [i \in UdpSlots |-> "free"], rconn |-> 0,
   names |-> resolv_init, seqno |-> 0, arp |-> uip_arp_init, arptime |-> 0,
   connected |-> FALSE, tcp |-> "CLOSED", nrtx |-> 0, tx |-> {}]

TypeOK ==
  /\ hub \in [up : BOOLEAN, online : BOOLEAN, dhcp_timer : 0..DHCP_TIMEOUT_S,
              arp_timer : 0..ARP_TIMEOUT_S, st : DhcpStates, dconn : {0} \cup UdpSlots,
              udp : [UdpSlots -> {"free", "dhcp", "dns"}], rconn : {0} \cup UdpSlots,
              names : NameTables, seqno : 0..SeqnoMod - 1,
              arp : Tables, arptime : 0..TimeMod - 1,
              connected : BOOLEAN, tcp : TcpStates,
              nrtx : 0..UIP_MAXSYNRTX, tx : {{}}]
  /\ lan \in [phys : BOOLEAN, linkif : BOOLEAN, mac : RouterMacs, got : SUBSET Requests]
  /\ fails \in 0..MaxFails

Init ==
  /\ hub = Boot
  /\ \E m \in RouterMacs : lan = [phys |-> FALSE, linkif |-> FALSE, mac |-> m, got |-> {}]
  /\ fails = 0

-----------------------------------------------------------------------------
(* Sending: uip_arp_out and ether_tx.                                       *)

Frame(kind, arg, to) == [kind |-> kind, arg |-> arg, to |-> to]
Broadcast(h, kind) == [h EXCEPT !.tx = @ \cup {Frame(kind, kind, Nobody)}]

\* The DNS server and the hub's server are reached through the router; a
\* packet for an address not in the table is replaced by an ARP request.
OutNoArp(h, kind, arg) ==                                    \* mutant
  IF Has(h.arp, Router)
  THEN [h EXCEPT !.tx = @ \cup {Frame(kind, arg, h.arp[Entry(h.arp, Router)].mac)}]
  ELSE h
Out(h, kind, arg) ==
  IF Has(h.arp, Router)
  THEN [h EXCEPT !.tx = @ \cup {Frame(kind, arg, h.arp[Entry(h.arp, Router)].mac)}]
  ELSE [h EXCEPT !.tx = @ \cup {Frame("who", Router, Nobody)}]

-----------------------------------------------------------------------------
(* pbhub.c's tcp_event, tcp_uip.c's tcp_connect.                            *)

Disconnected(h) == [h EXCEPT !.connected = FALSE]
TcpConnect(h) ==
  IF resolv_lookup(h.names) /\ h.tcp = "CLOSED"
  THEN [h EXCEPT !.tcp = "SYN_SENT", !.nrtx = 0]
  ELSE Disconnected(h)
Resolved(h) == IF h.connected THEN h ELSE TcpConnect(h)
Closed(h) == Disconnected([h EXCEPT !.tcp = "CLOSED", !.nrtx = 0])

App1Hz(h) ==
  LET q == [h EXCEPT !.names = resolv_query(@, h.seqno), !.seqno = (@ + 1) % SeqnoMod]
  IN IF h.connected \/ ~h.online THEN h
     ELSE IF resolv_lookup(q.names) THEN Resolved(q) ELSE q

-----------------------------------------------------------------------------
(* net_uip.c, uip.c's UDP connections and dhcpc.c.                          *)

net_online(h, c) == [h EXCEPT !.online = c, !.connected = @ /\ c]

Removed(udp, i) == IF i = 0 THEN udp ELSE [udp EXCEPT ![i] = "free"]
FreeConns(udp) == {i \in UdpSlots : udp[i] = "free"}
uip_udp_new(udp) == IF FreeConns(udp) = {} THEN 0 ELSE Min(FreeConns(udp))
Taken(udp, i, who) == IF i = 0 THEN udp ELSE [udp EXCEPT ![i] = who]

DhcpcInitAgain(h) ==                                         \* mutant
  LET u == Removed(h.udp, h.dconn)
      i == uip_udp_new(u)
  IN [h EXCEPT !.udp = Taken(u, i, "dhcp"), !.dconn = i, !.st = "DISCOVER"]
dhcpc_init(h) ==
  LET u == Removed(h.udp, h.dconn)
      i == uip_udp_new(u)
  IN [h EXCEPT !.udp = Taken(u, i, "dhcp"), !.dconn = i]

EtherConnectedOnce(h, c) ==                                  \* mutant
  CASE ~c -> net_online(h, FALSE)
    [] c /\ h.st # "DISCOVER" -> h
    [] OTHER -> dhcpc_init([h EXCEPT !.dhcp_timer = DHCP_TIMEOUT_S])
ether_connected(h, c) ==
  CASE ~c -> net_online(h, FALSE)
    [] c /\ h.dhcp_timer # 0 -> h
    [] OTHER -> dhcpc_init([h EXCEPT !.dhcp_timer = DHCP_TIMEOUT_S])

\* dhcpc_configured, resolv_conf.
dhcpc_configured(h) ==
  LET u == Removed(h.udp, h.rconn)
      i == uip_udp_new(u)
  IN net_online([h EXCEPT !.dhcp_timer = 0, !.udp = Taken(u, i, "dns"), !.rconn = i], TRUE)

AckedEarly(h) ==                                             \* mutant
  dhcpc_configured([h EXCEPT !.st = "COMPLETE", !.udp = Removed(@, h.dconn)])
Acked(h) ==
  LET c == dhcpc_configured([h EXCEPT !.st = "COMPLETE"])
  IN [c EXCEPT !.udp = Removed(@, h.dconn)]

\* handle_dhcp.  expired: the 16-bit clock is past dhcp_t, which its wrapping
\* may bring about early or put off for longer than the watchdog waits.  The
\* message, if there is one, is read whether or not the time had expired.
HandleDhcp(h, expired, msg) ==
  LET w == IF expired THEN [h EXCEPT !.st = "DISCOVER"] ELSE h
  IN CASE h.st = "DISCOVER" -> Broadcast([h EXCEPT !.st = "DISCOVER_WAIT"], "discover")
       [] h.st = "DISCOVER_WAIT" /\ msg = "offer" ->
            Broadcast([h EXCEPT !.st = "WAITACK"], "request")
       [] h.st = "WAITACK" /\ msg = "ack" -> Acked(h)
       [] h.st = "COMPLETE" -> h
       [] OTHER -> w

UdpInUse(h, who) == \E i \in UdpSlots : h.udp[i] = who

\* check_entries, polled on the resolver's connection.
CheckEntries(h) ==
  LET c == [h EXCEPT !.names = check_entries(@)]
      f == IF GaveUp(h.names) THEN Resolved(c) ELSE c
  IN IF Due(h.names) = {} THEN f ELSE Out(f, "query", Min(Due(h.names)))

UdpPeriodic(h, expired) ==
  LET d == IF UdpInUse(h, "dhcp") THEN HandleDhcp(h, expired, "none") ELSE h
  IN IF UdpInUse(d, "dns") THEN CheckEntries(d) ELSE d

\* uip_periodic: a SYN is sent UIP_MAXSYNRTX times, then given up; TCP_TIMEOUT.
SynTimer(h) == IF h.nrtx = UIP_MAXSYNRTX THEN Closed(h)
               ELSE Out([h EXCEPT !.nrtx = @ + 1], "syn", "syn")
TcpPeriodic(h) ==
  CASE h.tcp = "CLOSED" -> {h}
    [] h.tcp = "SYN_SENT" -> {h, SynTimer(h)}
    [] h.tcp = "ESTABLISHED" -> {h, Closed(h)}

MayExpire(h) == IF h.st \in {"DISCOVER_WAIT", "WAITACK"} THEN BOOLEAN ELSE {FALSE}
net_periodic(h) == {UdpPeriodic(t, x) : t \in TcpPeriodic(h), x \in MayExpire(h)}

-----------------------------------------------------------------------------
(* net_tick: ether_tick, one frame from ether_rx, tcp_tick.                 *)

\* The chip's interrupt tells of any change, and is taken for a lost link; the
\* link's return is polled.  The change may come after the test of the pin.
EtherTick(h, sees) ==
  LET d == IF sees /\ h.up THEN [ether_connected(h, FALSE) EXCEPT !.up = FALSE] ELSE h
  IN IF ~d.up /\ lan.phys THEN ether_connected([d EXCEPT !.up = TRUE], TRUE) ELSE d

TcpTick(h) == IF h.tcp = "ESTABLISHED" THEN {h} ELSE net_periodic(h)

\* A DHCP message, which goes to the connection of port 68; an ARP packet
\* that asks for or tells of our address; a DNS answer; the server's SYNACK;
\* its RST or the end of the connection.
DhcpInput(h, msg) ==
  IF UdpInUse(h, "dhcp") THEN {HandleDhcp(h, x, msg) : x \in MayExpire(h)} ELSE {h}
uip_arp_arpin(h, ip, mac) ==
  IF h.st = "COMPLETE" THEN [h EXCEPT !.arp = uip_arp_update(@, h.arptime, ip, mac)] ELSE h
DnsInput(h, id, answer) ==
  LET n == [h EXCEPT !.names = newdata(@, id, answer)]
  IN IF UdpInUse(h, "dns") /\ Awaited(h.names, id)
     THEN Resolved(n) ELSE h
SynAck(h) ==
  [h EXCEPT !.tcp = "ESTABLISHED", !.nrtx = 0, !.connected = TRUE]

Arrives(f) == f.to \in {Nobody, lan.mac}
Request(f) == [kind |-> f.kind, arg |-> IF f.kind = "who" THEN lan.mac ELSE f.arg]
\* A new connection is not answered with what an earlier one was sent.
Forgotten(h) == IF h.tcp = "CLOSED" THEN {[kind |-> "syn", arg |-> "syn"]} ELSE {}

Transmit(h) == IF lan.phys THEN {Request(f) : f \in {g \in h.tx : Arrives(g)}} ELSE {}

\* The end of a step of the hub: what it sent is on the cable.
Breaks(h) == IF hub.online /\ hub.tcp = "ESTABLISHED" /\ h.tcp = "CLOSED" THEN 1 ELSE 0
Ends(h, linkif, n) ==
  /\ hub' = [h EXCEPT !.tx = {}]
  /\ lan' = [lan EXCEPT !.linkif = linkif,
                        !.got = (@ \cup Transmit(h)) \ Forgotten(h)]
  /\ fails' = fails + n /\ fails' <= MaxFails

\* In(h): what the frame received makes of the hub's memory.  A frame that
\* nothing waits for is dropped: NetNothing stands for it.
NetTick(In(_), n) ==
  \E sees \in {FALSE, lan.linkif} :
    \E i \in In(EtherTick(hub, sees)) : \E h \in TcpTick(i) :
      Ends(h, lan.linkif /\ ~sees, n + Breaks(h))

Got(kind, arg) == [kind |-> kind, arg |-> arg] \in lan.got

NetNothing == LET In(h) == {h} IN NetTick(In, 0)
NetDhcp(msg) ==
  /\ Got(IF msg = "offer" THEN "discover" ELSE "request",
         IF msg = "offer" THEN "discover" ELSE "request")
  /\ hub.st # "COMPLETE"
  /\ LET In(h) == DhcpInput(h, msg) IN NetTick(In, 0)
NetDns(id, answer) ==
  /\ Got("query", id) /\ Awaited(hub.names, id)
  /\ LET In(h) == {DnsInput(h, id, answer)}
     IN NetTick(In, 0)
NetArp(ip, mac) ==
  /\ IF ip = Peer THEN mac = PeerMac ELSE mac = lan.mac \/ Got("who", mac)
  /\ hub.online
  /\ LET In(h) == {uip_arp_arpin(h, ip, mac)}
     IN NetTick(In, IF ip = Router /\ mac = lan.mac THEN 0 ELSE 1)
NetSynAck ==
  /\ Got("syn", "syn") /\ hub.tcp = "SYN_SENT"
  /\ LET In(h) == {SynAck(h)} IN NetTick(In, 0)
NetEnd ==
  /\ Got("syn", "syn") /\ hub.tcp # "CLOSED"
  /\ LET In(h) == {Closed(h)} IN NetTick(In, 0)

-----------------------------------------------------------------------------
(* net_1hz and app_1hz; watchdog_reset; power.                              *)

ArpTimer(h) ==
  IF h.arp_timer # 0 THEN [h EXCEPT !.arp_timer = @ - 1]
  ELSE LET now == (h.arptime + 1) % TimeMod
       IN [h EXCEPT !.arp_timer = ARP_TIMEOUT_S, !.arptime = now,
                    !.arp = uip_arp_timer(@, now)]

DhcpTimerWraps(h) == IF h.dhcp_timer = 1 THEN Boot         \* mutant
                     ELSE [h EXCEPT !.dhcp_timer = (@ + 255) % 256]
DhcpTimer(h) ==
  CASE h.dhcp_timer = 0 -> h
    [] h.dhcp_timer = 1 -> Boot          \* watchdog_reset
    [] OTHER -> [h EXCEPT !.dhcp_timer = @ - 1]

Second ==
  \E p \in net_periodic(hub) :
    IF hub.dhcp_timer = 1 THEN Ends(DhcpTimer(p), lan.linkif, 0)
    ELSE Ends(App1Hz(ArpTimer(DhcpTimer(p))), lan.linkif, Breaks(p))

PowerFails ==
  /\ fails < MaxFails /\ fails' = fails + 1
  /\ hub' = Boot /\ UNCHANGED lan

-----------------------------------------------------------------------------
(* The cable and the router.                                                *)

LinkUp == /\ ~lan.phys /\ lan' = [lan EXCEPT !.phys = TRUE, !.linkif = TRUE]
          /\ UNCHANGED <<hub, fails>>
LinkDown == /\ lan.phys /\ lan' = [lan EXCEPT !.phys = FALSE, !.linkif = TRUE]
            /\ fails < MaxFails /\ fails' = fails + 1 /\ UNCHANGED hub
RouterReplaced ==
  /\ \E m \in RouterMacs \ {lan.mac} : lan' = [lan EXCEPT !.mac = m]
  /\ fails < MaxFails /\ fails' = fails + 1 /\ UNCHANGED hub

Next ==
  \/ NetNothing \/ \E msg \in {"offer", "ack"} : NetDhcp(msg)
  \/ \E id \in Ids, answer \in Answers : NetDns(id, answer)
  \/ \E ip \in Addresses, mac \in Macs : NetArp(ip, mac)
  \/ NetSynAck \/ NetEnd \/ Second \/ PowerFails
  \/ LinkUp \/ LinkDown \/ RouterReplaced

Spec == Init /\ [][Next]_vars

-----------------------------------------------------------------------------
(* Safety.                                                                  *)

\* The resolver's connection is never the one DHCP gives up and takes again
\* when the link returns, though dhcpc.c keeps its pointer after it is done.
ConnsApart ==
  hub.rconn # 0 => hub.udp[hub.rconn] = "dns" /\ hub.rconn # hub.dconn

\* A hub whose link is up is online, or the watchdog will restart it: no order
\* of link changes and DHCP messages leaves it up, offline and waiting for ever.
NeverStranded == hub.up /\ ~hub.online => hub.dhcp_timer # 0

\* An entry that nothing has refreshed for UIP_ARP_MAXAGE runs of the timer is
\* gone, but for those refreshed so late that arptime wraps first: they stay.
CaughtByWrap(e) == InUse(e) /\ e.time + UIP_ARP_MAXAGE >= TimeMod
ArpAges ==
  \A i \in Slots : InUse(hub.arp[i]) =>
    hub.arp[i].idle < UIP_ARP_MAXAGE \/ CaughtByWrap(hub.arp[i])

\* HubTcp's view of the network: online once, down until the next start, which
\* alone makes the hub forget that DHCP has given it a resolver.
Status == INSTANCE NetStatus WITH
  net <- IF hub.online THEN "online" ELSE IF hub.rconn # 0 THEN "down" ELSE "boot"
ImplementsNetStatus == Status!NetSpec

-----------------------------------------------------------------------------
(* Liveness.  os_bg runs for ever and the link returns; a request made      *)
(* again and again is answered in time, and uIP's timers run out.           *)

LooksAgain == /\ lan.linkif \/ (lan.phys /\ ~hub.up) \/ \E id \in Ids : hub.names[id].state = "NEW"
              /\ NetNothing /\ ~lan'.linkif
SecondMatters == (hub.dhcp_timer # 0 \/ (hub.online /\ ~hub.connected)) /\ Second
Offered == hub.st = "DISCOVER_WAIT" /\ NetDhcp("offer") /\ hub'.st = "WAITACK"
Acknowledged == hub.st = "WAITACK" /\ NetDhcp("ack") /\ hub'.st = "COMPLETE"
AddressTold == /\ Got("who", lan.mac) /\ ~\E i \in Slots : hub.arp[i].mac = lan.mac
               /\ NetArp(Router, lan.mac)
ToldInTime == hub.nrtx # 0 /\ AddressTold /\ hub'.nrtx \in 1..UIP_MAXSYNRTX - 1
SynRunsOut == hub.tcp = "SYN_SENT" /\ Second /\ hub'.nrtx # hub.nrtx
SynArrives == hub.tcp = "SYN_SENT" /\ ~Got("syn", "syn") /\ (NetNothing \/ Second)
              /\ Got("syn", "syn")'

Fairness ==
  /\ WF_vars(SecondMatters) /\ WF_vars(LooksAgain) /\ WF_vars(LinkUp)
  /\ SF_vars(Offered) /\ SF_vars(Acknowledged)
  /\ SF_vars(AddressTold) /\ SF_vars(ToldInTime)
  /\ \A id \in Ids : SF_vars(NetDns(id, "A"))
  /\ WF_vars(SynRunsOut) /\ SF_vars(SynArrives) /\ SF_vars(NetSynAck)

FairSpec == Spec /\ Fairness

\* When failures end the hub gets to its server and stays there, whatever was
\* in its tables, but for the old router's entry that a wrapped clock keeps.
Reaches ==
  \/ <>[](hub.online /\ hub.connected /\ hub.tcp = "ESTABLISHED")
  \/ <>[](\E i \in Slots : /\ hub.arp[i].ip = Router /\ hub.arp[i].mac # lan.mac
                           /\ CaughtByWrap(hub.arp[i]))

=============================================================================
