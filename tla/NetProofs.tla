------------------------------ MODULE NetProofs ------------------------------
(***************************************************************************)
(* Proofs about HubNet, for any tables, time-outs and number of failures.   *)
(* Every step of the hub is ether_tick, which may take it offline, followed *)
(* by calls that never do; NetOK is what all of them keep of its memory.    *)
(* KeptOK adds the types and the ages of ARP entries: an entry's time and   *)
(* its idle runs make up the clock until the clock's wrap catches it.       *)
(***************************************************************************)
EXTENDS HubNet, FiniteSetTheorems, WellFoundedInduction, TLAPS

\* A set of naturals has a least element, as 0..x grows with x and has no
\* infinitely many subsets one below the other.
LEMMA MinIsLeast ==
  ASSUME NEW S \in SUBSET Nat, S # {}
  PROVE  Min(S) \in S /\ \A y \in S : Min(S) =< y
<1> DEFINE T == {0..x : x \in S}
<1>1. T \subseteq FiniteSubsetsOf(Nat) /\ T # {}
  <2>1. ASSUME NEW x \in S PROVE 0..x \in FiniteSubsetsOf(Nat)
    <3>1. IsFiniteSet(0..x)
      BY FS_Interval
    <3>2. 0..x \in SUBSET Nat
      OBVIOUS
    <3> QED
      BY <3>1, <3>2 DEF FiniteSubsetsOf
  <2> QED
    BY <2>1
<1>2. IsWellFoundedOn(StrictSubsetOrdering(Nat), FiniteSubsetsOf(Nat))
  BY FS_StrictSubsetOrderingWellFounded
<1> HIDE DEF T
<1>3. \E a \in T : \A b \in T : <<b, a>> \notin StrictSubsetOrdering(Nat)
  BY <1>1, <1>2, WFMin
<1>4. PICK x \in S : \A b \in T : <<b, 0..x>> \notin StrictSubsetOrdering(Nat)
  BY <1>3 DEF T
<1>5. ASSUME NEW y \in S PROVE x =< y
  <2>1. 0..y \in T
    BY DEF T
  <2>2. y < x => 0..y \subseteq 0..x /\ x \in 0..x /\ x \notin 0..y
    OBVIOUS
  <2>3. y < x => <<0..y, 0..x>> \in StrictSubsetOrdering(Nat)
    BY <2>2 DEF StrictSubsetOrdering
  <2> QED
    BY <1>4, <2>1, <2>3
<1> QED
  BY <1>5 DEF Min

-----------------------------------------------------------------------------
(* The invariant, of the hub's memory.                                      *)

NetFields == {"up", "online", "dhcp_timer", "arp_timer", "st", "dconn", "udp", "rconn", "names",
              "seqno", "arp", "arptime", "connected", "tcp", "nrtx", "tx"}
IsRecord(h) == DOMAIN h = NetFields /\ h = [f \in DOMAIN h |-> h[f]] /\ h.tcp \in TcpStates
IsNet(h) ==
  /\ IsRecord(h)
  /\ h.up \in BOOLEAN /\ h.online \in BOOLEAN /\ h.dhcp_timer \in Nat
  /\ h.st \in DhcpStates /\ h.dconn \in {0} \cup UdpSlots /\ h.rconn \in {0} \cup UdpSlots
  /\ h.udp \in [UdpSlots -> {"free", "dhcp", "dns"}]

\* ConnsApart and NeverStranded, of h.
Apart(h) == h.rconn # 0 => h.udp[h.rconn] = "dns" /\ h.rconn # h.dconn
Watched(h) == h.up /\ ~h.online => h.dhcp_timer # 0

\* Until DHCP is done there is no resolver, and dhcpc.c's pointer is good.
Unconfigured(h) ==
  h.st # "COMPLETE" =>
    h.rconn = 0 /\ ~h.online /\ (h.dconn # 0 => h.udp[h.dconn] = "dhcp")

NetOK(h) == IsNet(h) /\ Apart(h) /\ Watched(h) /\ Unconfigured(h)

\* What ether_tick makes of h; what everything else does.
Linked(h, g) == NetOK(g) /\ g.st = h.st /\ g.rconn = h.rconn /\ (g.online => h.online)
GoesOn(h, g) ==
  /\ NetOK(g)
  /\ h.st = "COMPLETE" => g.st = "COMPLETE" /\ g.rconn = h.rconn /\ g.online = h.online
  /\ h.st # "COMPLETE" => g.online \/ g.rconn = 0

LEMMA GoesOnTwice ==
  ASSUME NEW h, NEW g, NEW k, GoesOn(h, g), GoesOn(g, k)
  PROVE  GoesOn(h, k)
BY DEF GoesOn, NetOK, Unconfigured

\* Calls that have nothing to do with DHCP.
Same(h, g) ==
  /\ IsRecord(g) /\ g.up = h.up /\ g.online = h.online /\ g.dhcp_timer = h.dhcp_timer
  /\ g.st = h.st /\ g.dconn = h.dconn /\ g.udp = h.udp /\ g.rconn = h.rconn

LEMMA SameGoesOn ==
  ASSUME NEW h, NEW g, NetOK(h), Same(h, g)
  PROVE  GoesOn(h, g)
BY DEF GoesOn, NetOK, IsNet, Apart, Watched, Unconfigured, Same

LEMMA SameTwice ==
  ASSUME NEW h, NEW g, NEW k, Same(h, g), Same(g, k)
  PROVE  Same(h, k)
BY DEF Same

LEMMA TxSame ==
  ASSUME NEW h, IsRecord(h), NEW x
  PROVE  Same(h, h) /\ Same(h, [h EXCEPT !.tx = x])
BY DEF Same, IsRecord, NetFields, TcpStates

-----------------------------------------------------------------------------
(* The resolver, ARP, the connection.                                       *)

LEMMA OutSame ==
  ASSUME NEW h, IsRecord(h), NEW kind, NEW arg
  PROVE  Same(h, Out(h, kind, arg))
BY DEF Out, Same, IsRecord, NetFields, TcpStates

LEMMA ResolvedSame == ASSUME NEW h, IsRecord(h) PROVE Same(h, Resolved(h))
BY DEF Resolved, TcpConnect, Disconnected, Same, IsRecord, NetFields, TcpStates

LEMMA ClosedSame == ASSUME NEW h, IsRecord(h) PROVE Same(h, Closed(h))
BY DEF Closed, Disconnected, Same, IsRecord, NetFields, TcpStates

LEMMA TcpPeriodicSame ==
  ASSUME NEW h, IsRecord(h), NEW g \in TcpPeriodic(h)
  PROVE  Same(h, g)
<1> DEFINE n == [h EXCEPT !.nrtx = @ + 1]
<1>1. Same(h, h)
  BY TxSame
<1>2. Same(h, n) /\ IsRecord(n)
  BY DEF Same, IsRecord, NetFields, TcpStates
<1> HIDE DEF n
<1>3. Same(h, Out(n, "syn", "syn"))
  BY <1>2, OutSame, SameTwice
<1>4. Same(h, Closed(h))
  BY ClosedSame
<1>5. g \in {h, Closed(h), Out(n, "syn", "syn")}
  BY DEF TcpPeriodic, SynTimer, n, IsRecord, TcpStates
<1> QED
  BY <1>1, <1>3, <1>4, <1>5

LEMMA CheckEntriesSame == ASSUME NEW h, IsRecord(h) PROVE Same(h, CheckEntries(h))
<1> DEFINE c == [h EXCEPT !.names = check_entries(@)]
           f == IF GaveUp(h.names) THEN Resolved(c) ELSE c
<1>1. Same(h, c) /\ IsRecord(c)
  BY DEF Same, IsRecord, NetFields, TcpStates
<1> HIDE DEF c
<1>2. Same(h, f) /\ IsRecord(f)
  BY <1>1, ResolvedSame, SameTwice DEF Same
<1> HIDE DEF f
<1>3. CheckEntries(h) \in {f, Out(f, "query", Min(Due(h.names)))}
  BY DEF CheckEntries, f, c
<1>4. Same(h, Out(f, "query", Min(Due(h.names))))
  BY <1>2, OutSame, SameTwice
<1> QED
  BY <1>2, <1>3, <1>4

LEMMA App1HzSame == ASSUME NEW h, IsRecord(h) PROVE Same(h, App1Hz(h))
<1> DEFINE q == [h EXCEPT !.names = resolv_query(@, h.seqno), !.seqno = (@ + 1) % SeqnoMod]
<1>1. Same(h, q) /\ IsRecord(q) /\ Same(h, h)
  BY DEF Same, IsRecord, NetFields, TcpStates
<1> HIDE DEF q
<1>2. Same(h, Resolved(q))
  BY <1>1, ResolvedSame, SameTwice
<1>3. App1Hz(h) \in {h, q, Resolved(q)}
  BY DEF App1Hz, q
<1> QED
  BY <1>1, <1>2, <1>3

LEMMA DnsInputSame ==
  ASSUME NEW h, IsRecord(h), NEW id, NEW answer
  PROVE  Same(h, DnsInput(h, id, answer))
<1> DEFINE n == [h EXCEPT !.names = newdata(@, id, answer)]
<1>1. Same(h, n) /\ IsRecord(n) /\ Same(h, h)
  BY DEF Same, IsRecord, NetFields, TcpStates
<1> HIDE DEF n
<1>2. Same(h, Resolved(n))
  BY <1>1, ResolvedSame, SameTwice
<1>3. DnsInput(h, id, answer) \in {h, Resolved(n)}
  BY DEF DnsInput, n
<1> QED
  BY <1>1, <1>2, <1>3

LEMMA OthersSame ==
  ASSUME NEW h, IsRecord(h)
  PROVE  /\ Same(h, SynAck(h))
         /\ Same(h, ArpTimer(h))
         /\ \A ip, mac : Same(h, uip_arp_arpin(h, ip, mac))
         /\ \A kind : Same(h, Broadcast(h, kind))
<1>1. Same(h, SynAck(h))
  BY DEF SynAck, Same, IsRecord, NetFields, TcpStates
<1>2. Same(h, ArpTimer(h))
  BY DEF ArpTimer, Same, IsRecord, NetFields, TcpStates
<1>3. \A ip, mac : Same(h, uip_arp_arpin(h, ip, mac))
  BY DEF uip_arp_arpin, Same, IsRecord, NetFields, TcpStates
<1>4. \A kind : Same(h, Broadcast(h, kind))
  BY DEF Broadcast, Same, IsRecord, NetFields, TcpStates
<1> QED
  BY <1>1, <1>2, <1>3, <1>4

-----------------------------------------------------------------------------
(* The link and DHCP.                                                       *)

LEMMA UdpNewIsFree ==
  ASSUME NEW udp
  PROVE  LET i == uip_udp_new(udp) IN i = 0 \/ (i \in UdpSlots /\ udp[i] = "free")
<1>1. FreeConns(udp) \in SUBSET Nat
  BY DEF FreeConns, UdpSlots
<1>2. FreeConns(udp) # {} => Min(FreeConns(udp)) \in FreeConns(udp)
  BY <1>1, MinIsLeast
<1> QED
  BY <1>2 DEF uip_udp_new, FreeConns

\* DHCP gives up its connection and takes another, the resolver's staying.
LEMMA DhcpcInitOK ==
  ASSUME NEW h, IsNet(h), Apart(h), Unconfigured(h)
  PROVE  LET g == dhcpc_init(h)
         IN /\ IsNet(g) /\ Apart(g) /\ Unconfigured(g)
            /\ g.st = h.st /\ g.rconn = h.rconn /\ g.online = h.online
            /\ g.up = h.up /\ g.dhcp_timer = h.dhcp_timer
<1> DEFINE u == Removed(h.udp, h.dconn)
           i == uip_udp_new(u)
           t == Taken(u, i, "dhcp")
           g == [h EXCEPT !.udp = t, !.dconn = i]
<1>0. 0 \notin UdpSlots
  BY DEF UdpSlots
<1>1. /\ u \in [UdpSlots -> {"free", "dhcp", "dns"}]
      /\ \A k \in UdpSlots : k # h.dconn => u[k] = h.udp[k]
  BY <1>0 DEF Removed, IsNet
<1> HIDE DEF u
<1>2. i = 0 \/ (i \in UdpSlots /\ u[i] = "free")
  BY UdpNewIsFree
<1> HIDE DEF i
<1>3. /\ t \in [UdpSlots -> {"free", "dhcp", "dns"}]
      /\ i # 0 => t[i] = "dhcp"
      /\ \A k \in UdpSlots : k # i => t[k] = u[k]
  BY <1>0, <1>1, <1>2 DEF Taken
<1> HIDE DEF t
<1>4. /\ IsRecord(g) /\ g.up = h.up /\ g.online = h.online /\ g.dhcp_timer = h.dhcp_timer
      /\ g.st = h.st /\ g.dconn = i /\ g.udp = t /\ g.rconn = h.rconn
  BY DEF IsNet, IsRecord, NetFields, TcpStates
<1>5. dhcpc_init(h) = g
  BY DEF dhcpc_init, u, i, t
<1> HIDE DEF g
<1>6. IsNet(g)
  BY <1>2, <1>3, <1>4 DEF IsNet
<1>7. Apart(g)
  <2> SUFFICES ASSUME h.rconn # 0 PROVE t[h.rconn] = "dns" /\ h.rconn # i
    BY <1>4 DEF Apart
  <2>1. h.rconn \in UdpSlots /\ u[h.rconn] = "dns"
    BY <1>1 DEF Apart, IsNet
  <2> QED
    BY <1>2, <1>3, <2>1
<1>8. Unconfigured(g)
  BY <1>3, <1>4 DEF Unconfigured
<1> QED
  BY <1>4, <1>5, <1>6, <1>7, <1>8

LEMMA EtherConnectedOK ==
  ASSUME NEW h, IsNet(h), Apart(h), Unconfigured(h)
  PROVE  /\ LET g == ether_connected(h, FALSE)
            IN Same([h EXCEPT !.online = FALSE], g) /\ IsRecord([h EXCEPT !.online = FALSE])
         /\ Linked(h, ether_connected(h, TRUE))
<1>1. Same([h EXCEPT !.online = FALSE], ether_connected(h, FALSE))
      /\ IsRecord([h EXCEPT !.online = FALSE])
  BY DEF ether_connected, net_online, Same, IsNet, IsRecord, NetFields, TcpStates
<1>2. CASE h.dhcp_timer # 0
  <2>1. ether_connected(h, TRUE) = h
    BY <1>2 DEF ether_connected
  <2> QED
    BY <1>1, <1>2, <2>1 DEF Linked, NetOK, Watched
<1>3. CASE h.dhcp_timer = 0
  <2> DEFINE w == [h EXCEPT !.dhcp_timer = DHCP_TIMEOUT_S]
  <2>1. IsNet(w) /\ Apart(w) /\ Unconfigured(w) /\ w.dhcp_timer # 0
        /\ w.st = h.st /\ w.rconn = h.rconn /\ w.online = h.online
    BY HubNetAssumption DEF IsNet, IsRecord, NetFields, Apart, Unconfigured
  <2>2. ether_connected(h, TRUE) = dhcpc_init(w)
    BY <1>3 DEF ether_connected
  <2> QED
    BY <1>1, <2>1, <2>2, DhcpcInitOK DEF Linked, NetOK, Watched
<1> QED
  BY <1>1, <1>2, <1>3 DEF IsNet

LEMMA EtherTickOK ==
  ASSUME NEW h, NetOK(h), NEW sees
  PROVE  Linked(h, EtherTick(h, sees))
<1> DEFINE e == ether_connected(h, FALSE)
           d == IF sees /\ h.up THEN [e EXCEPT !.up = FALSE] ELSE h
           r == [d EXCEPT !.up = TRUE]
<1>1. /\ IsRecord(e) /\ e.online = FALSE /\ e.dhcp_timer = h.dhcp_timer /\ e.st = h.st
      /\ e.dconn = h.dconn /\ e.udp = h.udp /\ e.rconn = h.rconn
  BY EtherConnectedOK DEF NetOK, Same, IsNet, IsRecord, NetFields, TcpStates
<1> HIDE DEF e
<1>2. Linked(h, d)
  <2> DEFINE f == [e EXCEPT !.up = FALSE]
  <2>1. /\ IsRecord(f) /\ f.up = FALSE /\ f.online = FALSE /\ f.dhcp_timer = h.dhcp_timer
        /\ f.st = h.st
        /\ f.dconn = h.dconn /\ f.udp = h.udp /\ f.rconn = h.rconn
    BY <1>1 DEF IsRecord, NetFields
  <2> HIDE DEF f
  <2>2. Linked(h, f) /\ Linked(h, h)
    BY <2>1 DEF Linked, NetOK, IsNet, Apart, Watched, Unconfigured
  <2>3. d \in {f, h}
    BY DEF d, f
  <2> QED
    BY <2>2, <2>3
<1> HIDE DEF d
<1>3. IsNet(r) /\ Apart(r) /\ Unconfigured(r) /\ r.st = d.st /\ r.rconn = d.rconn
      /\ r.online = d.online
  BY <1>2 DEF Linked, NetOK, IsNet, IsRecord, NetFields, Apart, Unconfigured
<1> HIDE DEF r
<1>4. Linked(r, ether_connected(r, TRUE))
  BY <1>3, EtherConnectedOK
<1>5. EtherTick(h, sees) \in {d, ether_connected(r, TRUE)}
  BY DEF EtherTick, d, e, r
<1> QED
  BY <1>2, <1>3, <1>4, <1>5 DEF Linked

\* The resolver gets a connection of its own while DHCP still has one.
LEMMA AckedOK ==
  ASSUME NEW h, NetOK(h), h.st = "WAITACK"
  PROVE  GoesOn(h, Acked(h))
<1> DEFINE i == uip_udp_new(h.udp)
           t == Taken(h.udp, i, "dns")
           v == Removed(t, h.dconn)
           w == [h EXCEPT !.st = "COMPLETE"]
           c == [w EXCEPT !.dhcp_timer = 0, !.udp = t, !.rconn = i, !.online = TRUE,
                          !.connected = @ /\ TRUE]
           g == [c EXCEPT !.udp = v]
<1>0. /\ h.rconn = 0 /\ 0 \notin UdpSlots /\ h.udp \in [UdpSlots -> {"free", "dhcp", "dns"}]
      /\ h.dconn \in {0} \cup UdpSlots /\ (h.dconn # 0 => h.udp[h.dconn] = "dhcp")
  BY DEF NetOK, Unconfigured, IsNet, UdpSlots
<1>1. i = 0 \/ (i \in UdpSlots /\ h.udp[i] = "free")
  BY UdpNewIsFree
<1>2. /\ IsRecord(g) /\ g.up = h.up /\ g.online = TRUE /\ g.dhcp_timer = 0
      /\ g.st = "COMPLETE" /\ g.dconn = h.dconn /\ g.udp = v /\ g.rconn = i
  BY DEF NetOK, IsNet, IsRecord, NetFields, TcpStates
<1>2a. Acked(h) = g
  <2>1. w.rconn = 0 /\ w.udp = h.udp /\ Removed(w.udp, 0) = h.udp /\ c.udp = t /\ c.dconn = h.dconn
    BY <1>0 DEF NetOK, IsNet, IsRecord, NetFields, Removed
  <2>2. dhcpc_configured(w) = net_online([w EXCEPT !.dhcp_timer = 0, !.udp = t, !.rconn = i], TRUE)
    BY <2>1 DEF dhcpc_configured
  <2>3. dhcpc_configured(w) = c
    BY <2>2 DEF net_online, NetOK, IsNet, IsRecord, NetFields
  <2> QED
    BY <2>1, <2>3 DEF Acked
<1> HIDE DEF i, g
<1>3. t \in [UdpSlots -> {"free", "dhcp", "dns"}] /\ (i # 0 => t[i] = "dns")
  BY <1>0, <1>1 DEF Taken
<1>4. i # 0 => i # h.dconn
  BY <1>0, <1>1
<1> HIDE DEF t
<1>5. v \in [UdpSlots -> {"free", "dhcp", "dns"}] /\ (i # 0 => v[i] = "dns")
  BY <1>0, <1>1, <1>3, <1>4 DEF Removed
<1> HIDE DEF v
<1>6. IsNet(g)
  <2>1. g.rconn \in {0} \cup UdpSlots /\ g.dconn \in {0} \cup UdpSlots
        /\ g.udp \in [UdpSlots -> {"free", "dhcp", "dns"}]
    BY <1>0, <1>1, <1>2, <1>5
  <2>2. g.up \in BOOLEAN /\ g.online \in BOOLEAN
    BY <1>2, Zenon DEF NetOK, IsNet
  <2>3. g.dhcp_timer \in Nat /\ g.st \in DhcpStates
    BY <1>2 DEF DhcpStates
  <2> QED
    BY <1>2, <2>1, <2>2, <2>3 DEF IsNet
<1>7. Apart(g) /\ Watched(g) /\ Unconfigured(g)
  BY <1>2, <1>4, <1>5 DEF Apart, Watched, Unconfigured
<1> QED
  BY <1>2, <1>2a, <1>6, <1>7 DEF GoesOn, NetOK

\* DHCP's states before the last.
LEMMA StateGoesOn ==
  ASSUME NEW h, NetOK(h), h.st # "COMPLETE", NEW st \in DhcpStates \ {"COMPLETE"}
  PROVE  GoesOn(h, [h EXCEPT !.st = st]) /\ IsRecord([h EXCEPT !.st = st])
<1> DEFINE g == [h EXCEPT !.st = st]
<1>1. /\ IsRecord(g) /\ g.up = h.up /\ g.online = h.online /\ g.dhcp_timer = h.dhcp_timer
      /\ g.st = st /\ g.dconn = h.dconn /\ g.udp = h.udp /\ g.rconn = h.rconn
  BY DEF NetOK, IsNet, IsRecord, NetFields, TcpStates
<1> HIDE DEF g
<1>2. GoesOn(h, g)
  BY <1>1 DEF GoesOn, NetOK, IsNet, Apart, Watched, Unconfigured
<1> QED
  BY <1>1, <1>2 DEF g

LEMMA HandleDhcpOK ==
  ASSUME NEW h, NetOK(h), NEW expired, NEW msg
  PROVE  GoesOn(h, HandleDhcp(h, expired, msg))
<1>1. IsRecord(h) /\ h.st \in DhcpStates
  BY DEF NetOK, IsNet
<1>2. GoesOn(h, h)
  BY <1>1, TxSame, SameGoesOn
<1>3. CASE h.st = "COMPLETE"
  BY <1>2, <1>3 DEF HandleDhcp
<1>4. CASE h.st = "WAITACK" /\ msg = "ack"
  BY <1>4, AckedOK DEF HandleDhcp
<1>5. CASE h.st # "COMPLETE" /\ ~(h.st = "WAITACK" /\ msg = "ack")
  <2>1. \A kind : \A st \in DhcpStates \ {"COMPLETE"} :
          GoesOn(h, Broadcast([h EXCEPT !.st = st], kind)) /\ GoesOn(h, [h EXCEPT !.st = st])
    <3> SUFFICES ASSUME NEW kind, NEW st \in DhcpStates \ {"COMPLETE"}
                 PROVE  GoesOn(h, Broadcast([h EXCEPT !.st = st], kind))
                        /\ GoesOn(h, [h EXCEPT !.st = st])
      OBVIOUS
    <3> DEFINE g == [h EXCEPT !.st = st]
    <3>1. GoesOn(h, g) /\ IsRecord(g)
      BY <1>5, StateGoesOn
    <3> HIDE DEF g
    <3>2. GoesOn(g, Broadcast(g, kind))
      BY <3>1, OthersSame, SameGoesOn DEF GoesOn
    <3>3. GoesOn(h, Broadcast(g, kind))
      BY <3>1, <3>2, GoesOnTwice
    <3> QED
      BY <3>1, <3>3 DEF g
  <2>2. HandleDhcp(h, expired, msg) \in
          {Broadcast([h EXCEPT !.st = "DISCOVER_WAIT"], "discover"),
           Broadcast([h EXCEPT !.st = "WAITACK"], "request"), [h EXCEPT !.st = "DISCOVER"], h}
    BY <1>1, <1>5 DEF HandleDhcp
  <2> QED
    BY <1>2, <2>1, <2>2 DEF DhcpStates
<1> QED
  BY <1>3, <1>4, <1>5

LEMMA UdpPeriodicOK ==
  ASSUME NEW h, NetOK(h), NEW expired
  PROVE  GoesOn(h, UdpPeriodic(h, expired))
<1> DEFINE d == IF UdpInUse(h, "dhcp") THEN HandleDhcp(h, expired, "none") ELSE h
<1>1. GoesOn(h, d)
  BY HandleDhcpOK, TxSame, SameGoesOn DEF NetOK, IsNet
<1> HIDE DEF d
<1>2. NetOK(d) /\ IsRecord(d)
  BY <1>1 DEF GoesOn, NetOK, IsNet
<1>3. GoesOn(d, CheckEntries(d))
  BY <1>2, CheckEntriesSame, SameGoesOn
<1>4. UdpPeriodic(h, expired) \in {d, CheckEntries(d)}
  BY DEF UdpPeriodic, d
<1> QED
  BY <1>1, <1>3, <1>4, GoesOnTwice

LEMMA NetPeriodicOK ==
  ASSUME NEW h, NetOK(h), NEW g \in net_periodic(h)
  PROVE  GoesOn(h, g)
<1>1. PICK t \in TcpPeriodic(h), x \in MayExpire(h) : g = UdpPeriodic(t, x)
  BY DEF net_periodic
<1>2. GoesOn(h, t)
  BY TcpPeriodicSame, SameGoesOn DEF NetOK, IsNet
<1> QED
  BY <1>1, <1>2, UdpPeriodicOK, GoesOnTwice DEF GoesOn

LEMMA TcpTickOK ==
  ASSUME NEW h, NetOK(h), NEW g \in TcpTick(h)
  PROVE  GoesOn(h, g)
BY NetPeriodicOK, TxSame, SameGoesOn DEF TcpTick, NetOK, IsNet

\* A second that does not end in the watchdog.
LEMMA DhcpTimerOK ==
  ASSUME NEW h, NetOK(h), h.dhcp_timer # 1
  PROVE  GoesOn(h, DhcpTimer(h))
<1> DEFINE g == [h EXCEPT !.dhcp_timer = @ - 1]
<1>1. CASE h.dhcp_timer = 0
  BY <1>1, TxSame, SameGoesOn DEF DhcpTimer, NetOK, IsNet
<1>2. CASE h.dhcp_timer # 0
  <2>1. h.dhcp_timer - 1 \in Nat \ {0}
    BY <1>2 DEF NetOK, IsNet
  <2>2. /\ IsRecord(g) /\ g.up = h.up /\ g.online = h.online /\ g.dhcp_timer = h.dhcp_timer - 1
        /\ g.st = h.st /\ g.dconn = h.dconn /\ g.udp = h.udp /\ g.rconn = h.rconn
    BY DEF NetOK, IsNet, IsRecord, NetFields, TcpStates
  <2>3. DhcpTimer(h) = g
    BY <1>2 DEF DhcpTimer
  <2> HIDE DEF g
  <2> QED
    BY <2>1, <2>2, <2>3 DEF GoesOn, NetOK, IsNet, Apart, Watched, Unconfigured
<1> QED
  BY <1>1, <1>2

LEMMA BootOK == NetOK(Boot) /\ Boot.rconn = 0 /\ ~Boot.online
<1>1. /\ IsRecord(Boot) /\ Boot.up = FALSE /\ Boot.online = FALSE /\ Boot.dhcp_timer = 0
      /\ Boot.st = "DISCOVER" /\ Boot.dconn = 0 /\ Boot.rconn = 0
      /\ Boot.udp = [i \in UdpSlots |-> "free"]
  BY DEF Boot, IsRecord, NetFields, TcpStates
<1> QED
  <2>1. Boot.udp \in [UdpSlots -> {"free", "dhcp", "dns"}]
    BY <1>1
  <2>2. Boot.up \in BOOLEAN /\ Boot.online \in BOOLEAN
    BY <1>1, Zenon
  <2>3. Boot.dhcp_timer \in Nat /\ Boot.st \in DhcpStates
    BY <1>1 DEF DhcpStates
  <2>4. IsNet(Boot)
    BY <1>1, <2>1, <2>2, <2>3 DEF IsNet
  <2>5. Apart(Boot) /\ Watched(Boot) /\ Unconfigured(Boot)
    BY <1>1 DEF Apart, Watched, Unconfigured
  <2> QED
    BY <1>1, <2>4, <2>5 DEF NetOK

-----------------------------------------------------------------------------
(* The hub's steps.                                                         *)

\* A restart, or ether_tick and what follows it.
StepOK(h, k) ==
  /\ NetOK(k)
  /\ \/ k.rconn = 0 /\ ~k.online
     \/ \E g : Linked(h, g) /\ GoesOn(g, k)

LEMMA EndsOK ==
  ASSUME NEW g, NEW k, GoesOn(g, k)
  PROVE  GoesOn(g, [k EXCEPT !.tx = {}])
<1>1. NetOK(k) /\ IsRecord(k)
  BY DEF GoesOn, NetOK, IsNet
<1>2. GoesOn(k, [k EXCEPT !.tx = {}])
  BY <1>1, TxSame, SameGoesOn
<1> QED
  BY <1>2, GoesOnTwice

\* net_tick, whatever the frame received makes of the memory.
LEMMA TickOK ==
  ASSUME NetOK(hub), NEW sees, NEW i, GoesOn(EtherTick(hub, sees), i), NEW h \in TcpTick(i),
         hub' = [h EXCEPT !.tx = {}]
  PROVE  StepOK(hub, hub')
<1>1. Linked(hub, EtherTick(hub, sees))
  BY EtherTickOK
<1>2. GoesOn(i, h)
  BY TcpTickOK DEF GoesOn
<1>3. GoesOn(EtherTick(hub, sees), hub')
  BY <1>2, GoesOnTwice, EndsOK
<1> QED
  BY <1>1, <1>3 DEF StepOK, GoesOn

LEMMA SecondOK == NetOK(hub) /\ Second => StepOK(hub, hub')
<1> SUFFICES ASSUME NetOK(hub), Second PROVE StepOK(hub, hub')
  OBVIOUS
<1> DEFINE D(p) == DhcpTimer(p)
           K(p) == IF hub.dhcp_timer = 1 THEN D(p) ELSE App1Hz(ArpTimer(D(p)))
<1>1. PICK p \in net_periodic(hub) : hub' = [K(p) EXCEPT !.tx = {}]
  BY DEF Second, Ends
<1>2. GoesOn(hub, p) /\ NetOK(p)
  BY <1>1, NetPeriodicOK DEF GoesOn
<1>3. NetOK(D(p)) /\ (D(p) = Boot \/ GoesOn(p, D(p)))
  BY <1>2, DhcpTimerOK, BootOK DEF DhcpTimer, GoesOn
<1> HIDE DEF D
<1>4. IsRecord(D(p))
  BY <1>3 DEF NetOK, IsNet
<1>5. Same(D(p), ArpTimer(D(p))) /\ IsRecord(ArpTimer(D(p)))
  BY <1>4, OthersSame DEF Same
<1>6. Same(D(p), App1Hz(ArpTimer(D(p)))) /\ Same(D(p), D(p))
  BY <1>4, <1>5, App1HzSame, SameTwice, TxSame
<1>7. Same(D(p), K(p)) /\ IsRecord(K(p))
  BY <1>6 DEF Same
<1> HIDE DEF K
<1>8. Same(D(p), hub')
  BY <1>1, <1>7, TxSame, SameTwice
<1>9. GoesOn(D(p), hub')
  BY <1>3, <1>8, SameGoesOn
<1>10. CASE D(p) = Boot
  BY <1>8, <1>9, <1>10, BootOK DEF StepOK, Same, GoesOn
<1>11. CASE GoesOn(p, D(p))
  <2>1. GoesOn(hub, hub') /\ Linked(hub, hub)
    BY <1>2, <1>9, <1>11, GoesOnTwice DEF Linked
  <2> QED
    BY <2>1 DEF StepOK, GoesOn
<1> QED
  BY <1>3, <1>10, <1>11

\* The frames that may come in.
LEMMA DhcpInputOK ==
  ASSUME NEW h, NetOK(h), NEW msg, NEW g \in DhcpInput(h, msg)
  PROVE  GoesOn(h, g)
<1>1. GoesOn(h, h)
  BY TxSame, SameGoesOn DEF NetOK, IsNet
<1>2. g = h \/ \E x \in MayExpire(h) : g = HandleDhcp(h, x, msg)
  BY DEF DhcpInput
<1> QED
  BY <1>1, <1>2, HandleDhcpOK

LEMMA NetTickOK ==
  ASSUME NetOK(hub),
         \/ NetNothing \/ \E msg \in {"offer", "ack"} : NetDhcp(msg)
         \/ \E id \in Ids, answer \in Answers : NetDns(id, answer)
         \/ \E ip \in Addresses, mac \in Macs : NetArp(ip, mac)
         \/ NetSynAck \/ NetEnd
  PROVE  StepOK(hub, hub')
<1> DEFINE e(sees) == EtherTick(hub, sees)
<1>0. \A sees : NetOK(e(sees)) /\ IsRecord(e(sees))
  BY EtherTickOK DEF Linked, NetOK, IsNet
<1> DEFINE Ticks == \E sees, i : /\ GoesOn(EtherTick(hub, sees), i)
                                 /\ \E h \in TcpTick(i) : hub' = [h EXCEPT !.tx = {}]
<1>1. Ticks
  <2>1. CASE NetNothing
    <3>1. \E sees : \E h \in TcpTick(e(sees)) : hub' = [h EXCEPT !.tx = {}]
      BY <2>1 DEF NetNothing, NetTick, Ends
    <3> QED
      BY <1>0, <3>1, TxSame, SameGoesOn
  <2>2. ASSUME NEW msg \in {"offer", "ack"}, NetDhcp(msg) PROVE Ticks
    <3>1. \E sees : \E i \in DhcpInput(e(sees), msg) :
            \E h \in TcpTick(i) : hub' = [h EXCEPT !.tx = {}]
      BY <2>2 DEF NetDhcp, NetTick, Ends
    <3> QED
      BY <1>0, <3>1, DhcpInputOK
  <2>3. ASSUME NEW id \in Ids, NEW answer \in Answers, NetDns(id, answer) PROVE Ticks
    <3>1. \E sees : \E h \in TcpTick(DnsInput(e(sees), id, answer)) : hub' = [h EXCEPT !.tx = {}]
      BY <2>3 DEF NetDns, NetTick, Ends
    <3> QED
      BY <1>0, <3>1, DnsInputSame, SameGoesOn
  <2>4. ASSUME NEW ip \in Addresses, NEW mac \in Macs, NetArp(ip, mac) PROVE Ticks
    <3>1. \E sees : \E h \in TcpTick(uip_arp_arpin(e(sees), ip, mac)) : hub' = [h EXCEPT !.tx = {}]
      BY <2>4 DEF NetArp, NetTick, Ends
    <3> QED
      BY <1>0, <3>1, OthersSame, SameGoesOn
  <2>5. CASE NetSynAck
    <3>1. \E sees : \E h \in TcpTick(SynAck(e(sees))) : hub' = [h EXCEPT !.tx = {}]
      BY <2>5 DEF NetSynAck, NetTick, Ends
    <3> QED
      BY <1>0, <3>1, OthersSame, SameGoesOn
  <2>6. CASE NetEnd
    <3>1. \E sees : \E h \in TcpTick(Closed(e(sees))) : hub' = [h EXCEPT !.tx = {}]
      BY <2>6 DEF NetEnd, NetTick, Ends
    <3> QED
      BY <1>0, <3>1, ClosedSame, SameGoesOn
  <2> QED
    BY <2>1, <2>2, <2>3, <2>4, <2>5, <2>6
<1> QED
  BY <1>1, TickOK

LEMMA StepsOK == NetOK(hub) /\ [Next]_vars => hub' = hub \/ StepOK(hub, hub')
<1> SUFFICES ASSUME NetOK(hub), Next PROVE hub' = hub \/ StepOK(hub, hub')
  BY DEF vars
<1>1. CASE PowerFails
  BY <1>1, BootOK DEF PowerFails, StepOK
<1>2. CASE LinkUp \/ LinkDown \/ RouterReplaced
  BY <1>2 DEF LinkUp, LinkDown, RouterReplaced
<1> QED
  BY <1>1, <1>2, NetTickOK, SecondOK DEF Next

\* The hub's memory is as NetOK says, in every state.
THEOREM MemoryHolds == Spec => []NetOK(hub)
<1>1. Init => NetOK(hub)
  BY BootOK DEF Init
<1>2. NetOK(hub) /\ [Next]_vars => NetOK(hub)'
  BY StepsOK DEF StepOK
<1> QED
  BY <1>1, <1>2, PTL DEF Spec

\* net_uip.c and dhcpc.c, for any number of UDP connections: the resolver's is
\* never the one DHCP uses.
THEOREM ConnsAreApart == Spec => []ConnsApart
<1>1. NetOK(hub) => ConnsApart
  BY DEF NetOK, Apart, ConnsApart
<1> QED
  BY <1>1, MemoryHolds, PTL

\* A hub that is up and offline has its watchdog running.
THEOREM NeverLeftStranded == Spec => []NeverStranded
<1>1. NetOK(hub) => NeverStranded
  BY DEF NetOK, Watched, NeverStranded
<1> QED
  BY <1>1, MemoryHolds, PTL

\* What HubTcp takes for granted of the network.
THEOREM StatusIsImplemented == Spec => ImplementsNetStatus
<1> DEFINE net == IF hub.online THEN "online" ELSE IF hub.rconn # 0 THEN "down" ELSE "boot"
<1>1. Init => Status!NetInit
  BY BootOK DEF Init, Status!NetInit
<1>2. NetOK(hub) /\ [Next]_vars => [Status!NetNext]_net
  <2> SUFFICES ASSUME NetOK(hub), [Next]_vars PROVE [Status!NetNext]_net
    OBVIOUS
  <2>1. CASE hub' = hub
    BY <2>1
  <2>2. CASE hub'.rconn = 0 /\ ~hub'.online
    BY <2>2 DEF Status!NetNext, Status!Restarted
  <2>3. CASE \E g : Linked(hub, g) /\ GoesOn(g, hub')
    <3>1. PICK g : Linked(hub, g) /\ GoesOn(g, hub')
      BY <2>3
    <3>2. CASE hub.st = "COMPLETE"
      BY <3>1, <3>2 DEF Linked, GoesOn, Status!NetNext, Status!LinkLost, Status!Restarted
    <3>3. CASE hub.st # "COMPLETE"
      <4>1. ~hub.online /\ hub.rconn = 0 /\ (hub'.online \/ hub'.rconn = 0)
        BY <3>1, <3>3 DEF NetOK, Unconfigured, Linked, GoesOn
      <4> QED
        BY <4>1 DEF Status!NetNext, Status!Configured, Status!Restarted
    <3> QED
      BY <3>2, <3>3
  <2> QED
    BY <2>1, <2>2, <2>3, StepsOK DEF StepOK
<1>3. Spec => Status!NetInit /\ [][Status!NetNext]_net
  BY <1>1, <1>2, MemoryHolds, PTL DEF Spec
<1> QED
  BY <1>3 DEF ImplementsNetStatus, Status!NetSpec

-----------------------------------------------------------------------------
(* Types, and the ages of ARP entries.                                      *)

\* An entry that is not caught by the clock's wrap is as old as it is idle.
ArpOK(table, now) ==
  /\ table \in Tables
  /\ \A i \in Slots : InUse(table[i]) =>
       \/ CaughtByWrap(table[i])
       \/ table[i].time + table[i].idle = now /\ table[i].idle < UIP_ARP_MAXAGE

LEMMA ArpTimerOK ==
  ASSUME NEW table, NEW now \in 0..TimeMod - 1, ArpOK(table, now)
  PROVE  LET next == (now + 1) % TimeMod
         IN next \in 0..TimeMod - 1 /\ ArpOK(uip_arp_timer(table, next), next)
<1> DEFINE next == (now + 1) % TimeMod
           t == uip_arp_timer(table, next)
<1>1. /\ next \in 0..TimeMod - 1 /\ next = IF now + 1 = TimeMod THEN 0 ELSE now + 1
      /\ UIP_ARP_MAXAGE \in 1..TimeMod - 1 /\ TimeMod \in Nat
  BY ArpAssumption
<1> HIDE DEF next
<1>2. ASSUME NEW i \in Slots
      PROVE  LET e == t[i] IN
             /\ e \in [ip : Addresses \cup {Nobody}, mac : Macs \cup {Nobody},
                       time : 0..TimeMod - 1, idle : 0..UIP_ARP_MAXAGE]
             /\ InUse(e) => \/ CaughtByWrap(e)
                            \/ e.time + e.idle = next /\ e.idle < UIP_ARP_MAXAGE
  <2> DEFINE e == table[i]
  <2>1. /\ e \in [ip : Addresses \cup {Nobody}, mac : Macs \cup {Nobody},
                  time : 0..TimeMod - 1, idle : 0..UIP_ARP_MAXAGE]
        /\ InUse(e) => \/ CaughtByWrap(e)
                       \/ e.time + e.idle = now /\ e.idle < UIP_ARP_MAXAGE
    BY DEF ArpOK, Tables
  <2>2. t[i] = IF Expired(e, next) THEN Free ELSE IF InUse(e) THEN Older(e) ELSE e
    BY DEF uip_arp_timer
  <2> HIDE DEF e, t
  <2>3. CASE Expired(e, next)
    BY <1>1, <2>2, <2>3 DEF Free, InUse
  <2>4. CASE ~Expired(e, next) /\ ~InUse(e)
    BY <2>1, <2>2, <2>4
  <2>5. CASE ~Expired(e, next) /\ InUse(e)
    <3>1. t[i] = Older(e)
      BY <2>2, <2>5
    <3>2. /\ Older(e) \in [ip : Addresses \cup {Nobody}, mac : Macs \cup {Nobody},
                           time : 0..TimeMod - 1, idle : 0..UIP_ARP_MAXAGE]
          /\ Older(e).ip = e.ip /\ Older(e).time = e.time
          /\ Older(e).idle = IF e.idle < UIP_ARP_MAXAGE THEN e.idle + 1 ELSE e.idle
      BY <1>1, <2>1 DEF Older
    <3>3. e.time \in 0..TimeMod - 1 /\ e.idle \in 0..UIP_ARP_MAXAGE
      BY <2>1
    <3>4. ~(next - e.time >= UIP_ARP_MAXAGE)
      BY <2>5 DEF Expired, Age
    <3>5. \/ e.time + UIP_ARP_MAXAGE >= TimeMod
          \/ e.time + e.idle = now /\ e.idle < UIP_ARP_MAXAGE
      BY <2>1, <2>5 DEF CaughtByWrap
    <3>6. \/ e.time + UIP_ARP_MAXAGE >= TimeMod
          \/ e.time + e.idle + 1 = next /\ e.idle + 1 < UIP_ARP_MAXAGE
      BY <1>1, <3>3, <3>4, <3>5
    <3> QED
      BY <1>1, <2>5, <3>1, <3>2, <3>3, <3>6 DEF CaughtByWrap, InUse
  <2> QED
    BY <2>3, <2>4, <2>5
<1>3. t \in Tables
  BY <1>2 DEF Tables, uip_arp_timer
<1> QED
  BY <1>1, <1>2, <1>3 DEF ArpOK

LEMMA ArpUpdateOK ==
  ASSUME NEW table, NEW now \in 0..TimeMod - 1, ArpOK(table, now),
         NEW ip \in Addresses, NEW mac \in Macs
  PROVE  ArpOK(uip_arp_update(table, now, ip, mac), now)
<1> DEFINE e == [ip |-> ip, mac |-> mac, time |-> now, idle |-> 0]
<1>1. PICK i : uip_arp_update(table, now, ip, mac) = [table EXCEPT ![i] = e]
  BY DEF uip_arp_update
<1>2. /\ e \in [ip : Addresses \cup {Nobody}, mac : Macs \cup {Nobody},
                time : 0..TimeMod - 1, idle : 0..UIP_ARP_MAXAGE]
      /\ e.time + e.idle = now /\ e.idle < UIP_ARP_MAXAGE
  BY ArpAssumption
<1> HIDE DEF e
<1> QED
  BY <1>1, <1>2 DEF ArpOK, Tables

LEMMA ArpInitOK == ArpOK(uip_arp_init, 0)
BY ArpAssumption DEF ArpOK, uip_arp_init, Free, Tables, InUse


\* An entry that is asking has a time to wait; its retries are not used up.
Entries == [state : NameStates, tmr : 0..MAX_RETRIES, retries : 0..MAX_RETRIES,
            seq : 0..SeqnoMod - 1, mine : BOOLEAN]
EntryOK(e) ==
  /\ e \in Entries
  /\ e.retries < MAX_RETRIES /\ (e.state = "ASKING" => e.tmr # 0)
NamesOK(names) ==
  /\ names = [i \in Ids |-> names[i]]
  /\ \A i \in Ids : EntryOK(names[i])

LEMMA EntryWritten ==
  ASSUME NEW e, EntryOK(e), NEW st \in NameStates, NEW t \in 0..MAX_RETRIES,
         NEW r \in 0..MAX_RETRIES, NEW seq \in 0..SeqnoMod - 1,
         r < MAX_RETRIES, st = "ASKING" => t # 0
  PROVE  /\ EntryOK([e EXCEPT !.state = st, !.tmr = t, !.retries = r])
         /\ EntryOK([e EXCEPT !.state = st, !.retries = r, !.tmr = t])
         /\ EntryOK([e EXCEPT !.state = st, !.seq = seq, !.mine = TRUE, !.tmr = t, !.retries = r])
BY DEF EntryOK, Entries

LEMMA EntryCounts ==
  ASSUME NEW e, EntryOK(e), NEW t \in 1..MAX_RETRIES, NEW r \in 0..MAX_RETRIES,
         r < MAX_RETRIES
  PROVE  EntryOK([e EXCEPT !.retries = r, !.tmr = t]) /\ EntryOK([e EXCEPT !.tmr = t])
<1>1. t \in 0..MAX_RETRIES /\ t # 0
  BY ResolverAssumption
<1>2. EntryOK([e EXCEPT !.retries = r, !.tmr = t])
  BY <1>1 DEF EntryOK, Entries
<1>3. EntryOK([e EXCEPT !.tmr = t])
  BY <1>1 DEF EntryOK, Entries
<1> QED
  BY <1>2, <1>3

LEMMA Zeroes ==
  /\ 0 \in 0..MAX_RETRIES /\ 1 \in 0..MAX_RETRIES /\ 0 < MAX_RETRIES /\ MAX_RETRIES \in Nat
  /\ 0 \in 0..SeqnoMod - 1
  /\ "NEW" \in NameStates /\ "ASKING" \in NameStates /\ "DONE" \in NameStates
  /\ "ERROR" \in NameStates
BY ResolverAssumption DEF NameStates

LEMMA NamesAreTables == ASSUME NEW names, NamesOK(names) PROVE names \in NameTables
BY DEF NamesOK, EntryOK, Entries, NameTables

LEMMA NamesInitOK == NamesOK(resolv_init)
BY ResolverAssumption DEF NamesOK, EntryOK, Entries, resolv_init, NameStates

LEMMA QueryOK ==
  ASSUME NEW names, NamesOK(names), NEW seqno \in 0..SeqnoMod - 1
  PROVE  NamesOK(resolv_query(names, seqno))
<1> DEFINE q(i) == [names[i] EXCEPT !.state = "NEW", !.seq = seqno, !.mine = TRUE,
                                    !.tmr = 0, !.retries = 0]
<1>1. PICK k : resolv_query(names, seqno) = [names EXCEPT ![k] = q(k)]
  BY DEF resolv_query
<1>2. ASSUME NEW i \in Ids PROVE EntryOK(q(i))
  BY <1>2, EntryWritten, Zeroes DEF NamesOK
<1> HIDE DEF q
<1> QED
  BY <1>1, <1>2 DEF NamesOK

LEMMA DueIsId == ASSUME NEW names, Due(names) # {} PROVE Min(Due(names)) \in Due(names) /\ Due(names) \subseteq Ids
                 /\ \A i \in Due(names) : Min(Due(names)) =< i
<1>1. Due(names) \in SUBSET Nat /\ Due(names) \subseteq Ids
  BY ResolverAssumption DEF Due, Ids
<1> QED
  BY <1>1, MinIsLeast

LEMMA CheckEntriesOK ==
  ASSUME NEW names, NamesOK(names)
  PROVE  NamesOK(check_entries(names))
<1>1. ASSUME NEW i \in Ids PROVE EntryOK(check_entries(names)[i])
  <2> DEFINE e == names[i]
  <2>1. EntryOK(e) /\ MAX_RETRIES \in Nat \ {0}
    BY ResolverAssumption DEF NamesOK
  <2>2. /\ e.state \in NameStates /\ e.tmr \in 0..MAX_RETRIES /\ e.retries \in 0..MAX_RETRIES
        /\ e.retries < MAX_RETRIES /\ (e.state = "ASKING" => e.tmr # 0)
    BY <2>1 DEF EntryOK, Entries
  <2>3. check_entries(names)[i] = IF Asks(names, i) THEN Asked(e)
                                  ELSE IF Reached(names, i) THEN Waited(e) ELSE e
    BY DEF check_entries
  <2>3a. i \in Due(names) <=> e.state = "NEW" \/ (RunsOut(e) /\ ~GivenUp(e))
    BY DEF Due
  <2> HIDE DEF e
  <2>4. CASE Asks(names, i)
    <3>1. i \in Due(names)
      BY <2>4, DueIsId DEF Asks
    <3>2. e.state = "NEW" \/ (e.state = "ASKING" /\ e.retries + 1 # MAX_RETRIES)
      BY <2>3a, <3>1 DEF RunsOut, GivenUp
    <3>3. e.state = "NEW" => EntryOK(Asked(e))
      <4>1. EntryOK([e EXCEPT !.state = "ASKING", !.tmr = 1, !.retries = 0])
        <5>1. 1 \in 0..MAX_RETRIES /\ 0 \in 0..MAX_RETRIES /\ 0 < MAX_RETRIES
              /\ "ASKING" \in NameStates /\ 1 # 0
          BY Zeroes
        <5> QED
          BY <2>1, <5>1 DEF EntryOK, Entries
      <4> QED
        BY <4>1 DEF Asked
    <3>4. e.state # "NEW" => e.retries + 1 \in 1..MAX_RETRIES - 1
      BY <2>1, <2>2, <3>2
    <3>5. e.state # "NEW" => EntryOK(Asked(e))
      <4>1. e.state # "NEW" => EntryOK([e EXCEPT !.retries = e.retries + 1, !.tmr = e.retries + 1])
        <5>1. e.state # "NEW" => /\ e.retries + 1 \in 1..MAX_RETRIES /\ e.retries + 1 < MAX_RETRIES
                                 /\ e.retries + 1 \in 0..MAX_RETRIES
          BY <2>1, <3>4
        <5> QED
          BY <2>1, <5>1, EntryCounts
      <4> QED
        BY <4>1 DEF Asked
    <3> QED
      BY <2>3, <2>4, <3>3, <3>5
  <2>5. CASE ~Asks(names, i) /\ Reached(names, i)
    <3>1. CASE GivenUp(e)
      <4>1. EntryOK([e EXCEPT !.state = "ERROR", !.retries = 0, !.tmr = 0])
        BY <2>1, EntryWritten, Zeroes
      <4> QED
        BY <2>3, <2>5, <3>1, <4>1 DEF Waited
    <3>2. CASE e.state = "ASKING" /\ ~GivenUp(e)
      <4>1. i \notin Due(names)
        <5> SUFFICES ASSUME i \in Due(names) PROVE FALSE
          OBVIOUS
        <5>1. i <= Min(Due(names)) /\ Min(Due(names)) <= i /\ i \in Nat /\ Min(Due(names)) \in Nat
          BY <2>5, DueIsId, ResolverAssumption DEF Reached, Ids
        <5> QED
          BY <2>5, <5>1 DEF Asks
      <4>2. e.tmr - 1 \in 1..MAX_RETRIES
        BY <2>2, <3>2, <2>3a, <4>1, Zeroes DEF RunsOut
      <4>3. Waited(e) = [e EXCEPT !.tmr = @ - 1]
        BY <3>2 DEF Waited
      <4>4. EntryOK(Waited(e))
        BY <2>1, <4>2, <4>3, EntryCounts, Zeroes
      <4> QED
        BY <2>3, <2>5, <4>4
    <3>3. CASE ~GivenUp(e) /\ e.state # "ASKING"
      BY <2>1, <2>3, <2>5, <3>3 DEF Waited
    <3> QED
      BY <3>1, <3>2, <3>3
  <2>6. CASE ~Asks(names, i) /\ ~Reached(names, i)
    BY <2>1, <2>3, <2>6
  <2> QED
    BY <2>4, <2>5, <2>6
<1>2. check_entries(names) = [i \in Ids |-> check_entries(names)[i]]
  BY DEF check_entries
<1> QED
  BY <1>1, <1>2 DEF NamesOK

LEMMA AnswerOK ==
  ASSUME NEW names, NamesOK(names), NEW id, NEW answer
  PROVE  NamesOK(newdata(names, id, answer))
<1>1. ASSUME NEW i \in Ids PROVE EntryOK(Answered(names[i], answer))
  BY <1>1, EntryWritten, Zeroes DEF NamesOK, Answered
<1>2. newdata(names, id, answer) \in {names, [names EXCEPT ![id] = Answered(names[id], answer)]}
  BY DEF newdata
<1> QED
  BY <1>1, <1>2 DEF NamesOK


-----------------------------------------------------------------------------
(* Every counter, table and frame is as it should be.                       *)

FrameOK(f) == f.kind = "who" \/ [kind |-> f.kind, arg |-> f.arg] \in Requests

Bounded(h) ==
  /\ IsRecord(h)
  /\ h.dhcp_timer \in 0..DHCP_TIMEOUT_S /\ h.arp_timer \in 0..ARP_TIMEOUT_S
  /\ NamesOK(h.names) /\ h.seqno \in 0..SeqnoMod - 1
  /\ h.arptime \in 0..TimeMod - 1 /\ ArpOK(h.arp, h.arptime)
  /\ h.connected \in BOOLEAN /\ h.nrtx \in 0..UIP_MAXSYNRTX
  /\ \A f \in h.tx : FrameOK(f)

\* Sending, and the fields that any step may write as it likes.
LEMMA SendBounded ==
  ASSUME NEW h, Bounded(h), NEW f, FrameOK(f)
  PROVE  Bounded([h EXCEPT !.tx = @ \cup {f}])
<1> DEFINE g == [h EXCEPT !.tx = @ \cup {f}]
<1>1. /\ IsRecord(g) /\ g.tx = h.tx \cup {f} /\ g.dhcp_timer = h.dhcp_timer
      /\ g.arp_timer = h.arp_timer /\ g.names = h.names /\ g.seqno = h.seqno
      /\ g.arptime = h.arptime /\ g.arp = h.arp /\ g.connected = h.connected /\ g.nrtx = h.nrtx
  BY DEF Bounded, IsRecord, NetFields, TcpStates
<1> HIDE DEF g
<1>2. Bounded(g)
  BY <1>1 DEF Bounded
<1> QED
  BY <1>2 DEF g

LEMMA OutBounded ==
  ASSUME NEW h, Bounded(h), NEW kind, NEW arg, [kind |-> kind, arg |-> arg] \in Requests
  PROVE  Bounded(Out(h, kind, arg))
<1>1. \A to : FrameOK(Frame(kind, arg, to)) /\ FrameOK(Frame("who", Router, to))
  BY DEF FrameOK, Frame
<1> QED
  BY <1>1, SendBounded DEF Out

LEMMA BroadcastBounded ==
  ASSUME NEW h, Bounded(h), NEW kind \in {"discover", "request"}
  PROVE  Bounded(Broadcast(h, kind))
<1>1. FrameOK(Frame(kind, kind, Nobody))
  BY DEF FrameOK, Frame, Requests
<1> QED
  BY <1>1, SendBounded DEF Broadcast

\* A step that leaves tables and frames alone.
Counts(h, g) ==
  /\ IsRecord(g) /\ g.dhcp_timer \in 0..DHCP_TIMEOUT_S /\ g.arp_timer = h.arp_timer
  /\ g.names = h.names /\ g.seqno = h.seqno /\ g.arptime = h.arptime /\ g.arp = h.arp
  /\ g.connected \in BOOLEAN /\ g.nrtx \in 0..UIP_MAXSYNRTX /\ g.tx = h.tx

LEMMA CountsBounded ==
  ASSUME NEW h, Bounded(h), NEW g, Counts(h, g)
  PROVE  Bounded(g)
BY DEF Counts, Bounded

LEMMA ZeroCounts ==
  /\ 0 \in 0..UIP_MAXSYNRTX /\ 0 \in 0..DHCP_TIMEOUT_S /\ DHCP_TIMEOUT_S \in 0..DHCP_TIMEOUT_S
  /\ ARP_TIMEOUT_S \in 0..ARP_TIMEOUT_S
BY HubNetAssumption

LEMMA ClosedBounded == ASSUME NEW h, Bounded(h) PROVE Bounded(Closed(h))
<1>1. Counts(h, Closed(h))
  BY ZeroCounts DEF Closed, Disconnected, Counts, Bounded, IsRecord, NetFields, TcpStates
<1> QED
  BY <1>1, CountsBounded

LEMMA SynAckBounded == ASSUME NEW h, Bounded(h) PROVE Bounded(SynAck(h))
<1>1. Counts(h, SynAck(h))
  BY ZeroCounts DEF SynAck, Counts, Bounded, IsRecord, NetFields, TcpStates
<1> QED
  BY <1>1, CountsBounded

LEMMA ResolvedBounded == ASSUME NEW h, Bounded(h) PROVE Bounded(Resolved(h))
<1>1. Counts(h, [h EXCEPT !.tcp = "SYN_SENT", !.nrtx = 0]) /\ Counts(h, Disconnected(h))
  BY ZeroCounts DEF Disconnected, Counts, Bounded, IsRecord, NetFields, TcpStates
<1>2. Resolved(h) \in {h, [h EXCEPT !.tcp = "SYN_SENT", !.nrtx = 0], Disconnected(h)}
  BY DEF Resolved, TcpConnect
<1> QED
  BY <1>1, <1>2, CountsBounded

LEMMA TcpPeriodicBounded ==
  ASSUME NEW h, Bounded(h), NEW g \in TcpPeriodic(h)
  PROVE  Bounded(g)
<1> DEFINE n == [h EXCEPT !.nrtx = @ + 1]
<1>1. g \in {h, Closed(h)} \/ (h.nrtx # UIP_MAXSYNRTX /\ g = Out(n, "syn", "syn"))
  BY DEF TcpPeriodic, SynTimer, Bounded, IsRecord, TcpStates
<1>2. CASE h.nrtx # UIP_MAXSYNRTX /\ g = Out(n, "syn", "syn")
  <2>1. h.nrtx + 1 \in 0..UIP_MAXSYNRTX
    BY <1>2, HubNetAssumption DEF Bounded
  <2>2. Counts(h, n)
    BY <2>1 DEF Counts, Bounded, IsRecord, NetFields, TcpStates
  <2> HIDE DEF n
  <2> QED
    BY <1>2, <2>2, CountsBounded, OutBounded DEF Requests
<1> QED
  BY <1>1, <1>2, ClosedBounded

\* A step that only writes the resolver's table.
LEMMA NamesBounded ==
  ASSUME NEW h, Bounded(h), NEW names, NamesOK(names), NEW seqno \in 0..SeqnoMod - 1
  PROVE  /\ Bounded([h EXCEPT !.names = names, !.seqno = seqno])
         /\ Bounded([h EXCEPT !.names = names])
<1>1. ASSUME NEW g \in {[h EXCEPT !.names = names, !.seqno = seqno], [h EXCEPT !.names = names]}
      PROVE  Bounded(g)
  <2>1. /\ IsRecord(g) /\ g.tx = h.tx /\ g.dhcp_timer = h.dhcp_timer
        /\ g.arp_timer = h.arp_timer /\ g.names = names /\ g.seqno \in {seqno, h.seqno}
        /\ g.arptime = h.arptime /\ g.arp = h.arp /\ g.connected = h.connected /\ g.nrtx = h.nrtx
    BY DEF Bounded, IsRecord, NetFields, TcpStates
  <2> QED
    BY <2>1 DEF Bounded
<1> QED
  BY <1>1

LEMMA CheckEntriesBounded == ASSUME NEW h, Bounded(h) PROVE Bounded(CheckEntries(h))
<1> DEFINE c == [h EXCEPT !.names = check_entries(@)]
           f == IF GaveUp(h.names) THEN Resolved(c) ELSE c
<1>1. NamesOK(check_entries(h.names))
  BY CheckEntriesOK DEF Bounded
<1>2. Bounded(c)
  BY <1>1, NamesBounded DEF Bounded
<1> HIDE DEF c
<1>3. Bounded(f)
  BY <1>2, ResolvedBounded
<1> HIDE DEF f
<1>4. CheckEntries(h) = IF Due(h.names) = {} THEN f ELSE Out(f, "query", Min(Due(h.names)))
  BY DEF CheckEntries, f, c
<1>5. CASE Due(h.names) # {}
  <2>1. Min(Due(h.names)) \in Ids
    BY <1>5, DueIsId
  <2>2. [kind |-> "query", arg |-> Min(Due(h.names))] \in Requests
    BY <2>1 DEF Requests
  <2> QED
    BY <1>3, <1>4, <1>5, <2>2, OutBounded
<1> QED
  BY <1>3, <1>4, <1>5

LEMMA App1HzBounded == ASSUME NEW h, Bounded(h) PROVE Bounded(App1Hz(h))
<1> DEFINE q == [h EXCEPT !.names = resolv_query(@, h.seqno), !.seqno = (@ + 1) % SeqnoMod]
<1>1. NamesOK(resolv_query(h.names, h.seqno)) /\ (h.seqno + 1) % SeqnoMod \in 0..SeqnoMod - 1
  BY QueryOK, ResolverAssumption DEF Bounded
<1>2. Bounded(q)
  BY <1>1, NamesBounded
<1> HIDE DEF q
<1>3. App1Hz(h) \in {h, q, Resolved(q)}
  BY DEF App1Hz, q
<1> QED
  BY <1>2, <1>3, ResolvedBounded

LEMMA DnsInputBounded ==
  ASSUME NEW h, Bounded(h), NEW id, NEW answer
  PROVE  Bounded(DnsInput(h, id, answer))
<1> DEFINE n == [h EXCEPT !.names = newdata(@, id, answer)]
<1>1. NamesOK(newdata(h.names, id, answer))
  BY AnswerOK DEF Bounded
<1>2. Bounded(n)
  BY <1>1, NamesBounded DEF Bounded
<1> HIDE DEF n
<1>3. DnsInput(h, id, answer) \in {h, Resolved(n)}
  BY DEF DnsInput, n
<1> QED
  BY <1>2, <1>3, ResolvedBounded


LEMMA ArpTimerBounded == ASSUME NEW h, Bounded(h) PROVE Bounded(ArpTimer(h))
<1> DEFINE now == (h.arptime + 1) % TimeMod
           table == uip_arp_timer(h.arp, now)
           g == [h EXCEPT !.arp_timer = ARP_TIMEOUT_S, !.arptime = now, !.arp = table]
           k == [h EXCEPT !.arp_timer = @ - 1]
<1>1. now \in 0..TimeMod - 1 /\ ArpOK(table, now)
  BY ArpTimerOK DEF Bounded
<1>2. ArpTimer(h) = IF h.arp_timer # 0 THEN k ELSE g
  BY DEF ArpTimer
<1> HIDE DEF now, table
<1>3. Bounded(g)
  <2>1. /\ IsRecord(g) /\ g.tx = h.tx /\ g.dhcp_timer = h.dhcp_timer
        /\ g.arp_timer = ARP_TIMEOUT_S /\ g.names = h.names /\ g.seqno = h.seqno
        /\ g.arptime = now /\ g.arp = table /\ g.connected = h.connected /\ g.nrtx = h.nrtx
    BY DEF Bounded, IsRecord, NetFields, TcpStates
  <2> HIDE DEF g
  <2> QED
    BY <1>1, <2>1, ZeroCounts DEF Bounded
<1>4. h.arp_timer # 0 => Bounded(k)
  <2>1. h.arp_timer # 0 => h.arp_timer - 1 \in 0..ARP_TIMEOUT_S
    BY HubNetAssumption DEF Bounded
  <2>2. /\ IsRecord(k) /\ k.tx = h.tx /\ k.dhcp_timer = h.dhcp_timer
        /\ k.arp_timer = h.arp_timer - 1 /\ k.names = h.names /\ k.seqno = h.seqno
        /\ k.arptime = h.arptime /\ k.arp = h.arp /\ k.connected = h.connected /\ k.nrtx = h.nrtx
    BY DEF Bounded, IsRecord, NetFields, TcpStates
  <2> HIDE DEF k
  <2> QED
    BY <2>1, <2>2 DEF Bounded
<1> QED
  BY <1>2, <1>3, <1>4

LEMMA ArpinBounded ==
  ASSUME NEW h, Bounded(h), NEW ip \in Addresses, NEW mac \in Macs
  PROVE  Bounded(uip_arp_arpin(h, ip, mac))
<1> DEFINE table == uip_arp_update(h.arp, h.arptime, ip, mac)
           g == [h EXCEPT !.arp = table]
<1>1. ArpOK(table, h.arptime)
  BY ArpUpdateOK DEF Bounded
<1>2. uip_arp_arpin(h, ip, mac) \in {h, g}
  BY DEF uip_arp_arpin
<1> HIDE DEF table
<1>3. /\ IsRecord(g) /\ g.tx = h.tx /\ g.dhcp_timer = h.dhcp_timer
      /\ g.arp_timer = h.arp_timer /\ g.names = h.names /\ g.seqno = h.seqno
      /\ g.arptime = h.arptime /\ g.arp = table /\ g.connected = h.connected /\ g.nrtx = h.nrtx
  BY DEF Bounded, IsRecord, NetFields, TcpStates
<1> HIDE DEF g
<1>4. Bounded(g)
  BY <1>1, <1>3 DEF Bounded
<1> QED
  BY <1>2, <1>4

\* The link and DHCP.
LEMMA NetOnlineCounts ==
  ASSUME NEW h, Bounded(h), NEW c \in BOOLEAN
  PROVE  Counts(h, net_online(h, c))
<1>1. (h.connected /\ c) \in BOOLEAN
  OBVIOUS
<1> QED
  BY <1>1 DEF net_online, Counts, Bounded, IsRecord, NetFields, TcpStates

LEMMA DhcpcInitCounts ==
  ASSUME NEW h, Bounded(h), NEW udp, NEW dconn, NEW st
  PROVE  /\ Counts(h, [h EXCEPT !.udp = udp, !.dconn = dconn]) /\ Counts(h, [h EXCEPT !.udp = udp])
         /\ Counts(h, [h EXCEPT !.dhcp_timer = DHCP_TIMEOUT_S]) /\ Counts(h, [h EXCEPT !.st = st])
         /\ Counts(h, [h EXCEPT !.up = TRUE]) /\ Counts(h, [h EXCEPT !.up = FALSE])
         /\ Counts(h, [h EXCEPT !.dhcp_timer = 0, !.udp = udp, !.rconn = dconn])
BY ZeroCounts DEF Counts, Bounded, IsRecord, NetFields, TcpStates

LEMMA EtherConnectedBounded ==
  ASSUME NEW h, Bounded(h), NEW c \in BOOLEAN
  PROVE  Bounded(ether_connected(h, c))
<1> DEFINE w == [h EXCEPT !.dhcp_timer = DHCP_TIMEOUT_S]
<1>1. Bounded(w)
  BY DhcpcInitCounts, CountsBounded
<1> HIDE DEF w
<1>2. Bounded(dhcpc_init(w))
  <2>1. \E udp, i : dhcpc_init(w) = [w EXCEPT !.udp = udp, !.dconn = i]
    BY DEF dhcpc_init
  <2> QED
    BY <1>1, <2>1, DhcpcInitCounts, CountsBounded
<1>3. Bounded(net_online(h, FALSE))
  BY NetOnlineCounts, CountsBounded
<1>4. ether_connected(h, c) \in {net_online(h, FALSE), h, dhcpc_init(w)}
  BY DEF ether_connected, w
<1> QED
  BY <1>2, <1>3, <1>4

LEMMA EtherTickBounded ==
  ASSUME NEW h, Bounded(h), NEW sees
  PROVE  Bounded(EtherTick(h, sees))
<1> DEFINE e == ether_connected(h, FALSE)
           d == IF sees /\ h.up THEN [e EXCEPT !.up = FALSE] ELSE h
           r == [d EXCEPT !.up = TRUE]
<1>1. Bounded(e)
  BY EtherConnectedBounded
<1>2. Bounded([e EXCEPT !.up = FALSE])
  BY <1>1, DhcpcInitCounts, CountsBounded
<1>3. Bounded(d)
  BY <1>2
<1>4. EtherTick(h, sees) \in {d, ether_connected(r, TRUE)}
  BY DEF EtherTick
<1> HIDE DEF d
<1>5. Bounded(r)
  BY <1>3, DhcpcInitCounts, CountsBounded
<1> HIDE DEF r
<1>6. Bounded(ether_connected(r, TRUE))
  BY <1>5, EtherConnectedBounded
<1> QED
  BY <1>3, <1>4, <1>6

LEMMA AckedBounded == ASSUME NEW h, Bounded(h) PROVE Bounded(Acked(h))
<1> DEFINE w == [h EXCEPT !.st = "COMPLETE"]
<1>1. Bounded(w)
  BY DhcpcInitCounts, CountsBounded
<1> HIDE DEF w
<1>2. Bounded(dhcpc_configured(w))
  <2>1. PICK udp, i : dhcpc_configured(w)
                        = net_online([w EXCEPT !.dhcp_timer = 0, !.udp = udp, !.rconn = i], TRUE)
    BY DEF dhcpc_configured
  <2> DEFINE v == [w EXCEPT !.dhcp_timer = 0, !.udp = udp, !.rconn = i]
  <2>2. Bounded(v)
    BY <1>1, DhcpcInitCounts, CountsBounded
  <2> HIDE DEF v
  <2>3. Bounded(net_online(v, TRUE))
    BY <2>2, NetOnlineCounts, CountsBounded
  <2> QED
    BY <2>1, <2>3 DEF v
<1>3. \E udp : Acked(h) = [dhcpc_configured(w) EXCEPT !.udp = udp]
  BY DEF Acked, w
<1> QED
  BY <1>2, <1>3, DhcpcInitCounts, CountsBounded

LEMMA HandleDhcpBounded ==
  ASSUME NEW h, Bounded(h), h.st \in DhcpStates, NEW expired, NEW msg
  PROVE  Bounded(HandleDhcp(h, expired, msg))
<1>1. \A st : Bounded([h EXCEPT !.st = st])
  BY DhcpcInitCounts, CountsBounded
<1>2. \A st : \A kind \in {"discover", "request"} : Bounded(Broadcast([h EXCEPT !.st = st], kind))
  BY <1>1, BroadcastBounded
<1>3. HandleDhcp(h, expired, msg) \in
        {Broadcast([h EXCEPT !.st = "DISCOVER_WAIT"], "discover"),
         Broadcast([h EXCEPT !.st = "WAITACK"], "request"), [h EXCEPT !.st = "DISCOVER"], h, Acked(h)}
  BY DEF HandleDhcp, DhcpStates
<1> QED
  BY <1>1, <1>2, <1>3, AckedBounded


LEMMA UdpPeriodicBounded ==
  ASSUME NEW h, Bounded(h), h.st \in DhcpStates, NEW expired
  PROVE  Bounded(UdpPeriodic(h, expired))
<1> DEFINE d == IF UdpInUse(h, "dhcp") THEN HandleDhcp(h, expired, "none") ELSE h
<1>1. Bounded(d)
  BY HandleDhcpBounded
<1>2. UdpPeriodic(h, expired) \in {d, CheckEntries(d)}
  BY DEF UdpPeriodic
<1> HIDE DEF d
<1> QED
  BY <1>1, <1>2, CheckEntriesBounded

LEMMA NetPeriodicBounded ==
  ASSUME NEW h, Bounded(h), NetOK(h), NEW g \in net_periodic(h)
  PROVE  Bounded(g)
<1>1. PICK t \in TcpPeriodic(h), x \in MayExpire(h) : g = UdpPeriodic(t, x)
  BY DEF net_periodic
<1>2. Same(h, t)
  BY <1>1, TcpPeriodicSame DEF NetOK, IsNet
<1>3. t.st \in DhcpStates
  BY <1>2 DEF Same, NetOK, IsNet
<1> QED
  BY <1>1, <1>3, TcpPeriodicBounded, UdpPeriodicBounded

LEMMA TcpTickBounded ==
  ASSUME NEW h, Bounded(h), NetOK(h), NEW g \in TcpTick(h)
  PROVE  Bounded(g)
BY NetPeriodicBounded DEF TcpTick

LEMMA DhcpInputBounded ==
  ASSUME NEW h, Bounded(h), NetOK(h), NEW msg, NEW g \in DhcpInput(h, msg)
  PROVE  Bounded(g)
<1>1. g = h \/ \E x \in MayExpire(h) : g = HandleDhcp(h, x, msg)
  BY DEF DhcpInput
<1> QED
  BY <1>1, HandleDhcpBounded DEF NetOK, IsNet

LEMMA BootBounded == Bounded(Boot) /\ Boot.tx = {}
<1>1. /\ IsRecord(Boot) /\ Boot.dhcp_timer = 0 /\ Boot.arp_timer = ARP_TIMEOUT_S
      /\ Boot.names = resolv_init /\ Boot.seqno = 0 /\ Boot.arp = uip_arp_init /\ Boot.arptime = 0
      /\ Boot.connected = FALSE /\ Boot.nrtx = 0 /\ Boot.tx = {}
  BY DEF Boot, IsRecord, NetFields, TcpStates
<1>2. 0 \in 0..TimeMod - 1 /\ 0 \in 0..SeqnoMod - 1
  BY ArpAssumption, ResolverAssumption
<1>3. Boot.connected \in BOOLEAN
  BY <1>1
<1>4. NamesOK(Boot.names) /\ ArpOK(Boot.arp, Boot.arptime)
  BY <1>1, NamesInitOK, ArpInitOK
<1>5. /\ Boot.dhcp_timer \in 0..DHCP_TIMEOUT_S /\ Boot.arp_timer \in 0..ARP_TIMEOUT_S
      /\ Boot.seqno \in 0..SeqnoMod - 1 /\ Boot.arptime \in 0..TimeMod - 1
      /\ Boot.nrtx \in 0..UIP_MAXSYNRTX
  BY <1>1, <1>2, ZeroCounts
<1>6. IsRecord(Boot) /\ Boot.tx = {}
  BY <1>1
<1> QED
  BY <1>3, <1>4, <1>5, <1>6 DEF Bounded

LEMMA DhcpTimerBounded == ASSUME NEW h, Bounded(h) PROVE Bounded(DhcpTimer(h))
<1> DEFINE g == [h EXCEPT !.dhcp_timer = @ - 1]
<1>1. CASE h.dhcp_timer \in {0, 1}
  BY <1>1, BootBounded DEF DhcpTimer
<1>2. CASE h.dhcp_timer \notin {0, 1}
  <2>1. h.dhcp_timer - 1 \in 0..DHCP_TIMEOUT_S
    BY <1>2, HubNetAssumption DEF Bounded
  <2>2. Counts(h, g)
    BY <2>1 DEF Counts, Bounded, IsRecord, NetFields, TcpStates
  <2>3. DhcpTimer(h) = g
    BY <1>2 DEF DhcpTimer
  <2> QED
    BY <2>2, <2>3, CountsBounded
<1> QED
  BY <1>1, <1>2

-----------------------------------------------------------------------------
(* The hub's memory between its steps, and the LAN.                         *)

LanTypeOK == lan \in [phys : BOOLEAN, linkif : BOOLEAN, mac : RouterMacs, got : SUBSET Requests]
KeptOK == NetOK(hub) /\ Bounded(hub) /\ hub.tx = {} /\ LanTypeOK /\ fails \in 0..MaxFails

LEMMA KeptIsTyped == KeptOK => TypeOK
<1> SUFFICES ASSUME KeptOK PROVE TypeOK
  OBVIOUS
<1>1. /\ hub = [f \in NetFields |-> hub[f]] /\ DOMAIN hub = NetFields
  BY DEF KeptOK, Bounded, IsRecord
<1>2. hub = [up |-> hub.up, online |-> hub.online, dhcp_timer |-> hub.dhcp_timer,
             arp_timer |-> hub.arp_timer, st |-> hub.st, dconn |-> hub.dconn, udp |-> hub.udp,
             rconn |-> hub.rconn, names |-> hub.names, seqno |-> hub.seqno, arp |-> hub.arp,
             arptime |-> hub.arptime, connected |-> hub.connected, tcp |-> hub.tcp,
             nrtx |-> hub.nrtx, tx |-> hub.tx]
  BY <1>1 DEF NetFields
<1>3. /\ hub.up \in BOOLEAN /\ hub.online \in BOOLEAN /\ hub.connected \in BOOLEAN
      /\ hub.st \in DhcpStates /\ hub.dconn \in {0} \cup UdpSlots
      /\ hub.udp \in [UdpSlots -> {"free", "dhcp", "dns"}] /\ hub.rconn \in {0} \cup UdpSlots
      /\ hub.tcp \in TcpStates
  BY DEF KeptOK, NetOK, IsNet, Bounded, IsRecord
<1>4. /\ hub.dhcp_timer \in 0..DHCP_TIMEOUT_S /\ hub.arp_timer \in 0..ARP_TIMEOUT_S
      /\ hub.seqno \in 0..SeqnoMod - 1 /\ hub.arptime \in 0..TimeMod - 1
      /\ hub.nrtx \in 0..UIP_MAXSYNRTX /\ hub.tx \in {{}}
  BY DEF KeptOK, Bounded
<1>5. hub.names \in NameTables /\ hub.arp \in Tables
  BY NamesAreTables DEF KeptOK, Bounded, ArpOK
<1> HIDE DEF KeptOK
<1>6. hub \in [up : BOOLEAN, online : BOOLEAN, dhcp_timer : 0..DHCP_TIMEOUT_S,
              arp_timer : 0..ARP_TIMEOUT_S, st : DhcpStates, dconn : {0} \cup UdpSlots,
              udp : [UdpSlots -> {"free", "dhcp", "dns"}], rconn : {0} \cup UdpSlots,
              names : NameTables, seqno : 0..SeqnoMod - 1,
              arp : Tables, arptime : 0..TimeMod - 1,
              connected : BOOLEAN, tcp : TcpStates,
              nrtx : 0..UIP_MAXSYNRTX, tx : {{}}]
  BY <1>2, <1>3, <1>4, <1>5
<1> QED
  BY <1>6 DEF TypeOK, KeptOK, LanTypeOK


\* The end of a step of the hub.
LEMMA EndsKept ==
  ASSUME LanTypeOK, fails \in Nat, NEW h, Bounded(h), NEW linkif \in BOOLEAN, NEW n \in Nat,
         Ends(h, linkif, n)
  PROVE  Bounded(hub') /\ hub'.tx = {} /\ LanTypeOK' /\ fails' \in 0..MaxFails
<1> DEFINE k == [h EXCEPT !.tx = {}]
<1>1. /\ IsRecord(k) /\ k.tx = {} /\ k.dhcp_timer = h.dhcp_timer
      /\ k.arp_timer = h.arp_timer /\ k.names = h.names /\ k.seqno = h.seqno
      /\ k.arptime = h.arptime /\ k.arp = h.arp /\ k.connected = h.connected /\ k.nrtx = h.nrtx
  BY DEF Bounded, IsRecord, NetFields, TcpStates
<1>2. hub' = k
  BY DEF Ends
<1> HIDE DEF k
<1>3. Bounded(k)
  BY <1>1 DEF Bounded
<1>4. Transmit(h) \subseteq Requests
  <2>1. ASSUME NEW f \in h.tx PROVE Request(f) \in Requests
    <3>1. FrameOK(f)
      BY DEF Bounded
    <3>2. CASE f.kind = "who"
      BY <3>2 DEF Request, Requests, LanTypeOK
    <3>3. CASE f.kind # "who"
      BY <3>1, <3>3 DEF Request, FrameOK
    <3> QED
      BY <3>2, <3>3
  <2> QED
    BY <2>1 DEF Transmit
<1>5. LanTypeOK'
  <2> DEFINE got == (lan.got \cup Transmit(h)) \ Forgotten(h)
  <2>1. got \in SUBSET Requests
    BY <1>4 DEF LanTypeOK
  <2>2. lan' = [lan EXCEPT !.linkif = linkif, !.got = got]
    BY DEF Ends
  <2> HIDE DEF got
  <2> QED
    BY <2>1, <2>2 DEF LanTypeOK
<1>6. fails' \in 0..MaxFails
  BY HubNetAssumption DEF Ends
<1> QED
  BY <1>1, <1>2, <1>3, <1>5, <1>6

LEMMA BreaksIsNat == ASSUME NEW h PROVE Breaks(h) \in {0, 1}
BY DEF Breaks

\* net_tick, whatever the frame received makes of the memory.
LEMMA TickKept ==
  ASSUME KeptOK, NEW sees, NEW i, GoesOn(EtherTick(hub, sees), i), Bounded(i),
         NEW h \in TcpTick(i), NEW linkif \in BOOLEAN, NEW n \in {0, 1},
         Ends(h, linkif, n + Breaks(h))
  PROVE  Bounded(hub') /\ hub'.tx = {} /\ LanTypeOK' /\ fails' \in 0..MaxFails
<1>1. NetOK(i)
  BY DEF GoesOn
<1>2. Bounded(h)
  BY <1>1, TcpTickBounded
<1>3. n + Breaks(h) \in Nat
  BY BreaksIsNat
<1>4. fails \in Nat /\ LanTypeOK
  BY DEF KeptOK
<1> QED
  BY <1>2, <1>3, <1>4, EndsKept

LEMMA NetTickKept ==
  ASSUME KeptOK,
         \/ NetNothing \/ \E msg \in {"offer", "ack"} : NetDhcp(msg)
         \/ \E id \in Ids, answer \in Answers : NetDns(id, answer)
         \/ \E ip \in Addresses, mac \in Macs : NetArp(ip, mac)
         \/ NetSynAck \/ NetEnd
  PROVE  Bounded(hub') /\ hub'.tx = {} /\ LanTypeOK' /\ fails' \in 0..MaxFails
<1> DEFINE e(sees) == EtherTick(hub, sees)
           Ticks == \E sees, i : /\ GoesOn(EtherTick(hub, sees), i) /\ Bounded(i)
                                 /\ \E n \in {0, 1}, linkif \in BOOLEAN : \E h \in TcpTick(i) :
                                      Ends(h, linkif, n + Breaks(h))
<1>0. \A sees : NetOK(e(sees)) /\ IsRecord(e(sees)) /\ Bounded(e(sees))
  BY EtherTickOK, EtherTickBounded DEF Linked, NetOK, IsNet, KeptOK
<1>0a. \A sees : (lan.linkif /\ ~sees) \in BOOLEAN
  OBVIOUS
<1>1. Ticks
  <2>1. CASE NetNothing
    <3>1. \E sees : \E h \in TcpTick(e(sees)) : Ends(h, lan.linkif /\ ~sees, 0 + Breaks(h))
      BY <2>1 DEF NetNothing, NetTick
    <3> QED
      BY <1>0, <1>0a, <3>1, TxSame, SameGoesOn
  <2>2. ASSUME NEW msg \in {"offer", "ack"}, NetDhcp(msg) PROVE Ticks
    <3>1. \E sees : \E i \in DhcpInput(e(sees), msg) :
            \E h \in TcpTick(i) : Ends(h, lan.linkif /\ ~sees, 0 + Breaks(h))
      BY <2>2 DEF NetDhcp, NetTick
    <3> QED
      BY <1>0, <1>0a, <3>1, DhcpInputOK, DhcpInputBounded
  <2>3. ASSUME NEW id \in Ids, NEW answer \in Answers, NetDns(id, answer) PROVE Ticks
    <3>1. \E sees : \E h \in TcpTick(DnsInput(e(sees), id, answer)) :
            Ends(h, lan.linkif /\ ~sees, 0 + Breaks(h))
      BY <2>3 DEF NetDns, NetTick
    <3> QED
      BY <1>0, <1>0a, <3>1, DnsInputSame, SameGoesOn, DnsInputBounded
  <2>4. ASSUME NEW ip \in Addresses, NEW mac \in Macs, NetArp(ip, mac) PROVE Ticks
    <3>1. \E sees : \E n \in {0, 1} : \E h \in TcpTick(uip_arp_arpin(e(sees), ip, mac)) :
            Ends(h, lan.linkif /\ ~sees, n + Breaks(h))
      BY <2>4 DEF NetArp, NetTick
    <3> QED
      BY <1>0, <1>0a, <3>1, OthersSame, SameGoesOn, ArpinBounded
  <2>5. CASE NetSynAck
    <3>1. \E sees : \E h \in TcpTick(SynAck(e(sees))) : Ends(h, lan.linkif /\ ~sees, 0 + Breaks(h))
      BY <2>5 DEF NetSynAck, NetTick
    <3> QED
      BY <1>0, <1>0a, <3>1, OthersSame, SameGoesOn, SynAckBounded
  <2>6. CASE NetEnd
    <3>1. \E sees : \E h \in TcpTick(Closed(e(sees))) : Ends(h, lan.linkif /\ ~sees, 0 + Breaks(h))
      BY <2>6 DEF NetEnd, NetTick
    <3> QED
      BY <1>0, <1>0a, <3>1, ClosedSame, SameGoesOn, ClosedBounded
  <2> QED
    BY <2>1, <2>2, <2>3, <2>4, <2>5, <2>6
<1> QED
  BY <1>1, TickKept

LEMMA SecondKept ==
  ASSUME KeptOK, Second
  PROVE  Bounded(hub') /\ hub'.tx = {} /\ LanTypeOK' /\ fails' \in 0..MaxFails
<1> DEFINE D(p) == DhcpTimer(p)
           K(p) == IF hub.dhcp_timer = 1 THEN D(p) ELSE App1Hz(ArpTimer(D(p)))
           B(p) == IF hub.dhcp_timer = 1 THEN 0 ELSE Breaks(p)
<1>1. PICK p \in net_periodic(hub) : Ends(K(p), lan.linkif, B(p))
  BY DEF Second
<1>2. Bounded(p)
  BY <1>1, NetPeriodicBounded DEF KeptOK
<1>3. Bounded(K(p))
  BY <1>2, DhcpTimerBounded, ArpTimerBounded, App1HzBounded
<1>4. B(p) \in Nat
  BY BreaksIsNat
<1> HIDE DEF K, B
<1>5. fails \in Nat /\ LanTypeOK /\ lan.linkif \in BOOLEAN
  BY DEF KeptOK, LanTypeOK
<1> QED
  BY <1>1, <1>3, <1>4, <1>5, EndsKept

LEMMA KeptHolds == Spec => []KeptOK
<1>1. Init => KeptOK
  <2> SUFFICES ASSUME Init PROVE KeptOK
    OBVIOUS
  <2>1. LanTypeOK /\ fails \in 0..MaxFails
    BY HubNetAssumption DEF Init, LanTypeOK
  <2> QED
    BY <2>1, BootOK, BootBounded DEF Init, KeptOK
<1>2. KeptOK /\ [Next]_vars => KeptOK'
  <2> SUFFICES ASSUME KeptOK, [Next]_vars PROVE KeptOK'
    OBVIOUS
  <2>1. NetOK(hub')
    BY StepsOK DEF StepOK, KeptOK
  <2>2. CASE UNCHANGED vars
    BY <2>2 DEF KeptOK, LanTypeOK, vars
  <2>3. CASE PowerFails
    BY <2>1, <2>3, BootBounded, HubNetAssumption DEF PowerFails, KeptOK, LanTypeOK
  <2>4. CASE LinkUp \/ LinkDown \/ RouterReplaced
    <3>1. hub' = hub /\ fails' \in 0..MaxFails
      BY <2>4, HubNetAssumption DEF LinkUp, LinkDown, RouterReplaced, KeptOK
    <3>2. LanTypeOK'
      BY <2>4 DEF LinkUp, LinkDown, RouterReplaced, KeptOK, LanTypeOK
    <3> QED
      BY <3>1, <3>2 DEF KeptOK
  <2>5. CASE Second
    BY <2>1, <2>5, SecondKept DEF KeptOK
  <2> QED
    BY <2>1, <2>2, <2>3, <2>4, <2>5, NetTickKept DEF Next, KeptOK
<1> QED
  BY <1>1, <1>2, PTL DEF Spec

\* Every timer, index and table of the hub's network stays within its type, and
\* nothing is asked of the LAN but what it can answer.
THEOREM NetTypeCorrect == Spec => []TypeOK
BY KeptHolds, KeptIsTyped, PTL

\* uip_arp_timer, for every size of table, maximum age and width of its clock:
\* only an entry that the clock's wrap has caught outlives the maximum age.
THEOREM EntriesAge == Spec => []ArpAges
<1>1. KeptOK => ArpAges
  BY DEF KeptOK, Bounded, ArpOK, ArpAges
<1> QED
  BY <1>1, KeptHolds, PTL
=============================================================================
