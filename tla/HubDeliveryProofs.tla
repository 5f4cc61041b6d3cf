-------------------------- MODULE HubDeliveryProofs --------------------------
(***************************************************************************)
(* What becomes of a device's packet on the hub, for any number of packets, *)
(* size of the ring and number of failures: the server is asked in order,   *)
(* and, if its window admits whole requests, nothing is lost.  The argument *)
(* for order: a new request goes out only after all that was ever sent, as  *)
(* the ring, tcp_txbuf and the segments sent are in one order.  The same    *)
(* order bounds sequence numbers and replies, for types; and line.c's buffer *)
(* holds what came of the reply it is in, for the lines given to line_rx.    *)
(***************************************************************************)
EXTENDS HubProofs

(* The ring's steps, packet by packet.                                      *)

LEMMA OldestIsFirst == RingTypeOK /\ ~CMDPKT_ISEMPTY => Oldest = Held[1] /\ 1 \in DOMAIN Held
<1> SUFFICES ASSUME RingTypeOK, ~CMDPKT_ISEMPTY PROVE Oldest = Held[1] /\ 1 \in DOMAIN Held
  OBVIOUS
<1>1. HeldFacts /\ Count # 0
  BY HeldIsSeq DEF HeldFacts
<1>2. Slot(1) = cmdpkt_rd
  BY RingAssumption DEF Slot, RingTypeOK, Indices
<1> QED
  BY <1>1, <1>2 DEF HeldFacts, Oldest

LEMMA TakeFacts ==
  ASSUME RingTypeOK, Take, RingTypeOK', HeldFacts, HeldFacts'
  PROVE  /\ Held' \in Seq(Entries) /\ Len(Held') = Len(Held) - 1
         /\ \A i \in DOMAIN Held' : i \in DOMAIN Held /\ i + 1 \in DOMAIN Held /\ Held'[i] = Held[i + 1]
         /\ Range(Held) \subseteq {Oldest} \cup Range(Held')
<1>1. Held # <<>> /\ Held' = Tail(Held) /\ ~CMDPKT_ISEMPTY
  BY TakeIsTake DEF Take
<1>2. /\ Held \in Seq(Entries) /\ Len(Held') = Len(Held) - 1 /\ Held' \in Seq(Entries)
      /\ \A i \in 1 .. Len(Held) - 1 : Held'[i] = Held[i + 1]
  BY <1>1, HeadTailProperties DEF HeldFacts
<1>3. Len(Held) \in Nat /\ DOMAIN Held = 1 .. Len(Held) /\ DOMAIN Held' = 1 .. Len(Held) - 1
  BY <1>2
<1>4. ASSUME NEW j \in DOMAIN Held PROVE Held[j] \in {Oldest} \cup Range(Held')
  <2>1. CASE j = 1
    BY <2>1, <1>1, OldestIsFirst
  <2>2. CASE j # 1
    <3>1. j - 1 \in DOMAIN Held' /\ Held'[j - 1] = Held[j]
      BY <1>2, <1>3, <2>2
    <3> QED
      BY <3>1 DEF Range
  <2> QED
    BY <2>1, <2>2
<1> QED
  BY <1>2, <1>3, <1>4 DEF Range

LEMMA PutFacts ==
  ASSUME RingTypeOK, NEW p \in Pkts, Put(p), RingTypeOK', HeldFacts, HeldFacts'
  PROVE  /\ Held' \in Seq(Entries) /\ Len(Held') \in Nat \ {0} /\ Held'[Len(Held')] = p
         /\ \E d \in {0, 1} : \A i \in 1 .. Len(Held') - 1 :
              i \in DOMAIN Held' /\ i + d \in DOMAIN Held /\ Held'[i] = Held[i + d]
         /\ Range(Held) \subseteq Range(Held') \cup (IF CMDPKT_ISFULL THEN {Oldest} ELSE {})
<1> DEFINE k == Queue!Kept
<1>1. Held' = Append(k, p) /\ p \in Entries
  BY PutIsPut DEF Entries
<1>2. Held \in Seq(Entries) /\ Len(Held) \in Nat /\ DOMAIN Held = 1 .. Len(Held)
  BY DEF HeldFacts
<1>3. CMDPKT_ISFULL <=> Len(Held) = NUM_CMDPKTS - 1
  BY DEF HeldFacts
<1>4. \E d \in {0, 1} :
        /\ k \in Seq(Entries) /\ Len(k) = Len(Held) - d /\ \A i \in 1 .. Len(k) : k[i] = Held[i + d]
        /\ d = 1 <=> CMDPKT_ISFULL
  <2>1. CASE CMDPKT_ISFULL
    <3>1. Held # <<>> /\ k = Tail(Held)
      BY <1>2, <1>3, <2>1, RingAssumption DEF Queue!Kept
    <3> QED
      BY <3>1, <1>2, <2>1, HeadTailProperties
  <2>2. CASE ~CMDPKT_ISFULL
    <3>1. k = Held
      BY <1>3, <2>2 DEF Queue!Kept
    <3>2. Len(k) = Len(Held) - 0 /\ (\A i \in 1 .. Len(k) : i + 0 = i /\ k[i] = Held[i + 0])
      BY <3>1, <1>2
    <3>3. k \in Seq(Entries) /\ ((0 = 1) <=> CMDPKT_ISFULL)
      BY <3>1, <1>2, <2>2
    <3> QED
      BY <3>2, <3>3
  <2> QED
    BY <2>1, <2>2
<1> HIDE DEF k
<1>5. PICK d \in {0, 1} :
        /\ k \in Seq(Entries) /\ Len(k) = Len(Held) - d /\ \A i \in 1 .. Len(k) : k[i] = Held[i + d]
        /\ d = 1 <=> CMDPKT_ISFULL
  BY <1>4
<1>6. /\ Held' \in Seq(Entries) /\ Len(Held') = Len(k) + 1 /\ Held'[Len(k) + 1] = p
      /\ \A i \in 1 .. Len(k) : Held'[i] = k[i]
      /\ Len(k) \in Nat /\ DOMAIN Held' = 1 .. Len(k) + 1
  BY <1>1, <1>5, AppendProperties
<1>7. \A i \in 1 .. Len(Held') - 1 :
        i \in DOMAIN Held' /\ i + d \in DOMAIN Held /\ Held'[i] = Held[i + d]
  BY <1>2, <1>5, <1>6
<1>8. ASSUME NEW j \in DOMAIN Held
      PROVE  Held[j] \in Range(Held') \cup (IF CMDPKT_ISFULL THEN {Oldest} ELSE {})
  <2>1. CASE j - d \in 1 .. Len(k)
    <3>1. j - d \in DOMAIN Held' /\ Held'[j - d] = Held[j]
      BY <1>2, <1>5, <1>6, <2>1
    <3> QED
      BY <3>1 DEF Range
  <2>2. CASE j - d \notin 1 .. Len(k)
    <3>1. d = 1 /\ j = 1
      BY <1>2, <1>5, <2>2
    <3> QED
      BY <1>5, <3>1, OldestIsFirst DEF CMDPKT_ISFULL
  <2> QED
    BY <2>1, <2>2
<1> QED
  BY <1>6, <1>7, <1>8 DEF Range

-----------------------------------------------------------------------------
(* What the hub's calls do to the request and the connection.               *)

\* A call that neither opens a connection nor takes a request.
Stays(h, g) ==
  /\ g.txbuf = h.txbuf /\ g.net = h.net /\ g.port = h.port /\ g.snd = h.snd
  /\ g.out \in Windows \cup {h.out, None}
  /\ h.st = "CLOSED" => g.st = "CLOSED"

LEMMA StaysTwice ==
  ASSUME NEW h, NEW g, NEW k, Stays(h, g), Stays(g, k)
  PROVE  Stays(h, k)
BY DEF Stays

LEMMA CallsStay ==
  ASSUME NEW h, IsHub(h)
  PROVE  /\ Stays(h, h)
         /\ Stays(h, Closed(h))
         /\ Stays(h, Disconnected(h))
         /\ h.st # "CLOSED" => \A g \in SendData(h) : Stays(h, g) /\ IsHub(g) /\ g.st = h.st
<1>1. Stays(h, Closed(h))
  BY DEF Stays, Closed, Disconnected, IsHub, Fields
<1>2. Stays(h, Disconnected(h))
  BY DEF Stays, Disconnected, IsHub, Fields
<1>3. ASSUME NEW w \in Windows PROVE Stays(h, [h EXCEPT !.out = w]) /\ IsHub([h EXCEPT !.out = w])
                                   /\ [h EXCEPT !.out = w].st = h.st
  BY DEF Stays, IsHub, Fields
<1>4. Stays(h, h)
  BY DEF Stays
<1> QED
  BY <1>1, <1>2, <1>3, <1>4 DEF SendData

LEMMA PeriodicStays ==
  ASSUME NEW h, IsHub(h), NEW g \in Periodic(h)
  PROVE  Stays(h, g)
BY CallsStay DEF Periodic

\* What is outstanding has been acknowledged.
Advances(h) == h.txbuf = None /\ h.snd = hub.snd + 1 /\ AckedByServer

\* What comes before tcp_tick: the hub's memory hub has become h.
Enters(h) ==
  /\ h.txbuf = hub.txbuf \/ (h.txbuf = None /\ AckedByServer)
  /\ h.net = "down" => hub.net \in {"down", "online"}
  /\ h.out \in Windows \cup {hub.out, None}
  /\ \/ h.port = hub.port /\ (h.snd = hub.snd \/ Advances(h))
        /\ (hub.st = "CLOSED" => h.st = "CLOSED")
     \/ h.port = hub.port + 1 /\ h.st # "CLOSED" /\ h.snd = 0

LEMMA EntersStays ==
  ASSUME IsHub(hub), NEW h, NEW g, Enters(h), Stays(h, g), h.port = hub.port
  PROVE  Enters(g)
<1>1. g.port = hub.port /\ g.txbuf = h.txbuf /\ g.net = h.net /\ g.snd = h.snd
      /\ g.out \in Windows \cup {hub.out, None}
  BY DEF Enters, Stays
<1>2. hub.st = "CLOSED" => g.st = "CLOSED"
  <2>1. hub.port + 1 # hub.port
    BY DEF IsHub
  <2> QED
    BY <2>1 DEF Enters, Stays
<1>3. h.snd = hub.snd \/ Advances(h)
  <2>1. hub.port + 1 # hub.port
    BY DEF IsHub
  <2> QED
    BY <2>1 DEF Enters, Stays
<1> QED
  BY <1>1, <1>2, <1>3 DEF Enters, Advances

LEMMA TcpTickEnters ==
  ASSUME IsHub(hub), NEW h, IsHub(h), Enters(h), NEW g \in TcpTick(h)
  PROVE  Enters(g)
<1>1. g = h \/ (h.port = hub.port /\ g \in Periodic(h))
  BY DEF TcpTick
<1> QED
  BY <1>1, PeriodicStays, EntersStays

LEMMA ResolvedEnters ==
  ASSUME IsHub(hub), NEW h, IsHub(h), Stays(hub, h), NEW found
  PROVE  Enters(Resolved(h, found))
<1>1. Stays(hub, hub) /\ Stays(hub, Disconnected(h))
  BY CallsStay, StaysTwice
<1>2. Enters(h) /\ Enters(Disconnected(h))
  BY <1>1 DEF Enters, Stays
<1>3. Enters(Opened(h))
  <2>1. /\ Opened(h).txbuf = h.txbuf /\ Opened(h).net = h.net /\ Opened(h).out = None
        /\ Opened(h).port = h.port + 1 /\ Opened(h).st = "SYN_SENT" /\ Opened(h).snd = 0
    BY DEF Opened, IsHub, Fields
  <2> QED
    BY <2>1 DEF Enters, Stays
<1> QED
  BY <1>2, <1>3 DEF Resolved, Connect

LEMMA ResolvedIsHub == ASSUME NEW h, IsHub(h), NEW found PROVE IsHub(Resolved(h, found))
<1>1. IsHub(Disconnected(h))
  BY DEF Disconnected, IsHub, Fields
<1>2. IsHub(Opened(h))
  <2>1. DOMAIN Opened(h) = Fields /\ Opened(h) = [f \in DOMAIN Opened(h) |-> Opened(h)[f]]
    BY DEF Opened, IsHub
  <2>2. /\ Opened(h).connected = h.connected /\ Opened(h).tcp = h.tcp /\ Opened(h).asked = h.asked
        /\ Opened(h).port = h.port + 1 /\ Opened(h).snd = 0
    BY DEF Opened, IsHub, Fields
  <2> QED
    BY <2>1, <2>2 DEF IsHub
<1> QED
  BY <1>1, <1>2 DEF Resolved, Connect

\* What an action leaves in the hub's memory, and what it takes from the ring.
Acts ==
  \E h : /\ Enters(h) /\ IsHub(h)
         /\ \/ hub' = h /\ UNCHANGED ring
            \/ h.txbuf = None /\ Take /\ hub' = HandlePkt(h)

LEMMA NetTickActs ==
  ASSUME IsHub(hub), NEW S, \A h \in S : Enters(h) /\ IsHub(h), NetTick(S)
  PROVE  Acts /\ Account
<1>0. PICK h1 \in S : \E h \in TcpTick(h1) :
        \/ hub' = h /\ UNCHANGED ring
        \/ CanWrite(h) /\ hub' = HandlePkt(h) /\ Take
  BY DEF NetTick
<1>1. PICK h \in TcpTick(h1) :
        \/ hub' = h /\ UNCHANGED ring
        \/ CanWrite(h) /\ hub' = HandlePkt(h) /\ Take
  BY <1>0
<1>2. Enters(h)
  BY <1>1, TcpTickEnters
<1>3. IsHub(h)
  <2>1. IsHub(h1) /\ h \in {h1} \cup Periodic(h1)
    BY <1>1 DEF TcpTick
  <2>2. IsHub(Closed(h1))
    BY <2>1 DEF Closed, Disconnected, IsHub, Fields
  <2> QED
    BY <2>1, <2>2, CallsStay DEF Periodic
<1> QED
  BY <1>1, <1>2, <1>3 DEF Acts, CanWrite, NetTick

\* The memory after an acknowledgement and data; uip_process in ESTABLISHED.
LEMMA AfterEnters ==
  ASSUME IsHub(hub), hub.st # "CLOSED", NEW n, NEW ack \in BOOLEAN, ack => AckedByServer
  PROVE  LET d == AfterData(AfterAck(ack), n)
         IN Enters(d) /\ IsHub(d) /\ d.st # "CLOSED" /\ d.port = hub.port
<1> DEFINE a == AfterAck(ack)
<1>1. /\ IsHub(a) /\ a.st = hub.st /\ a.net = hub.net /\ a.port = hub.port
      /\ a.out \in {hub.out, None}
      /\ \/ a.txbuf = hub.txbuf /\ a.snd = hub.snd
         \/ a.txbuf = None /\ a.snd = hub.snd + 1 /\ AckedByServer
  <2>1. CASE ack
    <3>1. a = Acked(hub) /\ AckedByServer
      BY <2>1 DEF AfterAck
    <3>2. DOMAIN a = Fields /\ a = [f \in DOMAIN a |-> a[f]]
      BY <3>1 DEF Acked, IsHub
    <3>3. /\ a.st = hub.st /\ a.net = hub.net /\ a.port = hub.port /\ a.out = None
          /\ a.txbuf = None /\ a.snd = hub.snd + 1 /\ a.connected = hub.connected
          /\ a.tcp = hub.tcp /\ a.asked = hub.asked
      BY <3>1 DEF Acked, IsHub, Fields
    <3>4. IsHub(a)
      BY <3>2, <3>3 DEF IsHub
    <3> QED
      BY <3>1, <3>3, <3>4
  <2>2. CASE ~ack
    BY <2>2 DEF AfterAck
  <2> QED
    BY <2>1, <2>2
<1> HIDE DEF a
<1>2. /\ IsHub(NewData(a)) /\ NewData(a).st = a.st /\ NewData(a).net = a.net
      /\ NewData(a).port = a.port /\ NewData(a).txbuf = a.txbuf /\ NewData(a).snd = a.snd
      /\ NewData(a).out = a.out
  BY <1>1 DEF NewData, IsHub, Fields
<1>3. AfterData(a, n) \in {a, NewData(a)}
  BY DEF AfterData
<1> QED
  BY <1>1, <1>2, <1>3 DEF Enters, Advances, a

LEMMA SecondActs ==
  ASSUME IsHub(hub), Second
  PROVE  Acts
<1>1. PICK h \in Periodic(hub) : hub' \in App1Hz(h)
  BY DEF Second
<1>2. IsHub(Closed(hub))
  BY DEF Closed, Disconnected, IsHub, Fields
<1>3. Stays(hub, h) /\ IsHub(h)
  BY <1>1, <1>2, CallsStay DEF Periodic
<1> DEFINE q == [h EXCEPT !.asked = TRUE]
<1>4. Stays(hub, q) /\ IsHub(q)
  BY <1>3 DEF Stays, IsHub, Fields
<1> HIDE DEF q
<1>5. hub' \in {h, q, Resolved(q, TRUE)}
  BY <1>1 DEF App1Hz, Query, q
<1>6. Enters(h) /\ Enters(q)
  BY <1>3, <1>4 DEF Enters, Stays
<1>7. Enters(Resolved(q, TRUE)) /\ IsHub(Resolved(q, TRUE))
  BY <1>4, ResolvedEnters, ResolvedIsHub
<1> QED
  BY <1>3, <1>4, <1>5, <1>6, <1>7 DEF Acts, Second

LEMMA HubActs ==
  ASSUME IsHub(hub), HubNext
  PROVE  (Acts /\ Account) \/ MacRx \/ Reboot
<1>0. Stays(hub, hub) /\ Enters(hub)
  BY CallsStay DEF Enters, Stays
<1>1. CASE NetNothing
  BY <1>0, <1>1, NetTickActs DEF NetNothing
<1>2. CASE NetConfigured
  <2> DEFINE g == [hub EXCEPT !.net = "online"]
  <2>1. /\ IsHub(g) /\ g.txbuf = hub.txbuf /\ g.net = "online" /\ g.out = hub.out
        /\ g.port = hub.port /\ g.snd = hub.snd /\ g.st = hub.st
    BY DEF IsHub, Fields
  <2> HIDE DEF g
  <2>2. Enters(g)
    BY <2>1 DEF Enters
  <2> QED
    BY <1>2, <2>1, <2>2, NetTickActs DEF NetConfigured, g
<1>3. CASE NetLinkDown
  <2> DEFINE g == Disconnected([hub EXCEPT !.net = "down"])
  <2>1. /\ IsHub(g) /\ g.txbuf = hub.txbuf /\ g.net = "down" /\ g.out = hub.out
        /\ g.port = hub.port /\ g.snd = hub.snd /\ g.st = hub.st
    BY DEF IsHub, Fields, Disconnected
  <2> HIDE DEF g
  <2>2. Enters(g)
    BY <1>3, <2>1 DEF Enters, NetLinkDown
  <2> QED
    BY <1>3, <2>1, <2>2, NetTickActs DEF NetLinkDown, g
<1>4. CASE NetAnswer
  <2> DEFINE g == [hub EXCEPT !.known = TRUE]
  <2>1. IsHub(g) /\ Stays(hub, g)
    BY DEF IsHub, Fields, Stays
  <2> HIDE DEF g
  <2>2. Enters(Resolved(g, TRUE)) /\ IsHub(Resolved(g, TRUE))
    BY <2>1, ResolvedEnters, ResolvedIsHub
  <2> QED
    BY <1>4, <2>2, NetTickActs DEF NetAnswer, g
<1>5. CASE NetNoAnswer
  <2>1. \A found : Enters(Resolved(hub, found)) /\ IsHub(Resolved(hub, found))
    BY <1>0, ResolvedEnters, ResolvedIsHub
  <2> QED
    BY <1>5, <2>1, NetTickActs DEF NetNoAnswer
<1>6. CASE NetSynAck
  <2> DEFINE e == [hub EXCEPT !.st = "ESTABLISHED"]
  <2>1. /\ IsHub(e) /\ e.st = "ESTABLISHED" /\ e.txbuf = hub.txbuf /\ e.net = hub.net
        /\ e.out = hub.out /\ e.port = hub.port /\ e.snd = hub.snd
    BY DEF IsHub, Fields
  <2> HIDE DEF e
  <2>2. ASSUME NEW h \in SendData(e)
        PROVE  LET g == Connected([h EXCEPT !.tcp = TRUE]) IN Enters(g) /\ IsHub(g)
    <3> DEFINE g == Connected([h EXCEPT !.tcp = TRUE])
    <3>1. IsHub(h) /\ Stays(e, h) /\ h.st = "ESTABLISHED"
      BY <2>1, <2>2, CallsStay
    <3>2. /\ IsHub(g) /\ g.txbuf = h.txbuf /\ g.net = h.net /\ g.out = h.out
          /\ g.port = h.port /\ g.snd = h.snd /\ g.st = h.st
      BY <3>1 DEF Connected, IsHub, Fields
    <3> HIDE DEF g
    <3>3. Enters(g)
      BY <1>6, <2>1, <3>1, <3>2 DEF Enters, Stays, NetSynAck
    <3> QED
      BY <3>2, <3>3 DEF g
  <2> QED
    BY <1>6, <2>2, NetTickActs DEF NetSynAck, e
<1>7. CASE NetEnd
  <2>1. Enters(Closed(hub)) /\ IsHub(Closed(hub))
    <3>1. IsHub(Closed(hub))
      BY DEF Closed, Disconnected, IsHub, Fields
    <3>2. Stays(hub, Closed(hub))
      BY CallsStay
    <3> QED
      BY <3>1, <3>2 DEF Enters, Stays
  <2> QED
    BY <1>7, <2>1, NetTickActs DEF NetEnd
<1>8. ASSUME NEW n \in 0..1, NEW ack \in BOOLEAN, NetData(n, ack) PROVE Acts /\ Account
  <2> DEFINE d == AfterData(AfterAck(ack), n)
  <2>1. Enters(d) /\ IsHub(d) /\ d.st # "CLOSED" /\ d.port = hub.port
    BY <1>8, AfterEnters DEF NetData
  <2> HIDE DEF d
  <2>2. \A g \in SendData(d) : Enters(g) /\ IsHub(g)
    BY <2>1, CallsStay, EntersStays
  <2> QED
    BY <1>8, <2>2, NetTickActs DEF NetData, d
<1>9. ASSUME NEW n \in 0..1, NEW ack \in BOOLEAN, NetFin(n, ack) PROVE Acts /\ Account
  <2> DEFINE d == AfterData(AfterAck(ack), n)
             g == Disconnected([d EXCEPT !.st = "LAST_ACK", !.tcp = FALSE])
  <2>1. Enters(d) /\ IsHub(d) /\ d.st # "CLOSED" /\ d.port = hub.port
    BY <1>9, AfterEnters DEF NetFin
  <2> HIDE DEF d
  <2>2. /\ IsHub(g) /\ g.txbuf = d.txbuf /\ g.net = d.net /\ g.out = d.out
        /\ g.port = d.port /\ g.snd = d.snd /\ g.st = "LAST_ACK"
    BY <2>1 DEF Disconnected, IsHub, Fields
  <2> HIDE DEF g
  <2>3. Enters(g)
    BY <1>9, <2>1, <2>2 DEF Enters, Advances, NetFin
  <2> QED
    BY <1>9, <2>2, <2>3, NetTickActs DEF NetFin, d, g
<1>10. CASE Second
  BY <1>10, SecondActs DEF Second
<1> QED
  BY <1>1, <1>2, <1>3, <1>4, <1>5, <1>6, <1>7, <1>8, <1>9, <1>10 DEF HubNext

-----------------------------------------------------------------------------
(* The order.                                                               *)

\* The packets in the ring are later ones the further back they are.
RingOrder ==
  /\ \A i \in DOMAIN Held : Held[i] \in 1..issued
  /\ \A i, j \in DOMAIN Held : i < j => Held[i] < Held[j]

\* The request in tcp_txbuf came before them, and no request after it was sent.
Behind(h) ==
  h.txbuf # None =>
    /\ h.txbuf \in 1..issued
    /\ \A i \in DOMAIN Held : h.txbuf < Held[i]
    /\ \A s \in sent : s.req <= h.txbuf /\ (s.port = h.port /\ s.seq < h.snd => s.req < h.txbuf)

\* The segments sent are in the order of their requests.
Earlier(s, t) ==
  /\ s.port = t.port /\ s.seq < t.seq => s.req < t.req
  /\ s.port < t.port => s.req <= t.req
SentOrder ==
  /\ \A s \in sent : s.port \in Nat /\ s.seq \in Nat /\ s.req \in 1..issued /\ s.size \in Windows
  /\ \A s \in sent : \A i \in DOMAIN Held : s.req < Held[i]
  /\ \A s, t \in sent : Earlier(s, t)

OutInv == hub.out \in Windows \cup {None}

OrderInv == RingOrder /\ Behind(hub) /\ SentOrder /\ OutInv

\* What the server has taken on a connection is what was sent on it, in turn.
Bits == [req : Nat, size : Windows]
Carried(c, i) ==
  \E s \in sent : /\ s.port = c /\ s.seq = i - 1
                  /\ s.req = srv[c].got[i].req /\ s.size = srv[c].got[i].size
SrvInv ==
  /\ srv \in [Conns -> [open : BOOLEAN, fin : BOOLEAN, got : Seq(Bits), replies : Seq(Nat)]]
  /\ \A c \in Conns : \A i \in DOMAIN srv[c].got : Carried(c, i)

LEMMA HeldIsSeqNext == RingTypeOK' => HeldFacts'
BY HeldIsSeq, PTL

LEMMA HeldSame == UNCHANGED ring => Held' = Held
BY DEF ring, Held, Count, Slot

\* Whatever comes in, tcp_txbuf stays behind what was sent.
LEMMA EntersBehind ==
  ASSUME Inv, OrderInv, NEW h, Enters(h)
  PROVE  Behind(h)
<1>1. CASE h.txbuf = None
  BY <1>1 DEF Behind
<1>2. CASE h.txbuf # None /\ h.port = hub.port
  <2>1. h.txbuf = hub.txbuf /\ h.snd = hub.snd
    BY <1>2 DEF Enters, Advances, Inv, HubOK, IsHub
  <2> QED
    BY <1>2, <2>1 DEF OrderInv, Behind
<1>3. CASE h.txbuf # None /\ h.port = hub.port + 1
  <2>1. \A s \in sent : s.port # h.port
    BY <1>3 DEF Inv, HubOK, IsHub, NoneAhead
  <2> QED
    BY <1>3, <2>1 DEF OrderInv, Behind, Enters
<1> QED
  BY <1>1, <1>2, <1>3 DEF Enters

\* The ring and tcp_txbuf after net_tick, the segments sent as they were.
Queued ==
  /\ RingOrder'
  /\ hub'.out \in Windows \cup {None}
  /\ \A s \in sent : \A i \in DOMAIN Held' : s.req < Held'[i]
  /\ hub'.txbuf # None =>
       /\ hub'.txbuf \in 1..issued
       /\ \A i \in DOMAIN Held' : hub'.txbuf < Held'[i]
       /\ \A s \in sent : /\ s.req <= hub'.txbuf
                          /\ s.port = hub'.port /\ s.seq < hub'.snd => s.req < hub'.txbuf

LEMMA ActsQueued ==
  ASSUME Inv, RingTypeOK, RingTypeOK', HeldFacts, HeldFacts', OrderInv, Acts, issued' = issued
  PROVE  Queued
<1>1. PICK h : /\ Enters(h) /\ IsHub(h)
               /\ \/ hub' = h /\ UNCHANGED ring
                  \/ h.txbuf = None /\ Take /\ hub' = HandlePkt(h)
  BY DEF Acts
<1>2. Behind(h) /\ h.out \in Windows \cup {None}
  BY <1>1, EntersBehind DEF Enters, OrderInv, OutInv
<1>3. CASE hub' = h /\ UNCHANGED ring
  <2>1. Held' = Held
    BY <1>3, HeldSame
  <2> QED
    BY <1>2, <1>3, <2>1 DEF OrderInv, RingOrder, SentOrder, Behind, Queued
<1>4. CASE h.txbuf = None /\ Take /\ hub' = HandlePkt(h)
  <2>1. \A i \in DOMAIN Held' : i \in DOMAIN Held /\ i + 1 \in DOMAIN Held /\ Held'[i] = Held[i + 1]
    BY <1>4, TakeFacts
  <2>2. Oldest = Held[1] /\ 1 \in DOMAIN Held /\ (\A i \in DOMAIN Held : i \in Nat /\ i > 0)
    <3>1. ~CMDPKT_ISEMPTY
      BY <1>4 DEF Take
    <3> QED
      BY <3>1, OldestIsFirst DEF HeldFacts
  <2>3. \A i \in DOMAIN Held' : i \in Nat /\ i > 0
    BY <2>1, <2>2
  <2>4. RingOrder'
    <3>1. \A i \in DOMAIN Held' : Held'[i] \in 1..issued'
      BY <2>1 DEF OrderInv, RingOrder
    <3>2. ASSUME NEW i \in DOMAIN Held', NEW j \in DOMAIN Held', i < j PROVE Held'[i] < Held'[j]
      <4>1. i + 1 < j + 1
        BY <2>3, <3>2
      <4> QED
        BY <2>1, <4>1 DEF OrderInv, RingOrder
    <3> QED
      BY <3>1, <3>2 DEF RingOrder
  <2>5. Oldest \in 1..issued /\ (\A s \in sent : s.req < Oldest)
        /\ \A i \in DOMAIN Held' : Oldest < Held'[i]
    <3>1. \A i \in DOMAIN Held' : 1 < i + 1
      BY <2>3
    <3> QED
      BY <2>1, <2>2, <3>1 DEF OrderInv, RingOrder, SentOrder
  <2>6. \A s \in sent : \A i \in DOMAIN Held' : s.req < Held'[i]
    BY <2>1 DEF OrderInv, SentOrder
  <2>7. \A s \in sent : s.req <= Oldest
    BY <2>5 DEF Inv, OrderInv, SentOrder
  <2>8. CASE hub' = h
    BY <1>2, <1>4, <2>4, <2>6, <2>8 DEF Queued
  <2>9. CASE hub' = [h EXCEPT !.txbuf = Oldest]
    <3>1. hub'.txbuf = Oldest /\ hub'.out = h.out
      BY <1>1, <2>9 DEF IsHub, Fields
    <3> QED
      BY <1>2, <2>4, <2>5, <2>6, <2>7, <3>1 DEF Queued
  <2> QED
    BY <1>4, <2>8, <2>9 DEF HandlePkt
<1> QED
  BY <1>1, <1>3, <1>4

LEMMA TransmitOrder ==
  ASSUME Inv, Inv', OrderInv, Queued, Transmit, issued' = issued
  PROVE  OrderInv'
<1> DEFINE t == Segment(hub')
<1>0. /\ t.port = hub'.port /\ t.seq = hub'.snd /\ t.req = hub'.txbuf /\ t.size = hub'.out
      /\ hub'.port \in Nat /\ hub'.snd \in Nat
  BY DEF Segment, Inv, HubOK, IsHub
<1>1. CASE hub'.out = None
  <2>1. sent' = sent
    BY <1>1 DEF Transmit
  <2> QED
    BY <2>1 DEF Queued, OrderInv, SentOrder, Earlier, Behind, OutInv
<1>2. CASE hub'.out # None
  <2>1. sent' = sent \cup {t}
    BY <1>2, <1>0 DEF Transmit, Segment
  <2>2. hub'.txbuf # None /\ hub'.st = "ESTABLISHED"
    BY <1>2 DEF Inv, HubOK, Sending
  <2>3. t.port \in Nat /\ t.seq \in Nat /\ t.req \in 1..issued' /\ t.size \in Windows
    BY <1>0, <1>2, <2>2 DEF Queued
  <2>4. \A i \in DOMAIN Held' : t.req < Held'[i]
    BY <1>0, <2>2 DEF Queued
  <2>5. \A s \in sent : s.port <= t.port /\ (s.port = t.port => s.seq < t.seq \/ s = t)
    BY <1>0, <2>1, <2>2 DEF Inv, HubOK, NoneAhead
  <2>6. \A s \in sent : s.req <= t.req /\ (s.port = t.port /\ s.seq < t.seq => s.req < t.req)
    BY <1>0, <2>2 DEF Queued
  <2>7. ASSUME NEW s \in sent PROVE Earlier(s, t) /\ Earlier(t, s)
    <3>1. s.port \in Nat /\ s.seq \in Nat /\ s.req \in Nat
      BY DEF OrderInv, SentOrder
    <3> QED
      BY <2>3, <2>5, <2>6, <3>1 DEF Earlier
  <2>8. Earlier(t, t)
    BY <2>3 DEF Earlier
  <2>9. SentOrder'
    <3>1. \A s, u \in sent' : Earlier(s, u)
      BY <2>1, <2>7, <2>8 DEF OrderInv, SentOrder
    <3>2. \A s, u \in sent' : Earlier(s, u)'
      BY <3>1 DEF Earlier
    <3>3. \A s \in sent' : /\ s.port \in Nat /\ s.seq \in Nat /\ s.req \in 1..issued' /\ s.size \in Windows
                           /\ \A i \in DOMAIN Held' : s.req < Held'[i]
      BY <2>1, <2>3, <2>4 DEF OrderInv, SentOrder, Queued
    <3> QED
      BY <3>2, <3>3 DEF SentOrder
  <2>10. Behind(hub)'
    <3>1. t.req <= t.req /\ ~(t.seq < t.seq)
      BY <2>3
    <3> QED
      BY <1>0, <2>1, <2>4, <2>6, <3>1 DEF Queued, Behind
  <2> QED
    BY <2>9, <2>10 DEF Queued, OrderInv, Behind, OutInv
<1> QED
  BY <1>1, <1>2

LEMMA MacRxOrder ==
  ASSUME Inv, RingTypeOK, RingTypeOK', HeldFacts, HeldFacts', OrderInv, MacRx, issued' \in Pkts
  PROVE  OrderInv'
<1>0. issued \in Nat /\ issued' = issued + 1 /\ UNCHANGED <<hub, sent>> /\ Put(issued')
  BY DEF MacRx, Inv
<1>1. /\ Held' \in Seq(Entries) /\ Len(Held') \in Nat \ {0} /\ Held'[Len(Held')] = issued'
      /\ \E d \in {0, 1} : \A i \in 1 .. Len(Held') - 1 :
           i \in DOMAIN Held' /\ i + d \in DOMAIN Held /\ Held'[i] = Held[i + d]
  BY <1>0, PutFacts
<1>2. PICK d \in {0, 1} : \A i \in 1 .. Len(Held') - 1 :
        i + d \in DOMAIN Held /\ Held'[i] = Held[i + d]
  BY <1>1
<1>3. \A i \in DOMAIN Held' : i \in 1 .. Len(Held') /\ (i \in 1 .. Len(Held') - 1 \/ Held'[i] = issued + 1)
  BY <1>0, <1>1
<1>4. \A i \in DOMAIN Held' : Held'[i] \in 1..issued'
  BY <1>0, <1>2, <1>3 DEF OrderInv, RingOrder
<1>5. ASSUME NEW i \in DOMAIN Held', NEW j \in DOMAIN Held', i < j PROVE Held'[i] < Held'[j]
  <2>1. i \in 1 .. Len(Held') - 1 /\ i \in Nat /\ j \in Nat
    BY <1>1, <1>3, <1>5
  <2>2. CASE j \in 1 .. Len(Held') - 1
    <3>1. i + d < j + d
      BY <2>1, <1>5
    <3> QED
      BY <1>2, <2>1, <2>2, <3>1 DEF OrderInv, RingOrder
  <2>3. CASE Held'[j] = issued + 1
    BY <1>0, <1>2, <2>1, <2>3 DEF OrderInv, RingOrder
  <2> QED
    BY <1>3, <2>2, <2>3
<1>6. ASSUME NEW r \in 1..issued, \A i \in DOMAIN Held : r < Held[i]
      PROVE  \A i \in DOMAIN Held' : r < Held'[i]
  BY <1>0, <1>2, <1>3, <1>6
<1>7. RingOrder'
  BY <1>4, <1>5 DEF RingOrder
<1>8. Behind(hub)'
  <2>1. \A r \in 1..issued : r \in 1..issued'
    BY <1>0
  <2> QED
    BY <1>0, <1>6, <2>1 DEF OrderInv, Behind
<1>9. SentOrder'
  <2>1. \A r \in 1..issued : r \in 1..issued'
    BY <1>0
  <2> QED
    BY <1>0, <1>6, <2>1 DEF OrderInv, SentOrder, Earlier
<1> QED
  BY <1>0, <1>7, <1>8, <1>9 DEF OrderInv, OutInv

LEMMA RebootOrder ==
  ASSUME Inv, HeldFacts', OrderInv, Reboot PROVE OrderInv'
<1>1. Held' = <<>> /\ DOMAIN Held' = {}
  BY DEF HeldFacts, Reboot, Restart, CMDPKT_ISEMPTY
<1>2. hub'.txbuf = None /\ hub'.out = None /\ UNCHANGED <<sent, issued>>
  BY DEF Reboot, Boot
<1> QED
  BY <1>1, <1>2 DEF OrderInv, RingOrder, Behind, SentOrder, Earlier, OutInv

LEMMA IssuedIsPkt == Inv /\ MacRx => issued' \in Pkts
<1>1. Cardinality(Pkts) \in Nat
  BY HubAssumption, FS_CardinalityType
<1> QED
  BY <1>1, HubAssumption DEF Inv, MacRx

LEMMA StepOrder ==
  ASSUME Inv, Inv', RingTypeOK, RingTypeOK', OrderInv, [Next]_vars PROVE OrderInv'
<1>1. HeldFacts /\ HeldFacts'
  BY HeldIsSeq, HeldIsSeqNext
<1>2. CASE Acts /\ Account
  BY <1>1, <1>2, ActsQueued, TransmitOrder DEF Account
<1>3. CASE MacRx
  BY <1>1, <1>3, IssuedIsPkt, MacRxOrder
<1>4. CASE Reboot
  BY <1>1, <1>4, RebootOrder
<1>5. CASE UNCHANGED <<ring, hub, sent, issued>>
  <2>1. Held' = Held
    BY <1>5, HeldSame
  <2> QED
    BY <1>5, <2>1 DEF OrderInv, RingOrder, Behind, SentOrder, Earlier, OutInv
<1>6. SrvNext => UNCHANGED <<ring, hub, sent, issued>>
  BY DEF SrvNext, SrvOpens, SrvTakes, SrvCloses, ServerDoes
<1>7. UNCHANGED vars => UNCHANGED <<ring, hub, sent, issued>>
  BY DEF vars
<1>8. IsHub(hub)
  BY DEF Inv, HubOK
<1> QED
  BY <1>2, <1>3, <1>4, <1>5, <1>6, <1>7, <1>8, HubActs DEF Next

-----------------------------------------------------------------------------
(* The server.                                                              *)

LEMMA TakesSrv ==
  ASSUME OrderInv, SrvInv, NEW c \in Conns, NEW s \in sent, SrvTakes(c, s)
  PROVE  SrvInv'
<1> DEFINE got == Append(srv[c].got, [req |-> s.req, size |-> s.size])
           replies == IF IsWhole(s) THEN Append(srv[c].replies, s.req) ELSE srv[c].replies
<1>1. srv' = [srv EXCEPT ![c] = [srv[c] EXCEPT !.got = got, !.replies = replies]] /\ sent' = sent
  BY DEF SrvTakes, ServerDoes
<1>2. [req |-> s.req, size |-> s.size] \in Bits
  BY DEF Bits, OrderInv, SentOrder
<1>3. /\ srv[c].got \in Seq(Bits) /\ got \in Seq(Bits) /\ Len(got) = Len(srv[c].got) + 1
      /\ got[Len(srv[c].got) + 1] = [req |-> s.req, size |-> s.size]
      /\ \A i \in 1 .. Len(srv[c].got) : got[i] = srv[c].got[i]
  BY <1>2, AppendProperties DEF SrvInv
<1>a. replies \in Seq(Nat)
  <2>1. s.req \in Nat /\ srv[c].replies \in Seq(Nat)
    BY DEF OrderInv, SentOrder, SrvInv
  <2> QED
    BY <2>1, AppendProperties
<1> HIDE DEF got, replies
<1>4. srv'[c].got = got /\ \A e \in Conns : e # c => srv'[e] = srv[e]
  BY <1>1 DEF SrvInv
<1>5. srv' \in [Conns -> [open : BOOLEAN, fin : BOOLEAN, got : Seq(Bits), replies : Seq(Nat)]]
  <2>1. srv[c] \in [open : BOOLEAN, fin : BOOLEAN, got : Seq(Bits), replies : Seq(Nat)]
    BY DEF SrvInv
  <2>2. [srv[c] EXCEPT !.got = got, !.replies = replies]
          \in [open : BOOLEAN, fin : BOOLEAN, got : Seq(Bits), replies : Seq(Nat)]
    BY <1>3, <1>a, <2>1
  <2> QED
    BY <1>1, <2>2 DEF SrvInv
<1>6. ASSUME NEW i \in DOMAIN got
      PROVE  \E u \in sent : u.port = c /\ u.seq = i - 1 /\ u.req = got[i].req /\ u.size = got[i].size
  <2>1. Len(srv[c].got) \in Nat /\ DOMAIN srv[c].got = 1 .. Len(srv[c].got)
        /\ i \in 1 .. Len(srv[c].got) + 1
    BY <1>3
  <2>2. CASE i \in 1 .. Len(srv[c].got)
    <3>1. Carried(c, i)
      BY <2>1, <2>2 DEF SrvInv
    <3> QED
      BY <1>3, <2>2, <3>1 DEF Carried
  <2>3. CASE i = Len(srv[c].got) + 1
    BY <1>3, <2>1, <2>3 DEF SrvTakes
  <2> QED
    BY <2>1, <2>2, <2>3
<1>7. ASSUME NEW e \in Conns, NEW i \in DOMAIN srv'[e].got PROVE Carried(e, i)'
  <2>1. CASE e = c
    BY <1>1, <1>4, <1>6, <1>7, <2>1 DEF Carried
  <2>2. CASE e # c
    BY <1>1, <1>4, <1>7, <2>2 DEF SrvInv, Carried
  <2> QED
    BY <2>1, <2>2
<1> QED
  BY <1>5, <1>7 DEF SrvInv

LEMMA StepSrv == ASSUME OrderInv, SrvInv, [Next]_vars PROVE SrvInv'
<1>1. CASE UNCHANGED srv /\ sent \subseteq sent'
  BY <1>1 DEF SrvInv, Carried
<1>2. ASSUME NEW c \in Conns, SrvOpens(c) \/ SrvCloses(c) PROVE SrvInv'
  <2> DEFINE Server1 == [open : BOOLEAN, fin : BOOLEAN, got : Seq(Bits), replies : Seq(Nat)]
  <2>1. PICK s \in {[srv[c] EXCEPT !.open = TRUE], [srv[c] EXCEPT !.fin = TRUE]} :
          srv' = [srv EXCEPT ![c] = s] /\ sent' = sent
    BY <1>2 DEF SrvOpens, SrvCloses, ServerDoes
  <2>2. srv \in [Conns -> Server1] /\ srv[c] \in Server1
    BY DEF SrvInv
  <2>3. s \in Server1 /\ s.got = srv[c].got
    BY <2>1, <2>2
  <2> HIDE DEF Server1
  <2>4. srv' \in [Conns -> Server1] /\ \A e \in Conns : srv'[e].got = srv[e].got
    BY <2>1, <2>2, <2>3
  <2>5. ASSUME NEW e \in Conns, NEW i \in DOMAIN srv'[e].got PROVE Carried(e, i)'
    <3>1. Carried(e, i)
      BY <2>4, <2>5 DEF SrvInv
    <3> QED
      BY <2>1, <2>4, <3>1 DEF Carried
  <2> QED
    BY <2>4, <2>5 DEF SrvInv, Server1
<1>3. HubNext => UNCHANGED srv /\ sent \subseteq sent'
  BY DEF HubNext, NetNothing, NetConfigured, NetLinkDown, NetAnswer, NetNoAnswer, NetSynAck, NetEnd, NetData,
     NetFin, MacRx, Second, Reboot, NetTick, Account, Transmit
<1>4. UNCHANGED vars => UNCHANGED srv /\ sent \subseteq sent'
  BY DEF vars
<1> QED
  BY <1>1, <1>2, <1>3, <1>4, TakesSrv DEF Next, SrvNext

\* The invariant of this module.
DeliveryInv == Inv /\ RingTypeOK /\ OrderInv /\ SrvInv

LEMMA HubIsRing == Spec => RingSpec
<1>1. Init => RingInit
  BY DEF Init
<1> QED
  BY <1>1, InvHolds, RingSteps, PTL DEF Spec, RingSpec

LEMMA DeliveryHolds == Spec => []DeliveryInv
<1>1. Init /\ RingTypeOK => OrderInv /\ SrvInv
  <2> SUFFICES ASSUME Init, RingTypeOK PROVE OrderInv /\ SrvInv
    OBVIOUS
  <2>1. DOMAIN Held = {}
    BY HeldIsSeq DEF HeldFacts, Init, RingInit, CMDPKT_ISEMPTY
  <2>2. OrderInv
    BY <2>1 DEF Init, Boot, OrderInv, RingOrder, Behind, SentOrder, OutInv
  <2>3. SrvInv
    BY DEF Init, NoServer, SrvInv
  <2> QED
    BY <2>2, <2>3
<1>2. Inv /\ Inv' /\ RingTypeOK /\ RingTypeOK' /\ OrderInv /\ SrvInv /\ [Next]_vars => OrderInv' /\ SrvInv'
  BY StepOrder, StepSrv
<1>3. Spec => []RingTypeOK
  BY HubIsRing, RingTyping, PTL
<1> QED
  BY <1>1, <1>2, <1>3, InvHolds, PTL DEF Spec, DeliveryInv

\* The server is asked in the order the hub accepted its devices' packets, each
\* at most once on a connection, for any ring, windows and failures.
THEOREM AskedInOrder == Spec => []InOrder
<1>1. DeliveryInv => InOrder
  <2> SUFFICES ASSUME DeliveryInv, NEW c \in Conns, NEW e \in Conns,
                      NEW i \in DOMAIN srv[c].got, NEW j \in DOMAIN srv[e].got
               PROVE  LET r == srv[c].got[i].req
                          q == srv[e].got[j].req
                      IN IF c = e THEN i < j => r < q ELSE c < e => r <= q
    BY DEF InOrder
  <2>1. PICK s \in sent : s.port = c /\ s.seq = i - 1 /\ s.req = srv[c].got[i].req
    BY DEF DeliveryInv, SrvInv, Carried
  <2>2. PICK u \in sent : u.port = e /\ u.seq = j - 1 /\ u.req = srv[e].got[j].req
    BY DEF DeliveryInv, SrvInv, Carried
  <2>3. Earlier(s, u)
    BY DEF DeliveryInv, OrderInv, SentOrder
  <2>4. i \in Nat /\ j \in Nat
    BY DEF DeliveryInv, SrvInv
  <2> QED
    BY <2>1, <2>2, <2>3, <2>4 DEF Earlier
<1> QED
  BY <1>1, DeliveryHolds, PTL

-----------------------------------------------------------------------------
(* Nothing is lost.                                                         *)

\* Every connection but the last has failed, a link that is down has, and the
\* server has closed none that is still to come: the hub does not run out of them.
Fin(c) == c \in Conns /\ srv[c].fin
Down(h) == Count1(h.net = "down")
Needs(h) == IF h.st = "CLOSED" THEN h.port + Down(h) ELSE h.port - 1 + Down(h) + Count1(Fin(h.port))
ConnInv ==
  /\ fails \in Nat /\ fails <= MaxFails /\ Needs(hub) <= fails
  /\ hub.st # "CLOSED" => hub.port >= 1
  /\ \A c \in Conns : c > hub.port => ~srv[c].fin

LEMMA PortIsConn ==
  ASSUME Inv, ConnInv PROVE hub.port # 0 => hub.port \in Conns
<1>1. hub.port \in Nat /\ MaxFails \in Nat
  BY HubAssumption DEF Inv, HubOK, IsHub
<1>2. hub.port <= MaxFails + 1
  <2>1. Down(hub) \in {0, 1} /\ Count1(Fin(hub.port)) \in {0, 1}
    BY DEF Count1, Down
  <2> QED
    BY <1>1, <2>1 DEF ConnInv, Needs
<1> QED
  BY <1>1, <1>2 DEF Conns

LEMMA ActsConn ==
  ASSUME Inv, Inv', SrvInv, ConnInv, Acts, Account PROVE ConnInv'
<1>1. PICK h : Enters(h) /\ IsHub(h) /\ (hub' = h \/ hub' = HandlePkt(h))
  BY DEF Acts
<1>2. hub'.port = h.port /\ hub'.st = h.st /\ hub'.net = h.net
  BY <1>1 DEF HandlePkt, IsHub, Fields
<1>3. /\ hub.port \in Nat /\ hub'.port \in Nat /\ MaxFails \in Nat /\ fails \in Nat /\ srv' = srv
      /\ hub'.port \in {hub.port, hub.port + 1}
      /\ hub.st = "CLOSED" /\ hub'.port = hub.port => hub'.st = "CLOSED"
      /\ hub'.port = hub.port + 1 => hub'.st # "CLOSED"
      /\ hub'.net = "down" => hub.net \in {"down", "online"}
  BY <1>1, <1>2, HubAssumption DEF Inv, HubOK, IsHub, Enters, ConnInv, Account
<1> DEFINE lost == Count1(LosesConn)
           link == Count1(LosesLink)
           down == Down(hub)
           fin == Count1(Fin(hub.port))
<1>4. /\ lost \in {0, 1} /\ link \in {0, 1} /\ down \in {0, 1} /\ fin \in {0, 1}
      /\ fails' = fails + lost + link /\ fails' <= MaxFails
  BY DEF Count1, Account, Down
<1>5. Down(hub)' <= down + link
  BY <1>3 DEF Count1, Down, LosesLink
<1>6. hub.st # "CLOSED" /\ (hub'.st = "CLOSED" \/ hub'.port # hub.port) => lost + fin >= 1
  <2> SUFFICES ASSUME hub.st # "CLOSED", hub'.st = "CLOSED" \/ hub'.port # hub.port
               PROVE  LosesConn \/ Fin(hub.port)
    BY <1>4 DEF Count1
  <2>1. hub.port >= 1 /\ hub.port \in Conns
    BY <1>3, PortIsConn DEF ConnInv, Needs
  <2> QED
    BY <1>3, <2>1 DEF LosesConn, Server, Fin
<1>7. /\ hub'.port = hub.port => Count1(Fin(hub.port))' = fin
      /\ hub'.port = hub.port + 1 => Count1(Fin(hub.port))' = 0
  BY <1>3 DEF Fin, ConnInv, Count1
<1>8. Down(hub)' \in {0, 1}
  BY DEF Down, Count1
<1>9. IF hub.st = "CLOSED" THEN hub.port + down <= fails
      ELSE hub.port >= 1 /\ hub.port - 1 + down + fin <= fails
  BY DEF ConnInv, Needs
<1>10. \A c \in Conns : c > hub'.port => ~srv'[c].fin
  BY <1>3 DEF ConnInv, Conns
<1>11. fails' \in Nat /\ fails' <= MaxFails
  BY <1>3, <1>4
<1> HIDE DEF lost, link, down, fin
<1>12. IF hub'.st = "CLOSED" THEN hub'.port + Down(hub)' <= fails'
       ELSE hub'.port >= 1 /\ hub'.port - 1 + Down(hub)' + Count1(Fin(hub.port))' <= fails'
  <2>1. CASE hub'.st = "CLOSED"
    BY <1>3, <1>4, <1>5, <1>6, <1>8, <1>9, <2>1
  <2>2. CASE hub'.st # "CLOSED" /\ hub'.port = hub.port
    BY <1>3, <1>4, <1>5, <1>7, <1>8, <1>9, <2>2
  <2>3. CASE hub'.st # "CLOSED" /\ hub'.port = hub.port + 1
    BY <1>3, <1>4, <1>5, <1>6, <1>7, <1>8, <1>9, <2>3
  <2> QED
    BY <1>3, <2>1, <2>2, <2>3
<1> QED
  BY <1>10, <1>11, <1>12 DEF ConnInv, Needs

LEMMA StepConn ==
  ASSUME Inv, Inv', SrvInv, ConnInv, [Next]_vars PROVE ConnInv'
<1>1. hub.port \in Nat /\ MaxFails \in Nat /\ fails \in Nat /\ IsHub(hub)
  BY HubAssumption DEF Inv, HubOK, IsHub, ConnInv
<1>2. CASE Acts /\ Account
  BY <1>2, ActsConn
<1>3. CASE Reboot
  <2>1. hub'.st = "CLOSED" /\ hub'.port = hub.port /\ Down(hub)' = 0 /\ srv' = srv
    BY <1>3 DEF Reboot, Boot, Down, Count1
  <2>2. fails' \in Nat /\ fails' <= MaxFails /\ fails' = (IF hub.net = "down" THEN fails ELSE fails + 1)
    BY <1>1, <1>3 DEF Reboot
  <2>3. Needs(hub) <= fails /\ Count1(Fin(hub.port)) \in {0, 1}
    BY DEF ConnInv, Needs, Count1
  <2>4. hub.port <= fails'
    BY <1>1, <2>2, <2>3 DEF Needs, Down, Count1
  <2> QED
    BY <1>1, <2>1, <2>2, <2>4 DEF ConnInv, Needs
<1>4. CASE UNCHANGED <<hub, srv, fails>>
  BY <1>4 DEF ConnInv, Needs, Down, Fin
<1>5. ASSUME NEW c \in Conns, SrvOpens(c) \/ \E s \in sent : SrvTakes(c, s) PROVE ConnInv'
  <2>1. srv \in [Conns -> [open : BOOLEAN, fin : BOOLEAN, got : Seq(Bits), replies : Seq(Nat)]]
    BY DEF SrvInv
  <2>2. [srv[c] EXCEPT !.open = TRUE].fin = srv[c].fin
        /\ \A x, y : [srv[c] EXCEPT !.got = x, !.replies = y].fin = srv[c].fin
    BY <2>1
  <2>3. PICK s : srv' = [srv EXCEPT ![c] = s] /\ s.fin = srv[c].fin /\ hub' = hub /\ fails' = fails
    <3>1. CASE SrvOpens(c)
      BY <2>2, <3>1 DEF SrvOpens, ServerDoes
    <3>2. ASSUME NEW t \in sent, SrvTakes(c, t)
          PROVE  \E x, y : srv' = [srv EXCEPT ![c] = [srv[c] EXCEPT !.got = x, !.replies = y]]
                           /\ hub' = hub /\ fails' = fails
      BY <3>2 DEF SrvTakes, ServerDoes
    <3> QED
      BY <1>5, <2>2, <3>1, <3>2
  <2>4. \A e \in Conns : srv'[e].fin = srv[e].fin
    BY <2>1, <2>3
  <2> QED
    BY <2>3, <2>4 DEF ConnInv, Needs, Down, Fin
<1>6. ASSUME NEW c \in Conns, SrvCloses(c) PROVE ConnInv'
  <2>1. hub' = hub /\ fails' = fails + 1 /\ fails' <= MaxFails /\ c = hub.port /\ ~srv[c].fin
    BY <1>1, <1>6 DEF SrvCloses, ServerDoes
  <2>2. \A e \in Conns : e # c => srv'[e].fin = srv[e].fin
    BY <1>6 DEF SrvCloses, ServerDoes, SrvInv
  <2>3. Count1(Fin(hub.port)) = 0 /\ Count1(Fin(hub.port))' \in {0, 1} /\ Down(hub)' = Down(hub)
        /\ Down(hub) \in {0, 1}
    BY <2>1 DEF Fin, Count1, Down
  <2>4. Needs(hub)' <= fails'
    BY <1>1, <2>1, <2>3 DEF Needs, ConnInv
  <2>5. \A e \in Conns : e > hub'.port => ~srv'[e].fin
    BY <1>1, <2>1, <2>2 DEF ConnInv
  <2>6. hub'.st # "CLOSED" => hub'.port >= 1
    BY <2>1 DEF ConnInv
  <2> QED
    BY <1>1, <2>1, <2>4, <2>5, <2>6 DEF ConnInv
<1>7. MacRx \/ UNCHANGED vars => UNCHANGED <<hub, srv, fails>>
  BY DEF MacRx, vars
<1> QED
  BY <1>1, <1>2, <1>3, <1>4, <1>5, <1>6, <1>7, HubActs DEF Next, SrvNext

\* What the server has whole, it keeps.
LEMMA TookStays ==
  ASSUME SrvInv, [Next]_vars, NEW r, TookWhole(r) PROVE TookWhole(r)'
<1>1. PICK c \in Conns : \E s \in Range(srv[c].got) : s.req = r /\ IsWhole(s)
  BY DEF TookWhole
<1>2. PICK i \in DOMAIN srv[c].got : srv[c].got[i].req = r /\ IsWhole(srv[c].got[i])
  BY <1>1 DEF Range
<1>3. i \in DOMAIN srv'[c].got /\ srv'[c].got[i] = srv[c].got[i]
  <2>0. srv[c] \in [open : BOOLEAN, fin : BOOLEAN, got : Seq(Bits), replies : Seq(Nat)] /\ DOMAIN srv = Conns
    BY DEF SrvInv
  <2>1. CASE UNCHANGED srv
    BY <2>1
  <2>2. ASSUME NEW e \in Conns, SrvOpens(e) \/ SrvCloses(e) PROVE srv'[c].got = srv[c].got
    BY <2>0, <2>2 DEF SrvOpens, SrvCloses, ServerDoes
  <2>3. ASSUME NEW e \in Conns, NEW s \in sent, SrvTakes(e, s)
        PROVE  i \in DOMAIN srv'[c].got /\ srv'[c].got[i] = srv[c].got[i]
    <3>1. CASE e = c
      <4> DEFINE bit == [req |-> s.req, size |-> s.size]
      <4>1. srv'[c].got = Append(srv[c].got, bit)
        BY <2>0, <2>3, <3>1 DEF SrvTakes, ServerDoes
      <4>2. srv[c].got \in Seq(Bits \cup {bit})
        BY <2>0
      <4> HIDE DEF bit
      <4> QED
        BY <4>1, <4>2, AppendProperties
    <3>2. CASE e # c
      BY <2>0, <2>3, <3>2 DEF SrvTakes, ServerDoes
    <3> QED
      BY <3>1, <3>2
  <2>4. HubNext \/ UNCHANGED vars => UNCHANGED srv
    BY DEF HubNext, NetNothing, NetConfigured, NetLinkDown, NetAnswer, NetNoAnswer, NetSynAck, NetEnd, NetData,
       NetFin, MacRx, Second, Reboot, NetTick, Account, vars
  <2> QED
    BY <1>2, <2>1, <2>2, <2>3, <2>4 DEF Next, SrvNext
<1> QED
  BY <1>2, <1>3 DEF TookWhole, Range

\* An acknowledgement means that the server has taken what tcp_txbuf holds.
LEMMA AckedIsSent ==
  ASSUME Inv, SrvInv, ConnInv, AckedByServer
  PROVE  /\ Segment(hub) \in sent /\ hub.port \in Conns
         /\ \E i \in DOMAIN srv[hub.port].got :
              srv[hub.port].got[i].req = hub.txbuf /\ srv[hub.port].got[i].size = hub.out
<1>1. hub.out # None /\ hub.st = "ESTABLISHED" /\ hub.port >= 1 /\ hub.port \in Conns
      /\ hub.snd \in Nat /\ hub.port \in Nat
  BY PortIsConn DEF AckedByServer, Inv, HubOK, IsHub, Sending, ConnInv
<1> DEFINE got == srv[hub.port].got
           i == hub.snd + 1
<1>2. got \in Seq(Bits) /\ Len(got) > hub.snd
  BY <1>1 DEF AckedByServer, Server, SrvInv
<1>3. i \in DOMAIN got
  BY <1>1, <1>2
<1>4. PICK s \in sent : s.port = hub.port /\ s.seq = hub.snd /\ s.req = got[i].req /\ s.size = got[i].size
  <2>1. Carried(hub.port, i)
    BY <1>1, <1>3 DEF SrvInv
  <2>2. i - 1 = hub.snd
    BY <1>1
  <2> QED
    BY <2>1, <2>2 DEF Carried
<1>5. s = Segment(hub)
  BY <1>1, <1>4 DEF Inv, HubOK, NoneAhead
<1>6. s.req = hub.txbuf /\ s.size = hub.out
  BY <1>5 DEF Segment
<1> HIDE DEF i
<1> QED
  BY <1>1, <1>3, <1>4, <1>5, <1>6

LEMMA AckedIsTaken ==
  ASSUME Inv, OrderInv, SrvInv, ConnInv, Windows = {"whole"}, AckedByServer
  PROVE  TookWhole(hub.txbuf)
<1>1. PICK i \in DOMAIN srv[hub.port].got :
        srv[hub.port].got[i].req = hub.txbuf /\ srv[hub.port].got[i].size = hub.out
  BY AckedIsSent
<1>2. hub.port \in Conns /\ hub.out = "whole"
  BY AckedIsSent DEF OrderInv, OutInv, AckedByServer
<1>3. srv[hub.port].got[i] \in Range(srv[hub.port].got) /\ IsWhole(srv[hub.port].got[i])
  BY <1>1, <1>2 DEF Range, IsWhole
<1> QED
  BY <1>1, <1>2, <1>3 DEF TookWhole

\* NothingLost, of one packet.
Safe(r) == r \in Unknown \cup gone \cup Range(Held) \cup {hub.txbuf} \/ TookWhole(r)

LEMMA StepSafe ==
  ASSUME Inv, RingTypeOK, RingTypeOK', OrderInv, SrvInv, ConnInv, Windows = {"whole"}, [Next]_vars,
         NEW r, r # None, Safe(r)
  PROVE  Safe(r)'
<1>1. HeldFacts /\ HeldFacts' /\ IsHub(hub)
  BY HeldIsSeq, HeldIsSeqNext DEF Inv, HubOK
<1>2. CASE TookWhole(r)
  BY <1>2, TookStays DEF Safe
<1>3. CASE r \in Unknown
  BY <1>3 DEF Safe
<1>4. ASSUME Acts, Account, r \in gone \cup Range(Held) \cup {hub.txbuf} PROVE Safe(r)'
  <2>1. PICK h : /\ Enters(h) /\ IsHub(h)
                 /\ \/ hub' = h /\ UNCHANGED ring
                    \/ h.txbuf = None /\ Take /\ hub' = HandlePkt(h)
    BY <1>4 DEF Acts
  <2>2. CASE r \in gone
    BY <1>4, <2>2 DEF Account, Safe
  <2>3. CASE r \in Range(Held)
    <3>1. CASE UNCHANGED ring
      BY <2>3, <3>1, HeldSame DEF Safe
    <3>2. CASE Take /\ hub' = HandlePkt(h)
      <4>1. r = Oldest \/ r \in Range(Held')
        BY <1>1, <2>3, <3>2, TakeFacts
      <4>2. Oldest \in Unknown \/ hub'.txbuf = Oldest
        BY <2>1, <3>2 DEF HandlePkt, IsHub, Fields
      <4> QED
        BY <4>1, <4>2 DEF Safe
    <3> QED
      BY <2>1, <3>1, <3>2
  <2>4. CASE r = hub.txbuf /\ h.txbuf = hub.txbuf
    <3>1. hub' = h
      BY <2>1, <2>4
    <3> QED
      BY <2>4, <3>1 DEF Safe
  <2>5. CASE r = hub.txbuf /\ AckedByServer
    BY <2>5, AckedIsTaken, TookStays DEF Safe
  <2> QED
    BY <1>4, <2>1, <2>2, <2>3, <2>4, <2>5 DEF Enters
<1>5. ASSUME MacRx, r \in gone \cup Range(Held) \cup {hub.txbuf} PROVE Safe(r)'
  <2>1. Range(Held) \subseteq Range(Held') \cup (IF CMDPKT_ISFULL THEN {Oldest} ELSE {})
    BY <1>1, <1>5, IssuedIsPkt, PutFacts DEF MacRx
  <2>2. hub' = hub /\ gone \subseteq gone' /\ (CMDPKT_ISFULL => Oldest \in gone')
    BY <1>5 DEF MacRx
  <2> QED
    BY <1>5, <2>1, <2>2 DEF Safe
<1>6. ASSUME Reboot, r \in gone \cup Range(Held) \cup {hub.txbuf} PROVE Safe(r)'
  BY <1>6 DEF Reboot, Safe
<1>7. ASSUME UNCHANGED <<ring, hub, gone>>, r \in gone \cup Range(Held) \cup {hub.txbuf} PROVE Safe(r)'
  BY <1>7, HeldSame DEF Safe
<1>8. SrvNext \/ UNCHANGED vars => UNCHANGED <<ring, hub, gone>>
  BY DEF SrvNext, SrvOpens, SrvTakes, SrvCloses, ServerDoes, vars
<1> QED
  BY <1>1, <1>2, <1>3, <1>4, <1>5, <1>6, <1>7, <1>8, HubActs DEF Next, Safe

IssuedInv == 1..issued \subseteq Pkts
LossInv == ConnInv /\ IssuedInv /\ NothingLost

LEMMA NothingLostIs == NothingLost <=> \A r \in 1..issued : Safe(r)
BY DEF NothingLost, Safe

LEMMA StepLoss ==
  ASSUME DeliveryInv, DeliveryInv', LossInv, Windows = {"whole"}, [Next]_vars PROVE LossInv'
<1>0. /\ Inv /\ Inv' /\ RingTypeOK /\ RingTypeOK' /\ OrderInv /\ SrvInv /\ ConnInv /\ IssuedInv
      /\ \A r \in 1..issued : Safe(r)
  BY NothingLostIs DEF DeliveryInv, LossInv
<1>1. ConnInv'
  BY <1>0, StepConn
<1>2. ASSUME NEW r \in 1..issued PROVE Safe(r)'
  <2>1. r # None
    BY <1>0, HubAssumption DEF IssuedInv
  <2> QED
    BY <1>0, <2>1, StepSafe
<1>3. CASE MacRx
  <2>1. issued \in Nat /\ issued' = issued + 1 /\ issued' \in Pkts /\ Put(issued')
    BY <1>0, <1>3, IssuedIsPkt DEF Inv, MacRx
  <2>2. \A r \in 1..issued' : r \in 1..issued \/ r = issued'
    BY <2>1
  <2>3. Held' \in Seq(Entries) /\ Len(Held') \in Nat \ {0} /\ Held'[Len(Held')] = issued'
    BY <1>0, <2>1, HeldIsSeq, HeldIsSeqNext, PutFacts
  <2>4. issued' \in Range(Held')
    BY <2>3 DEF Range
  <2>5. \A r \in 1..issued' : Safe(r)'
    BY <1>2, <2>2, <2>4 DEF Safe
  <2>6. IssuedInv'
    BY <1>0, <2>1, <2>2 DEF IssuedInv
  <2> QED
    BY <1>1, <2>5, <2>6 DEF LossInv, NothingLost, Safe
<1>4. CASE issued' = issued
  BY <1>0, <1>1, <1>2, <1>4 DEF LossInv, NothingLost, Safe, IssuedInv
<1>5. MacRx \/ issued' = issued
  BY DEF Next, HubNext, SrvNext, SrvOpens, SrvTakes, SrvCloses, ServerDoes, vars, NetNothing, NetConfigured,
     NetLinkDown, NetAnswer, NetNoAnswer, NetSynAck, NetEnd, NetData, NetFin, NetTick, Second, Account, Reboot
<1> QED
  BY <1>3, <1>4, <1>5

\* Where the server's window admits whole requests, a packet the hub accepted is
\* waiting, at the server, or was dropped by a full ring or a restart.
THEOREM NothingIsLost == Windows = {"whole"} => (Spec => []NothingLost)
<1> SUFFICES ASSUME Windows = {"whole"} PROVE Spec => []NothingLost
  OBVIOUS
<1>1. Init => LossInv
  BY HubAssumption DEF Init, LossInv, ConnInv, Needs, Down, Count1, Boot, NoServer, IssuedInv, NothingLost, Conns
<1>2. DeliveryInv /\ DeliveryInv' /\ LossInv /\ [Next]_vars => LossInv'
  BY StepLoss
<1>3. LossInv => NothingLost
  BY DEF LossInv
<1> QED
  BY <1>1, <1>2, <1>3, DeliveryHolds, PTL DEF Spec

-----------------------------------------------------------------------------
(* Types, and the lines of the server.                                      *)

\* Whatever may still be sent on the connection comes after what was
\* acknowledged on it, so that packets bound sequence numbers.
Ahead(h) ==
  /\ h.snd <= issued
  /\ h.txbuf # None => h.snd < h.txbuf
  /\ \A i \in DOMAIN Held : h.snd < Held[i]
AheadInv == Ahead(hub) /\ \A s \in sent : s.seq < s.req

LEMMA EntersAhead ==
  ASSUME Inv, OrderInv, SrvInv, ConnInv, AheadInv, NEW h, IsHub(h), Enters(h)
  PROVE  Ahead(h)
<1>1. /\ hub.port \in Nat /\ hub.snd \in Nat /\ issued \in Nat
      /\ \A i \in DOMAIN Held : Held[i] \in 1..issued
      /\ hub.txbuf # None => hub.txbuf \in 1..issued
      /\ h.txbuf \in {hub.txbuf, None}
  BY DEF Inv, HubOK, IsHub, OrderInv, RingOrder, Behind, Enters
<1>2. CASE h.snd = hub.snd
  BY <1>1, <1>2 DEF AheadInv, Ahead
<1>3. CASE Advances(h)
  <2>1. /\ Segment(hub) \in sent
        /\ Segment(hub).seq = hub.snd /\ Segment(hub).req = hub.txbuf
    BY <1>3, AckedIsSent DEF Advances, Segment
  <2>2. /\ hub.snd < hub.txbuf /\ hub.txbuf \in 1..issued
        /\ \A i \in DOMAIN Held : hub.txbuf < Held[i]
    BY <2>1 DEF AheadInv, OrderInv, SentOrder
  <2> QED
    BY <1>1, <1>3, <2>2 DEF Ahead, Advances
<1>4. CASE h.snd = 0
  BY <1>1, <1>4 DEF Ahead
<1> QED
  BY <1>2, <1>3, <1>4 DEF Enters

LEMMA ActsAhead ==
  ASSUME Inv, Inv', RingTypeOK, RingTypeOK', HeldFacts, HeldFacts', OrderInv, SrvInv, ConnInv,
         AheadInv, Acts, Account
  PROVE  AheadInv'
<1>1. PICK h : /\ Enters(h) /\ IsHub(h)
               /\ \/ hub' = h /\ UNCHANGED ring
                  \/ h.txbuf = None /\ Take /\ hub' = HandlePkt(h)
  BY DEF Acts
<1>2. Ahead(h) /\ issued' = issued
  BY <1>1, EntersAhead DEF Account
<1>3. Ahead(hub)'
  <2>1. CASE hub' = h /\ UNCHANGED ring
    <3>1. Held' = Held
      BY <2>1, HeldSame
    <3> QED
      BY <1>2, <2>1, <3>1 DEF Ahead
  <2>2. CASE h.txbuf = None /\ Take /\ hub' = HandlePkt(h)
    <3>1. \A i \in DOMAIN Held' : i + 1 \in DOMAIN Held /\ Held'[i] = Held[i + 1]
      BY <2>2, TakeFacts
    <3>2. Oldest = Held[1] /\ 1 \in DOMAIN Held
      BY <2>2, OldestIsFirst DEF Take
    <3>3. hub'.snd = h.snd /\ hub'.txbuf \in {None, Oldest}
      BY <1>1, <2>2 DEF HandlePkt, IsHub, Fields
    <3> QED
      BY <1>2, <3>1, <3>2, <3>3 DEF Ahead
  <2> QED
    BY <1>1, <2>1, <2>2
<1>4. \A s \in sent' : s.seq < s.req
  <2>1. \A s \in sent' : s \in sent \/ (s = Segment(hub') /\ s.size # None)
    BY DEF Account, Transmit, Segment
  <2>2. hub'.out # None => Segment(hub').seq < Segment(hub').req
    BY <1>3 DEF Segment, Ahead, Inv, HubOK, Sending
  <2> QED
    BY <2>1, <2>2 DEF AheadInv, Segment
<1> QED
  BY <1>3, <1>4 DEF AheadInv

LEMMA MacRxAhead ==
  ASSUME Inv, RingTypeOK, RingTypeOK', HeldFacts, HeldFacts', AheadInv, MacRx
  PROVE  AheadInv'
<1>1. /\ issued \in Nat /\ issued' = issued + 1 /\ UNCHANGED <<hub, sent>> /\ Put(issued')
      /\ issued' \in Pkts /\ hub.snd \in Nat
  BY IssuedIsPkt DEF MacRx, Inv, HubOK, IsHub
<1>2. \A i \in DOMAIN Held' :
        Held'[i] = issued + 1 \/ \E j \in DOMAIN Held : Held'[i] = Held[j]
  BY <1>1, PutFacts
<1>3. \A i \in DOMAIN Held' : hub.snd < Held'[i]
  BY <1>1, <1>2 DEF AheadInv, Ahead
<1> QED
  BY <1>1, <1>3 DEF AheadInv, Ahead

LEMMA StepAhead ==
  ASSUME DeliveryInv, DeliveryInv', ConnInv, AheadInv, [Next]_vars PROVE AheadInv'
<1>1. HeldFacts /\ HeldFacts' /\ IsHub(hub)
  BY HeldIsSeq, HeldIsSeqNext DEF DeliveryInv, Inv, HubOK
<1>2. CASE Acts /\ Account
  BY <1>1, <1>2, ActsAhead DEF DeliveryInv
<1>3. CASE MacRx
  BY <1>1, <1>3, MacRxAhead DEF DeliveryInv
<1>4. CASE Reboot
  <2>1. DOMAIN Held' = {}
    BY <1>1, <1>4 DEF HeldFacts, Reboot, Restart, CMDPKT_ISEMPTY
  <2>2. hub'.snd = 0 /\ hub'.txbuf = None /\ UNCHANGED <<sent, issued>> /\ issued \in Nat
    BY <1>4 DEF Reboot, Boot, DeliveryInv, Inv
  <2> QED
    BY <2>1, <2>2 DEF AheadInv, Ahead
<1>5. CASE UNCHANGED <<ring, hub, sent, issued>>
  BY <1>5, HeldSame DEF AheadInv, Ahead
<1>6. SrvNext \/ UNCHANGED vars => UNCHANGED <<ring, hub, sent, issued>>
  BY DEF SrvNext, SrvOpens, SrvTakes, SrvCloses, ServerDoes, vars
<1> QED
  BY <1>1, <1>2, <1>3, <1>4, <1>5, <1>6, HubActs DEF Next

\* What the server has answered on c, in pieces.
Answered(c) == IF c \in Conns THEN 2 * Len(srv[c].replies) ELSE 0
RepliesOK ==
  \A c \in Conns :
    /\ srv[c].replies \in Seq(Pkts) /\ Len(srv[c].replies) <= Len(srv[c].got)

\* The rest of the hub's memory is within its types, and line.c holds what came
\* of a reply on the open connection: its first piece or nothing.
Typed(h) ==
  /\ IsHub(h)
  /\ h.net \in Nets /\ h.known \in BOOLEAN /\ h.txbuf \in Pkts \cup {None}
  /\ h.line \in Seq(Pieces) /\ h.st \in TcpStates /\ h.rcv \in Nat
LineOK(h) ==
  /\ Typed(h)
  /\ h.rcv <= Answered(h.port)
  /\ h.st = "SYN_SENT" => h.rcv = 0
  /\ h.st = "ESTABLISHED" => h.line = IF h.rcv % 2 = 1 THEN <<Piece(h.port, h.rcv)>> ELSE <<>>

\* Calls that leave line and rcv alone, and open no connection.
LEMMA SameLine ==
  ASSUME NEW h, LineOK(h), NEW g, Typed(g), g.line = h.line, g.rcv = h.rcv, g.port = h.port,
         g.st \in {h.st, "CLOSED", "LAST_ACK"}
  PROVE  LineOK(g)
BY DEF LineOK

LEMMA CallsLine ==
  ASSUME NEW h, LineOK(h)
  PROVE  /\ LineOK(Closed(h)) /\ LineOK(Disconnected(h)) /\ LineOK(Acked(h))
         /\ \A g \in SendData(h) : LineOK(g)
         /\ LineOK([h EXCEPT !.known = TRUE]) /\ LineOK([h EXCEPT !.asked = TRUE])
         /\ LineOK([h EXCEPT !.net = "online"])
         /\ LineOK(Disconnected([h EXCEPT !.net = "down"]))
         /\ LineOK(Disconnected([h EXCEPT !.st = "LAST_ACK", !.tcp = FALSE]))
<1>0. Typed(h) /\ IsHub(h) /\ DOMAIN h = Fields
  BY DEF LineOK, Typed, IsHub
<1>1. LineOK(Closed(h))
  <2> DEFINE g == Closed(h)
  <2>1. /\ g.net = h.net /\ g.known = h.known /\ g.txbuf = h.txbuf /\ g.line = h.line
        /\ g.st = "CLOSED" /\ g.rcv = h.rcv /\ g.port = h.port
    BY <1>0 DEF Closed, Disconnected, Fields
  <2>2. IsHub(g)
    BY <1>0 DEF Closed, Disconnected, IsHub, Fields
  <2>3. Typed(g)
    BY <1>0, <2>1, <2>2 DEF Typed, TcpStates
  <2> QED
    BY <2>1, <2>3, SameLine
<1>2. LineOK(Disconnected(h))
  <2> DEFINE g == Disconnected(h)
  <2>1. /\ g.net = h.net /\ g.known = h.known /\ g.txbuf = h.txbuf /\ g.line = h.line
        /\ g.st = h.st /\ g.rcv = h.rcv /\ g.port = h.port
    BY <1>0 DEF Disconnected, Fields
  <2>2. IsHub(g)
    BY <1>0 DEF Disconnected, IsHub, Fields
  <2>3. Typed(g)
    BY <1>0, <2>1, <2>2 DEF Typed
  <2> QED
    BY <2>1, <2>3, SameLine
<1>3. LineOK(Acked(h))
  <2> DEFINE g == Acked(h)
  <2>1. /\ g.net = h.net /\ g.known = h.known /\ g.txbuf = None /\ g.line = h.line
        /\ g.st = h.st /\ g.rcv = h.rcv /\ g.port = h.port
        /\ g.connected = h.connected /\ g.tcp = h.tcp /\ g.asked = h.asked /\ g.snd = h.snd + 1
    BY <1>0 DEF Acked, Fields
  <2>2. DOMAIN g = Fields /\ g = [f \in DOMAIN g |-> g[f]]
    BY <1>0 DEF Acked
  <2>3. IsHub(g)
    BY <1>0, <2>1, <2>2 DEF IsHub
  <2>4. Typed(g)
    BY <1>0, <2>1, <2>3 DEF Typed
  <2> QED
    BY <2>1, <2>4, SameLine
<1>4. ASSUME NEW w \in Windows PROVE LineOK([h EXCEPT !.out = w])
  <2> DEFINE g == [h EXCEPT !.out = w]
  <2>1. /\ g.net = h.net /\ g.known = h.known /\ g.txbuf = h.txbuf /\ g.line = h.line
        /\ g.st = h.st /\ g.rcv = h.rcv /\ g.port = h.port
    BY <1>0 DEF Fields
  <2>2. IsHub(g)
    BY <1>0 DEF IsHub, Fields
  <2>3. Typed(g)
    BY <1>0, <2>1, <2>2 DEF Typed
  <2> QED
    BY <2>1, <2>3, SameLine
<1>5. \A g \in SendData(h) : LineOK(g)
  BY <1>4 DEF SendData
<1>6. LineOK([h EXCEPT !.known = TRUE])
  <2> DEFINE g == [h EXCEPT !.known = TRUE]
  <2>1. /\ g.net = h.net /\ g.known = TRUE /\ g.txbuf = h.txbuf /\ g.line = h.line
        /\ g.st = h.st /\ g.rcv = h.rcv /\ g.port = h.port
    BY <1>0 DEF Fields
  <2>2. IsHub(g)
    BY <1>0 DEF IsHub, Fields
  <2>3. Typed(g)
    BY <1>0, <2>1, <2>2 DEF Typed
  <2> QED
    BY <2>1, <2>3, SameLine
<1>7. LineOK([h EXCEPT !.asked = TRUE])
  <2> DEFINE g == [h EXCEPT !.asked = TRUE]
  <2>1. /\ g.net = h.net /\ g.known = h.known /\ g.txbuf = h.txbuf /\ g.line = h.line
        /\ g.st = h.st /\ g.rcv = h.rcv /\ g.port = h.port
    BY <1>0 DEF Fields
  <2>2. IsHub(g)
    BY <1>0 DEF IsHub, Fields
  <2>3. Typed(g)
    BY <1>0, <2>1, <2>2 DEF Typed
  <2> QED
    BY <2>1, <2>3, SameLine
<1>8. LineOK([h EXCEPT !.net = "online"])
  <2> DEFINE g == [h EXCEPT !.net = "online"]
  <2>1. /\ g.net = "online" /\ g.known = h.known /\ g.txbuf = h.txbuf /\ g.line = h.line
        /\ g.st = h.st /\ g.rcv = h.rcv /\ g.port = h.port
    BY <1>0 DEF Fields
  <2>2. IsHub(g)
    BY <1>0 DEF IsHub, Fields
  <2>3. Typed(g)
    BY <1>0, <2>1, <2>2 DEF Typed, Nets
  <2> QED
    BY <2>1, <2>3, SameLine
<1>9. LineOK(Disconnected([h EXCEPT !.net = "down"]))
  <2> DEFINE g == Disconnected([h EXCEPT !.net = "down"])
  <2>1. /\ g.net = "down" /\ g.known = h.known /\ g.txbuf = h.txbuf /\ g.line = h.line
        /\ g.st = h.st /\ g.rcv = h.rcv /\ g.port = h.port
    BY <1>0 DEF Disconnected, Fields
  <2>2. IsHub(g)
    BY <1>0 DEF Disconnected, IsHub, Fields
  <2>3. Typed(g)
    BY <1>0, <2>1, <2>2 DEF Typed, Nets
  <2> QED
    BY <2>1, <2>3, SameLine
<1>10. LineOK(Disconnected([h EXCEPT !.st = "LAST_ACK", !.tcp = FALSE]))
  <2> DEFINE g == Disconnected([h EXCEPT !.st = "LAST_ACK", !.tcp = FALSE])
  <2>1. /\ g.net = h.net /\ g.known = h.known /\ g.txbuf = h.txbuf /\ g.line = h.line
        /\ g.st = "LAST_ACK" /\ g.rcv = h.rcv /\ g.port = h.port
    BY <1>0 DEF Disconnected, Fields
  <2>2. IsHub(g)
    BY <1>0 DEF Disconnected, IsHub, Fields
  <2>3. Typed(g)
    BY <1>0, <2>1, <2>2 DEF Typed, TcpStates
  <2> QED
    BY <2>1, <2>3, SameLine
<1> QED
  BY <1>1, <1>2, <1>3, <1>5, <1>6, <1>7, <1>8, <1>9, <1>10

\* uip_connect, after which nothing of the new connection has come.
LEMMA ResolvedLine == ASSUME NEW h, LineOK(h), RepliesOK, NEW found PROVE LineOK(Resolved(h, found))
<1>1. LineOK(Opened(h))
  <2> DEFINE g == Opened(h)
  <2>0. Typed(h) /\ DOMAIN h = Fields
    BY DEF LineOK, Typed, IsHub
  <2>1. /\ g.net = h.net /\ g.known = h.known /\ g.txbuf = h.txbuf /\ g.line = h.line
        /\ g.st = "SYN_SENT" /\ g.rcv = 0
    BY <2>0 DEF Opened, Fields
  <2>2. IsHub(g)
    <3>1. DOMAIN g = Fields /\ g = [f \in DOMAIN g |-> g[f]]
      BY <2>0 DEF Opened
    <3>2. /\ g.connected = h.connected /\ g.tcp = h.tcp /\ g.asked = h.asked
          /\ g.port = h.port + 1 /\ g.snd = 0
      BY <2>0 DEF Opened, Fields
    <3> QED
      BY <2>0, <3>1, <3>2 DEF Typed, IsHub
  <2>3. Typed(g)
    BY <2>0, <2>1, <2>2 DEF Typed, TcpStates
  <2>4. 0 <= Answered(g.port)
    BY DEF Answered, RepliesOK
  <2> HIDE DEF g
  <2>5. LineOK(g)
    BY <2>1, <2>3, <2>4 DEF LineOK
  <2> QED
    BY <2>5 DEF g
<1> QED
  BY <1>1, CallsLine DEF Resolved, Connect

\* A piece of a reply the server has given.
LEMMA PieceIs ==
  ASSUME RepliesOK, NEW c, NEW i \in Nat \ {0}, i <= Answered(c)
  PROVE  /\ Piece(c, i) \in Pieces
         /\ i % 2 = 1 => Piece(c, i).half = "first"
         /\ i % 2 # 1 => Piece(c, i).half = "second" /\ (i - 1) % 2 = 1 /\ Piece(c, i).req = Piece(c, i - 1).req
<1> DEFINE r == srv[c].replies
           k == (i + 1) \div 2
<1>1. c \in Conns /\ r \in Seq(Pkts) /\ i <= 2 * Len(r)
  BY DEF Answered, RepliesOK
<1>2. k \in 1..Len(r)
  BY <1>1
<1>3. r[k] \in Pkts
  BY <1>1, <1>2
<1>4. Piece(c, i) = [req |-> r[k], half |-> IF i % 2 = 1 THEN "first" ELSE "second"]
  BY DEF Piece
<1>5. i % 2 # 1 => (i - 1) % 2 = 1 /\ ((i - 1) + 1) \div 2 = k
  OBVIOUS
<1>6. Piece(c, i - 1).req = r[((i - 1) + 1) \div 2]
  BY DEF Piece
<1> HIDE DEF r, k
<1> QED
  BY <1>3, <1>4, <1>5, <1>6 DEF Pieces

LEMMA AppendToOne == ASSUME NEW S, NEW x \in S, NEW y \in S PROVE Append(<<x>>, y) = <<x, y>>
<1> DEFINE a == Append(<<x>>, y)
           b == <<x, y>>
<1>1. <<x>> \in Seq(S) /\ Len(<<x>>) = 1 /\ <<x>>[1] = x
  OBVIOUS
<1>2. a \in Seq(S) /\ Len(a) = 2 /\ a[1] = x /\ a[2] = y
  BY <1>1, AppendProperties
<1>3. b \in Seq(S) /\ Len(b) = 2 /\ b[1] = x /\ b[2] = y
  OBVIOUS
<1> HIDE DEF a, b
<1>4. \A i \in 1..2 : a[i] = b[i]
  BY <1>2, <1>3
<1>5. a = b
  BY <1>2, <1>3, <1>4, SeqEqual
<1> QED
  BY <1>5 DEF a, b

\* line_putc: it hands over the two pieces of one reply, or keeps the first.
LEMMA NewDataLine ==
  ASSUME NEW h, LineOK(h), RepliesOK, h.st = "ESTABLISHED", h.rcv + 1 <= Answered(h.port)
  PROVE  /\ LineOK(NewData(h))
         /\ LET p == Piece(h.port, h.rcv + 1)
            IN p \in Ends => /\ p.req \in Pkts
                             /\ Append(h.line, p) = <<[req |-> p.req, half |-> "first"],
                                                      [req |-> p.req, half |-> "second"]>>
<1> DEFINE p == Piece(h.port, h.rcv + 1)
           g == NewData(h)
<1>0. Typed(h) /\ DOMAIN h = Fields /\ h.rcv \in Nat /\ h.port \in Nat
  BY DEF LineOK, Typed, IsHub
<1>1. /\ p \in Pieces
      /\ (h.rcv + 1) % 2 = 1 => p.half = "first"
      /\ (h.rcv + 1) % 2 # 1 => p.half = "second" /\ h.rcv % 2 = 1 /\ p.req = Piece(h.port, h.rcv).req
  BY <1>0, PieceIs
<1>2. (h.rcv + 1) % 2 = 1 => h.rcv % 2 # 1
  BY <1>0
<1>3. /\ h.line \in Seq(Pieces)
      /\ h.line = IF h.rcv % 2 = 1 THEN <<Piece(h.port, h.rcv)>> ELSE <<>>
  BY <1>0 DEF LineOK, Typed
<1>4. /\ g.net = h.net /\ g.known = h.known /\ g.txbuf = h.txbuf
      /\ g.line = (IF p.half = "second" THEN <<>> ELSE Append(h.line, p))
      /\ g.st = h.st /\ g.rcv = h.rcv + 1 /\ g.port = h.port
  BY <1>0 DEF NewData, Fields
<1>5. IsHub(g)
  BY <1>0 DEF Typed, NewData, IsHub, Fields
<1> HIDE DEF p, g
<1>6. g.line = IF g.rcv % 2 = 1 THEN <<p>> ELSE <<>>
  <2>1. CASE (h.rcv + 1) % 2 = 1
    <3>1. h.line = <<>> /\ g.line = Append(h.line, p)
      BY <1>1, <1>2, <1>3, <1>4, <2>1
    <3>2. Append(<<>>, p) = <<p>>
      OBVIOUS
    <3> QED
      BY <1>4, <2>1, <3>1, <3>2
  <2>2. CASE (h.rcv + 1) % 2 # 1
    BY <1>1, <1>4, <2>2
  <2> QED
    BY <2>1, <2>2
<1>7. g.line \in Seq(Pieces)
  BY <1>1, <1>6
<1>8. Typed(g)
  BY <1>0, <1>4, <1>5, <1>7 DEF Typed
<1>9. LineOK(g)
  BY <1>0, <1>4, <1>6, <1>8 DEF LineOK, p
<1>10. ASSUME p \in Ends
       PROVE  /\ p.req \in Pkts
              /\ Append(h.line, p) = <<[req |-> p.req, half |-> "first"],
                                       [req |-> p.req, half |-> "second"]>>
  <2> DEFINE q == Piece(h.port, h.rcv)
  <2>1. p.half = "second" /\ p.req \in Pkts /\ p = [req |-> p.req, half |-> "second"]
    BY <1>10 DEF Ends
  <2>2. h.rcv % 2 = 1 /\ p.req = q.req
    BY <1>1, <2>1
  <2>3. q = [req |-> q.req, half |-> "first"]
    BY <2>2 DEF Piece
  <2> HIDE DEF q
  <2>4. h.line = <<q>>
    BY <1>3, <2>2 DEF q
  <2>5. Append(<<q>>, p) = <<q, p>>
    <3>1. q \in {q, p} /\ p \in {q, p}
      OBVIOUS
    <3> QED
      BY <3>1, AppendToOne
  <2> QED
    BY <2>1, <2>2, <2>3, <2>4, <2>5
<1> QED
  BY <1>9, <1>10 DEF p, g

\* What an action leaves in the hub's memory.
LEMMA PeriodicLine ==
  ASSUME NEW h, LineOK(h), NEW g \in Periodic(h) PROVE LineOK(g)
BY CallsLine DEF Periodic

LEMMA OldestIsPkt ==
  ASSUME RingTypeOK, RingOrder, IssuedInv, ~CMDPKT_ISEMPTY PROVE Oldest \in Pkts
BY OldestIsFirst DEF RingOrder, IssuedInv

LEMMA HandlePktLine ==
  ASSUME NEW h, LineOK(h), Oldest \in Pkts PROVE LineOK(HandlePkt(h))
<1> DEFINE g == [h EXCEPT !.txbuf = Oldest]
<1>0. Typed(h) /\ IsHub(h)
  BY DEF LineOK, Typed
<1>1. /\ g.net = h.net /\ g.known = h.known /\ g.txbuf = Oldest /\ g.line = h.line
      /\ g.st = h.st /\ g.rcv = h.rcv /\ g.port = h.port
  BY <1>0 DEF IsHub, Fields
<1>2. IsHub(g)
  BY <1>0 DEF IsHub, Fields
<1>3. Typed(g)
  BY <1>0, <1>1, <1>2 DEF Typed
<1>4. LineOK(g)
  BY <1>1, <1>3, SameLine
<1> QED
  BY <1>4 DEF HandlePkt

LEMMA NetTickLine ==
  ASSUME RingTypeOK, RingOrder, IssuedInv, NEW S, \A h \in S : LineOK(h), NetTick(S)
  PROVE  LineOK(hub')
<1>1. PICK h1 \in S : \E h \in TcpTick(h1) :
        hub' = h \/ (~CMDPKT_ISEMPTY /\ hub' = HandlePkt(h))
  BY DEF NetTick
<1>2. PICK h \in TcpTick(h1) : hub' = h \/ (~CMDPKT_ISEMPTY /\ hub' = HandlePkt(h))
  BY <1>1
<1>3. LineOK(h)
  BY <1>1, <1>2, PeriodicLine DEF TcpTick
<1> QED
  BY <1>2, <1>3, OldestIsPkt, HandlePktLine

LEMMA AfterLine ==
  ASSUME LineOK(hub), RepliesOK, hub.st = "ESTABLISHED", NEW n \in 0..1, NEW ack \in BOOLEAN,
         hub.rcv + n <= Answered(hub.port)
  PROVE  LineOK(AfterData(AfterAck(ack), n))
<1> DEFINE a == AfterAck(ack)
<1>1. LineOK(a) /\ a.st = hub.st /\ a.rcv = hub.rcv /\ a.port = hub.port
  <2>1. CASE ack
    <3>1. a = Acked(hub) /\ DOMAIN hub = Fields
      BY <2>1 DEF AfterAck, LineOK, Typed, IsHub
    <3>2. LineOK(Acked(hub))
      BY CallsLine
    <3> QED
      BY <3>1, <3>2 DEF Acked, Fields
  <2>2. CASE ~ack
    BY <2>2 DEF AfterAck
  <2> QED
    BY <2>1, <2>2
<1> HIDE DEF a
<1>2. n = 1 => LineOK(NewData(a))
  BY <1>1, NewDataLine
<1> QED
  BY <1>1, <1>2 DEF AfterData, a

LEMMA SynAckLine ==
  ASSUME LineOK(hub), hub.st = "SYN_SENT", NEW h \in SendData([hub EXCEPT !.st = "ESTABLISHED"])
  PROVE  LineOK(Connected([h EXCEPT !.tcp = TRUE]))
<1> DEFINE e == [hub EXCEPT !.st = "ESTABLISHED"]
           g == Connected([h EXCEPT !.tcp = TRUE])
<1>0. Typed(hub) /\ IsHub(hub) /\ hub.rcv = 0 /\ hub.rcv <= Answered(hub.port)
  BY DEF LineOK, Typed
<1>1. /\ IsHub(e) /\ e.net = hub.net /\ e.known = hub.known /\ e.txbuf = hub.txbuf
      /\ e.st = "ESTABLISHED" /\ e.rcv = hub.rcv /\ e.port = hub.port
  BY <1>0 DEF IsHub, Fields
<1>2. h \in SendData(e)
  OBVIOUS
<1> HIDE DEF e
<1>3. h = e \/ \E w \in Windows : h = [e EXCEPT !.out = w]
  BY <1>2 DEF SendData
<1>4. /\ IsHub(h) /\ h.net = hub.net /\ h.known = hub.known /\ h.txbuf = hub.txbuf
      /\ h.st = "ESTABLISHED" /\ h.rcv = hub.rcv /\ h.port = hub.port
  <2>1. CASE h = e
    BY <1>1, <2>1
  <2>2. ASSUME NEW w \in Windows, h = [e EXCEPT !.out = w]
        PROVE  /\ IsHub(h) /\ h.net = hub.net /\ h.known = hub.known /\ h.txbuf = hub.txbuf
               /\ h.st = "ESTABLISHED" /\ h.rcv = hub.rcv /\ h.port = hub.port
    BY <1>1, <2>2 DEF IsHub, Fields
  <2> QED
    BY <1>3, <2>1, <2>2
<1>5. /\ IsHub(g) /\ g.net = hub.net /\ g.known = hub.known /\ g.txbuf = hub.txbuf
      /\ g.st = "ESTABLISHED" /\ g.rcv = 0 /\ g.port = hub.port /\ g.line = <<>>
  BY <1>0, <1>4 DEF Connected, IsHub, Fields
<1> HIDE DEF g
<1>6. Typed(g)
  BY <1>0, <1>5 DEF Typed, TcpStates
<1>7. LineOK(g)
  BY <1>0, <1>5, <1>6 DEF LineOK
<1> QED
  BY <1>7 DEF g

LEMMA BootLine == ASSUME LineOK(hub), RepliesOK PROVE LineOK(Boot(hub.port))
<1> DEFINE g == Boot(hub.port)
<1>1. hub.port \in Nat /\ Answered(hub.port) >= 0
  BY DEF LineOK, Typed, IsHub, Answered, RepliesOK
<1>2. IsHub(g)
  BY <1>1 DEF Boot, IsHub, Fields
<1>3. Typed(g)
  BY <1>2 DEF Typed, Boot, Nets, TcpStates
<1> QED
  BY <1>1, <1>3 DEF LineOK, Boot

-----------------------------------------------------------------------------
\* The lines given to line_rx so far.
LinesInv == LineOK(hub) /\ LinesWhole

LEMMA IssuedStays == ASSUME DeliveryInv, IssuedInv, [Next]_vars PROVE IssuedInv'
<1>1. MacRx \/ issued' = issued
  BY DEF Next, HubNext, SrvNext, SrvOpens, SrvTakes, SrvCloses, ServerDoes, vars, NetNothing, NetConfigured,
     NetLinkDown, NetAnswer, NetNoAnswer, NetSynAck, NetEnd, NetData, NetFin, NetTick, Second, Account, Reboot
<1>2. MacRx => issued \in Nat /\ issued' = issued + 1 /\ issued' \in Pkts
  BY IssuedIsPkt DEF DeliveryInv, Inv, MacRx
<1> QED
  BY <1>1, <1>2 DEF IssuedInv

\* Every reply is to a packet of the hub, and none is taken back.
LEMMA RepliesGrow ==
  ASSUME DeliveryInv, IssuedInv, RepliesOK, [Next]_vars
  PROVE  /\ RepliesOK'
         /\ \A c \in Conns : /\ Len(srv[c].replies) <= Len(srv'[c].replies)
                             /\ \A i \in 1 .. Len(srv[c].replies) : srv'[c].replies[i] = srv[c].replies[i]
<1>1. CASE UNCHANGED srv
  BY <1>1 DEF RepliesOK
<1>2. srv \in [Conns -> [open : BOOLEAN, fin : BOOLEAN, got : Seq(Bits), replies : Seq(Nat)]]
  BY DEF DeliveryInv, SrvInv
<1>3. ASSUME NEW e \in Conns, SrvOpens(e) \/ SrvCloses(e)
      PROVE  \A c \in Conns : srv'[c].got = srv[c].got /\ srv'[c].replies = srv[c].replies
  <2>1. PICK t \in {[srv[e] EXCEPT !.open = TRUE], [srv[e] EXCEPT !.fin = TRUE]} : srv' = [srv EXCEPT ![e] = t]
    BY <1>3 DEF SrvOpens, SrvCloses, ServerDoes
  <2>2. t.got = srv[e].got /\ t.replies = srv[e].replies
    BY <1>2, <2>1
  <2> QED
    BY <1>2, <2>1, <2>2
<1>4. ASSUME NEW e \in Conns, NEW s \in sent, SrvTakes(e, s)
      PROVE  /\ \A c \in Conns : c # e => srv'[c].got = srv[c].got /\ srv'[c].replies = srv[c].replies
             /\ srv'[e].got = Append(srv[e].got, [req |-> s.req, size |-> s.size])
             /\ srv'[e].replies \in {srv[e].replies, Append(srv[e].replies, s.req)}
  BY <1>2, <1>4 DEF SrvTakes, ServerDoes
<1>5. ASSUME NEW e \in Conns, NEW s \in sent, SrvTakes(e, s)
      PROVE  /\ srv'[e].replies \in Seq(Pkts) /\ Len(srv'[e].replies) <= Len(srv'[e].got)
             /\ Len(srv[e].replies) <= Len(srv'[e].replies)
             /\ \A i \in 1 .. Len(srv[e].replies) : srv'[e].replies[i] = srv[e].replies[i]
  <2> DEFINE r == srv[e].replies
             g == srv[e].got
             r1 == srv'[e].replies
             g1 == srv'[e].got
             bit == [req |-> s.req, size |-> s.size]
  <2>0. s.req \in Pkts /\ bit \in Bits
    BY DEF DeliveryInv, OrderInv, SentOrder, IssuedInv, Bits
  <2>a. r \in Seq(Pkts) /\ Len(r) <= Len(g)
    BY DEF RepliesOK
  <2>b. g \in Seq(Bits)
    BY <1>2
  <2>1. /\ r \in Seq(Pkts) /\ Len(r) <= Len(g) /\ g \in Seq(Bits)
        /\ s.req \in Pkts /\ bit \in Bits
    BY <2>0, <2>a, <2>b
  <2>2. g1 = Append(g, bit) /\ r1 \in {r, Append(r, s.req)}
    BY <1>4, <1>5
  <2> HIDE DEF r, g, r1, g1, bit
  <2>3. Len(g1) = Len(g) + 1 /\ Len(g) \in Nat /\ Len(r) \in Nat
    BY <2>1, <2>2, AppendProperties
  <2>4. r1 \in Seq(Pkts) /\ Len(r1) \in {Len(r), Len(r) + 1} /\ \A i \in 1 .. Len(r) : r1[i] = r[i]
    <3>1. CASE r1 = r
      BY <2>1, <3>1
    <3>2. CASE r1 = Append(r, s.req)
      BY <2>1, <3>2, AppendProperties
    <3> QED
      BY <2>2, <3>1, <3>2
  <2>5. r1 \in Seq(Pkts) /\ Len(r1) <= Len(g1) /\ Len(r) <= Len(r1) /\ \A i \in 1 .. Len(r) : r1[i] = r[i]
    BY <2>1, <2>3, <2>4
  <2> QED
    BY <2>5 DEF r, g, r1, g1
<1>6. HubNext \/ UNCHANGED vars => UNCHANGED srv
  BY DEF HubNext, NetNothing, NetConfigured, NetLinkDown, NetAnswer, NetNoAnswer, NetSynAck, NetEnd, NetData,
     NetFin, MacRx, Second, Reboot, NetTick, Account, vars
<1>7. \A c \in Conns : Len(srv[c].replies) \in Nat
  BY DEF RepliesOK
<1>8. ASSUME NEW e \in Conns, SrvOpens(e) \/ SrvCloses(e) PROVE RepliesOK'
  BY <1>3, <1>8 DEF RepliesOK
<1>9. ASSUME NEW e \in Conns, NEW s \in sent, SrvTakes(e, s) PROVE RepliesOK'
  BY <1>4, <1>5, <1>9 DEF RepliesOK
<1>10. ASSUME NEW c \in Conns
       PROVE  /\ Len(srv[c].replies) <= Len(srv'[c].replies)
              /\ \A i \in 1 .. Len(srv[c].replies) : srv'[c].replies[i] = srv[c].replies[i]
  <2>1. CASE srv'[c].replies = srv[c].replies
    BY <1>7, <2>1
  <2>2. ASSUME NEW s \in sent, SrvTakes(c, s)
        PROVE  /\ Len(srv[c].replies) <= Len(srv'[c].replies)
               /\ \A i \in 1 .. Len(srv[c].replies) : srv'[c].replies[i] = srv[c].replies[i]
    BY <1>5, <2>2
  <2>3. ASSUME NEW e \in Conns, e # c, NEW s \in sent, SrvTakes(e, s)
        PROVE  srv'[c].replies = srv[c].replies
    BY <1>4, <2>3
  <2> QED
    BY <1>3, <1>6, <2>1, <2>2, <2>3 DEF Next, SrvNext
<1> QED
  BY <1>1, <1>6, <1>8, <1>9, <1>10 DEF Next, SrvNext

\* line.c's reply is still there when the server gives more.
LEMMA LineGrows ==
  ASSUME LineOK(hub), RepliesOK, hub' = hub,
         \A c \in Conns : /\ srv'[c].replies \in Seq(Pkts)
                          /\ Len(srv[c].replies) <= Len(srv'[c].replies)
                          /\ \A i \in 1 .. Len(srv[c].replies) : srv'[c].replies[i] = srv[c].replies[i]
  PROVE  LineOK(hub)'
<1>1. Typed(hub) /\ hub.rcv \in Nat /\ hub.rcv <= Answered(hub.port)
  BY DEF LineOK, Typed
<1>2. Typed(hub)'
  BY <1>1 DEF Typed, IsHub
<1>3. hub'.rcv <= Answered(hub.port)'
  BY <1>1 DEF Answered, RepliesOK
<1>4. ASSUME hub.rcv % 2 = 1 PROVE Piece(hub.port, hub.rcv)' = Piece(hub.port, hub.rcv)
  <2>1. hub.port \in Conns /\ hub.rcv <= 2 * Len(srv[hub.port].replies) /\ Len(srv[hub.port].replies) \in Nat
    BY <1>1, <1>4 DEF Answered, RepliesOK
  <2>2. (hub.rcv + 1) \div 2 \in 1 .. Len(srv[hub.port].replies)
    BY <1>1, <1>4, <2>1
  <2> QED
    BY <2>1, <2>2 DEF Piece
<1> QED
  BY <1>2, <1>3, <1>4 DEF LineOK

LEMMA FromServerIs == ASSUME Inv, ConnInv PROVE FromServer = Answered(hub.port)
<1>1. hub.port = 0 \/ hub.port \in Conns
  BY PortIsConn
<1>2. 0 \notin Conns
  BY HubAssumption DEF Conns
<1> QED
  BY <1>1, <1>2 DEF FromServer, Server, NoServer, Answered

LEMMA ReadWhole ==
  ASSUME LineOK(hub), LinesWhole, RepliesOK, hub.st = "ESTABLISHED", NEW n \in 0..1,
         hub.rcv + n <= Answered(hub.port), ReadLine(n)
  PROVE  LinesWhole'
<1> DEFINE p == Piece(hub.port, hub.rcv + 1)
<1>1. \A l \in read' : l \in read \/ (n = 1 /\ p \in Ends /\ l = Append(hub.line, p))
  BY DEF ReadLine
<1>2. n = 1 /\ p \in Ends => \E r \in Pkts : Append(hub.line, p) =
                               <<[req |-> r, half |-> "first"], [req |-> r, half |-> "second"]>>
  BY NewDataLine
<1> HIDE DEF p
<1> QED
  BY <1>1, <1>2 DEF LinesWhole

LEMMA HubLines ==
  ASSUME DeliveryInv, ConnInv, IssuedInv, RepliesOK, LinesInv, HubNext
  PROVE  LineOK(hub') /\ LinesWhole'
<1>0. /\ Inv /\ RingTypeOK /\ RingOrder /\ LineOK(hub) /\ LinesWhole /\ FromServer = Answered(hub.port)
      /\ hub.rcv \in Nat /\ IsHub(hub)
  BY FromServerIs DEF DeliveryInv, OrderInv, LinesInv, LineOK, Typed
<1>a. Quiet => LinesWhole'
  BY <1>0 DEF Quiet, LinesWhole
<1>1. CASE NetNothing
  BY <1>0, <1>a, <1>1, NetTickLine DEF NetNothing
<1>2. CASE NetConfigured
  <2>1. LineOK([hub EXCEPT !.net = "online"])
    BY <1>0, CallsLine
  <2> QED
    BY <1>0, <1>a, <1>2, <2>1, NetTickLine DEF NetConfigured
<1>3. CASE NetLinkDown
  <2>1. LineOK(Disconnected([hub EXCEPT !.net = "down"]))
    BY <1>0, CallsLine
  <2> QED
    BY <1>0, <1>a, <1>3, <2>1, NetTickLine DEF NetLinkDown
<1>4. CASE NetAnswer
  <2>1. LineOK(Resolved([hub EXCEPT !.known = TRUE], TRUE))
    BY <1>0, CallsLine, ResolvedLine
  <2> QED
    BY <1>0, <1>a, <1>4, <2>1, NetTickLine DEF NetAnswer
<1>5. CASE NetNoAnswer
  <2>1. \A found : LineOK(Resolved(hub, found))
    BY <1>0, ResolvedLine
  <2> QED
    BY <1>0, <1>a, <1>5, <2>1, NetTickLine DEF NetNoAnswer
<1>6. CASE NetSynAck
  <2>1. \A h \in SendData([hub EXCEPT !.st = "ESTABLISHED"]) : LineOK(Connected([h EXCEPT !.tcp = TRUE]))
    BY <1>0, <1>6, SynAckLine DEF NetSynAck
  <2> QED
    BY <1>0, <1>a, <1>6, <2>1, NetTickLine DEF NetSynAck
<1>7. CASE NetEnd
  <2>1. LineOK(Closed(hub))
    BY <1>0, CallsLine
  <2> QED
    BY <1>0, <1>a, <1>7, <2>1, NetTickLine DEF NetEnd
<1>8. ASSUME NEW n \in 0..1, NEW ack \in BOOLEAN, NetData(n, ack) PROVE LineOK(hub') /\ LinesWhole'
  <2> DEFINE d == AfterData(AfterAck(ack), n)
  <2>1. LineOK(d) /\ LinesWhole'
    BY <1>0, <1>8, AfterLine, ReadWhole DEF NetData
  <2> HIDE DEF d
  <2>2. \A g \in SendData(d) : LineOK(g)
    BY <2>1, CallsLine
  <2> QED
    BY <1>0, <1>8, <2>1, <2>2, NetTickLine DEF NetData, d
<1>9. ASSUME NEW n \in 0..1, NEW ack \in BOOLEAN, NetFin(n, ack) PROVE LineOK(hub') /\ LinesWhole'
  <2> DEFINE d == AfterData(AfterAck(ack), n)
  <2>0. hub.st = "ESTABLISHED" /\ hub.rcv + n <= Answered(hub.port) /\ ReadLine(n)
    BY <1>0, <1>9 DEF NetFin, Last, FromServer, Answered, RepliesOK
  <2>1. LineOK(d) /\ LinesWhole'
    BY <1>0, <2>0, AfterLine, ReadWhole
  <2> HIDE DEF d
  <2>2. LineOK(Disconnected([d EXCEPT !.st = "LAST_ACK", !.tcp = FALSE]))
    BY <2>1, CallsLine
  <2> QED
    BY <1>0, <1>9, <2>1, <2>2, NetTickLine DEF NetFin, d
<1>10. CASE Second
  <2>1. PICK h \in Periodic(hub) : hub' \in App1Hz(h)
    BY <1>10 DEF Second
  <2>2. LineOK(h) /\ LineOK([h EXCEPT !.asked = TRUE])
    BY <1>0, <2>1, PeriodicLine, CallsLine
  <2>3. LineOK(Resolved([h EXCEPT !.asked = TRUE], TRUE))
    BY <2>2, ResolvedLine
  <2>4. LineOK(hub')
    BY <2>1, <2>2, <2>3 DEF App1Hz, Query
  <2> QED
    BY <1>a, <1>10, <2>4 DEF Second
<1>11. CASE Reboot
  BY <1>0, <1>11, BootLine DEF Reboot, LinesWhole
<1>12. CASE MacRx
  BY <1>0, <1>12 DEF MacRx, LinesWhole
<1> QED
  BY <1>1, <1>2, <1>3, <1>4, <1>5, <1>6, <1>7, <1>8, <1>9, <1>10, <1>11, <1>12 DEF HubNext

LEMMA StepLines ==
  ASSUME DeliveryInv, ConnInv, IssuedInv, RepliesOK, RepliesOK', LinesInv, [Next]_vars
  PROVE  LinesInv'
<1>1. CASE HubNext
  <2>1. srv' = srv
    BY <1>1 DEF HubNext, NetNothing, NetConfigured, NetLinkDown, NetAnswer, NetNoAnswer, NetSynAck, NetEnd,
       NetData, NetFin, MacRx, Second, Reboot, NetTick, Account
  <2>2. LineOK(hub') /\ LinesWhole'
    BY <1>1, HubLines
  <2>3. LineOK(hub)'
    BY <2>1, <2>2 DEF LineOK, Typed, IsHub, Answered, Piece
  <2> QED
    BY <2>2, <2>3 DEF LinesInv
<1>2. CASE SrvNext \/ UNCHANGED vars
  <2>1. hub' = hub /\ read' = read
    BY <1>2 DEF SrvNext, SrvOpens, SrvTakes, SrvCloses, ServerDoes, vars
  <2>2. LineOK(hub)'
    BY <2>1, RepliesGrow, LineGrows DEF LinesInv, RepliesOK
  <2> QED
    BY <2>1, <2>2 DEF LinesInv, LinesWhole
<1> QED
  BY <1>1, <1>2 DEF Next

\* The invariant behind LinesWhole and TypeOK.
ServedInv == ConnInv /\ IssuedInv /\ AheadInv /\ RepliesOK /\ LinesInv

LEMMA ServedHolds == Spec => [](DeliveryInv /\ ServedInv)
<1>1. Init => ServedInv
  <2> SUFFICES ASSUME Init PROVE ServedInv
    OBVIOUS
  <2>1. ConnInv /\ IssuedInv
    <3>1. ConnInv
      BY HubAssumption DEF Init, ConnInv, Needs, Down, Count1, Boot, NoServer, Conns
    <3>2. 1..issued = {}
      BY DEF Init
    <3> QED
      BY <3>1, <3>2 DEF IssuedInv
  <2>2. RepliesOK
    <3>1. \A c \in Conns : srv[c].replies = <<>> /\ srv[c].got = <<>>
      BY DEF Init, NoServer
    <3>2. <<>> \in Seq(Pkts) /\ Len(<<>>) <= Len(<<>>)
      OBVIOUS
    <3> QED
      BY <3>1, <3>2 DEF RepliesOK
  <2>3. DOMAIN Held = {}
    <3>1. RingTypeOK
      BY RingAssumption DEF Init, RingInit, RingTypeOK, Indices
    <3> QED
      BY <3>1, HeldIsSeq DEF HeldFacts, Init, RingInit, CMDPKT_ISEMPTY
  <2>4. AheadInv
    BY <2>3 DEF Init, Boot, AheadInv, Ahead
  <2>5. LineOK(hub)
    <3>1. IsHub(Boot(0)) /\ Boot(0).line \in Seq(Pieces)
      BY DEF Boot, IsHub, Fields
    <3>2. Typed(Boot(0))
      BY <3>1 DEF Typed, Boot, Nets, TcpStates
    <3>3. Answered(0) = 0
      BY HubAssumption DEF Answered, Conns
    <3> QED
      BY <3>2, <3>3 DEF Init, LineOK, Boot
  <2>6. LinesWhole
    BY DEF Init, LinesWhole
  <2> QED
    BY <2>1, <2>2, <2>4, <2>5, <2>6 DEF ServedInv, LinesInv
<1>2. DeliveryInv /\ DeliveryInv' /\ ServedInv /\ [Next]_vars => ServedInv'
  <2> SUFFICES ASSUME DeliveryInv, DeliveryInv', ServedInv, [Next]_vars PROVE ServedInv'
    OBVIOUS
  <2>1. ConnInv'
    BY StepConn DEF DeliveryInv, ServedInv
  <2>2. IssuedInv' /\ RepliesOK'
    BY IssuedStays, RepliesGrow DEF ServedInv
  <2>3. AheadInv' /\ LinesInv'
    BY <2>2, StepAhead, StepLines DEF ServedInv
  <2> QED
    BY <2>1, <2>2, <2>3 DEF ServedInv
<1> QED
  BY <1>1, <1>2, DeliveryHolds, PTL DEF Spec

\* line_rx sees whole replies only, however the connection is lost between the
\* pieces of one and whatever the server has answered by then.
THEOREM LinesAreWhole == Spec => []LinesWhole
BY ServedHolds, PTL DEF ServedInv, LinesInv

\* What a restart or a full ring drops was a packet.
GoneInv == gone \subseteq Pkts /\ sent \subseteq Segments

LEMMA InPkts ==
  ASSUME DeliveryInv, ServedInv
  PROVE  /\ Cardinality(Pkts) \in Nat /\ issued \in 0..Cardinality(Pkts)
         /\ Pkts = 1..Cardinality(Pkts)
         /\ Range(Held) \subseteq Pkts /\ hub.txbuf \in Pkts \cup {None}
         /\ ~CMDPKT_ISEMPTY => Oldest \in Pkts
<1>1. Cardinality(Pkts) \in Nat /\ Pkts = 1..Cardinality(Pkts)
  BY HubAssumption, FS_CardinalityType
<1>2. issued \in Nat /\ 1..issued \subseteq Pkts
  BY DEF DeliveryInv, Inv, ServedInv, IssuedInv
<1>3. issued <= Cardinality(Pkts)
  <2>1. CASE issued = 0
    BY <1>1, <2>1
  <2>2. CASE issued # 0
    <3>1. issued \in 1..issued
      BY <1>2, <2>2
    <3> QED
      BY <1>1, <1>2, <3>1
  <2> QED
    BY <2>1, <2>2
<1>4. Range(Held) \subseteq Pkts
  BY <1>2 DEF DeliveryInv, OrderInv, RingOrder, Range
<1>5. hub.txbuf \in Pkts \cup {None}
  BY DEF ServedInv, LinesInv, LineOK, Typed
<1>6. ~CMDPKT_ISEMPTY => Oldest \in Pkts
  BY OldestIsPkt DEF DeliveryInv, OrderInv, ServedInv
<1> QED
  BY <1>1, <1>2, <1>3, <1>4, <1>5, <1>6

LEMMA SegmentIs ==
  ASSUME DeliveryInv, ServedInv, hub.out # None PROVE Segment(hub) \in Segments
<1>1. /\ hub.st = "ESTABLISHED" /\ hub.txbuf # None /\ hub.out \in Windows
      /\ hub.snd \in Nat /\ hub.port \in Nat
  BY DEF DeliveryInv, Inv, HubOK, Sending, OrderInv, OutInv, IsHub
<1>2. hub.port >= 1 /\ hub.port \in Conns
  <2>1. hub.port >= 1 /\ 0 < hub.port
    BY <1>1 DEF ServedInv, ConnInv
  <2> QED
    BY <2>1, PortIsConn DEF DeliveryInv, ServedInv
<1>3. hub.txbuf \in Pkts /\ hub.snd \in 0..Cardinality(Pkts)
  BY <1>1, InPkts DEF ServedInv, AheadInv, Ahead
<1> QED
  BY <1>1, <1>2, <1>3 DEF Segment, Segments

LEMMA SegmentIsNext == DeliveryInv' /\ ServedInv' /\ hub'.out # None => Segment(hub') \in Segments
<1>1. DeliveryInv /\ ServedInv /\ hub.out # None => Segment(hub) \in Segments
  BY SegmentIs
<1>2. (DeliveryInv /\ ServedInv /\ hub.out # None => Segment(hub) \in Segments)'
  BY <1>1, PTL
<1>3. Segments' = Segments
  BY DEF Segments, Conns
<1> QED
  BY <1>2, <1>3 DEF Segment

LEMMA StepGone ==
  ASSUME DeliveryInv, DeliveryInv', ServedInv, ServedInv', GoneInv, [Next]_vars PROVE GoneInv'
<1>1. CASE Acts /\ Account
  <2>1. \A s \in sent' : s \in sent \/ (s = Segment(hub') /\ hub'.out # None)
    BY <1>1 DEF Account, Transmit, Segment
  <2>2. gone' = gone
    BY <1>1 DEF Account
  <2>3. \A s \in sent' : s \in Segments
    BY <2>1, SegmentIsNext DEF GoneInv
  <2> QED
    BY <2>2, <2>3 DEF GoneInv, Segments, Conns
<1>2. CASE MacRx
  <2>1. sent' = sent /\ gone' \subseteq gone \cup Pkts
    BY <1>2, InPkts DEF MacRx, CMDPKT_ISFULL
  <2> QED
    BY <2>1 DEF GoneInv, Segments, Conns
<1>3. CASE Reboot
  <2>1. sent' = sent /\ gone' \subseteq gone \cup Pkts
    BY <1>3, InPkts DEF Reboot
  <2> QED
    BY <2>1 DEF GoneInv, Segments, Conns
<1>4. CASE UNCHANGED <<sent, gone>>
  BY <1>4 DEF GoneInv, Segments, Conns
<1>5. SrvNext \/ UNCHANGED vars => UNCHANGED <<sent, gone>>
  BY DEF SrvNext, SrvOpens, SrvTakes, SrvCloses, ServerDoes, vars
<1>6. IsHub(hub)
  BY DEF DeliveryInv, Inv, HubOK
<1> QED
  BY <1>1, <1>2, <1>3, <1>4, <1>5, <1>6, HubActs DEF Next

\* A server asked in order answers each packet once at most on a connection, so
\* there are no more replies than packets.
LEMMA RepliesBounded ==
  ASSUME DeliveryInv, ServedInv, NEW c \in Conns PROVE Len(srv[c].replies) <= Cardinality(Pkts)
<1> DEFINE n == Len(srv[c].got)
<1>1. /\ n \in Nat /\ DOMAIN srv[c].got = 1..n /\ Len(srv[c].replies) \in Nat
      /\ Len(srv[c].replies) <= n
  BY DEF DeliveryInv, SrvInv, ServedInv, RepliesOK
<1>2. CASE n = 0
  BY <1>1, <1>2, InPkts
<1>3. CASE n # 0
  <2>1. n \in DOMAIN srv[c].got
    BY <1>1, <1>3
  <2> HIDE DEF n
  <2>2. PICK s \in sent : s.seq = n - 1
    BY <2>1 DEF DeliveryInv, SrvInv, Carried
  <2>3. s.seq < s.req /\ s.req \in 1..issued
    BY DEF ServedInv, AheadInv, DeliveryInv, OrderInv, SentOrder
  <2> QED
    BY <1>1, <2>2, <2>3, InPkts
<1> QED
  BY <1>2, <1>3

LEMMA SrvTyped ==
  ASSUME DeliveryInv, ServedInv, sent \subseteq Segments
  PROVE  srv \in [Conns -> [open : BOOLEAN, fin : BOOLEAN,
                            got : Seq([req : Pkts, size : Windows]), replies : Seq(Pkts)]]
<1>1. srv \in [Conns -> [open : BOOLEAN, fin : BOOLEAN, got : Seq(Bits), replies : Seq(Nat)]]
  BY DEF DeliveryInv, SrvInv
<1>2. ASSUME NEW c \in Conns PROVE srv[c].got \in Seq([req : Pkts, size : Windows])
  <2> DEFINE g == srv[c].got
  <2>1. g \in Seq(Bits) /\ DOMAIN g = 1..Len(g)
    BY <1>1
  <2>2. ASSUME NEW i \in DOMAIN g PROVE g[i] \in [req : Pkts, size : Windows]
    <3>1. PICK s \in sent : s.req = g[i].req /\ s.size = g[i].size
      BY <2>2 DEF DeliveryInv, SrvInv, Carried
    <3>2. g[i] \in Bits /\ s \in Segments
      BY <2>1, <2>2
    <3> HIDE DEF g
    <3> QED
      BY <3>1, <3>2 DEF Bits, Segments
  <2> HIDE DEF g
  <2>3. g \in Seq([req : Pkts, size : Windows])
    <3>1. Len(g) \in Nat /\ g \in [1..Len(g) -> [req : Pkts, size : Windows]]
      BY <2>1, <2>2
    <3> QED
      BY <3>1, SeqDef
  <2> QED
    BY <2>3 DEF g
<1>3. ASSUME NEW c \in Conns
      PROVE  srv[c] \in [open : BOOLEAN, fin : BOOLEAN,
                         got : Seq([req : Pkts, size : Windows]), replies : Seq(Pkts)]
  <2>1. srv[c].replies \in Seq(Pkts) /\ srv[c].got \in Seq([req : Pkts, size : Windows])
    BY <1>2 DEF ServedInv, RepliesOK
  <2>2. srv[c] \in [open : BOOLEAN, fin : BOOLEAN, got : Seq(Bits), replies : Seq(Nat)]
    BY <1>1
  <2> QED
    BY <2>1, <2>2
<1> QED
  BY <1>1, <1>3

LEMMA HubTyped ==
  ASSUME DeliveryInv, ServedInv
  PROVE  hub \in [net : Nets, asked : BOOLEAN, known : BOOLEAN, connected : BOOLEAN,
                  tcp : BOOLEAN, txbuf : Pkts \cup {None}, line : Seq(Pieces),
                  st : TcpStates, port : 0..MaxFails + 1, out : Windows \cup {None},
                  snd : 0..Cardinality(Pkts), rcv : 0..2 * Cardinality(Pkts)]
<1>1. Typed(hub) /\ IsHub(hub) /\ hub.out \in Windows \cup {None}
  BY DEF ServedInv, LinesInv, LineOK, Typed, DeliveryInv, OrderInv, OutInv
<1>2. hub.port \in 0..MaxFails + 1
  <2>1. hub.port = 0 \/ hub.port \in Conns
    BY PortIsConn DEF DeliveryInv, ServedInv
  <2> QED
    BY <2>1, HubAssumption DEF Conns
<1>3. hub.snd \in 0..Cardinality(Pkts)
  BY <1>1, InPkts DEF ServedInv, AheadInv, Ahead, IsHub
<1>4. hub.rcv \in 0..2 * Cardinality(Pkts)
  <2>1. hub.rcv \in Nat /\ hub.rcv <= Answered(hub.port) /\ Cardinality(Pkts) \in Nat
    BY <1>1, InPkts DEF ServedInv, LinesInv, LineOK, Typed
  <2>2. CASE hub.port \in Conns
    <3>1. Len(srv[hub.port].replies) <= Cardinality(Pkts) /\ Len(srv[hub.port].replies) \in Nat
      BY <2>2, RepliesBounded DEF ServedInv, RepliesOK
    <3> QED
      BY <2>1, <2>2, <3>1 DEF Answered
  <2>3. CASE hub.port \notin Conns
    BY <2>1, <2>3 DEF Answered
  <2> QED
    BY <2>2, <2>3
<1>5. /\ DOMAIN hub = Fields /\ hub = [f \in DOMAIN hub |-> hub[f]]
      /\ hub.net \in Nets /\ hub.asked \in BOOLEAN /\ hub.known \in BOOLEAN /\ hub.connected \in BOOLEAN
      /\ hub.tcp \in BOOLEAN /\ hub.txbuf \in Pkts \cup {None} /\ hub.line \in Seq(Pieces)
      /\ hub.st \in TcpStates
  BY <1>1 DEF Typed, IsHub
<1>6. hub = [net |-> hub.net, asked |-> hub.asked, known |-> hub.known, connected |-> hub.connected,
             tcp |-> hub.tcp, txbuf |-> hub.txbuf, line |-> hub.line, st |-> hub.st, port |-> hub.port,
             out |-> hub.out, snd |-> hub.snd, rcv |-> hub.rcv]
  BY <1>5 DEF Fields
<1> QED
  BY <1>1, <1>2, <1>3, <1>4, <1>5, <1>6

\* However the network and the server fail: the hub's memory, the segments it
\* sends and the server's ends keep their types, with no more sequence numbers,
\* replies or connections than packets and failures account for.
THEOREM HubTypeCorrect == Spec => []TypeOK
<1>1. Init => GoneInv
  BY DEF Init, GoneInv
<1>2. DeliveryInv /\ DeliveryInv' /\ ServedInv /\ ServedInv' /\ GoneInv /\ [Next]_vars => GoneInv'
  BY StepGone
<1>3. DeliveryInv /\ ServedInv /\ GoneInv => TypeOK
  <2> SUFFICES ASSUME DeliveryInv, ServedInv, GoneInv PROVE TypeOK
    OBVIOUS
  <2>1. RingTypeOK /\ fails \in 0..MaxFails /\ issued \in 0..Cardinality(Pkts)
    BY InPkts, HubAssumption DEF DeliveryInv, ServedInv, ConnInv
  <2> QED
    BY <2>1, HubTyped, SrvTyped DEF TypeOK, GoneInv
<1> QED
  BY <1>1, <1>2, <1>3, ServedHolds, PTL DEF Spec
=============================================================================
