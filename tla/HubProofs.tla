----------------------------- MODULE HubProofs -----------------------------
(***************************************************************************)
(* Proofs about HubTcp, for any packets, windows and number of failures.    *)
(* net_tick and net_1hz are chains of calls on the hub's memory, so the     *)
(* invariant is a predicate of that memory, HubOK, and each call has a      *)
(* lemma that it keeps it; then one step per action.                        *)
(***************************************************************************)
EXTENDS HubTcp, SequenceTheorems, FiniteSetTheorems, TLAPS

(* The ring of pbhub.c is the queue of PktQueue, whatever its size: Count   *)
(* and Slot move with the indices as a queue's length and positions do, so  *)
(* that the slot written is never one still held.                           *)

Entries == Pkts \cup {Blank}

LEMMA NextIndex == \A x \in Indices : CMDPKT_NEXT(x) \in Indices
BY RingAssumption DEF Indices, CMDPKT_NEXT

LEMMA TypeStep == RingTypeOK /\ [RingNext]_ring => RingTypeOK'
<1> SUFFICES ASSUME RingTypeOK, [RingNext]_ring PROVE RingTypeOK'
  OBVIOUS
<1>1. 0 \in Indices
  BY RingAssumption DEF Indices
<1>2. ASSUME NEW p \in Pkts, Put(p) PROVE RingTypeOK'
  BY <1>2, NextIndex DEF Put, RingTypeOK
<1>3. CASE Take
  BY <1>3, NextIndex DEF Take, RingTypeOK
<1>4. CASE Restart
  BY <1>4, <1>1 DEF Restart, RingTypeOK
<1>5. CASE UNCHANGED ring
  BY <1>5 DEF ring, RingTypeOK
<1> QED
  BY <1>2, <1>3, <1>4, <1>5 DEF RingNext

\* Type correctness of the ring: its indices stay within it.
THEOREM RingTyping == RingSpec => []RingTypeOK
<1>1. RingInit => RingTypeOK
  BY RingAssumption DEF RingInit, RingTypeOK, Indices
<1> QED
  BY <1>1, TypeStep, PTL DEF RingSpec

-----------------------------------------------------------------------------
(* The queue the ring stands for.                                           *)

\* The ring's content is a sequence of at most NUM_CMDPKTS - 1 entries, and
\* is that long exactly when CMDPKT_ISFULL.
HeldFacts ==
  /\ Count \in 0 .. NUM_CMDPKTS - 1
  /\ Held \in Seq(Entries) /\ Len(Held) = Count
  /\ \A i \in 1..Count : Held[i] = cmdpkts[Slot(i)] /\ Slot(i) \in Indices
  /\ CMDPKT_ISEMPTY <=> Held = <<>>
  /\ CMDPKT_ISFULL <=> Count = NUM_CMDPKTS - 1

LEMMA HeldIsSeq == RingTypeOK => HeldFacts
<1> SUFFICES ASSUME RingTypeOK PROVE HeldFacts
  OBVIOUS
<1>1. Count \in 0 .. NUM_CMDPKTS - 1
  BY RingAssumption DEF RingTypeOK, Indices, Count
<1>2. \A i \in 1..Count : Slot(i) \in Indices
  BY RingAssumption, <1>1 DEF RingTypeOK, Indices, Slot, Count
<1>3. Held \in [1..Count -> Entries]
  BY <1>2 DEF Held, RingTypeOK, Entries
<1>4. Held \in Seq(Entries) /\ Len(Held) = Count
  BY <1>1, <1>3
<1>5. CMDPKT_ISEMPTY <=> Count = 0
  BY RingAssumption DEF RingTypeOK, Indices, Count, CMDPKT_ISEMPTY
<1>6. Held = <<>> <=> Len(Held) = 0
  BY <1>4, EmptySeq
<1>7. CMDPKT_ISFULL <=> Count = NUM_CMDPKTS - 1
  BY RingAssumption DEF RingTypeOK, Indices, Count, CMDPKT_ISFULL, CMDPKT_ISEMPTY, CMDPKT_NEXT
<1> QED
  BY <1>1, <1>2, <1>4, <1>5, <1>6, <1>7 DEF Held, HeldFacts

\* Put, on a ring that keeps its slots from rd on: the queue's Put.
LEMMA PutIsPut ==
  ASSUME RingTypeOK, NEW p \in Pkts, Put(p), RingTypeOK', HeldFacts, HeldFacts'
  PROVE  Held' = Append(Queue!Kept, p) /\ lives' = lives
<1> USE RingAssumption
<1> SUFFICES Held' = Append(Queue!Kept, p)
  BY DEF Put
<1>1. Queue!Kept \in Seq(Entries) /\ p \in Entries
  BY HeadTailProperties DEF HeldFacts, Queue!Kept, Entries
<1>2. CASE CMDPKT_ISFULL
  <2>1. Count = NUM_CMDPKTS - 1 /\ Count' = Count /\ Held # <<>>
    BY <1>2 DEF HeldFacts, Put, Count, RingTypeOK, Indices, CMDPKT_ISFULL, CMDPKT_NEXT,
                CMDPKT_ISEMPTY
  <2>2. Queue!Kept = Tail(Held)
    BY <2>1 DEF Queue!Kept, HeldFacts
  <2>3. /\ Len(Tail(Held)) = Count - 1
        /\ \A i \in 1 .. Count - 1 : Tail(Held)[i] = Held[i + 1]
    BY <2>1, HeadTailProperties DEF HeldFacts
  <2>4. \A i \in 1 .. Count - 1 : Slot(i)' = Slot(i + 1) /\ Slot(i + 1) # cmdpkt_wr
    BY <1>2, <2>1 DEF Put, Slot, Count, RingTypeOK, Indices, CMDPKT_ISFULL, CMDPKT_NEXT,
                      CMDPKT_ISEMPTY
  <2>5. Slot(Count)' = cmdpkt_wr
    BY <1>2, <2>1 DEF Put, Slot, Count, RingTypeOK, Indices, CMDPKT_ISFULL, CMDPKT_NEXT,
                      CMDPKT_ISEMPTY
  <2>6. \A i \in 1 .. Count - 1 : Held'[i] = Held[i + 1]
    BY <2>1, <2>4 DEF HeldFacts, Put, RingTypeOK
  <2>7. Held'[Count] = p
    BY <2>1, <2>5 DEF HeldFacts, Put, RingTypeOK
  <2>8. \A i \in 1 .. Count : Append(Tail(Held), p)[i] = Held'[i]
    BY <2>1, <2>3, <2>6, <2>7, <1>1, <2>2 DEF HeldFacts
  <2> QED
    BY <1>1, <2>1, <2>2, <2>3, <2>8, SeqEqual DEF HeldFacts
<1>3. CASE ~CMDPKT_ISFULL
  <2>1. Count < NUM_CMDPKTS - 1 /\ Count' = Count + 1
    BY <1>3 DEF HeldFacts, Put, Count, RingTypeOK, Indices, CMDPKT_ISFULL, CMDPKT_NEXT,
                CMDPKT_ISEMPTY
  <2>2. Queue!Kept = Held
    BY <2>1 DEF Queue!Kept, HeldFacts
  <2>3. \A i \in 1..Count : Slot(i)' = Slot(i) /\ Slot(i) # cmdpkt_wr
    BY <1>3, <2>1 DEF Put, Slot, Count, RingTypeOK, Indices
  <2>4. Slot(Count)' = cmdpkt_wr
    BY <1>3, <2>1 DEF Put, Slot, Count, RingTypeOK, Indices
  <2>5. \A i \in 1..Count : Held'[i] = Held[i]
    BY <2>1, <2>3 DEF HeldFacts, Put, RingTypeOK
  <2>6. Held'[Count + 1] = p
    BY <2>1, <2>4 DEF HeldFacts, Put, RingTypeOK
  <2>7. \A i \in 1 .. Count + 1 : Append(Held, p)[i] = Held'[i]
    BY <2>5, <2>6, <1>1, <2>2 DEF HeldFacts
  <2> QED
    BY <1>1, <2>1, <2>2, <2>7, SeqEqual DEF HeldFacts
<1> QED
  BY <1>2, <1>3

LEMMA TakeIsTake ==
  ASSUME RingTypeOK, Take, RingTypeOK', HeldFacts, HeldFacts'
  PROVE  Held # <<>> /\ Held' = Tail(Held) /\ lives' = lives
<1> USE RingAssumption
<1>1. Held # <<>> /\ Count # 0
  BY DEF Take, HeldFacts
<1>2. Count' = Count - 1
  BY <1>1 DEF Take, Count, RingTypeOK, Indices, CMDPKT_NEXT, CMDPKT_ISEMPTY
<1>3. /\ Tail(Held) \in Seq(Entries) /\ Len(Tail(Held)) = Count - 1
      /\ \A i \in 1 .. Count - 1 : Tail(Held)[i] = Held[i + 1]
  BY <1>1, HeadTailProperties DEF HeldFacts
<1>4. \A i \in 1 .. Count - 1 : Slot(i)' = Slot(i + 1)
  BY <1>1 DEF Take, Slot, Count, RingTypeOK, Indices, CMDPKT_NEXT
<1>5. \A i \in 1 .. Count - 1 : Held'[i] = Tail(Held)[i]
  BY <1>2, <1>3, <1>4 DEF HeldFacts, Take
<1> QED
  BY <1>1, <1>2, <1>3, <1>5, SeqEqual DEF HeldFacts, Take

\* The ring implements the queue, for every size of the ring and all packets.
THEOREM RingIsQueue == RingSpec => ImplementsQueue
<1>1. RingInit => Queue!Init
  <2> SUFFICES ASSUME RingInit PROVE Held = <<>>
    BY DEF Queue!Init, RingInit
  <2>1. RingTypeOK /\ CMDPKT_ISEMPTY
    BY RingAssumption DEF RingInit, RingTypeOK, Indices, CMDPKT_ISEMPTY
  <2> QED
    BY <2>1, HeldIsSeq DEF HeldFacts
<1>2. RingTypeOK /\ RingTypeOK' /\ HeldFacts /\ HeldFacts' /\ [RingNext]_ring
        => [Queue!Next]_<<Held, lives>>
  <2> SUFFICES ASSUME RingTypeOK, RingTypeOK', HeldFacts, HeldFacts', [RingNext]_ring
               PROVE  Queue!Next \/ UNCHANGED <<Held, lives>>
    OBVIOUS
  <2>1. ASSUME NEW p \in Pkts, Put(p) PROVE Queue!Next
    BY <2>1, PutIsPut DEF Queue!Next, Queue!Put
  <2>2. CASE Take
    BY <2>2, TakeIsTake DEF Queue!Next, Queue!Take
  <2>3. CASE Restart
    <3>1. CMDPKT_ISEMPTY'
      BY <2>3 DEF Restart, CMDPKT_ISEMPTY
    <3> QED
      BY <2>3, <3>1 DEF HeldFacts, Restart, Queue!Next, Queue!Clear
  <2>4. CASE UNCHANGED ring
    BY <2>4 DEF ring, Held, Count, Slot
  <2> QED
    BY <2>1, <2>2, <2>3, <2>4 DEF RingNext
<1>3. RingTypeOK => HeldFacts
  BY HeldIsSeq
<1> QED
  BY <1>1, <1>2, <1>3, RingTyping, PTL DEF RingSpec, ImplementsQueue, Queue!Spec

-----------------------------------------------------------------------------
(* The hub's memory.                                                        *)

Fields == {"net", "asked", "known", "connected", "tcp", "txbuf", "line", "st", "port",
           "out", "snd", "rcv"}
IsHub(h) ==
  /\ DOMAIN h = Fields /\ h = [f \in DOMAIN h |-> h[f]]
  /\ h.connected \in BOOLEAN /\ h.tcp \in BOOLEAN /\ h.asked \in BOOLEAN
  /\ h.port \in Nat /\ h.snd \in Nat

\* FlagsAgree, of h.
Agree(h) ==
  /\ h.tcp <=> h.st = "ESTABLISHED"
  /\ h.connected => h.tcp
  /\ h.net = "online" /\ h.tcp => h.connected

\* Before DHCP has configured the hub it has asked for no address.
Booting(h) == h.net = "boot" => ~h.asked /\ h.st = "CLOSED"

\* A request is outstanding only on an open connection, and is in tcp_txbuf.
Sending(h) == h.out # None => h.st = "ESTABLISHED" /\ h.txbuf # None

\* On the hub's connection only what is outstanding was sent at or after snd.
Segment(h) == [port |-> h.port, seq |-> h.snd, req |-> h.txbuf, size |-> h.out]
NoneAhead(h, S) ==
  \A s \in S :
    /\ s.port \in Nat /\ s.seq \in Nat /\ s.port <= h.port
    /\ h.st = "SYN_SENT" => s.port # h.port
    /\ h.st = "ESTABLISHED" /\ s.port = h.port
         => s.seq < h.snd \/ (h.out # None /\ s = Segment(h))

HubOK(h, S) == IsHub(h) /\ Agree(h) /\ Booting(h) /\ Sending(h) /\ NoneAhead(h, S)

-----------------------------------------------------------------------------
(* What the hub is called with keeps HubOK.                                 *)

LEMMA ClosedOK == ASSUME NEW S, NEW h, HubOK(h, S) PROVE HubOK(Closed(h), S)
BY DEF HubOK, IsHub, Fields, Agree, Booting, Sending, NoneAhead, Segment, Closed, Disconnected

LEMMA SendDataOK ==
  ASSUME NEW S, NEW h, HubOK(h, S), h.st = "ESTABLISHED", NEW g \in SendData(h)
  PROVE  HubOK(g, S)
BY DEF HubOK, IsHub, Fields, Agree, Booting, Sending, NoneAhead, Segment, SendData

LEMMA OpenedOK ==
  ASSUME NEW S, NEW h, HubOK(h, S), h.st = "CLOSED", h.asked PROVE HubOK(Opened(h), S)
<1> DEFINE g == Opened(h)
<1>0. DOMAIN h = Fields /\ h.port \in Nat
  BY DEF HubOK, IsHub
<1>1. /\ g.net = h.net /\ g.asked = h.asked /\ g.connected = h.connected /\ g.tcp = h.tcp /\ g.snd = 0
      /\ g.st = "SYN_SENT" /\ g.port = h.port + 1 /\ g.out = None
  BY <1>0 DEF Fields, Opened
<1>2. DOMAIN g = Fields /\ g = [f \in DOMAIN g |-> g[f]]
  BY <1>0 DEF Opened
<1>3. IsHub(g)
  BY <1>0, <1>1, <1>2 DEF HubOK, IsHub
<1>4. NoneAhead(g, S)
  BY <1>0, <1>1 DEF HubOK, NoneAhead
<1> QED
  BY <1>1, <1>3, <1>4 DEF HubOK, Agree, Booting, Sending

LEMMA ResolvedOK ==
  ASSUME NEW S, NEW h, HubOK(h, S), h.asked, NEW found PROVE HubOK(Resolved(h, found), S)
<1>1. ASSUME ~h.connected PROVE HubOK(Disconnected(h), S)
  <2>1. Disconnected(h) = h
    BY <1>1 DEF HubOK, IsHub, Fields, Disconnected
  <2> QED
    BY <2>1
<1> QED
  BY <1>1, OpenedOK DEF Resolved, Connect

LEMMA KnownOK ==
  ASSUME NEW S, NEW h, HubOK(h, S)
  PROVE  /\ HubOK([h EXCEPT !.known = TRUE], S)
         /\ [h EXCEPT !.known = TRUE].asked = h.asked
BY DEF HubOK, IsHub, Fields, Agree, Booting, Sending, NoneAhead, Segment

LEMMA AskedOK ==
  ASSUME NEW S, NEW h, HubOK(h, S), h.net # "boot"
  PROVE  HubOK([h EXCEPT !.asked = TRUE], S) /\ [h EXCEPT !.asked = TRUE].asked
BY DEF HubOK, IsHub, Fields, Agree, Booting, Sending, NoneAhead, Segment

LEMMA AckedOK ==
  ASSUME NEW S, NEW h, HubOK(h, S), h.out # None PROVE HubOK(Acked(h), S)
<1> DEFINE g == Acked(h)
<1>0. DOMAIN h = Fields /\ h.port \in Nat /\ h.snd \in Nat
  BY DEF HubOK, IsHub
<1>1. /\ g.net = h.net /\ g.asked = h.asked /\ g.connected = h.connected /\ g.tcp = h.tcp
      /\ g.st = h.st /\ g.port = h.port /\ g.out = None /\ g.snd = h.snd + 1
  BY <1>0 DEF Fields, Acked
<1>2. DOMAIN g = Fields /\ g = [f \in DOMAIN g |-> g[f]]
  BY <1>0 DEF Acked
<1>3. IsHub(g)
  BY <1>0, <1>1, <1>2 DEF HubOK, IsHub
<1>4. Segment(h).seq = h.snd
  BY DEF Segment
<1>5. NoneAhead(g, S)
  BY <1>0, <1>1, <1>4 DEF HubOK, NoneAhead
<1> QED
  BY <1>1, <1>3, <1>5 DEF HubOK, Agree, Booting, Sending

LEMMA NewDataOK == ASSUME NEW S, NEW h, HubOK(h, S) PROVE HubOK(NewData(h), S)
<1> DEFINE g == NewData(h)
<1>1. /\ IsHub(g) /\ g.net = h.net /\ g.asked = h.asked /\ g.connected = h.connected /\ g.tcp = h.tcp
      /\ g.txbuf = h.txbuf /\ g.st = h.st /\ g.port = h.port /\ g.out = h.out /\ g.snd = h.snd
  BY DEF HubOK, IsHub, Fields, NewData
<1> QED
  BY <1>1 DEF HubOK, Agree, Booting, Sending, NoneAhead, Segment

LEMMA PeriodicOK ==
  ASSUME NEW S, NEW h, HubOK(h, S), NEW g \in Periodic(h) PROVE HubOK(g, S)
BY ClosedOK, SendDataOK DEF Periodic

LEMMA TcpTickOK ==
  ASSUME NEW S, NEW h, HubOK(h, S), NEW g \in TcpTick(h) PROVE HubOK(g, S)
BY PeriodicOK DEF TcpTick

LEMMA HandlePktOK ==
  ASSUME NEW S, NEW h, HubOK(h, S), CanWrite(h) PROVE HubOK(HandlePkt(h), S)
BY DEF HubOK, IsHub, Fields, Agree, Booting, Sending, NoneAhead, Segment, CanWrite, HandlePkt

-----------------------------------------------------------------------------
(* The steps keep HubOK and SameSegment.                                    *)

Inv == HubOK(hub, sent) /\ SameSegment /\ issued \in Nat

\* Whatever an action leaves in the hub's memory it sends what is outstanding.
LEMMA TransmitOK ==
  ASSUME HubOK(hub', sent), SameSegment, Transmit, issued' \in Nat PROVE Inv'
<1> DEFINE t == Segment(hub')
           new == {s \in {t} : s.size # None}
<1>1. sent' = sent \cup new
  BY DEF Transmit, Segment
<1>2. t.port = hub'.port /\ t.seq = hub'.snd /\ t.size = hub'.out
  BY DEF Segment
<1>3. \A s \in new : s = t /\ hub'.out # None /\ hub'.st = "ESTABLISHED"
  BY <1>2 DEF HubOK, Sending
<1>4. NoneAhead(hub', sent')
  BY <1>1, <1>2, <1>3 DEF HubOK, IsHub, NoneAhead
<1>5. \A s \in sent : new # {} /\ s.port = t.port /\ s.seq = t.seq => s = t
  BY <1>2, <1>3 DEF HubOK, IsHub, NoneAhead
<1>6. SameSegment'
  BY <1>1, <1>3, <1>5 DEF SameSegment
<1> QED
  BY <1>4, <1>6 DEF HubOK, Inv

\* net_tick: enough that what comes in keeps HubOK.
LEMMA NetTickOK ==
  ASSUME Inv, NEW S, \A h \in S : HubOK(h, sent), NetTick(S) PROVE Inv'
<1>1. PICK h1 \in S : \E h \in TcpTick(h1) :
        hub' = h \/ (CanWrite(h) /\ hub' = HandlePkt(h))
  BY DEF NetTick
<1>2. PICK h \in TcpTick(h1) : hub' = h \/ (CanWrite(h) /\ hub' = HandlePkt(h))
  BY <1>1
<1>3. HubOK(h, sent)
  BY <1>1, <1>2, TcpTickOK
<1>4. HubOK(hub', sent)
  BY <1>2, <1>3, HandlePktOK
<1> QED
  BY <1>4, TransmitOK DEF NetTick, Account, Inv

LEMMA AfterOK ==
  ASSUME Inv, NEW n, NEW ack \in BOOLEAN, ack => AckedByServer
  PROVE  /\ HubOK(AfterAck(ack), sent) /\ HubOK(AfterData(AfterAck(ack), n), sent)
         /\ AfterData(AfterAck(ack), n).st = hub.st
         /\ AfterData(AfterAck(ack), n).net = hub.net
         /\ AfterData(AfterAck(ack), n).out = AfterAck(ack).out
<1> DEFINE a == AfterAck(ack)
<1>1. HubOK(a, sent) /\ a.st = hub.st /\ a.net = hub.net
  BY AckedOK DEF Inv, AfterAck, AckedByServer, Acked, HubOK, IsHub, Fields
<1> HIDE DEF a
<1>2. HubOK(NewData(a), sent) /\ NewData(a).st = a.st /\ NewData(a).out = a.out
      /\ NewData(a).net = a.net
  BY <1>1, NewDataOK DEF NewData, HubOK, IsHub, Fields
<1> QED
  BY <1>1, <1>2 DEF AfterData, a

LEMMA SynAckOK ==
  ASSUME Inv, hub.st = "SYN_SENT",
         NEW h \in SendData([hub EXCEPT !.st = "ESTABLISHED"])
  PROVE  HubOK(Connected([h EXCEPT !.tcp = TRUE]), sent)
<1> DEFINE e == [hub EXCEPT !.st = "ESTABLISHED"]
           g == Connected([h EXCEPT !.tcp = TRUE])
<1>1. IsHub(hub) /\ hub.out = None
  BY DEF Inv, HubOK, Sending
<1>a. /\ IsHub(e) /\ e.st = "ESTABLISHED" /\ e.port = hub.port /\ e.net # "boot"
      /\ e.out = None
  BY <1>1 DEF IsHub, Fields, Inv, HubOK, Booting
<1>b. h \in SendData(e)
  OBVIOUS
<1> HIDE DEF e
<1>2. h = e \/ (e.txbuf # None /\ \E w \in Windows : h = [e EXCEPT !.out = w])
  BY <1>b DEF SendData
<1>3. /\ IsHub(h) /\ h.st = "ESTABLISHED" /\ h.port = hub.port /\ h.net # "boot"
      /\ h.out # None => h.txbuf # None
  <2>1. CASE h = e
    BY <2>1, <1>a
  <2>2. CASE e.txbuf # None /\ \E w \in Windows : h = [e EXCEPT !.out = w]
    BY <2>2, <1>a DEF IsHub, Fields
  <2> QED
    BY <2>1, <2>2, <1>2
<1>4. /\ IsHub(g) /\ g.connected /\ g.tcp /\ g.st = "ESTABLISHED" /\ g.port = hub.port
      /\ g.net # "boot"
      /\ g.out # None => g.txbuf # None
  BY <1>3 DEF Connected, IsHub, Fields
<1>5. \A s \in sent : s.port \in Nat /\ s.seq \in Nat /\ s.port <= g.port /\ s.port # g.port
  BY <1>4 DEF Inv, HubOK, NoneAhead
<1> QED
  BY <1>4, <1>5 DEF HubOK, Agree, Booting, Sending, NoneAhead

LEMMA FinOK ==
  ASSUME NEW S, NEW h, HubOK(h, S), h.out = None
  PROVE  h.net # "boot" => HubOK(Disconnected([h EXCEPT !.st = "LAST_ACK", !.tcp = FALSE]), S)
<1> DEFINE g == Disconnected([h EXCEPT !.st = "LAST_ACK", !.tcp = FALSE])
<1>0. DOMAIN h = Fields /\ h.port \in Nat /\ h.snd \in Nat /\ h.asked \in BOOLEAN
  BY DEF HubOK, IsHub
<1>1. /\ g.net = h.net /\ g.asked = h.asked /\ ~g.connected /\ ~g.tcp
      /\ g.st = "LAST_ACK" /\ g.port = h.port /\ g.out = None /\ g.snd = h.snd
      /\ g.connected = FALSE /\ g.tcp = FALSE
  BY <1>0 DEF Fields, Disconnected
<1>2. DOMAIN g = Fields /\ g = [f \in DOMAIN g |-> g[f]]
  BY <1>0 DEF Disconnected
<1>3. IsHub(g)
  BY <1>0, <1>1, <1>2 DEF IsHub
<1>4. NoneAhead(g, S)
  BY <1>0, <1>1 DEF HubOK, NoneAhead
<1> QED
  BY <1>1, <1>3, <1>4 DEF HubOK, Agree, Booting, Sending

LEMMA SecondOK == Inv /\ Second => Inv'
<1> SUFFICES ASSUME Inv, Second PROVE Inv'
  OBVIOUS
<1>1. PICK h \in Periodic(hub) : hub' \in App1Hz(h)
  BY DEF Second
<1>2. HubOK(h, sent)
  BY PeriodicOK DEF Inv
<1>3. ASSUME h.net = "online" PROVE \A q \in Query(h) : HubOK(q, sent)
  <2> DEFINE q == [h EXCEPT !.asked = TRUE]
  <2>1. HubOK(q, sent) /\ q.asked
    BY <1>2, <1>3, AskedOK
  <2>2. HubOK(Resolved(q, TRUE), sent)
    BY <2>1, ResolvedOK
  <2> QED
    BY <2>1, <2>2 DEF Query
<1>4. HubOK(hub', sent)
  BY <1>1, <1>2, <1>3 DEF App1Hz
<1> QED
  BY <1>4, TransmitOK DEF Second, Account, Inv

LEMMA NextOK == Inv /\ [Next]_vars => Inv'
<1> SUFFICES ASSUME Inv, [Next]_vars PROVE Inv'
  OBVIOUS
<1>0. HubOK(hub, sent)
  BY DEF Inv
<1>1. CASE NetNothing
  BY <1>0, <1>1, NetTickOK DEF NetNothing
<1>2. CASE NetConfigured
  <2>1. HubOK([hub EXCEPT !.net = "online"], sent)
    BY <1>0, <1>2 DEF NetConfigured, HubOK, IsHub, Fields, Agree, Booting, Sending, NoneAhead, Segment
  <2> QED
    BY <1>2, <2>1, NetTickOK DEF NetConfigured
<1>3. CASE NetLinkDown
  <2>1. HubOK(Disconnected([hub EXCEPT !.net = "down"]), sent)
    BY <1>0 DEF HubOK, IsHub, Fields, Agree, Booting, Sending, NoneAhead, Segment, Disconnected
  <2> QED
    BY <1>3, <2>1, NetTickOK DEF NetLinkDown
<1>4. CASE NetAnswer
  <2>1. HubOK(Resolved([hub EXCEPT !.known = TRUE], TRUE), sent)
    BY <1>0, <1>4, KnownOK, ResolvedOK DEF NetAnswer
  <2> QED
    BY <1>4, <2>1, NetTickOK DEF NetAnswer
<1>5. CASE NetNoAnswer
  <2>1. \A found \in {FALSE, hub.known} : HubOK(Resolved(hub, found), sent)
    BY <1>0, <1>5, ResolvedOK DEF NetNoAnswer
  <2> QED
    BY <1>5, <2>1, NetTickOK DEF NetNoAnswer
<1>6. CASE NetSynAck
  BY <1>6, SynAckOK, NetTickOK DEF NetSynAck
<1>7. CASE NetEnd
  <2>1. HubOK(Closed(hub), sent)
    BY <1>0, ClosedOK
  <2> QED
    BY <1>7, <2>1, NetTickOK DEF NetEnd
<1>8. ASSUME NEW n \in 0..1, NEW ack \in BOOLEAN, NetData(n, ack) PROVE Inv'
  <2> DEFINE d == AfterData(AfterAck(ack), n)
  <2>1. HubOK(d, sent) /\ d.st = "ESTABLISHED"
    BY <1>8, AfterOK DEF NetData
  <2> HIDE DEF d
  <2>2. \A g \in SendData(d) : HubOK(g, sent)
    BY <2>1, SendDataOK
  <2> QED
    BY <1>8, <2>2, NetTickOK DEF NetData, d
<1>9. ASSUME NEW n \in 0..1, NEW ack \in BOOLEAN, NetFin(n, ack) PROVE Inv'
  <2> DEFINE d == AfterData(AfterAck(ack), n)
  <2>1. HubOK(d, sent) /\ d.out = None /\ d.net # "boot"
    BY <1>0, <1>9, AfterOK DEF NetFin, HubOK, Booting
  <2> HIDE DEF d
  <2>2. HubOK(Disconnected([d EXCEPT !.st = "LAST_ACK", !.tcp = FALSE]), sent)
    BY <2>1, FinOK
  <2> QED
    BY <1>9, <2>2, NetTickOK DEF NetFin, d
<1>10. CASE Second
  BY <1>10, SecondOK
<1>11. CASE Reboot
  <2>1. HubOK(Boot(hub.port), sent)
    BY <1>0 DEF HubOK, IsHub, Fields, Boot, Agree, Booting, Sending, NoneAhead
  <2> QED
    BY <1>11, <2>1 DEF Reboot, Inv, SameSegment
<1>12. CASE MacRx
  BY <1>12 DEF MacRx, Inv, SameSegment
<1>13. CASE SrvNext
  BY <1>13 DEF SrvNext, SrvOpens, SrvTakes, SrvCloses, ServerDoes, Inv, SameSegment
<1>14. CASE UNCHANGED vars
  BY <1>14 DEF vars, Inv, SameSegment
<1> QED
  BY <1>1, <1>2, <1>3, <1>4, <1>5, <1>6, <1>7, <1>8, <1>9, <1>10, <1>11, <1>12, <1>13,
     <1>14 DEF Next, HubNext

LEMMA InvHolds == Spec => []Inv
<1>1. Init => Inv
  <2> SUFFICES ASSUME Init PROVE Inv
    OBVIOUS
  <2>1. HubOK(Boot(0), {})
    BY DEF HubOK, IsHub, Fields, Boot, Agree, Booting, Sending, NoneAhead
  <2> QED
    BY <2>1 DEF Init, Inv, SameSegment
<1> QED
  BY <1>1, NextOK, PTL DEF Spec

\* pbhub.c's, tcp_uip.c's and uIP's record of the connection agree, whatever
\* the network, the server and the application's packets do.
THEOREM FlagsAlwaysAgree == Spec => []FlagsAgree
<1>1. Inv => FlagsAgree
  BY DEF Inv, HubOK, Agree, FlagsAgree
<1> QED
  BY <1>1, InvHolds, PTL

\* The hub never sends two different segments under one sequence number.
THEOREM SegmentsRepeat == Spec => []SameSegment
<1>1. Inv => SameSegment
  BY DEF Inv
<1> QED
  BY <1>1, InvHolds, PTL

-----------------------------------------------------------------------------
(* The hub uses the ring as CmdRing says, so the ring is a queue here too.  *)

LEMMA RingSteps == Inv /\ [Next]_vars => [RingNext]_ring
<1> SUFFICES ASSUME Inv, [Next]_vars PROVE RingNext \/ UNCHANGED ring
  OBVIOUS
<1>1. ASSUME NEW S, NetTick(S) PROVE Take \/ UNCHANGED ring
  BY <1>1 DEF NetTick
<1>2. CASE MacRx
  <2>1. Cardinality(Pkts) \in Nat
    BY HubAssumption, FS_CardinalityType
  <2>2. issued' \in Pkts
    BY <1>2, <2>1, HubAssumption DEF Inv, MacRx
  <2> QED
    BY <1>2, <2>2 DEF MacRx, RingNext
<1> QED
  BY <1>1, <1>2 DEF Next, HubNext, SrvNext, SrvOpens, SrvTakes, SrvCloses, ServerDoes, vars, RingNext,
     NetNothing, NetConfigured, NetLinkDown, NetAnswer, NetNoAnswer, NetSynAck, NetEnd, NetData, NetFin,
     Second, Reboot

\* The hub's ring is the bounded queue: what handle_pkt sends to the server is
\* what mac_rx_cb accepted, in that order and only once.
THEOREM HubQueue == Spec => ImplementsQueue
<1>1. Init => RingInit
  BY DEF Init
<1>2. Spec => RingSpec
  BY <1>1, InvHolds, RingSteps, PTL DEF Spec, RingSpec
<1> QED
  BY <1>2, RingIsQueue

=============================================================================
