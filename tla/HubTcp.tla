------------------------------- MODULE HubTcp -------------------------------
(***************************************************************************)
(* The hub between its radio and its server: device packets wait in the     *)
(* ring, one at a time becomes a request in tcp_uip.c's only buffer, and    *)
(* uIP's only connection carries it; the server's replies come back as      *)
(* lines.  os_bg calls radio_tick (here MacRx), net_tick and, once a        *)
(* second, net_1hz and app_1hz, each of them an action.                     *)
(*                                                                          *)
(* A device packet, and the request and reply it leads to, is a number,     *)
(* given in the order mac_rx_cb accepts them.  A connection is a number     *)
(* too: uip_connect takes a new local port each time.  TCP sequence numbers *)
(* count the segments of data on a connection.                              *)
(*                                                                          *)
(* The network and the server are outside src/: any copy of a segment may   *)
(* be lost, late or repeated, and the server's end is an ordinary TCP.      *)
(***************************************************************************)
EXTENDS CmdRing, FiniteSets, Functions

CONSTANTS
  Unknown,    \* packets handle_pkt finds no command in
  Windows,    \* how much of a request the server's window admits: "whole", "part"
  MaxFails,   \* bound on the failures of network, server and hub together
  None

ASSUME HubAssumption ==
  /\ IsFiniteSet(Pkts) /\ Pkts = 1..Cardinality(Pkts)
  /\ Unknown \subseteq Pkts /\ None \notin Pkts
  /\ Windows \subseteq {"whole", "part"} /\ Windows # {} /\ MaxFails \in Nat

VARIABLES
  hub,      \* the hub's memory but the ring
  sent,     \* every segment of data the hub has sent
  srv,      \* the server's end of each connection
  fails,    \* failures so far
  issued,   \* history: the packets accepted so far
  gone,     \* history: the packets a full ring or a restart has dropped
  read      \* history: the lines given to line_rx

vars == <<ring, hub, sent, srv, fails, issued, gone, read>>

Conns == 1 .. MaxFails + 1   \* a new connection needs the last one to fail

(***************************************************************************)
(*   net        "boot" before DHCP has configured the hub, then "online",   *)
(*              "down" once the Ethernet link was lost (net_uip.c's online) *)
(*   asked      names[] holds a query for the host, known: its address      *)
(*   connected  pbhub.c's flag                                              *)
(*   tcp        tcp_uip.c's connected                                       *)
(*   txbuf      the request in tcp_txbuf, None if tcp_txbuflen = 0          *)
(*   line       line.c's linebuf                                            *)
(*   st         uip_conns[0].tcpstateflags; port its local port             *)
(*   out        how much of a request is outstanding (len)                  *)
(*   snd, rcv   segments of data acknowledged, pieces of data received      *)
(***************************************************************************)
Nets == {"boot", "online", "down"}
TcpStates == {"CLOSED", "SYN_SENT", "ESTABLISHED", "LAST_ACK"}

\* After os_init, in memory the reset has cleared.
Boot(port) ==
  [net |-> "boot", asked |-> FALSE, known |-> FALSE, connected |-> FALSE, tcp |-> FALSE,
   txbuf |-> None, line |-> <<>>, st |-> "CLOSED", port |-> port, out |-> None,
   snd |-> 0, rcv |-> 0]

\* got is what the server has taken, replies the requests it has answered: the
\* whole ones.
NoServer == [open |-> FALSE, fin |-> FALSE, got |-> <<>>, replies |-> <<>>]

Segments == [port : Conns, seq : 0..Cardinality(Pkts), req : Pkts, size : Windows]
Pieces == [req : Pkts, half : {"first", "second"}]

TypeOK ==
  /\ RingTypeOK
  /\ hub \in [net : Nets, asked : BOOLEAN, known : BOOLEAN, connected : BOOLEAN,
              tcp : BOOLEAN, txbuf : Pkts \cup {None}, line : Seq(Pieces),
              st : TcpStates, port : 0..MaxFails + 1, out : Windows \cup {None},
              snd : 0..Cardinality(Pkts), rcv : 0..2 * Cardinality(Pkts)]
  /\ sent \subseteq Segments
  /\ srv \in [Conns -> [open : BOOLEAN, fin : BOOLEAN,
                        got : Seq([req : Pkts, size : Windows]), replies : Seq(Pkts)]]
  /\ fails \in 0..MaxFails /\ issued \in 0..Cardinality(Pkts)
  /\ gone \subseteq Pkts

Init ==
  /\ RingInit
  /\ hub = Boot(0)
  /\ sent = {} /\ srv = [c \in Conns |-> NoServer] /\ fails = 0
  /\ issued = 0 /\ gone = {} /\ read = {}

-----------------------------------------------------------------------------
(* The network: which frames may reach the hub next.                        *)

IsWhole(s) == s.size = "whole"

\* A reply comes in two pieces.
Piece(c, i) == [req |-> srv[c].replies[(i + 1) \div 2],
                half |-> IF i % 2 = 1 THEN "first" ELSE "second"]
Ends == [req : Pkts, half : {"second"}]
Server == IF hub.port = 0 THEN NoServer ELSE srv[hub.port]
FromServer == 2 * Len(Server.replies)       \* pieces the server has sent
Last(n) == Server.fin /\ hub.rcv + n = FromServer
AckedByServer == hub.out # None /\ Len(Server.got) > hub.snd

-----------------------------------------------------------------------------
(* What pbhub.c and tcp_uip.c do when called; h is the hub's memory.        *)

\* tcp_event
Disconnected(h) == [h EXCEPT !.connected = FALSE]
ConnectedKeepsLine(h) == [h EXCEPT !.connected = TRUE]   \* mutant
Connected(h) == [h EXCEPT !.connected = TRUE, !.line = <<>>]

\* uip_connect, which has only the one connection.
Opened(h) ==
  [h EXCEPT !.st = "SYN_SENT", !.port = @ + 1, !.out = None, !.snd = 0, !.rcv = 0]

\* tcp_connect; found is what resolv_lookup returned.
Connect(h, found) ==
  IF found /\ h.st = "CLOSED" THEN Opened(h) ELSE Disconnected(h)

ConnectAlways(h, found) == Connect(h, found)       \* mutant
Resolved(h, found) == IF h.connected THEN h ELSE Connect(h, found)

\* tcp_senddata, and what uip_process makes of it at appsend: a request is
\* cut to the window when first sent, and sent again as it was.
SendData(h) == IF h.txbuf = None \/ h.out # None THEN {h}
               ELSE {[h EXCEPT !.out = w] : w \in Windows}

\* tcp_appcall with uip_acked().
AckedKeepsBuf(h) == [h EXCEPT !.snd = @ + 1, !.out = None]   \* mutant
Acked(h) == [h EXCEPT !.snd = @ + 1, !.out = None, !.txbuf = None]

\* tcp_appcall with uip_newdata(): line_putc keeps a line until its end.
NewData(h) ==
  LET p == Piece(h.port, h.rcv + 1)
  IN [h EXCEPT !.rcv = @ + 1, !.line = IF p.half = "second" THEN <<>> ELSE Append(@, p)]

\* tcp_appcall when uIP has closed the connection: uip_aborted, uip_timedout,
\* uip_abort after TCP_TIMEOUT polls, uip_closed in LAST_ACK.
ClosedDropsBuf(h) ==                                         \* mutant
  Disconnected([h EXCEPT !.st = "CLOSED", !.tcp = FALSE, !.out = None, !.txbuf = None])
ClosedSilently(h) == [h EXCEPT !.st = "CLOSED", !.tcp = FALSE, !.out = None]   \* mutant
Closed(h) == Disconnected([h EXCEPT !.st = "CLOSED", !.tcp = FALSE, !.out = None])

\* uip_periodic.  A SYN, a FIN or a request is retransmitted or given up; an
\* idle connection is polled, or aborted after TCP_TIMEOUT polls.
PeriodicNoPoll(h) == IF h.st = "CLOSED" THEN {h} ELSE {h, Closed(h)}   \* mutant
Periodic(h) ==
  CASE h.st = "CLOSED" -> {h}
    [] h.st = "ESTABLISHED" -> SendData(h) \cup {Closed(h)}
    [] OTHER -> {h, Closed(h)}

-----------------------------------------------------------------------------
(* net_tick: ether_tick and uip_input, which leave the hub's memory in S,   *)
(* then tcp_tick.  A connection just requested has its SYN still to send.   *)

TcpTick(h) == IF h.tcp \/ h.port # hub.port THEN {h} ELSE Periodic(h)
CanWriteAlways(h) == h.tcp                                   \* mutant
CanWrite(h) == h.tcp /\ h.txbuf = None
HandlePkt(h) == IF Oldest \in Unknown THEN h ELSE [h EXCEPT !.txbuf = Oldest]

\* Counted: a connection lost that the server had not closed, a link lost.
LosesConn ==
  /\ hub.st # "CLOSED" /\ (hub'.st = "CLOSED" \/ hub'.port # hub.port)
  /\ ~Server.fin
LosesLink == hub.net = "online" /\ hub'.net = "down"
Count1(happens) == IF happens THEN 1 ELSE 0

\* What the hub holds outstanding it has sent.
Transmit ==
  sent' = sent \cup {s \in {[port |-> hub'.port, seq |-> hub'.snd,
                             req |-> hub'.txbuf, size |-> hub'.out]} : s.size # None}

Account ==
  /\ fails' = fails + Count1(LosesConn) + Count1(LosesLink) /\ fails' <= MaxFails
  /\ Transmit
  /\ UNCHANGED <<srv, issued, gone>>

NetTick(S) ==
  /\ \E h1 \in S : \E h \in TcpTick(h1) :
       IF CanWrite(h) /\ ~CMDPKT_ISEMPTY
       THEN hub' = HandlePkt(h) /\ Take
       ELSE hub' = h /\ UNCHANGED ring
  /\ Account

Quiet == read' = read

NetNothing == NetTick({hub}) /\ Quiet

\* dhcpc_configured.
NetConfigured ==
  hub.net = "boot" /\ NetTick({[hub EXCEPT !.net = "online"]}) /\ Quiet

\* ether_connected(FALSE), which tells pbhub.c and not tcp_uip.c.
NetLinkDown ==
  hub.net = "online" /\ NetTick({Disconnected([hub EXCEPT !.net = "down"])}) /\ Quiet

\* resolv.c: an answer; an error or the last retry.
NetAnswer ==
  hub.asked /\ NetTick({Resolved([hub EXCEPT !.known = TRUE], TRUE)}) /\ Quiet
NetNoAnswer ==
  hub.asked /\ NetTick({Resolved(hub, found) : found \in {FALSE, hub.known}}) /\ Quiet

\* uip_process in SYN_SENT, the SYNACK.
NetSynAck ==
  /\ hub.st = "SYN_SENT" /\ Server.open
  /\ NetTick({Connected([h EXCEPT !.tcp = TRUE]) :
                h \in SendData([hub EXCEPT !.st = "ESTABLISHED"])})
  /\ Quiet

\* A RST, an unexpected segment in SYN_SENT, the acknowledgement of our FIN.
NetEnd == hub.st # "CLOSED" /\ NetTick({Closed(hub)}) /\ Quiet

\* uip_process in ESTABLISHED: data or none, with or without the
\* acknowledgement of what is outstanding.
AfterAck(ack) == IF ack THEN Acked(hub) ELSE hub
AfterData(h, n) == IF n = 1 THEN NewData(h) ELSE h
ReadLine(n) ==
  read' = read \cup {Append(hub.line, p) :
            p \in {Piece(hub.port, hub.rcv + i) : i \in 1..n} \cap Ends}

NetData(n, ack) ==
  /\ hub.st = "ESTABLISHED" /\ hub.rcv + n <= FromServer
  /\ ack => AckedByServer
  /\ n = 1 \/ ack
  /\ NetTick(SendData(AfterData(AfterAck(ack), n)))
  /\ ReadLine(n)

\* The same with a FIN: not accepted while a request is outstanding.
NetFin(n, ack) ==
  /\ hub.st = "ESTABLISHED" /\ Last(n)
  /\ ack => AckedByServer
  /\ AfterAck(ack).out = None
  /\ NetTick({Disconnected([AfterData(AfterAck(ack), n)
                              EXCEPT !.st = "LAST_ACK", !.tcp = FALSE])})
  /\ ReadLine(n)

-----------------------------------------------------------------------------
(* The other parts of os_bg.                                                *)

\* radio_tick: mac_rx_cb, for a packet that decrypts.
MacRx ==
  /\ issued < Cardinality(Pkts)
  /\ issued' = issued + 1
  /\ Put(issued')
  /\ gone' = IF CMDPKT_ISFULL THEN gone \cup {Oldest} ELSE gone
  /\ UNCHANGED <<hub, sent, srv, fails, read>>

\* net_1hz and app_1hz.
Query(h) == LET q == [h EXCEPT !.asked = TRUE]
            IN {q} \cup (IF h.known THEN {Resolved(q, TRUE)} ELSE {})
App1Hz(h) == IF ~h.connected /\ h.net = "online" THEN Query(h) ELSE {h}

Second ==
  /\ \E h \in Periodic(hub) : hub' \in App1Hz(h)
  /\ UNCHANGED ring /\ Account /\ Quiet

\* watchdog_reset, ten seconds after the link came back; or power lost.
Reboot ==
  /\ fails' = (IF hub.net = "down" THEN fails ELSE fails + 1) /\ fails' <= MaxFails
  /\ hub' = Boot(hub.port)
  /\ Restart
  /\ gone' = gone \cup Range(Held) \cup ({hub.txbuf} \ {None})
  /\ UNCHANGED <<sent, srv, issued, read>>

-----------------------------------------------------------------------------
(* The server.                                                              *)

ServerDoes(c, s) ==
  /\ srv' = [srv EXCEPT ![c] = s]
  /\ UNCHANGED <<ring, hub, sent, issued, gone, read>>

SrvOpens(c) ==
  /\ c <= hub.port /\ ~srv[c].open
  /\ ServerDoes(c, [srv[c] EXCEPT !.open = TRUE]) /\ UNCHANGED fails

SrvTakes(c, s) ==
  /\ srv[c].open /\ ~srv[c].fin
  /\ s.port = c /\ s.seq = Len(srv[c].got)
  /\ ServerDoes(c, [srv[c] EXCEPT !.got = Append(@, [req |-> s.req, size |-> s.size]),
                                  !.replies = IF IsWhole(s) THEN Append(@, s.req) ELSE @])
  /\ UNCHANGED fails

SrvCloses(c) ==
  /\ c = hub.port /\ srv[c].open /\ ~srv[c].fin
  /\ fails < MaxFails /\ fails' = fails + 1
  /\ ServerDoes(c, [srv[c] EXCEPT !.fin = TRUE])

HubNext ==
  \/ NetNothing \/ NetConfigured \/ NetLinkDown \/ NetAnswer \/ NetNoAnswer
  \/ NetSynAck \/ NetEnd
  \/ \E n \in 0..1, ack \in BOOLEAN : NetData(n, ack) \/ NetFin(n, ack)
  \/ MacRx \/ Second \/ Reboot
SrvNext ==
  \E c \in Conns :
    \/ SrvOpens(c) \/ SrvCloses(c) \/ \E s \in sent : SrvTakes(c, s)
Next == HubNext \/ SrvNext

Spec == Init /\ [][Next]_vars

-----------------------------------------------------------------------------
(* Safety.                                                                  *)

TookWhole(r) == \E c \in Conns : \E s \in Range(srv[c].got) : s.req = r /\ IsWhole(s)

\* tcp_txbuf is emptied, and the next packet taken from the ring, only once
\* the server has the whole request: a request that is neither waiting nor at
\* the server was dropped by the full ring or a restart.
NothingLost ==
  \A r \in 1..issued :
    r \in Unknown \cup gone \cup Range(Held) \cup {hub.txbuf} \/ TookWhole(r)

\* The server is never asked out of order: each connection carries every
\* request at most once, and a later connection may begin with the request an
\* earlier one ended with, which tcp_appcall sends again when it connects.
InOrder ==
  \A c, d \in Conns : \A i \in DOMAIN srv[c].got, j \in DOMAIN srv[d].got :
    LET r == srv[c].got[i].req
        q == srv[d].got[j].req
    IN IF c = d THEN i < j => r < q ELSE c < d => r <= q

\* A retransmission is the segment it repeats: tcp_txbuf is not written again
\* while uIP may still have to send from it.
SameSegment ==
  \A s, t \in sent : s.port = t.port /\ s.seq = t.seq => s = t

\* line_rx only sees whole lines: what line.c held of a lost connection is not
\* joined to the first line of the next.
LinesWhole ==
  \A l \in read : \E r \in Pkts :
    l = <<[req |-> r, half |-> "first"], [req |-> r, half |-> "second"]>>

\* The three records of the connection agree: pbhub.c's, tcp_uip.c's and
\* uIP's.  They may only differ while the hub is offline, to be restarted.
FlagsAgree ==
  /\ hub.tcp <=> hub.st = "ESTABLISHED"
  /\ hub.connected => hub.tcp
  /\ hub.net = "online" /\ hub.tcp => hub.connected

-----------------------------------------------------------------------------
(* Liveness.  os_bg runs for ever; what is retransmitted long enough is     *)
(* received; a lost link comes back; retransmissions to a server that has   *)
(* closed are given up.                                                     *)

NetAcked == \E n \in 0..1 : NetData(n, TRUE) \/ NetFin(n, TRUE)
GivesUp == /\ Server.fin /\ hub.st # "CLOSED"
           /\ NetEnd \/ Second \/ NetNothing
           /\ hub'.st = "CLOSED"

Fairness ==
  /\ WF_vars(NetNothing) /\ WF_vars(Second) /\ WF_vars(GivesUp)
  /\ WF_vars(NetConfigured) /\ WF_vars(NetAnswer)
  /\ WF_vars(NetSynAck) /\ WF_vars(NetAcked)
  /\ WF_vars(hub.net = "down" /\ Reboot)
  /\ \A c \in Conns : WF_vars(SrvOpens(c)) /\ WF_vars(\E s \in sent : SrvTakes(c, s))

FairSpec == Spec /\ Fairness

\* When failures end the hub ends up connected, for good.
Settles == <>[](hub.connected /\ hub.st = "ESTABLISHED")

\* When failures end every packet accepted has reached the server or was
\* dropped: the ring and tcp_txbuf do not clog.
Drains ==
  \A r \in Pkts : issued >= r ~> (r \in Unknown \cup gone \/ TookWhole(r))

=============================================================================
