------------------------------ MODULE MacLink -------------------------------
(***************************************************************************)
(* The radio link: coordinators and devices sharing the air.  Each station *)
(* is one single-threaded program, so a handler that does not call back    *)
(* into its application and wait is one step.                              *)
(***************************************************************************)
EXTENDS MacCoord, MacNode

CONSTANTS HubRestarts, NodeRestarts   \* the stations that may restart

vars == <<air, coordVars, nodeVars>>

Init == air = {} /\ CoordInit /\ NodeInit

CoordNext ==
  /\ \E h \in Hubs :
       \/ \E n \in Nodes, p \in DownPkts, s \in LocalSeqs : CoordTx(h, n, p, s)
       \/ \E f \in air : CoordDrops(h, f)
       \/ \E f \in air : CoordListens(h, f)
       \/ \E f \in air : CoordAnswers(h, f)
       \/ Coord1Hz(h)
       \/ h \in HubRestarts /\ CoordRestart(h)
  /\ UNCHANGED nodeVars

NodeNext ==
  /\ \E n \in Nodes :
       \/ \E pkt \in UpPkts \cup {EmptyPkt} : NodePolls(n, pkt)
       \/ \E pkt \in UpPkts : NodeSends(n, pkt)
       \/ NodeTxReturns(n)
       \/ \E f \in air : NodeDrops(n, f)
       \/ \E f \in air : NodeBadSeq(n, f)
       \/ \E f \in air : NodeTakes(n, f)
       \/ NodeRxCbReturns(n)
       \/ NodeTxCbReturns(n)
       \/ NodeTimesOut(n)
       \/ NodeToRxReturns(n)
       \/ NodeToTxReturns(n)
       \/ n \in NodeRestarts /\ NodeRestart(n)
  /\ UNCHANGED coordVars

Next == CoordNext \/ NodeNext

Spec == Init /\ [][Next]_vars

(***************************************************************************)
(* os_bg runs for ever and calls mac_1hz each second; a device in mac_tx's *)
(* loop calls mac_tick, whose clock advances; applications' callbacks      *)
(* return.  Nothing is assumed of the air or of when applications send.    *)
(***************************************************************************)
Fairness ==
  /\ \A h \in Hubs : WF_vars(Coord1Hz(h) /\ UNCHANGED nodeVars)
  /\ \A n \in Nodes :
       /\ WF_vars(NodeTimesOut(n) /\ UNCHANGED coordVars)
       /\ WF_vars(NodeTxReturns(n) /\ UNCHANGED coordVars)
       /\ WF_vars(NodeRxCbReturns(n) /\ UNCHANGED coordVars)
       /\ WF_vars(NodeTxCbReturns(n) /\ UNCHANGED coordVars)
       /\ WF_vars(NodeToRxReturns(n) /\ UNCHANGED coordVars)
       /\ WF_vars(NodeToTxReturns(n) /\ UNCHANGED coordVars)

FairSpec == Spec /\ Fairness

-----------------------------------------------------------------------------
\* Every variable stays in the set its declaration describes: poll_seq and the
\* seconds left in a slot keep their width, a frame's fields their ranges.
TypeOK == air \subseteq Frames /\ CoordTypeOK /\ NodeTypeOK

\* No two pending slots of a hub are for the same device or have the same
\* local_seq, so a poll finds at most one packet and the local_seq given to
\* mac_tx_cb names one packet (mac_tx's two checks, mac_coord.c:200-209).
SlotsDistinct ==
  \A h \in Hubs : \A i, j \in Used(h) :
    i # j => /\ slottbl[h][i].dst_eui64 # slottbl[h][j].dst_eui64
             /\ slottbl[h][i].local_seq # slottbl[h][j].local_seq

\* A packet is in exactly one slot while mac_tx_cb has not reported it, and in
\* none afterwards: no packet is lost silently, none is reported twice.
HeldIffPending ==
  \A p \in DownPkts : \A h \in Hubs :
    LET in == {i \in Used(h) : slottbl[h][i].pkt = p}
    IN  IF post[p].st = "held" /\ post[p].hub = h
        THEN \E i \in in : in = {i} /\ slottbl[h][i].dst_eui64 = post[p].dst
        ELSE in = {}

\* A packet on the air or in a device's hands is one that its hub reported as
\* transmitted (wasPolledFor TRUE): one that "timed out" is never delivered.
OnlySentTravels ==
  /\ \A f \in air : f.type = "pollack" => f.pkt \in DownPkts /\ post[f.pkt].st = "sent"
  /\ \A n \in Nodes : \A i \in 1..Len(inbox[n]) :
       inbox[n][i] \in DownPkts /\ post[inbox[n][i]].st = "sent"

\* A device's mac_rx_cb gets a packet at most once, only packets for this
\* device, and those of one hub in the order the hub's mac_tx accepted them,
\* although the air repeats, delays and reorders frames.
InboxInOrder ==
  \A n \in Nodes : \A i, j \in 1..Len(inbox[n]) :
    /\ post[inbox[n][i]].dst = n
    /\ i < j => /\ inbox[n][i] # inbox[n][j]
                /\ post[inbox[n][i]].hub = post[inbox[n][j]].hub =>
                     inbox[n][j] \notin post[inbox[n][i]].before

\* A reply that comes after its poll has timed out, or an answer to an earlier
\* poll, is not handed up: mac_rx_cb gets a packet only while a poll is open.
OnlyWhilePolling ==
  [][\A n \in Nodes : inbox'[n] # inbox[n] => waitAck[n]]_vars

\* What a hub's application hears came from a device: a hub does not take
\* another hub's answer for an uplink packet (mac_coord.c:96).
NoCrossTalk ==
  \A h \in Hubs : \A u \in heard[h] : u[2] \in UpPkts

\* The loop of mac_tx can end: while it waits, pollPending names this very
\* call, which is what mac_tick needs to time it out.
WaitCanEnd ==
  \A n \in Nodes :
    /\ waitAck[n] <=> pollPending[n] # 0
    /\ In(n, "spin") /\ waitAck[n] => pollPending[n] = Depth(n)

\* mac_tx returns after exactly one mac_tx_cb for its packet ("called either
\* once tx is complete, or poll is complete", mac.h:195).
OneTxCallback ==
  \A n \in Nodes : (In(n, "spin") /\ ~waitAck[n]) \/ In(n, "sent") => Top(n).cbs = 1

\* While mac_tx waits, no answer to its poll is thrown away: "the device enters
\* receive mode and waits for a response from the coordinator" (mac.h:33).
ReplyIsTaken ==
  [][\A n \in Nodes, f \in air :
       NodeBadSeq(n, f) => ~(In(n, "spin") /\ waitAck[n] /\ f.seq = Top(n).seq)]_vars

\* The packet handed to a coordinator's mac_rx_cb is the one received ("pkt:
\* received packet", mac.h:91), whether or not the device also polled.
UplinkIntact == \A h \in Hubs : \A u \in heard[h] : ~u[3]

\* The hubs' MACs implement Courier: a packet is delivered once it is in the
\* inbox of its device, and returned once mac_tx_cb said FALSE or a restart
\* has wiped its slot.
DeliveredTo(n) == {inbox[n][i] : i \in 1..Len(inbox[n])}
MailState(p) ==
  CASE post[p].st \in {"expired", "forgotten"} -> "returned"
    [] post[p].st = "sent" /\ p \in DeliveredTo(post[p].dst) -> "delivered"
    [] OTHER -> post[p].st
Mail == INSTANCE Courier WITH
  Capacity <- NumSlots,
  mail <- [p \in DownPkts |-> [post[p] EXCEPT !.st = MailState(p)]]
ImplementsCourier == Mail!Spec

-----------------------------------------------------------------------------
\* Every packet a hub accepts is reported by mac_tx_cb, unless the hub
\* restarts first: mac_1hz runs its timeout down although other slots, polls
\* and packets keep coming.
PacketIsReported ==
  \A p \in DownPkts : post[p].st = "held" ~> post[p].st \in {"sent", "expired", "forgotten"}

\* Whatever is on the air, or is not, no wait of mac_tx lasts for ever.
WaitEnds == \A n \in Nodes : waitAck[n] ~> ~waitAck[n]

=============================================================================
