------------------------------ MODULE CmdRing -------------------------------
(***************************************************************************)
(* The ring of device packets in apps/pbhub/pbhub.c: filled by mac_rx_cb,   *)
(* emptied by tcp_event(TCP_EVENT_CANWRITE).                                *)
(***************************************************************************)
EXTENDS Naturals, Sequences

CONSTANTS
  NUM_CMDPKTS,  \* slots of the ring
  Pkts,         \* what a slot may hold: a device's packet and its address
  Blank         \* a slot never written

ASSUME RingAssumption == NUM_CMDPKTS \in Nat /\ NUM_CMDPKTS >= 2 /\ Blank \notin Pkts

VARIABLES
  cmdpkts, cmdpkt_rd, cmdpkt_wr,
  lives     \* history: restarts so far

ring == <<cmdpkts, cmdpkt_rd, cmdpkt_wr, lives>>
Indices == 0 .. NUM_CMDPKTS - 1

RingTypeOK ==
  /\ cmdpkts \in [Indices -> Pkts \cup {Blank}]
  /\ cmdpkt_rd \in Indices /\ cmdpkt_wr \in Indices /\ lives \in Nat

RingInit ==
  cmdpkts = [i \in Indices |-> Blank] /\ cmdpkt_rd = 0 /\ cmdpkt_wr = 0 /\ lives = 0

NextNoWrap(x) == x + 1                                       \* mutant
CMDPKT_NEXT(x) == IF x + 1 >= NUM_CMDPKTS THEN x + 1 - NUM_CMDPKTS ELSE x + 1
CMDPKT_ISEMPTY == cmdpkt_rd = cmdpkt_wr
FullNever == FALSE                                           \* mutant
CMDPKT_ISFULL == ~CMDPKT_ISEMPTY /\ CMDPKT_NEXT(cmdpkt_wr) = cmdpkt_rd
Oldest == cmdpkts[cmdpkt_rd]

\* mac_rx_cb, for a packet that decrypts.
Put(p) ==
  /\ cmdpkt_rd' = IF CMDPKT_ISFULL THEN CMDPKT_NEXT(cmdpkt_rd) ELSE cmdpkt_rd
  /\ cmdpkts' = [cmdpkts EXCEPT ![cmdpkt_wr] = p]
  /\ cmdpkt_wr' = CMDPKT_NEXT(cmdpkt_wr) /\ UNCHANGED lives

\* tcp_event(TCP_EVENT_CANWRITE), once handle_pkt has read the oldest packet.
Take ==
  /\ ~CMDPKT_ISEMPTY
  /\ cmdpkt_rd' = CMDPKT_NEXT(cmdpkt_rd)
  /\ UNCHANGED <<cmdpkts, cmdpkt_wr, lives>>

\* A restart: app_init, in memory the reset has cleared.
Restart ==
  /\ cmdpkts' = [i \in Indices |-> Blank] /\ cmdpkt_rd' = 0 /\ cmdpkt_wr' = 0
  /\ lives' = lives + 1

RingNext == (\E p \in Pkts : Put(p)) \/ Take \/ Restart
RingSpec == RingInit /\ [][RingNext]_ring

-----------------------------------------------------------------------------
(* The packets held, oldest first.                                          *)
Count == IF cmdpkt_rd <= cmdpkt_wr THEN cmdpkt_wr - cmdpkt_rd
         ELSE NUM_CMDPKTS - cmdpkt_rd + cmdpkt_wr
Slot(i) == IF cmdpkt_rd + i - 1 < NUM_CMDPKTS THEN cmdpkt_rd + i - 1
           ELSE cmdpkt_rd + i - 1 - NUM_CMDPKTS
Held == [i \in 1..Count |-> cmdpkts[Slot(i)]]

Queue == INSTANCE PktQueue WITH queue <- Held, Capacity <- NUM_CMDPKTS - 1

\* The ring, its indices wrapping and one slot always empty, is the bounded
\* queue of PktQueue: nothing is lost but the oldest packet of a full ring,
\* and nothing is read twice or out of order.
ImplementsQueue == Queue!Spec

=============================================================================
