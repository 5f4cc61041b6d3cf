---------------------------- MODULE RadioMedium ----------------------------
(***************************************************************************)
(* The air between the stations of a SenseMote network: the CC1110 radio   *)
(* (os/radio_cc1110.c) or, in the simulator, a UDP multicast group         *)
(* (os/radio_posix.c).  A frame is heard by any station other than its     *)
(* sender, in any order, late, or never; over UDP also more than once.     *)
(*                                                                         *)
(* A poll exchange is numbered by the poller's poll_seq, so a frame is as  *)
(* old as the number of times its poller has advanced poll_seq since the   *)
(* poll was sent: that ghost, "age", is what bounds a frame's life.        *)
(***************************************************************************)
EXTENDS Integers

CONSTANTS
  Nodes,       \* devices, named by their EUI64
  Present,     \* the devices switched on and in range; hubs may address others
  Hubs,        \* coordinators in radio range of each other and of the nodes
  UpPkts,      \* payloads a device sends
  DownPkts,    \* payloads a coordinator queues, each queued at most once
  EmptyPkt,    \* the payload of a bare poll (pb_poll sends length 0)
  SeqMod,      \* poll_seq is a uint8_t: 256 in the program
  MaxLate,     \* a frame dies before its poller advances poll_seq this often
  Duplicates   \* TRUE: a station may hear the same frame again

ASSUME MediumAssumption ==
  /\ Nodes \cap Hubs = {} /\ Present \subseteq Nodes
  /\ UpPkts \cap DownPkts = {}
  /\ EmptyPkt \notin UpPkts \cup DownPkts
  /\ SeqMod \in Nat /\ MaxLate \in 1..(SeqMod - 1)
  /\ Duplicates \in BOOLEAN

VARIABLE air   \* the frames some station may still hear

Stations == Nodes \cup Hubs
Pkts == UpPkts \cup DownPkts \cup {EmptyPkt}
FrameTypes == {"poll", "data", "pollack"}

(***************************************************************************)
(* The header fields the code writes and reads: type, EUI64 of the device  *)
(* (never of the hub) and poll_seq; pkt is the payload.  age and left are  *)
(* the medium's own: left holds the stations that may still hear it.       *)
(***************************************************************************)
Frames == [type: FrameTypes, eui64: Nodes, seq: 0..(SeqMod - 1), pkt: Pkts,
           age: 0..(MaxLate - 1), left: SUBSET Stations]

Frame(type, n, seq, pkt, age, sender) ==
  [type |-> type, eui64 |-> n, seq |-> seq, pkt |-> pkt, age |-> age,
   left |-> (Present \cup Hubs) \ {sender}]

Hears(st, f) == f \in air /\ st \in f.left

\* What is left in the air once st has heard f.
Heard(st, f) ==
  IF Duplicates THEN air
  ELSE (air \ {f}) \cup {g \in {[f EXCEPT !.left = @ \ {st}]} : g.left # {}}

\* The frames of A after device n has advanced its poll_seq once.
Aged(n, A) ==
  {f \in A : f.eui64 # n} \cup
  {[f EXCEPT !.age = @ + 1] : f \in {g \in A : g.eui64 = n /\ g.age + 1 < MaxLate}}

=============================================================================
