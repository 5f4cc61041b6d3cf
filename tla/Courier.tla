------------------------------ MODULE Courier -------------------------------
(***************************************************************************)
(* What the coordinators' MAC promises its application, without frames,    *)
(* sequence numbers, slots or time: a packet accepted for a device is held *)
(* until it is either sent to the device or returned as undeliverable,     *)
(* once; a sent packet reaches that device at most once, not after a later *)
(* one of the same hub; a hub holds a bounded number of packets, and one   *)
(* per device.  Delivery itself is not promised.                           *)
(***************************************************************************)
EXTENDS Integers, FiniteSets

CONSTANTS Nodes, Hubs, DownPkts, Capacity

VARIABLE mail   \* each packet: its state and, once accepted, its delivery note

New == [st |-> "new"]
Accepted(p) == mail[p].st # "new"
HeldBy(h) == {p \in DownPkts : mail[p].st = "held" /\ mail[p].hub = h}
Become(P, st) == mail' = [p \in DownPkts |-> IF p \in P THEN [mail[p] EXCEPT !.st = st]
                                             ELSE mail[p]]

Init == mail = [p \in DownPkts |-> New]

Accept(h, n, p) ==
  /\ ~Accepted(p)
  /\ Cardinality(HeldBy(h)) < Capacity
  /\ \A q \in HeldBy(h) : mail[q].dst # n
  /\ mail' = [mail EXCEPT ![p] =
       [st |-> "held", hub |-> h, dst |-> n, before |-> {q \in DownPkts : Accepted(q)}]]

Send(h, p) == p \in HeldBy(h) /\ Become({p}, "sent")

Return(h, P) == P \subseteq HeldBy(h) /\ Become(P, "returned")

Overtaken(p) ==
  \E q \in DownPkts : /\ mail[q].st = "delivered"
                      /\ mail[q].hub = mail[p].hub /\ mail[q].dst = mail[p].dst
                      /\ p \in mail[q].before

Deliver(p) == mail[p].st = "sent" /\ ~Overtaken(p) /\ Become({p}, "delivered")

Next ==
  \/ \E h \in Hubs :
       \/ \E n \in Nodes, p \in DownPkts : Accept(h, n, p)
       \/ \E p \in DownPkts : Send(h, p)
       \/ \E P \in SUBSET DownPkts : Return(h, P)
  \/ \E p \in DownPkts : Deliver(p)

Spec == Init /\ [][Next]_mail

=============================================================================
