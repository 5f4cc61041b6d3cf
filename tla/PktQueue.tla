------------------------------ MODULE PktQueue ------------------------------
(***************************************************************************)
(* What the hub's FIFO of device packets promises: first in first out, and  *)
(* when a packet comes that does not fit, the oldest one makes room for it. *)
(***************************************************************************)
EXTENDS Naturals, Sequences

CONSTANTS Pkts, Capacity

VARIABLES queue, lives   \* lives: how often the hub has restarted

Init == queue = <<>> /\ lives = 0

Kept == IF Len(queue) = Capacity THEN Tail(queue) ELSE queue
Put(p) == queue' = Append(Kept, p) /\ lives' = lives
Take == queue # <<>> /\ queue' = Tail(queue) /\ lives' = lives
Clear == queue' = <<>> /\ lives' = lives + 1

Next == (\E p \in Pkts : Put(p)) \/ Take \/ Clear
Spec == Init /\ [][Next]_<<queue, lives>>

=============================================================================
