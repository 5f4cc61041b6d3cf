------------------------------ MODULE MacCoord ------------------------------
(***************************************************************************)
(* The coordinator half of the MAC, os/mac_coord.c: a table of NumSlots    *)
(* packets, each held for one device until that device polls or the        *)
(* packet's seconds run out.                                               *)
(***************************************************************************)
EXTENDS RadioMedium

CONSTANTS
  NumSlots,    \* NUM_SLOTS
  TimeoutS,    \* TIMEOUT_S
  LocalSeqs,   \* the local_seq values users pass to mac_tx
  NoPkt        \* the content of a slot whose length is 0

ASSUME CoordAssumption ==
  /\ NumSlots \in Nat \ {0} /\ TimeoutS \in Nat
  /\ NoPkt \notin [dst_eui64: Nodes, pkt: DownPkts, local_seq: LocalSeqs,
                   timeout: 0..TimeoutS]

VARIABLES
  slottbl,  \* the slot table of each hub
  post,     \* history: what became of each downlink packet
  heard     \* history: what each hub's mac_rx_cb was called with

coordVars == <<slottbl, post, heard>>

Slots == 1..NumSlots
Entries == [dst_eui64: Nodes, pkt: DownPkts, local_seq: LocalSeqs,
            timeout: 0..TimeoutS]

(***************************************************************************)
(* A packet's history: st "new" until a hub's mac_tx accepts it, "held" in *)
(* a slot, "sent" or "expired" by the mac_tx_cb that reported it,          *)
(* "forgotten" when the hub restarted; then the hub, the destination and   *)
(* the packets accepted before it.                                         *)
(***************************************************************************)
Fates == {"new", "held", "sent", "expired", "forgotten"}
Posted(h, n) ==
  [st |-> "held", hub |-> h, dst |-> n,
   before |-> {q \in DownPkts : post[q].st # "new"}]
PostType == [st: {"new"}] \cup
            [st: Fates \ {"new"}, hub: Hubs, dst: Nodes, before: SUBSET DownPkts]

CoordTypeOK ==
  /\ slottbl \in [Hubs -> [Slots -> Entries \cup {NoPkt}]]
  /\ post \in [DownPkts -> PostType]
  /\ heard \in [Hubs -> SUBSET (Nodes \X Pkts \X BOOLEAN)]

CoordInit ==
  /\ slottbl = [h \in Hubs |-> [i \in Slots |-> NoPkt]]
  /\ post = [p \in DownPkts |-> [st |-> "new"]]
  /\ heard = [h \in Hubs |-> {}]

Used(h) == {i \in Slots : slottbl[h][i] # NoPkt}
Free(h) == Slots \ Used(h)
IsFirst(i, S) == i \in S /\ \A j \in S : i <= j
SetFate(P, st) ==
  [p \in DownPkts |-> IF p \in P THEN [post[p] EXCEPT !.st = st] ELSE post[p]]

-----------------------------------------------------------------------------
(* mac_tx: the calls that return a buffer.  A refused call changes nothing. *)

SameDst(h, i, n) == slottbl[h][i].dst_eui64 = n
SameSeq(h, i, s) == slottbl[h][i].local_seq = s

CoordTx(h, n, p, s) ==
  /\ post[p].st = "new"
  /\ \A i \in Used(h) : ~SameDst(h, i, n) /\ ~SameSeq(h, i, s)
  /\ \E i \in Slots :
       /\ IsFirst(i, Free(h))
       /\ slottbl' = [slottbl EXCEPT ![h][i] =
            [dst_eui64 |-> n, pkt |-> p, local_seq |-> s, timeout |-> TimeoutS]]
  /\ post' = [post EXCEPT ![p] = Posted(h, n)]
  /\ UNCHANGED <<air, heard>>

-----------------------------------------------------------------------------
(* radio_received: the three ways through it.                              *)

\* mac_rx_cb is told of a non-empty payload.  It is read behind the poll_seq
\* byte whatever the frame's type, so that of a frame that is not a poll,
\* which has no such byte, is read one byte late: the third component.
Uplink(f) == IF f.pkt = EmptyPkt THEN {} ELSE {<<f.eui64, f.pkt, f.type = "data">>}

FromNoHub(f) == FALSE                 \* mutant
FromHub(f) == f.type = "pollack"
HeldFor(h, n) == {i \in Used(h) : SameDst(h, i, n)}

CoordDrops(h, f) ==
  /\ Hears(h, f) /\ FromHub(f)
  /\ air' = Heard(h, f)
  /\ UNCHANGED coordVars

CoordListens(h, f) ==
  /\ Hears(h, f) /\ ~FromHub(f)
  /\ f.type = "poll" => HeldFor(h, f.eui64) = {}
  /\ air' = Heard(h, f)
  /\ heard' = [heard EXCEPT ![h] = @ \cup Uplink(f)]
  /\ UNCHANGED <<slottbl, post>>

KeptAfterSend(h, i) == slottbl[h][i]  \* mutant
\* The content of slot i once it has been transmitted.
AfterSend(h, i) == NoPkt

CoordAnswers(h, f) ==
  /\ Hears(h, f) /\ ~FromHub(f) /\ f.type = "poll"
  /\ \E i \in Slots :
       /\ IsFirst(i, HeldFor(h, f.eui64))
       /\ air' = Heard(h, f) \cup
            {Frame("pollack", f.eui64, f.seq, slottbl[h][i].pkt, f.age, h)}
       /\ post' = SetFate({slottbl[h][i].pkt}, "sent")
       /\ slottbl' = [slottbl EXCEPT ![h][i] = AfterSend(h, i)]
  /\ heard' = [heard EXCEPT ![h] = @ \cup Uplink(f)]

-----------------------------------------------------------------------------
(* mac_1hz: one second of every slot; and a restart, after which mac_init   *)
(* finds the table empty.                                                   *)

RunOut(h) == {i \in Used(h) : slottbl[h][i].timeout = 0}
SecondKeepsExpired(h, i) ==           \* mutant: length is not cleared
  IF i \in Free(h) \cup RunOut(h) THEN slottbl[h][i]
  ELSE [slottbl[h][i] EXCEPT !.timeout = @ - 1]
SecondStands(h, i) ==                 \* mutant: timeout is not decremented
  IF i \in Free(h) \cup RunOut(h) THEN NoPkt ELSE slottbl[h][i]
Second(h, i) ==
  IF i \in Free(h) \cup RunOut(h) THEN NoPkt
  ELSE [slottbl[h][i] EXCEPT !.timeout = @ - 1]

Coord1Hz(h) ==
  /\ slottbl' = [slottbl EXCEPT ![h] = [i \in Slots |-> Second(h, i)]]
  /\ post' = SetFate({slottbl[h][i].pkt : i \in RunOut(h)}, "expired")
  /\ UNCHANGED <<air, heard>>

CoordRestart(h) ==
  /\ slottbl' = [slottbl EXCEPT ![h] = [i \in Slots |-> NoPkt]]
  /\ post' = SetFate({slottbl[h][i].pkt : i \in Used(h)}, "forgotten")
  /\ UNCHANGED <<air, heard>>

=============================================================================
