------------------------- MODULE MacDeliveryProofs --------------------------
(***************************************************************************)
(* Proofs of what a device's mac_rx_cb is given: whose packets, how often, *)
(* in which order and when.  They rest on one fact about the sequence      *)
(* number: a frame that a device has let pass by k advances of poll_seq    *)
(* carries the value poll_seq had k advances ago, so that a frame whose    *)
(* number matches is an answer to the poll that is open now.               *)
(* Then that hubs and devices implement Courier, and that every mac_tx ends *)
(* and is reported once.                                                   *)
(***************************************************************************)
EXTENDS MacLinkProofs, FiniteSetTheorems

\* poll_seq as it was a advances ago.
Back(n, a) == IF poll_seq[n] >= a THEN poll_seq[n] - a ELSE poll_seq[n] - a + SeqMod

\* Frame f agrees with what was sent and with its device's state.
Consistent(f) ==
  /\ f.type = "pollack" =>
       f.pkt \in DownPkts /\ post[f.pkt].st = "sent" /\ post[f.pkt].dst = f.eui64
  /\ f.type # "pollack" => f.eui64 \notin f.left /\ f.pkt \in UpPkts \cup {EmptyPkt}
  /\ f.type # "data" => f.seq = Back(f.eui64, f.age)
  /\ f.type # "data" /\ f.age = 0 => In(f.eui64, "spin") /\ waitAck[f.eui64]

AirInv == \A f \in air : Consistent(f)

\* Packet p may still be given to a device that has already been given q.
MayFollow(p, q) == p # q /\ (post[p].hub = post[q].hub => p \notin post[q].before)

\* What is in an inbox has been sent to this device, and an answer that its
\* device would take may follow it.
InboxInv ==
  \A n \in Nodes : \A i \in 1..Len(inbox[n]) :
    /\ inbox[n][i] \in DownPkts
    /\ post[inbox[n][i]].st = "sent"
    /\ post[inbox[n][i]].dst = n
    /\ \A f \in air : f.type = "pollack" /\ f.eui64 = n /\ f.age = 0 =>
         MayFollow(f.pkt, inbox[n][i])

\* A packet accepted before another one of the same hub and device was out of
\* the table by then.
BeforeInv ==
  \A p, q \in DownPkts : post[q].st # "new" /\ p \in post[q].before =>
    /\ post[p].st # "new"
    /\ post[p].hub = post[q].hub /\ post[p].dst = post[q].dst => post[p].st # "held"

DeliveryInv == AirInv /\ InboxInv /\ BeforeInv /\ InboxInOrder /\ NoCrossTalk

LEMMA DeliveryInit == Init => DeliveryInv
BY DEF Init, CoordInit, NodeInit, DeliveryInv, AirInv, InboxInv, BeforeInv, InboxInOrder,
       NoCrossTalk

\* Frame g is what frame e may have become.
Trace(g, e) ==
  /\ g.type = e.type /\ g.eui64 = e.eui64 /\ g.seq = e.seq /\ g.pkt = e.pkt
  /\ g.left \subseteq e.left

\* The age of a frame is less than the number of sequence numbers.
LEMMA AgeIsShort ==
  ASSUME NEW f \in Frames
  PROVE  /\ f.age \in Nat /\ f.age < SeqMod - 1
         /\ f.eui64 \in Nodes /\ f.seq \in 0..(SeqMod - 1) /\ SeqMod \in Nat
BY MediumAssumption DEF Frames

\* The number that matches is the present one.
LEMMA BackIsPresent ==
  ASSUME TypeOK, NEW n \in Nodes, NEW a \in Nat, a < SeqMod
  PROVE  Back(n, a) = poll_seq[n] <=> a = 0
<1>1. poll_seq[n] \in 0..(SeqMod - 1) /\ SeqMod \in Nat
  BY MediumAssumption DEF TypeOK, NodeTypeOK
<1> QED
  BY <1>1 DEF Back

\* One advance later, the same number lies one advance further back.
LEMMA BackAdvances ==
  ASSUME TypeOK, NEW n \in Nodes, NEW a \in Nat, a < SeqMod - 1,
         poll_seq' = [poll_seq EXCEPT ![n] = NextSeq(n)]
  PROVE  Back(n, a + 1)' = Back(n, a)
<1>1. /\ poll_seq[n] \in 0..(SeqMod - 1) /\ SeqMod \in Nat
      /\ poll_seq'[n] = NextSeq(n)
  BY MediumAssumption DEF TypeOK, NodeTypeOK
<1> QED
  BY <1>1 DEF Back, NextSeq

-----------------------------------------------------------------------------
(***************************************************************************)
(* Steps of the devices, which leave the packets' fates alone.             *)
(***************************************************************************)

\* A device in another call than a waiting mac_tx has no poll open.
NoOpenPoll(n) == \A f \in air : f.eui64 = n /\ f.type # "data" => f.age # 0

LEMMA NotWaiting ==
  ASSUME AirInv, NEW n \in Nodes, ~(In(n, "spin") /\ waitAck[n])
  PROVE  NoOpenPoll(n)
BY DEF AirInv, Consistent, NoOpenPoll

\* The air loses frames; device n, which has no poll open, may call and return.
LEMMA LocalKeeps ==
  ASSUME TypeOK, DeliveryInv, NEW n \in Nodes,
         \A g \in air' : \E e \in air : Trace(g, e) /\ g.age = e.age,
         \A m \in Nodes \ {n} : stack'[m] = stack[m] /\ waitAck'[m] = waitAck[m],
         NoOpenPoll(n) \/ (stack'[n] = stack[n] /\ waitAck'[n] = waitAck[n]),
         UNCHANGED <<poll_seq, inbox, coordVars>>
  PROVE  DeliveryInv'
<1>1. ASSUME NEW g \in air' PROVE Consistent(g)'
  <2>1. PICK e \in air : Trace(g, e) /\ g.age = e.age
    OBVIOUS
  <2>2. Consistent(e) /\ e.eui64 \in Nodes
    BY DEF DeliveryInv, AirInv, TypeOK, Frames
  <2>3. e.type # "data" /\ e.age = 0 =>
          stack'[e.eui64] = stack[e.eui64] /\ waitAck'[e.eui64] = waitAck[e.eui64]
    BY <2>2 DEF NoOpenPoll
  <2> QED
    BY <2>1, <2>2, <2>3 DEF Trace, Consistent, Back, In, Top, Depth, coordVars
<1>2. InboxInv'
  BY DEF DeliveryInv, InboxInv, Trace, MayFollow, coordVars
<1> QED
  BY <1>1, <1>2 DEF DeliveryInv, AirInv, BeforeInv, InboxInOrder, NoCrossTalk, coordVars

\* Device n advances poll_seq: no answer it would take is left.
LEMMA AdvanceKeeps ==
  ASSUME TypeOK, DeliveryInv, NEW n \in Nodes, NEW A \in SUBSET Frames,
         \A g \in A : \E e \in air : Trace(g, e) /\ g.age = e.age,
         air' = Aged(n, A),
         poll_seq' = [poll_seq EXCEPT ![n] = NextSeq(n)],
         \A m \in Nodes \ {n} : stack'[m] = stack[m] /\ waitAck'[m] = waitAck[m],
         UNCHANGED coordVars
  PROVE  /\ AirInv'
         /\ \A g \in air' : g.eui64 = n => g.age # 0
         /\ \A g \in air' : g.eui64 # n => \E e \in air : Trace(g, e) /\ g.age = e.age
<1>1. ASSUME NEW g \in air', g.eui64 # n
      PROVE  Consistent(g)' /\ \E e \in air : Trace(g, e) /\ g.age = e.age
  <2>1. g \in A
    BY <1>1, AgedKeeps
  <2>2. PICK e \in air : Trace(g, e) /\ g.age = e.age
    BY <2>1
  <2>3. Consistent(e) /\ e.eui64 \in Nodes \ {n}
    BY <1>1, <2>2 DEF DeliveryInv, AirInv, TypeOK, Frames, Trace
  <2>4. poll_seq'[e.eui64] = poll_seq[e.eui64]
    BY <2>3 DEF TypeOK, NodeTypeOK
  <2> QED
    BY <2>2, <2>3, <2>4 DEF Trace, Consistent, Back, In, Top, Depth, coordVars
<1>2. ASSUME NEW g \in air', g.eui64 = n
      PROVE  Consistent(g)' /\ g.age # 0
  <2>1. PICK d \in A : /\ d.type = g.type /\ d.eui64 = g.eui64 /\ d.seq = g.seq
                       /\ d.pkt = g.pkt /\ d.left = g.left /\ g.age = d.age + 1
    BY <1>2, AgedKeeps
  <2>2. PICK e \in air : Trace(d, e) /\ d.age = e.age
    BY <2>1
  <2>3. Consistent(e) /\ e.eui64 = n /\ e \in Frames
    BY <1>2, <2>1, <2>2 DEF DeliveryInv, AirInv, TypeOK, Trace
  <2>4. e.age \in Nat /\ e.age < SeqMod - 1 /\ g.age = e.age + 1
    BY <2>1, <2>2, <2>3, AgeIsShort
  <2>5. Back(n, g.age)' = Back(n, e.age)
    BY <2>4, BackAdvances
  <2>6. g.type # "data" => g.seq = Back(g.eui64, g.age)'
    BY <1>2, <2>1, <2>2, <2>3, <2>5 DEF Trace, Consistent, Back
  <2> QED
    BY <2>1, <2>2, <2>3, <2>4, <2>6 DEF Trace, Consistent, coordVars
<1> QED
  BY <1>1, <1>2 DEF AirInv

\* The frames left when a device has heard one of them.
LEMMA HeardTraces ==
  ASSUME TypeOK, NEW st, NEW f \in air
  PROVE  /\ Heard(st, f) \in SUBSET Frames
         /\ \A g \in Heard(st, f) : \E e \in air : Trace(g, e) /\ g.age = e.age
BY HeardKeeps DEF TypeOK, Trace

\* With its inbox as it was, a device that advances poll_seq keeps them all.
LEMMA SkipKeeps ==
  ASSUME TypeOK, DeliveryInv, NEW n \in Nodes, NEW A \in SUBSET Frames,
         \A g \in A : \E e \in air : Trace(g, e) /\ g.age = e.age,
         air' = Aged(n, A),
         poll_seq' = [poll_seq EXCEPT ![n] = NextSeq(n)],
         \A m \in Nodes \ {n} : stack'[m] = stack[m] /\ waitAck'[m] = waitAck[m],
         UNCHANGED <<inbox, coordVars>>
  PROVE  DeliveryInv'
<1>1. /\ AirInv'
      /\ \A g \in air' : g.eui64 = n => g.age # 0
      /\ \A g \in air' : g.eui64 # n => \E e \in air : Trace(g, e) /\ g.age = e.age
  BY AdvanceKeeps
<1>2. InboxInv'
  <2> SUFFICES ASSUME NEW m \in Nodes, NEW i \in 1..Len(inbox[m])
               PROVE  /\ inbox[m][i] \in DownPkts
                      /\ post[inbox[m][i]].st = "sent"
                      /\ post[inbox[m][i]].dst = m
                      /\ \A g \in air' : g.type = "pollack" /\ g.eui64 = m /\ g.age = 0 =>
                           MayFollow(g.pkt, inbox[m][i])
    BY DEF InboxInv, MayFollow, coordVars
  <2>1. /\ inbox[m][i] \in DownPkts
        /\ post[inbox[m][i]].st = "sent"
        /\ post[inbox[m][i]].dst = m
        /\ \A e \in air : e.type = "pollack" /\ e.eui64 = m /\ e.age = 0 =>
             MayFollow(e.pkt, inbox[m][i])
    BY DEF DeliveryInv, InboxInv
  <2>2. ASSUME NEW g \in air', g.type = "pollack", g.eui64 = m, g.age = 0
        PROVE  MayFollow(g.pkt, inbox[m][i])
    <3>1. PICK e \in air : Trace(g, e) /\ g.age = e.age
      BY <1>1, <2>2
    <3> QED
      BY <2>1, <2>2, <3>1 DEF Trace
  <2> QED
    BY <2>1, <2>2
<1> QED
  BY <1>1, <1>2 DEF DeliveryInv, BeforeInv, InboxInOrder, NoCrossTalk, coordVars

\* A frame a device takes is an answer to its open poll.
LEMMA TakenIsAnswer ==
  ASSUME TypeOK, DeliveryInv, NEW n \in Nodes, NEW f \in air, NodeTakes(n, f)
  PROVE  f.type = "pollack" /\ f.eui64 = n /\ f.age = 0 /\ In(n, "spin") /\ waitAck[n]
<1>1. /\ Consistent(f) /\ f \in Frames /\ n \in f.left /\ f.eui64 = n
      /\ f.seq = poll_seq[n]
  BY DEF DeliveryInv, AirInv, TypeOK, NodeTakes, Hears, IsMine, IsExpected
<1>2. f.type = "pollack" /\ f.seq = Back(n, f.age)
  BY <1>1 DEF Consistent
<1>3. f.age = 0
  <2>1. f.age \in Nat /\ f.age < SeqMod /\ SeqMod \in Nat
    BY <1>1, AgeIsShort
  <2>2. Back(n, f.age) = poll_seq[n]
    BY <1>1, <1>2
  <2> QED
    BY <2>1, <2>2, BackIsPresent
<1> QED
  BY <1>1, <1>2, <1>3 DEF Consistent

LEMMA TakeKeeps ==
  ASSUME TypeOK, DeliveryInv, NEW n \in Nodes, NEW f \in air, NodeTakes(n, f),
         UNCHANGED coordVars
  PROVE  DeliveryInv'
<1>1. f.type = "pollack" /\ f.eui64 = n /\ f.age = 0
  BY TakenIsAnswer
<1>2. /\ Heard(n, f) \in SUBSET Frames
      /\ \A g \in Heard(n, f) : \E e \in air : Trace(g, e) /\ g.age = e.age
  BY HeardTraces
<1>3. \A m \in Nodes \ {n} : /\ stack'[m] = stack[m] /\ waitAck'[m] = waitAck[m]
                            /\ inbox'[m] = inbox[m]
  BY DEF NodeTakes, TypeOK, NodeTypeOK
<1>4. /\ AirInv'
      /\ \A g \in air' : g.eui64 = n => g.age # 0
      /\ \A g \in air' : g.eui64 # n => \E e \in air : Trace(g, e) /\ g.age = e.age
  BY <1>2, <1>3, AdvanceKeeps DEF NodeTakes
<1> DEFINE L == Len(inbox[n])
<1>5. /\ L \in Nat /\ Len(inbox'[n]) = L + 1 /\ inbox'[n][L + 1] = f.pkt
      /\ \A i \in 1..L : inbox'[n][i] = inbox[n][i]
  <2>1. f.pkt \in Pkts /\ inbox[n] \in Seq(Pkts) /\ inbox'[n] = Append(inbox[n], f.pkt)
    BY DEF NodeTakes, TypeOK, NodeTypeOK, Frames
  <2> QED
    BY <2>1
<1> HIDE DEF L
<1>6. f.pkt \in DownPkts /\ post[f.pkt].st = "sent" /\ post[f.pkt].dst = n
  BY <1>1 DEF DeliveryInv, AirInv, Consistent
<1>7. InboxInv'
  <2> SUFFICES ASSUME NEW m \in Nodes, NEW i \in 1..Len(inbox'[m])
               PROVE  /\ inbox'[m][i] \in DownPkts
                      /\ post[inbox'[m][i]].st = "sent"
                      /\ post[inbox'[m][i]].dst = m
                      /\ \A g \in air' : g.type = "pollack" /\ g.eui64 = m /\ g.age = 0 =>
                           MayFollow(g.pkt, inbox'[m][i])
    BY DEF InboxInv, MayFollow, coordVars
  <2>1. CASE m # n
    BY <1>3, <1>4, <2>1 DEF DeliveryInv, InboxInv, Trace
  <2>2. CASE m = n
    <3>1. \A g \in air' : ~(g.type = "pollack" /\ g.eui64 = m /\ g.age = 0)
      BY <1>4, <2>2
    <3>2. CASE i \in 1..L
      <4>1. inbox'[m][i] = inbox[n][i] /\ i \in 1..Len(inbox[n])
        BY <1>5, <2>2, <3>2 DEF L
      <4> QED
        BY <2>2, <3>1, <4>1 DEF DeliveryInv, InboxInv
    <3>3. CASE i = L + 1
      BY <1>5, <1>6, <2>2, <3>1, <3>3
    <3> QED
      BY <1>5, <2>2, <3>2, <3>3
  <2> QED
    BY <2>1, <2>2
<1>8. \A i \in 1..L : MayFollow(f.pkt, inbox[n][i])
  BY <1>1 DEF DeliveryInv, InboxInv, L
<1>9. InboxInOrder'
  <2> SUFFICES ASSUME NEW m \in Nodes, NEW i \in 1..Len(inbox'[m]), NEW j \in 1..Len(inbox'[m])
               PROVE  /\ post[inbox'[m][i]].dst = m
                      /\ i < j => MayFollow(inbox'[m][j], inbox'[m][i])
    BY DEF InboxInOrder, MayFollow, coordVars
  <2>1. CASE m # n
    BY <1>3, <2>1 DEF DeliveryInv, InboxInOrder, MayFollow
  <2>2. CASE m = n
    <3>1. (i \in 1..L \/ i = L + 1) /\ (j \in 1..L \/ j = L + 1)
      BY <1>5, <2>2
    <3>2. CASE j = L + 1
      BY <1>5, <1>6, <1>8, <2>2, <3>1, <3>2 DEF DeliveryInv, InboxInOrder, L
    <3>3. CASE i \in 1..L /\ j \in 1..L
      <4>1. /\ inbox'[m][i] = inbox[n][i] /\ i \in 1..Len(inbox[n])
            /\ inbox'[m][j] = inbox[n][j] /\ j \in 1..Len(inbox[n])
        BY <1>5, <2>2, <3>3 DEF L
      <4>2. /\ post[inbox[n][i]].dst = n
            /\ i < j => MayFollow(inbox[n][j], inbox[n][i])
        BY <4>1 DEF DeliveryInv, InboxInOrder, MayFollow
      <4> QED
        BY <2>2, <4>1, <4>2
    <3>4. CASE i = L + 1 /\ j \in 1..L
      BY <1>5, <1>6, <2>2, <3>4
    <3> QED
      BY <3>1, <3>2, <3>3, <3>4
  <2> QED
    BY <2>1, <2>2
<1> QED
  BY <1>4, <1>7, <1>9 DEF DeliveryInv, BeforeInv, NoCrossTalk, coordVars

\* A device sends: a poll it will wait for, or a frame nobody answers.
LEMMA SendKeeps ==
  ASSUME TypeOK, DeliveryInv, NEW n \in Nodes, NEW pkt \in UpPkts \cup {EmptyPkt},
         NodePolls(n, pkt) \/ (pkt \in UpPkts /\ NodeSends(n, pkt)), UNCHANGED coordVars
  PROVE  DeliveryInv'
<1>1. NoOpenPoll(n)
  <2>1. ~In(n, "spin")
    BY NodeAssumption DEF NodePolls, NodeSends, MayCall, In, Callbacks
  <2> QED
    BY <2>1, NotWaiting DEF DeliveryInv
<1>2. PICK f : /\ air' = air \cup {f} /\ f.eui64 = n /\ f.eui64 \notin f.left
               /\ f.pkt = pkt /\ f.type # "pollack"
               /\ f.type # "data" => /\ f.seq = poll_seq[n] /\ f.age = 0
                                     /\ In(n, "spin")' /\ waitAck'[n]
  <2>1. CASE NodePolls(n, pkt)
    <3> DEFINE f == Frame("poll", n, poll_seq[n], pkt, 0, n)
               c == Call("spin", poll_seq[n], 0, 0)
    <3>1. /\ stack[n] \in Seq(Calls) /\ stack'[n] = Append(stack[n], c) /\ waitAck'[n]
      BY <2>1 DEF NodePolls, TypeOK, NodeTypeOK
    <3>2. c \in Calls /\ c.k = "spin"
      BY CallIsCall DEF TypeOK, NodeTypeOK
    <3> HIDE DEF c
    <3>3. In(n, "spin")'
      BY <3>1, <3>2, Pushed DEF In, Top, Depth
    <3>4. /\ f.eui64 = n /\ f.eui64 \notin f.left /\ f.pkt = pkt /\ f.type = "poll"
          /\ f.seq = poll_seq[n] /\ f.age = 0
      BY DEF Frame
    <3>5. air' = air \cup {f}
      BY <2>1 DEF NodePolls
    <3> HIDE DEF f
    <3> QED
      BY <3>1, <3>3, <3>4, <3>5
  <2>2. CASE pkt \in UpPkts /\ NodeSends(n, pkt)
    <3> DEFINE f == Frame("data", n, 0, pkt, 0, n)
    <3>1. f.eui64 = n /\ f.eui64 \notin f.left /\ f.pkt = pkt /\ f.type = "data"
      BY DEF Frame
    <3>2. air' = air \cup {f}
      BY <2>2 DEF NodeSends
    <3> HIDE DEF f
    <3> QED
      BY <3>1, <3>2
  <2> QED
    BY <2>1, <2>2
<1>3. /\ \A m \in Nodes \ {n} : stack'[m] = stack[m] /\ waitAck'[m] = waitAck[m]
      /\ UNCHANGED <<poll_seq, inbox>>
  BY DEF NodePolls, NodeSends, TypeOK, NodeTypeOK
<1>4. AirInv'
  <2> SUFFICES ASSUME NEW g \in air' PROVE Consistent(g)'
    BY DEF AirInv
  <2>1. CASE g \in air
    <3>1. Consistent(g) /\ g.eui64 \in Nodes
      BY <2>1 DEF DeliveryInv, AirInv, TypeOK, Frames
    <3>2. g.type # "data" /\ g.age = 0 => g.eui64 # n
      BY <2>1, <1>1 DEF NoOpenPoll
    <3> QED
      BY <3>1, <3>2, <1>3 DEF Consistent, Back, In, Top, Depth, coordVars
  <2>2. CASE g = f
    <3>1. poll_seq[n] >= 0 /\ poll_seq[n] - 0 = poll_seq[n]
      BY MediumAssumption DEF TypeOK, NodeTypeOK
    <3>2. g.type # "data" => g.seq = Back(n, 0)'
      BY <2>2, <3>1, <1>2, <1>3 DEF Back
    <3> QED
      BY <2>2, <3>2, <1>2 DEF Consistent
  <2> QED
    BY <2>1, <2>2, <1>2
<1>5. InboxInv'
  BY <1>2, <1>3 DEF DeliveryInv, InboxInv, MayFollow, coordVars
<1> QED
  BY <1>3, <1>4, <1>5 DEF DeliveryInv, BeforeInv, InboxInOrder, NoCrossTalk, coordVars

LEMMA NodeKeepsDelivery ==
  ASSUME TypeOK, DeliveryInv, NodeNext
  PROVE  DeliveryInv'
<1>1. UNCHANGED coordVars /\ air \in SUBSET Frames
  BY DEF NodeNext, TypeOK
<1>2. \A g \in air : \E e \in air : Trace(g, e) /\ g.age = e.age
  BY DEF Trace
<1>3. ASSUME NEW n \in Nodes,
             \/ NodeTxReturns(n) \/ NodeRxCbReturns(n) \/ NodeTxCbReturns(n)
             \/ NodeToRxReturns(n) \/ NodeToTxReturns(n)
      PROVE  DeliveryInv'
  <2>1. ~(In(n, "spin") /\ waitAck[n])
    BY <1>3 DEF NodeTxReturns, NodeRxCbReturns, NodeTxCbReturns, NodeToRxReturns,
                NodeToTxReturns, In
  <2>2. NoOpenPoll(n)
    BY <2>1, NotWaiting DEF DeliveryInv
  <2>3. /\ \A m \in Nodes \ {n} : stack'[m] = stack[m] /\ waitAck'[m] = waitAck[m]
        /\ UNCHANGED <<air, poll_seq, inbox>>
    BY <1>3 DEF NodeTxReturns, NodeRxCbReturns, NodeTxCbReturns, NodeToRxReturns,
                NodeToTxReturns, TypeOK, NodeTypeOK
  <2> QED
    BY <1>1, <1>2, <2>2, <2>3, LocalKeeps
<1>4. ASSUME NEW n \in Nodes, NEW f \in air, NodeDrops(n, f)
      PROVE  DeliveryInv'
  BY <1>1, <1>4, HeardTraces, LocalKeeps DEF NodeDrops, nodeVars
<1>5. ASSUME NEW n \in Nodes, NEW f \in air, NodeBadSeq(n, f)
      PROVE  DeliveryInv'
  BY <1>1, <1>5, HeardTraces, SkipKeeps DEF NodeBadSeq
<1>6. ASSUME NEW n \in Nodes, NodeTimesOut(n)
      PROVE  DeliveryInv'
  <2>1. \A m \in Nodes \ {n} : stack'[m] = stack[m] /\ waitAck'[m] = waitAck[m]
    BY <1>6 DEF NodeTimesOut, TypeOK, NodeTypeOK
  <2> QED
    BY <1>1, <1>2, <1>6, <2>1, SkipKeeps DEF NodeTimesOut, SeqAfterTimeout
<1>7. ASSUME NEW n \in Nodes, NodeRestart(n)
      PROVE  DeliveryInv'
  <2>1. ASSUME NEW g \in air' PROVE g \in air /\ g.eui64 # n /\ Consistent(g)'
    <3>1. g \in air /\ g.eui64 # n
      BY <1>7, <2>1 DEF NodeRestart
    <3>2. /\ Consistent(g) /\ g.eui64 \in Nodes
          /\ stack'[g.eui64] = stack[g.eui64] /\ waitAck'[g.eui64] = waitAck[g.eui64]
          /\ poll_seq'[g.eui64] = poll_seq[g.eui64]
      BY <1>7, <3>1 DEF NodeRestart, DeliveryInv, AirInv, TypeOK, NodeTypeOK, Frames
    <3> QED
      BY <1>1, <3>1, <3>2 DEF Consistent, Back, In, Top, Depth, coordVars
  <2>2. InboxInv'
    BY <1>1, <1>7, <2>1 DEF NodeRestart, DeliveryInv, InboxInv, MayFollow, coordVars
  <2> QED
    BY <1>1, <1>7, <2>1, <2>2
       DEF NodeRestart, DeliveryInv, AirInv, BeforeInv, InboxInOrder, NoCrossTalk, coordVars
<1> QED
  BY <1>1, <1>3, <1>4, <1>5, <1>6, <1>7, SendKeeps, TakeKeeps DEF NodeNext

-----------------------------------------------------------------------------
(***************************************************************************)
(* Steps of the hubs.                                                      *)
(***************************************************************************)

\* A hub's step gives fates to packets that are held or new, and adds at most
\* an answer that carries a packet held until then.
LEMMA HubKeeps ==
  ASSUME TypeOK, DeliveryInv, NEW ans,
         \A g \in air' \ ans : \E e \in air : Trace(g, e) /\ g.age = e.age,
         \A g \in ans : /\ g.type = "pollack" /\ g.pkt \in DownPkts
                        /\ post[g.pkt].st = "held" /\ post[g.pkt].dst = g.eui64
                        /\ post'[g.pkt].st = "sent" /\ post'[g.pkt].dst = g.eui64
                        /\ post'[g.pkt].hub = post[g.pkt].hub
                        /\ \E e \in air : /\ e.type = "poll" /\ e.eui64 = g.eui64
                                         /\ e.seq = g.seq /\ e.age = g.age,
         \A p \in DownPkts : post[p].st = "sent" => post'[p] = post[p],
         BeforeInv', NoCrossTalk', UNCHANGED nodeVars
  PROVE  DeliveryInv'
<1>1. ASSUME NEW g \in air' PROVE Consistent(g)'
  <2>1. CASE g \in ans
    <3>1. PICK e \in air : /\ e.type = "poll" /\ e.eui64 = g.eui64
                           /\ e.seq = g.seq /\ e.age = g.age
      BY <2>1
    <3> QED
      BY <2>1, <3>1 DEF DeliveryInv, AirInv, Consistent, Back, In, Top, Depth, nodeVars
  <2>2. CASE g \notin ans
    <3>1. PICK e \in air : Trace(g, e) /\ g.age = e.age
      BY <2>2
    <3>2. Consistent(e)
      BY DEF DeliveryInv, AirInv
    <3> QED
      BY <3>1, <3>2 DEF Trace, Consistent, Back, In, Top, Depth, nodeVars
  <2> QED
    BY <2>1, <2>2
<1>2. \A n \in Nodes : \A i \in 1..Len(inbox[n]) :
        /\ inbox'[n][i] = inbox[n][i] /\ inbox[n][i] \in DownPkts
        /\ post[inbox[n][i]].st = "sent" /\ post[inbox[n][i]].dst = n
        /\ post'[inbox[n][i]] = post[inbox[n][i]]
  BY DEF DeliveryInv, InboxInv, nodeVars
<1>3. ASSUME NEW n \in Nodes, NEW i \in 1..Len(inbox[n]),
             NEW g \in air', g.type = "pollack", g.eui64 = n, g.age = 0
      PROVE  MayFollow(g.pkt, inbox[n][i])'
  <2> DEFINE q == inbox[n][i]
  <2>1. /\ q \in DownPkts /\ post[q].st = "sent" /\ post[q].dst = n /\ post'[q] = post[q]
        /\ inbox'[n][i] = q
    BY <1>2
  <2>2. CASE g \in ans
    <3>1. /\ post[g.pkt].st = "held" /\ post[g.pkt].dst = n /\ g.pkt \in DownPkts
          /\ post'[g.pkt].hub = post[g.pkt].hub
      BY <1>3, <2>2
    <3>2. g.pkt # q
      BY <2>1, <3>1
    <3>3. post[g.pkt].hub = post[q].hub => g.pkt \notin post[q].before
      BY <2>1, <3>1 DEF DeliveryInv, BeforeInv
    <3> QED
      BY <2>1, <3>1, <3>2, <3>3 DEF MayFollow
  <2>3. CASE g \notin ans
    <3>1. PICK e \in air : Trace(g, e) /\ g.age = e.age
      BY <2>3
    <3>2. /\ e.type = "pollack" /\ e.eui64 = n /\ e.age = 0 /\ e.pkt = g.pkt
      BY <1>3, <3>1 DEF Trace
    <3>3. MayFollow(g.pkt, q) /\ post[g.pkt].st = "sent" /\ g.pkt \in DownPkts
      BY <3>2 DEF DeliveryInv, InboxInv, AirInv, Consistent
    <3> QED
      BY <2>1, <3>3 DEF MayFollow
  <2> QED
    BY <2>2, <2>3
<1>4. InboxInv'
  BY <1>2, <1>3 DEF InboxInv, nodeVars
<1>5. InboxInOrder'
  BY <1>2 DEF DeliveryInv, InboxInOrder, nodeVars
<1> QED
  BY <1>1, <1>4, <1>5 DEF DeliveryInv, AirInv

LEMMA QuietHubKeeps ==
  ASSUME TypeOK, DeliveryInv,
         \A g \in air' : \E e \in air : Trace(g, e) /\ g.age = e.age,
         \A p \in DownPkts : post[p].st = "sent" => post'[p] = post[p],
         BeforeInv', NoCrossTalk', UNCHANGED nodeVars
  PROVE  DeliveryInv'
<1> DEFINE ans == {}
<1>1. \A g \in air' \ ans : \E e \in air : Trace(g, e) /\ g.age = e.age
  OBVIOUS
<1>2. \A g \in ans : FALSE
  OBVIOUS
<1> HIDE DEF ans
<1> QED
  BY <1>1, <1>2, HubKeeps

\* Packets of a hub's slots leave them with the fate st.
LEMMA FatesKeepOrder ==
  ASSUME TableInv, BeforeInv, NEW st \in Fates \ {"new", "held"},
         NEW h \in Hubs, NEW E \in SUBSET Used(h),
         post' = SetFate({slottbl[h][i].pkt : i \in E}, st)
  PROVE  /\ BeforeInv'
         /\ \A p \in DownPkts : post[p].st = "sent" => post'[p] = post[p]
<1> DEFINE P == {slottbl[h][i].pkt : i \in E}
<1>1. /\ post' = SetFate(P, st) /\ post \in [DownPkts -> PostType] /\ st \in Fates \ {"new"}
      /\ \A p \in P : p \in DownPkts /\ post[p].st = "held"
  BY UsedIsAccepted DEF TableInv, TypeOK, CoordTypeOK, HeldEntry
<1> HIDE DEF P
<1>2. /\ \A p \in DownPkts \ P : SetFate(P, st)[p] = post[p]
      /\ \A p \in DownPkts \cap P :
           /\ SetFate(P, st)[p].st = st /\ SetFate(P, st)[p].hub = post[p].hub
           /\ SetFate(P, st)[p].dst = post[p].dst
           /\ SetFate(P, st)[p].before = post[p].before
  <2>1. \A p \in P : post[p].st # "new"
    BY <1>1
  <2> QED
    BY <1>1, <2>1, FateIsTyped
<1>3. \A p \in DownPkts :
        /\ post'[p].st = post[p].st \/ (post[p].st = "held" /\ post'[p].st = st)
        /\ post[p].st # "new" => /\ post'[p].hub = post[p].hub
                                /\ post'[p].dst = post[p].dst
                                /\ post'[p].before = post[p].before
  BY <1>1, <1>2
<1>4. BeforeInv'
  <2> SUFFICES ASSUME NEW p \in DownPkts, NEW q \in DownPkts,
                      post'[q].st # "new", p \in post'[q].before
               PROVE  /\ post'[p].st # "new"
                      /\ post'[p].hub = post'[q].hub /\ post'[p].dst = post'[q].dst =>
                           post'[p].st # "held"
    BY DEF BeforeInv
  <2>1. post[q].st # "new" /\ p \in post[q].before
    BY <1>3
  <2>2. /\ post[p].st # "new"
        /\ post[p].hub = post[q].hub /\ post[p].dst = post[q].dst => post[p].st # "held"
    BY <2>1 DEF BeforeInv
  <2> QED
    BY <1>3, <2>1, <2>2
<1> QED
  BY <1>1, <1>2, <1>4

\* mac_tx accepts no packet for a device whose packet it still holds.
LEMMA TxKeepsOrder ==
  ASSUME TableInv, BeforeInv, NEW h \in Hubs, NEW n \in Nodes, NEW p \in DownPkts,
         NEW s \in LocalSeqs, CoordTx(h, n, p, s)
  PROVE  /\ BeforeInv'
         /\ \A q \in DownPkts : post[q].st = "sent" => post'[q] = post[q]
<1>1. /\ post \in [DownPkts -> PostType] /\ post[p].st = "new"
      /\ post' = [post EXCEPT ![p] = Posted(h, n)]
  BY DEF CoordTx, TableInv, TypeOK, CoordTypeOK
<1>2. /\ \A q \in DownPkts \ {p} : post'[q] = post[q]
      /\ post'[p].st = "held" /\ post'[p].hub = h /\ post'[p].dst = n
      /\ post'[p].before = {q \in DownPkts : post[q].st # "new"}
  BY <1>1 DEF Posted
<1>3. ASSUME NEW q \in DownPkts, post[q].st = "held", post[q].hub = h, post[q].dst = n
      PROVE  FALSE
  <2>1. PICK g \in Hubs : \E i \in Used(g) : slottbl[g][i].pkt = q
    BY <1>3 DEF TableInv, HeldSomewhere
  <2>2. PICK i \in Used(g) : slottbl[g][i].pkt = q
    BY <2>1
  <2>3. g = h /\ slottbl[h][i].dst_eui64 = n
    BY <1>3, <2>2 DEF TableInv, HeldEntry
  <2> QED
    BY <2>2, <2>3 DEF CoordTx, SameDst
<1>4. BeforeInv'
  <2> SUFFICES ASSUME NEW a \in DownPkts, NEW b \in DownPkts,
                      post'[b].st # "new", a \in post'[b].before
               PROVE  /\ post'[a].st # "new"
                      /\ post'[a].hub = post'[b].hub /\ post'[a].dst = post'[b].dst =>
                           post'[a].st # "held"
    BY DEF BeforeInv
  <2>1. CASE b = p
    BY <1>1, <1>2, <1>3, <2>1
  <2>2. CASE b # p
    <3>1. a # p /\ post[b].st # "new" /\ a \in post[b].before
      BY <1>1, <1>2, <2>2 DEF BeforeInv
    <3> QED
      BY <1>2, <2>2, <3>1 DEF BeforeInv
  <2> QED
    BY <2>1, <2>2
<1> QED
  BY <1>1, <1>2, <1>4

LEMMA CoordKeepsDelivery ==
  ASSUME TableInv, DeliveryInv, CoordNext
  PROVE  DeliveryInv'
<1>1. /\ TypeOK /\ UNCHANGED nodeVars /\ BeforeInv /\ NoCrossTalk
      /\ heard \in [Hubs -> SUBSET (Nodes \X Pkts \X BOOLEAN)]
  BY DEF CoordNext, TableInv, TypeOK, CoordTypeOK, DeliveryInv
<1>2. \A g \in air : \E e \in air : Trace(g, e) /\ g.age = e.age
  BY DEF Trace
<1>3. ASSUME NEW h \in Hubs, NEW n \in Nodes, NEW p \in DownPkts, NEW s \in LocalSeqs,
             CoordTx(h, n, p, s)
      PROVE  DeliveryInv'
  <2>1. /\ BeforeInv'
        /\ \A q \in DownPkts : post[q].st = "sent" => post'[q] = post[q]
    BY <1>1, <1>3, TxKeepsOrder
  <2>2. NoCrossTalk' /\ air' = air
    BY <1>1, <1>3 DEF CoordTx, NoCrossTalk
  <2> QED
    BY <1>1, <1>2, <2>1, <2>2, QuietHubKeeps
<1>4. ASSUME NEW h \in Hubs, NEW f \in air, CoordDrops(h, f)
      PROVE  DeliveryInv'
  <2>1. UNCHANGED <<post, heard>> /\ air' = Heard(h, f)
    BY <1>4 DEF CoordDrops, coordVars
  <2>2. NoCrossTalk' /\ BeforeInv'
    BY <1>1, <2>1 DEF NoCrossTalk, BeforeInv
  <2>3. \A g \in air' : \E e \in air : Trace(g, e) /\ g.age = e.age
    BY <1>1, <2>1, HeardTraces
  <2> QED
    BY <1>1, <2>1, <2>2, <2>3, QuietHubKeeps
<1>5. ASSUME NEW h \in Hubs, NEW f \in air, ~FromHub(f),
             heard' = [heard EXCEPT ![h] = @ \cup Uplink(f)]
      PROVE  NoCrossTalk'
  <2>1. f.pkt \in UpPkts \cup {EmptyPkt}
    BY <1>5 DEF FromHub, DeliveryInv, AirInv, Consistent
  <2> QED
    BY <1>1, <1>5, <2>1 DEF NoCrossTalk, Uplink
<1>6. ASSUME NEW h \in Hubs, NEW f \in air, CoordListens(h, f)
      PROVE  DeliveryInv'
  <2>1. NoCrossTalk' /\ BeforeInv'
    BY <1>1, <1>5, <1>6 DEF CoordListens, BeforeInv
  <2>2. air' = Heard(h, f) /\ post' = post
    BY <1>6 DEF CoordListens
  <2>3. \A g \in air' : \E e \in air : Trace(g, e) /\ g.age = e.age
    BY <1>1, <2>2, HeardTraces
  <2> QED
    BY <1>1, <2>1, <2>2, <2>3, QuietHubKeeps
<1>7. ASSUME NEW h \in Hubs, NEW f \in air, CoordAnswers(h, f)
      PROVE  DeliveryInv'
  <2>1. PICK i \in Used(h) :
          /\ air' = Heard(h, f) \cup
               {Frame("pollack", f.eui64, f.seq, slottbl[h][i].pkt, f.age, h)}
          /\ post' = SetFate({slottbl[h][i].pkt}, "sent")
          /\ slottbl[h][i].dst_eui64 = f.eui64
    BY <1>7 DEF CoordAnswers, HeldFor, IsFirst, SameDst
  <2> DEFINE p == slottbl[h][i].pkt
             a == Frame("pollack", f.eui64, f.seq, p, f.age, h)
  <2>2. /\ p \in DownPkts /\ post[p].st = "held" /\ post[p].dst = f.eui64
        /\ post \in [DownPkts -> PostType] /\ "sent" \in Fates \ {"new", "held"}
    BY <2>1, UsedIsAccepted DEF TableInv, HeldEntry, TypeOK, CoordTypeOK, Fates
  <2>3. {i} \in SUBSET Used(h) /\ {slottbl[h][j].pkt : j \in {i}} = {p}
    OBVIOUS
  <2>4. /\ BeforeInv'
        /\ \A q \in DownPkts : post[q].st = "sent" => post'[q] = post[q]
    BY <1>1, <2>1, <2>2, <2>3, FatesKeepOrder
  <2>5. NoCrossTalk'
    BY <1>5, <1>7 DEF CoordAnswers
  <2>6. /\ a.type = "pollack" /\ a.pkt = p /\ a.eui64 = f.eui64
        /\ a.seq = f.seq /\ a.age = f.age /\ f.type = "poll" /\ f \in air
    BY <1>7 DEF Frame, CoordAnswers
  <2>7. post'[p].st = "sent" /\ post'[p].dst = f.eui64 /\ post'[p].hub = post[p].hub
    BY <2>1, <2>2, FateIsTyped
  <2>8. /\ air' = Heard(h, f) \cup {a}
        /\ \A g \in Heard(h, f) : \E e \in air : Trace(g, e) /\ g.age = e.age
    BY <1>1, <2>1, HeardTraces
  <2> DEFINE ans == {a}
  <2> HIDE DEF p, a, ans
  <2>9. /\ \A g \in air' \ ans : \E e \in air : Trace(g, e) /\ g.age = e.age
        /\ \A g \in ans :
             /\ g.type = "pollack" /\ g.pkt \in DownPkts
             /\ post[g.pkt].st = "held" /\ post[g.pkt].dst = g.eui64
             /\ post'[g.pkt].st = "sent" /\ post'[g.pkt].dst = g.eui64
             /\ post'[g.pkt].hub = post[g.pkt].hub
             /\ \E e \in air : /\ e.type = "poll" /\ e.eui64 = g.eui64
                              /\ e.seq = g.seq /\ e.age = g.age
    BY <2>2, <2>6, <2>7, <2>8 DEF ans
  <2> QED
    BY <1>1, <2>4, <2>5, <2>9, HubKeeps
<1>8. ASSUME NEW h \in Hubs, Coord1Hz(h)
      PROVE  DeliveryInv'
  <2>1. RunOut(h) \in SUBSET Used(h) /\ "expired" \in Fates \ {"new", "held"}
    BY DEF RunOut, Fates
  <2>2. /\ BeforeInv'
        /\ \A q \in DownPkts : post[q].st = "sent" => post'[q] = post[q]
    BY <1>1, <1>8, <2>1, FatesKeepOrder DEF Coord1Hz
  <2>3. NoCrossTalk' /\ air' = air
    BY <1>1, <1>8 DEF Coord1Hz, NoCrossTalk
  <2> QED
    BY <1>1, <1>2, <2>2, <2>3, QuietHubKeeps
<1>9. ASSUME NEW h \in Hubs, CoordRestart(h)
      PROVE  DeliveryInv'
  <2>1. Used(h) \in SUBSET Used(h) /\ "forgotten" \in Fates \ {"new", "held"}
    BY DEF Fates
  <2>2. /\ BeforeInv'
        /\ \A q \in DownPkts : post[q].st = "sent" => post'[q] = post[q]
    BY <1>1, <1>9, <2>1, FatesKeepOrder DEF CoordRestart
  <2>3. NoCrossTalk' /\ air' = air
    BY <1>1, <1>9 DEF CoordRestart, NoCrossTalk
  <2> QED
    BY <1>1, <1>2, <2>2, <2>3, QuietHubKeeps
<1> QED
  BY <1>3, <1>4, <1>6, <1>7, <1>8, <1>9 DEF CoordNext

-----------------------------------------------------------------------------

LEMMA DeliveryAlways == Spec => []DeliveryInv
<1>1. TableInv /\ DeliveryInv /\ [Next]_vars => DeliveryInv'
  <2> SUFFICES ASSUME TableInv, DeliveryInv, [Next]_vars PROVE DeliveryInv'
    OBVIOUS
  <2>1. CASE CoordNext
    BY <2>1, CoordKeepsDelivery
  <2>2. CASE NodeNext
    BY <2>2, NodeKeepsDelivery DEF TableInv
  <2>3. CASE UNCHANGED vars
    <3>1. UNCHANGED <<nodeVars, post, heard>> /\ air' = air
      BY <2>3 DEF vars, coordVars
    <3>2. NoCrossTalk' /\ BeforeInv'
      BY <3>1 DEF DeliveryInv, NoCrossTalk, BeforeInv
    <3>3. \A g \in air' : \E e \in air : Trace(g, e) /\ g.age = e.age
      BY <3>1 DEF Trace
    <3> QED
      BY <3>1, <3>2, <3>3, QuietHubKeeps DEF TableInv
  <2> QED
    BY <2>1, <2>2, <2>3 DEF Next
<1> QED
  BY <1>1, DeliveryInit, TableAlways, PTL DEF Spec

\* A device is handed only its own packets, each once, those of one hub in the
\* order the hub accepted them, however frames repeat, linger and overtake one
\* another within MaxLate advances of poll_seq.
THEOREM DeliveryInOrder == Spec => []InboxInOrder
<1>1. DeliveryInv => InboxInOrder
  BY DEF DeliveryInv
<1> QED
  BY <1>1, DeliveryAlways, PTL

\* What a hub hears came from a device, never from another hub's answer.
THEOREM HubsHearDevices == Spec => []NoCrossTalk
<1>1. DeliveryInv => NoCrossTalk
  BY DEF DeliveryInv
<1> QED
  BY <1>1, DeliveryAlways, PTL

\* Whatever travels or has arrived was reported as transmitted.
THEOREM TravelsOnlyIfSent == Spec => []OnlySentTravels
<1>1. DeliveryInv => OnlySentTravels
  BY DEF DeliveryInv, AirInv, Consistent, InboxInv, OnlySentTravels
<1> QED
  BY <1>1, DeliveryAlways, PTL

\* mac_rx_cb is given a packet only while the device's poll is open.
THEOREM DeliveredWhilePolling == Spec => OnlyWhilePolling
<1>1. TypeOK /\ DeliveryInv /\ [Next]_vars =>
        [\A n \in Nodes : inbox'[n] # inbox[n] => waitAck[n]]_vars
  <2> SUFFICES ASSUME TypeOK, DeliveryInv, [Next]_vars,
                      NEW n \in Nodes, inbox'[n] # inbox[n]
               PROVE  waitAck[n]
    OBVIOUS
  <2>1. ~UNCHANGED inbox
    OBVIOUS
  <2>2. PICK m \in Nodes : \E f \in air : NodeTakes(m, f)
    <3>1. NodeNext
      BY <2>1 DEF Next, CoordNext, nodeVars, vars
    <3> QED
      BY <2>1, <3>1 DEF NodeNext, NodePolls, NodeSends, NodeTxReturns, NodeDrops, nodeVars,
         NodeBadSeq, NodeRxCbReturns, NodeTxCbReturns, NodeTimesOut, NodeToRxReturns,
         NodeToTxReturns, NodeRestart
  <2>3. m = n
    BY <2>2 DEF NodeTakes, TypeOK, NodeTypeOK
  <2> QED
    BY <2>2, <2>3, TakenIsAnswer
<1> QED
  BY <1>1, TypeCorrect, DeliveryAlways, PTL DEF Spec, OnlyWhilePolling

-----------------------------------------------------------------------------
(***************************************************************************)
(* The refinement: what Courier calls mail.                                *)
(***************************************************************************)
MailBox == [p \in DownPkts |-> [post[p] EXCEPT !.st = MailState(p)]]

LEMMA MailFacts ==
  ASSUME TypeOK, NEW p \in DownPkts
  PROVE  /\ MailBox[p].st = MailState(p)
         /\ post[p].st # "new" => /\ MailBox[p].hub = post[p].hub /\ MailBox[p].dst = post[p].dst
                                  /\ MailBox[p].before = post[p].before
         /\ MailState(p) = "new" <=> post[p].st = "new"
         /\ MailState(p) = "held" <=> post[p].st = "held"
         /\ post[p].st \in {"new", "held"} => MailBox[p] = post[p]
         /\ MailState(p) = "delivered" <=> post[p].st = "sent" /\ p \in DeliveredTo(post[p].dst)
<1>1. post[p] \in PostType
  BY DEF TypeOK, CoordTypeOK
<1>2. /\ MailState(p) = "new" <=> post[p].st = "new"
      /\ MailState(p) = "held" <=> post[p].st = "held"
      /\ MailState(p) = "delivered" <=> post[p].st = "sent" /\ p \in DeliveredTo(post[p].dst)
  BY <1>1 DEF MailState, PostType, Fates
<1> HIDE DEF MailState
<1>3. \A st : /\ [post[p] EXCEPT !.st = st].st = st
              /\ post[p].st # "new" => /\ [post[p] EXCEPT !.st = st].hub = post[p].hub
                                       /\ [post[p] EXCEPT !.st = st].dst = post[p].dst
                                       /\ [post[p] EXCEPT !.st = st].before = post[p].before
  BY <1>1 DEF PostType
<1>4. [post[p] EXCEPT !.st = post[p].st] = post[p]
  BY <1>1 DEF PostType
<1> QED
  BY <1>2, <1>3, <1>4 DEF MailBox

\* A packet no hub and no device has touched.
LEMMA MailKept ==
  ASSUME TypeOK, NEW p \in DownPkts, post'[p] = post[p],
         \A m \in Nodes : p \in DeliveredTo(m)' <=> p \in DeliveredTo(m)
  PROVE  MailBox'[p] = MailBox[p]
<1>1. post[p].st # "new" => post[p].dst \in Nodes
  BY DEF TypeOK, CoordTypeOK, PostType
<1>2. MailState(p)' = MailState(p)
  BY <1>1 DEF MailState, DeliveredTo
<1> QED
  BY <1>2 DEF MailBox

LEMMA MailUnchanged ==
  ASSUME UNCHANGED <<post, inbox>> PROVE UNCHANGED MailBox
BY DEF MailBox, MailState, DeliveredTo

\* A hub that has a free slot holds fewer packets than it has slots.
LEMMA SlotLeft ==
  ASSUME TableInv, NEW h \in Hubs, Used(h) # Slots
  PROVE  Cardinality(Mail!HeldBy(h)) < NumSlots
<1> DEFINE S == Used(h)
           H == Mail!HeldBy(h)
           f == [i \in S |-> slottbl[h][i].pkt]
<1>1. IsFiniteSet(Slots) /\ Cardinality(Slots) = NumSlots /\ NumSlots \in Nat
  BY CoordAssumption, FS_Interval DEF Slots
<1>2. IsFiniteSet(S) /\ Cardinality(S) <= NumSlots /\ Cardinality(S) # NumSlots /\ Cardinality(S) \in Nat
  <2>1. S \in SUBSET Slots
    BY DEF Used
  <2> HIDE DEF S
  <2> QED
    BY <1>1, <2>1, FS_Subset, FS_CardinalityType DEF S
<1>3. \A p \in H : p \in DownPkts /\ post[p].st = "held" /\ post[p].hub = h
  BY MailFacts DEF Mail!HeldBy, TableInv, MailBox
<1>4. \A i \in S : slottbl[h][i].pkt \in H
  <2> SUFFICES ASSUME NEW i \in S PROVE slottbl[h][i].pkt \in H
    OBVIOUS
  <2>1. slottbl[h][i].pkt \in DownPkts /\ post[slottbl[h][i].pkt].st = "held" /\ post[slottbl[h][i].pkt].hub = h
    BY UsedIsAccepted DEF TableInv, HeldEntry
  <2> QED
    BY <2>1, MailFacts DEF Mail!HeldBy, TableInv, MailBox
<1>5. \A p \in H : \E i \in S : f[i] = p
  <2> SUFFICES ASSUME NEW p \in H PROVE \E i \in S : f[i] = p
    OBVIOUS
  <2>1. PICK g \in Hubs : \E i \in Used(g) : slottbl[g][i].pkt = p
    BY <1>3 DEF TableInv, HeldSomewhere
  <2>2. PICK i \in Used(g) : slottbl[g][i].pkt = p
    BY <2>1
  <2> QED
    BY <1>3, <2>2 DEF TableInv, HeldEntry
<1>6. f \in [S -> H]
  BY <1>4
<1> HIDE DEF f, H, S
<1>7. f \in Surjection(S, H)
  BY <1>5, <1>6 DEF Surjection
<1>8. IsFiniteSet(H) /\ Cardinality(H) <= Cardinality(S)
  BY <1>2, <1>7, FS_Surjection
<1>9. Cardinality(H) \in Nat
  BY <1>8, FS_CardinalityType
<1> QED
  BY <1>1, <1>2, <1>8, <1>9 DEF H

LEMMA TxIsAccept ==
  ASSUME TableInv, TableInv', NEW h \in Hubs, NEW n \in Nodes, NEW p \in DownPkts, NEW s \in LocalSeqs,
         CoordTx(h, n, p, s), UNCHANGED nodeVars
  PROVE  Mail!Accept(h, n, p)
<1>1. /\ post[p].st = "new" /\ post' = [post EXCEPT ![p] = Posted(h, n)] /\ UNCHANGED inbox
      /\ post \in [DownPkts -> PostType] /\ TypeOK /\ TypeOK'
  BY DEF CoordTx, nodeVars, TableInv, TypeOK, CoordTypeOK
<1>2. Cardinality(Mail!HeldBy(h)) < NumSlots
  BY SlotLeft DEF CoordTx, IsFirst, Free
<1>3. ASSUME NEW q \in Mail!HeldBy(h) PROVE MailBox[q].dst # n
  <2>1. q \in DownPkts /\ post[q].st = "held" /\ post[q].hub = h /\ MailBox[q].dst = post[q].dst
    BY <1>1, MailFacts DEF Mail!HeldBy, MailBox
  <2>2. PICK g \in Hubs : \E i \in Used(g) : slottbl[g][i].pkt = q
    BY <2>1 DEF TableInv, HeldSomewhere
  <2>3. PICK i \in Used(g) : slottbl[g][i].pkt = q
    BY <2>2
  <2>4. g = h /\ slottbl[h][i].dst_eui64 = post[q].dst
    BY <2>1, <2>3 DEF TableInv, HeldEntry
  <2> QED
    BY <2>1, <2>3, <2>4 DEF CoordTx, SameDst
<1>4. MailBox'[p] = [st |-> "held", hub |-> h, dst |-> n, before |-> {q \in DownPkts : MailBox[q].st # "new"}]
  <2>1. post'[p] = Posted(h, n) /\ Posted(h, n).st = "held"
    BY <1>1 DEF Posted
  <2>2. MailBox'[p] = post'[p]
    <3>1. post'[p] \in PostType /\ MailState(p)' = "held"
      BY <1>1, <2>1 DEF TypeOK, CoordTypeOK, MailState
    <3> QED
      BY <2>1, <3>1 DEF MailBox, PostType
  <2>3. {q \in DownPkts : MailBox[q].st # "new"} = {q \in DownPkts : post[q].st # "new"}
    BY <1>1, MailFacts
  <2> QED
    BY <2>1, <2>2, <2>3 DEF Posted
<1>5. \A q \in DownPkts : q # p => MailBox'[q] = MailBox[q]
  <2> SUFFICES ASSUME NEW q \in DownPkts, q # p PROVE MailBox'[q] = MailBox[q]
    OBVIOUS
  <2>1. post'[q] = post[q]
    BY <1>1
  <2> QED
    BY <1>1, <2>1, MailKept DEF DeliveredTo
<1>6. MailBox' = [MailBox EXCEPT ![p] =
        [st |-> "held", hub |-> h, dst |-> n, before |-> {q \in DownPkts : MailBox[q].st # "new"}]]
  <2>1. MailBox = [q \in DownPkts |-> MailBox[q]] /\ MailBox' = [q \in DownPkts |-> MailBox'[q]]
    BY DEF MailBox
  <2> QED
    BY <1>4, <1>5, <2>1
<1>7. MailBox[p].st = "new"
  BY <1>1, MailFacts
<1>8. Mail!Cardinality(Mail!HeldBy(h)) = Cardinality(Mail!HeldBy(h))
  BY DEF Mail!Cardinality, Cardinality
<1> QED
  BY <1>2, <1>3, <1>6, <1>7, <1>8 DEF Mail!Accept, Mail!Accepted, MailBox

\* The packets of a hub's slots E leave them with the fate st.
Reported(st) == IF st = "sent" THEN "sent" ELSE "returned"

LEMMA FateIsMail ==
  ASSUME TableInv, TableInv', DeliveryInv, NEW h \in Hubs, NEW E \in SUBSET Used(h),
         NEW st \in {"sent", "expired", "forgotten"},
         post' = SetFate({slottbl[h][i].pkt : i \in E}, st), UNCHANGED inbox
  PROVE  LET P == {slottbl[h][i].pkt : i \in E}
         IN  P \subseteq Mail!HeldBy(h) /\ Mail!Become(P, Reported(st))
<1> DEFINE P == {slottbl[h][i].pkt : i \in E}
<1>1. /\ post' = SetFate(P, st) /\ post \in [DownPkts -> PostType] /\ st \in Fates \ {"new"}
      /\ \A p \in P : p \in DownPkts /\ post[p].st = "held" /\ post[p].hub = h
      /\ TypeOK /\ TypeOK'
  <2>1. \A i \in E : LET p == slottbl[h][i].pkt
                     IN  p \in DownPkts /\ post[p].st = "held" /\ post[p].hub = h
    BY UsedIsAccepted DEF TableInv, HeldEntry
  <2>2. post \in [DownPkts -> PostType] /\ st \in Fates \ {"new"} /\ TypeOK /\ TypeOK'
    BY DEF TableInv, TypeOK, CoordTypeOK, Fates
  <2> QED
    BY <2>1, <2>2
<1> HIDE DEF P
<1>2. P \subseteq Mail!HeldBy(h)
  BY <1>1, MailFacts DEF Mail!HeldBy, MailBox
<1>3. ASSUME NEW p \in P PROVE MailBox'[p] = [MailBox[p] EXCEPT !.st = Reported(st)]
  <2>1. p \in DownPkts /\ post'[p] = [post[p] EXCEPT !.st = st] /\ post[p] \in PostType
        /\ post[p].st = "held"
    BY <1>1 DEF SetFate
  <2>2. MailBox[p] = post[p]
    BY <1>1, <2>1, MailFacts
  <2>3. (p \notin DeliveredTo(post[p].dst))'
    <3>1. post'[p].dst = post[p].dst /\ post[p].dst \in Nodes
      BY <2>1 DEF PostType
    <3>2. p \notin DeliveredTo(post[p].dst)
      BY <2>1, <3>1 DEF DeliveredTo, DeliveryInv, InboxInv
    <3> QED
      BY <3>1, <3>2 DEF DeliveredTo
  <2>4. MailState(p)' = Reported(st)
    <3>1. post'[p].st = st
      BY <2>1 DEF PostType
    <3> QED
      BY <2>3, <3>1 DEF MailState, Reported
  <2>5. MailBox'[p] = [post'[p] EXCEPT !.st = Reported(st)]
    BY <2>1, <2>4 DEF MailBox
  <2> HIDE DEF Reported
  <2>6. [[post[p] EXCEPT !.st = st] EXCEPT !.st = Reported(st)] = [post[p] EXCEPT !.st = Reported(st)]
    BY <2>1 DEF PostType
  <2> QED
    BY <2>1, <2>2, <2>5, <2>6
<1>4. ASSUME NEW p \in DownPkts \ P PROVE MailBox'[p] = MailBox[p]
  <2>1. post'[p] = post[p]
    BY <1>1 DEF SetFate
  <2> QED
    BY <1>1, <2>1, MailKept DEF DeliveredTo
<1>5. MailBox' = [p \in DownPkts |-> IF p \in P THEN [MailBox[p] EXCEPT !.st = Reported(st)] ELSE MailBox[p]]
  <2>1. MailBox' = [q \in DownPkts |-> MailBox'[q]]
    BY DEF MailBox
  <2> QED
    BY <1>3, <1>4, <2>1
<1> QED
  BY <1>2, <1>5 DEF Mail!Become, MailBox, P

LEMMA TakeIsDeliver ==
  ASSUME TypeOK, TypeOK', DeliveryInv, NEW n \in Nodes, NEW f \in air, NodeTakes(n, f),
         UNCHANGED coordVars
  PROVE  f.pkt \in DownPkts /\ Mail!Deliver(f.pkt)
<1> DEFINE p == f.pkt
<1>1. /\ p \in DownPkts /\ post[p].st = "sent" /\ post[p].dst = n
      /\ \A i \in 1..Len(inbox[n]) : MayFollow(p, inbox[n][i])
  BY TakenIsAnswer DEF DeliveryInv, AirInv, Consistent, InboxInv
<1>2. /\ UNCHANGED post /\ \A m \in Nodes \ {n} : inbox'[m] = inbox[m]
      /\ inbox[n] \in Seq(Pkts) /\ p \in Pkts /\ inbox'[n] = Append(inbox[n], p)
  BY DEF NodeTakes, TypeOK, NodeTypeOK, coordVars, Frames
<1> HIDE DEF p
<1>3. /\ DeliveredTo(n)' = DeliveredTo(n) \cup {p}
      /\ \A m \in Nodes \ {n} : DeliveredTo(m)' = DeliveredTo(m)
  <2>1. /\ Len(inbox'[n]) = Len(inbox[n]) + 1 /\ Len(inbox[n]) \in Nat
        /\ inbox'[n][Len(inbox[n]) + 1] = p
        /\ \A i \in 1..Len(inbox[n]) : inbox'[n][i] = inbox[n][i]
    BY <1>2
  <2>2. 1..Len(inbox'[n]) = 1..Len(inbox[n]) \cup {Len(inbox[n]) + 1}
    BY <2>1
  <2> QED
    BY <1>2, <2>1, <2>2 DEF DeliveredTo
<1>4. p \notin DeliveredTo(n)
  BY <1>1 DEF DeliveredTo, MayFollow
<1>5. MailBox[p].st = "sent"
  BY <1>1, <1>4, MailFacts DEF MailState
<1>6. ASSUME NEW q \in DownPkts, MailBox[q].st = "delivered", MailBox[q].hub = MailBox[p].hub,
             MailBox[q].dst = MailBox[p].dst, p \in MailBox[q].before
      PROVE  FALSE
  <2>1. post[q].st = "sent" /\ q \in DeliveredTo(post[q].dst)
    BY <1>6, MailFacts
  <2>2. post[q].hub = post[p].hub /\ post[q].dst = n /\ p \in post[q].before
    BY <1>1, <1>6, <2>1, MailFacts
  <2>3. PICK i \in 1..Len(inbox[n]) : q = inbox[n][i]
    BY <2>1, <2>2 DEF DeliveredTo
  <2> QED
    BY <1>1, <2>2, <2>3 DEF MayFollow
<1>7. MailBox'[p] = [MailBox[p] EXCEPT !.st = "delivered"]
  <2>1. post[p] \in PostType
    BY <1>1 DEF TypeOK, CoordTypeOK
  <2>2. MailState(p) = "sent" /\ MailState(p)' = "delivered"
    BY <1>1, <1>2, <1>3, <1>4 DEF MailState
  <2>3. MailBox[p] = [post[p] EXCEPT !.st = "sent"] /\ MailBox'[p] = [post[p] EXCEPT !.st = "delivered"]
    BY <1>1, <1>2, <2>2 DEF MailBox
  <2> QED
    BY <2>1, <2>3 DEF PostType
<1>8. ASSUME NEW q \in DownPkts, q # p PROVE MailBox'[q] = MailBox[q]
  <2>1. \A m \in Nodes : q \in DeliveredTo(m)' <=> q \in DeliveredTo(m)
    BY <1>3, <1>8
  <2> QED
    BY <1>2, <2>1, MailKept
<1>9. MailBox' = [q \in DownPkts |-> IF q \in {p} THEN [MailBox[q] EXCEPT !.st = "delivered"] ELSE MailBox[q]]
  <2>1. MailBox' = [q \in DownPkts |-> MailBox'[q]]
    BY DEF MailBox
  <2> QED
    BY <1>7, <1>8, <2>1
<1> QED
  BY <1>1, <1>5, <1>6, <1>9 DEF Mail!Deliver, Mail!Overtaken, Mail!Become, MailBox, p

LEMMA CoordIsCourier ==
  ASSUME TableInv, TableInv', DeliveryInv, CoordNext
  PROVE  Mail!Next \/ UNCHANGED MailBox
<1>1. UNCHANGED inbox
  BY DEF CoordNext, nodeVars
<1>2. ASSUME NEW h \in Hubs, NEW E \in SUBSET Used(h), NEW st \in {"expired", "forgotten"},
             post' = SetFate({slottbl[h][i].pkt : i \in E}, st)
      PROVE  Mail!Next
  <2> DEFINE P == {slottbl[h][i].pkt : i \in E}
  <2>1. P \subseteq Mail!HeldBy(h) /\ Mail!Become(P, "returned")
    BY <1>1, <1>2, FateIsMail DEF Reported
  <2>2. P \in SUBSET DownPkts
    BY UsedIsAccepted
  <2> HIDE DEF P
  <2> QED
    BY <2>1, <2>2 DEF Mail!Next, Mail!Return
<1>3. ASSUME NEW h \in Hubs, NEW n \in Nodes, NEW p \in DownPkts, NEW s \in LocalSeqs,
             CoordTx(h, n, p, s)
      PROVE  Mail!Next
  BY <1>3, TxIsAccept DEF CoordNext, Mail!Next
<1>4. ASSUME NEW h \in Hubs, NEW f \in air, CoordDrops(h, f) \/ CoordListens(h, f)
      PROVE  UNCHANGED MailBox
  BY <1>1, <1>4, MailUnchanged DEF CoordDrops, CoordListens, coordVars
<1>5. ASSUME NEW h \in Hubs, NEW f \in air, CoordAnswers(h, f)
      PROVE  Mail!Next
  <2>1. PICK i \in Used(h) : post' = SetFate({slottbl[h][i].pkt}, "sent")
    BY <1>5 DEF CoordAnswers, HeldFor, IsFirst
  <2>2. PICK p \in DownPkts : p = slottbl[h][i].pkt
    BY UsedIsAccepted
  <2>3. {i} \in SUBSET Used(h) /\ {slottbl[h][j].pkt : j \in {i}} = {p}
    BY <2>2
  <2> DEFINE P == {slottbl[h][j].pkt : j \in {i}}
  <2>4. post' = SetFate(P, "sent")
    BY <2>1, <2>2, <2>3
  <2>5. P \subseteq Mail!HeldBy(h) /\ Mail!Become(P, "sent")
    BY <1>1, <2>3, <2>4, FateIsMail DEF Reported
  <2>6. P = {p}
    BY <2>3
  <2> HIDE DEF P
  <2>7. p \in Mail!HeldBy(h) /\ Mail!Become({p}, "sent")
    BY <2>5, <2>6 DEF Mail!Become
  <2> QED
    BY <2>7 DEF Mail!Next, Mail!Send
<1>6. ASSUME NEW h \in Hubs, Coord1Hz(h) PROVE Mail!Next
  <2>1. RunOut(h) \in SUBSET Used(h)
    BY DEF RunOut
  <2> QED
    BY <1>2, <1>6, <2>1 DEF Coord1Hz
<1>7. ASSUME NEW h \in Hubs, CoordRestart(h) PROVE Mail!Next
  BY <1>2, <1>7 DEF CoordRestart
<1> QED
  BY <1>3, <1>4, <1>5, <1>6, <1>7 DEF CoordNext

LEMMA NodeIsCourier ==
  ASSUME TypeOK, TypeOK', DeliveryInv, NodeNext
  PROVE  Mail!Next \/ UNCHANGED MailBox
<1>1. UNCHANGED coordVars /\ UNCHANGED post
  BY DEF NodeNext, coordVars
<1>2. CASE \E n \in Nodes, f \in air : NodeTakes(n, f)
  BY <1>1, <1>2, TakeIsDeliver DEF Mail!Next
<1>3. CASE ~\E n \in Nodes, f \in air : NodeTakes(n, f)
  <2>1. UNCHANGED inbox
    BY <1>3 DEF NodeNext, NodePolls, NodeSends, NodeTxReturns, NodeDrops, nodeVars,
         NodeBadSeq, NodeRxCbReturns, NodeTxCbReturns, NodeTimesOut, NodeToRxReturns,
         NodeToTxReturns, NodeRestart
  <2> QED
    BY <1>1, <2>1, MailUnchanged
<1> QED
  BY <1>2, <1>3

\* The hubs and devices implement Courier, whatever the air and the re-entrant
\* applications do: a packet is sent or returned, once, and is delivered at most
\* once and not after a later one of its hub.
THEOREM LinkIsCourier == Spec => ImplementsCourier
<1>1. Init => Mail!Init
  <2> SUFFICES ASSUME Init PROVE Mail!Init
    OBVIOUS
  <2>1. MailBox = [p \in DownPkts |-> [st |-> "new"]]
    BY DEF MailBox, MailState, Init, CoordInit
  <2> QED
    BY <2>1 DEF Mail!Init, Mail!New, MailBox
<1>2. TableInv /\ TableInv' /\ DeliveryInv /\ [Next]_vars => [Mail!Next]_MailBox
  <2> SUFFICES ASSUME TableInv, TableInv', DeliveryInv, [Next]_vars
               PROVE  Mail!Next \/ UNCHANGED MailBox
    OBVIOUS
  <2>1. CASE NodeNext
    BY <2>1, NodeIsCourier DEF TableInv
  <2>2. CASE UNCHANGED vars
    BY <2>2, MailUnchanged DEF vars, coordVars, nodeVars
  <2> QED
    BY <2>1, <2>2, CoordIsCourier DEF Next
<1> QED
  BY <1>1, <1>2, TableAlways, DeliveryAlways, PTL DEF Spec, ImplementsCourier, Mail!Spec, MailBox

-----------------------------------------------------------------------------
(***************************************************************************)
(* Calls: a wait can end, and every mac_tx is reported once.               *)
(***************************************************************************)

\* A poll is pending while mac_tx waits; the innermost wait is for its own.
Waits(s, wait, pending) ==
  /\ wait <=> pending # 0
  /\ s # <<>> => LET k == s[Len(s)].k
                 IN  /\ k = "spin" /\ wait => pending = Len(s)
                     /\ k \in {"sent", "torx", "totx"} => pending = 0
WaitInv == \A n \in Nodes : Waits(stack[n], waitAck[n], pollPending[n])

\* What a step puts on top of the calls of device n.
LEMMA TopOfPushed ==
  ASSUME NEW s \in Seq(Calls), NEW c \in Calls
  PROVE  LET t == Append(s, c) IN t # <<>> /\ t[Len(t)] = c /\ Len(t) = Len(s) + 1
BY Pushed

LEMMA WaitsNode ==
  ASSUME TypeOK, WaitInv, NodeNext
  PROVE  WaitInv'
<1>1. \A n \in Nodes : /\ stack[n] \in Seq(Calls) /\ waitAck[n] \in BOOLEAN
                       /\ pollPending[n] \in Nat /\ poll_seq[n] \in 0..(SeqMod - 1)
                       /\ Depth(n) = Len(stack[n]) /\ Len(stack[n]) \in Nat
  BY DEF TypeOK, NodeTypeOK, Depth
<1>2. \A m \in Nodes : Waits(stack[m], waitAck[m], pollPending[m])
  BY DEF WaitInv
<1>3. ASSUME NEW n \in Nodes, UNCHANGED <<stack, waitAck, pollPending>> PROVE WaitInv'
  BY <1>3 DEF WaitInv
<1>4. ASSUME NEW n \in Nodes, NEW s, NEW w, NEW p, Waits(s, w, p),
             stack' = [stack EXCEPT ![n] = s], waitAck' = [waitAck EXCEPT ![n] = w],
             pollPending' = [pollPending EXCEPT ![n] = p]
      PROVE  WaitInv'
  BY <1>2, <1>4 DEF WaitInv, TypeOK, NodeTypeOK
<1>4b. ASSUME NEW n \in Nodes, NEW s, Waits(s, waitAck[n], pollPending[n]),
             stack' = [stack EXCEPT ![n] = s], UNCHANGED <<waitAck, pollPending>>
      PROVE  WaitInv'
  BY <1>2, <1>4b DEF WaitInv, TypeOK, NodeTypeOK
<1>5. ASSUME NEW n \in Nodes, NEW pkt, NodePolls(n, pkt) PROVE WaitInv'
  <2> DEFINE c == Call("spin", poll_seq[n], 0, 0)
             s == Append(stack[n], c)
  <2>1. c \in Calls /\ c.k = "spin"
    BY CallIsCall DEF TypeOK, NodeTypeOK
  <2>2. stack' = [stack EXCEPT ![n] = s]
    BY <1>5 DEF NodePolls
  <2>3. s # <<>> /\ s[Len(s)] = c /\ Len(s) = Depth(n) + 1
    BY <1>1, <2>1, TopOfPushed
  <2> HIDE DEF c, s
  <2>4. Waits(s, TRUE, Depth(n) + 1)
    BY <1>1, <2>1, <2>3 DEF Waits
  <2> QED
    BY <1>4, <1>5, <2>2, <2>4 DEF NodePolls
<1>6. ASSUME NEW n \in Nodes, NEW pkt, NodeSends(n, pkt) PROVE WaitInv'
  <2>1. Waits(Append(stack[n], Call("sent", 0, 1, 0)), FALSE, 0)
    BY <1>1, CallbackIsCall, TopOfPushed DEF Waits, Callbacks
  <2> QED
    BY <1>4, <1>6, <2>1 DEF NodeSends
<1>7. ASSUME NEW n \in Nodes, NodeTxReturns(n) PROVE WaitInv'
  <2>1. ~waitAck[n] /\ pollPending[n] = 0
    BY <1>1, <1>2, <1>7 DEF NodeTxReturns, In, Top, Waits
  <2>2. Waits(Popped(n), waitAck[n], pollPending[n])
    BY <2>1 DEF Waits
  <2> QED
    BY <1>4b, <1>7, <2>2 DEF NodeTxReturns
<1>8. ASSUME NEW n \in Nodes, NEW f \in air, NodeTakes(n, f) PROVE WaitInv'
  <2> DEFINE c == Call("rxcb", 0, 0, 0)
             s == Append(stack[n], c)
  <2>1. c \in Calls /\ c.k = "rxcb"
    BY CallbackIsCall DEF Callbacks
  <2>2. s # <<>> /\ s[Len(s)] = c
    BY <1>1, <2>1, TopOfPushed
  <2>3. stack' = [stack EXCEPT ![n] = s]
    BY <1>8 DEF NodeTakes
  <2> HIDE DEF c, s
  <2>4. Waits(s, waitAck[n], pollPending[n])
    BY <1>2, <2>1, <2>2 DEF Waits
  <2> QED
    BY <1>4b, <1>8, <2>3, <2>4 DEF NodeTakes
<1>9. ASSUME NEW n \in Nodes, NodeRxCbReturns(n) PROVE WaitInv'
  <2>1. CASE pollPending[n] # 0
    <3> DEFINE s == CalledBack(Popped(n), pollPending[n])
    <3>1. s \in Seq(Calls)
      BY <1>1, <1>9, PoppedKeeps, CalledBackKeeps DEF NodeRxCbReturns, In, TypeOK, NodeTypeOK
    <3> HIDE DEF s
    <3>2. Waits(Append(s, Call("txcb", 0, 0, 0)), waitAck[n], pollPending[n])
      BY <1>1, <1>2, <3>1, CallbackIsCall, TopOfPushed DEF Waits, Callbacks
    <3> QED
      BY <1>4b, <1>9, <2>1, <3>2 DEF NodeRxCbReturns, s
  <2>2. CASE pollPending[n] = 0
    <3>1. Waits(Popped(n), FALSE, pollPending[n])
      BY <2>2 DEF Waits
    <3> QED
      BY <1>4, <1>9, <2>2, <3>1 DEF NodeRxCbReturns, TypeOK, NodeTypeOK
  <2> QED
    BY <2>1, <2>2
<1>10. ASSUME NEW n \in Nodes, NodeTxCbReturns(n) PROVE WaitInv'
  <2>1. Waits(Popped(n), FALSE, 0)
    BY DEF Waits
  <2> QED
    BY <1>4, <1>10, <2>1 DEF NodeTxCbReturns
<1>11. ASSUME NEW n \in Nodes, NodeTimesOut(n) PROVE WaitInv'
  <2>1. Waits(Append(stack[n], Call("torx", 0, 0, pollPending[n])), FALSE, 0)
    BY <1>1, CallbackIsCall, TopOfPushed DEF Waits, Callbacks
  <2> QED
    BY <1>4, <1>11, <2>1 DEF NodeTimesOut, WaitAfterTimeout
<1>12. ASSUME NEW n \in Nodes, NodeToRxReturns(n) PROVE WaitInv'
  <2> DEFINE s == CalledBack(Popped(n), TimedOutPkt(n))
  <2>1. s \in Seq(Calls)
    BY <1>1, <1>12, PoppedKeeps, CalledBackKeeps DEF NodeToRxReturns, In, TypeOK, NodeTypeOK
  <2>2. pollPending[n] = 0
    BY <1>1, <1>2, <1>12 DEF NodeToRxReturns, In, Top, Waits
  <2> HIDE DEF s
  <2>3. Waits(Append(s, Call("totx", 0, 0, 0)), waitAck[n], pollPending[n])
    BY <1>1, <1>2, <2>1, <2>2, CallbackIsCall, TopOfPushed DEF Waits, Callbacks
  <2> QED
    BY <1>4b, <1>12, <2>3 DEF NodeToRxReturns, s
<1>13. ASSUME NEW n \in Nodes, NodeToTxReturns(n) PROVE WaitInv'
  <2>1. ~waitAck[n] /\ pollPending[n] = 0
    BY <1>1, <1>2, <1>13 DEF NodeToTxReturns, In, Top, Waits
  <2>2. Waits(Popped(n), waitAck[n], pollPending[n])
    BY <2>1 DEF Waits
  <2> QED
    BY <1>4b, <1>13, <2>2 DEF NodeToTxReturns
<1>14. ASSUME NEW n \in Nodes, NodeRestart(n) PROVE WaitInv'
  <2>1. Waits(<<>>, FALSE, 0)
    BY DEF Waits
  <2> QED
    BY <1>4, <1>14, <2>1 DEF NodeRestart
<1> QED
  BY <1>3, <1>5, <1>6, <1>7, <1>8, <1>9, <1>10, <1>11, <1>12, <1>13, <1>14
     DEF NodeNext, NodeDrops, NodeBadSeq, nodeVars

LEMMA WaitAlways == Spec => []WaitInv
<1>1. Init => WaitInv
  BY DEF Init, NodeInit, WaitInv, Waits
<1>2. TypeOK /\ WaitInv /\ [Next]_vars => WaitInv'
  <2>1. UNCHANGED nodeVars /\ WaitInv => WaitInv'
    BY DEF nodeVars, WaitInv
  <2> QED
    BY <2>1, WaitsNode DEF Next, CoordNext, vars
<1> QED
  BY <1>1, <1>2, TypeCorrect, PTL DEF Spec

\* Whatever the application calls from whichever callback, mac_tx waits only
\* for what mac_tick can time out.
THEOREM WaitsCanEnd == Spec => []WaitCanEnd
<1>1. WaitInv => WaitCanEnd
  BY DEF WaitInv, Waits, WaitCanEnd, In, Top, Depth
<1> QED
  BY <1>1, WaitAlways, PTL

(***************************************************************************)
(* The calls in progress, where mac_rx_cb of a received packet does not    *)
(* call mac_tx: between two calls of mac_tx is the callback in which the   *)
(* second was made, and who has been called back is reported.              *)
(***************************************************************************)
Handlers == {"rxcb", "txcb", "torx", "totx"}
Due(k) == IF k \in {"rxcb", "torx"} THEN 0 ELSE 1

Shaped(s, wait, pending) ==
  \A i \in 1..Len(s) :
    LET k == s[i].k
    IN  /\ k = "sent" => s[i].cbs = 1
        /\ k \in Handlers => i - 1 \in 1..Len(s) /\ s[i-1].k = "spin" /\ s[i-1].cbs = Due(k)
        /\ k = "torx" => s[i].tmp = i - 1
        /\ k = "rxcb" => i = Len(s) /\ wait /\ pending = i - 1
        /\ k = "spin" => IF i = Len(s) THEN s[i].cbs = (IF wait THEN 0 ELSE 1)
                         ELSE s[i+1].k \in Handlers
ShapeInv == \A n \in Nodes : Shaped(stack[n], waitAck[n], pollPending[n])

\* mac_tx is called, by a device that does nothing or is in a callback.
LEMMA CallShaped ==
  ASSUME NEW s \in Seq(Calls), NEW c \in Calls, NEW w, NEW p, NEW w1, NEW p1, Shaped(s, w, p),
         s # <<>> => s[Len(s)].k \notin {"spin", "rxcb"},
         (c.k = "sent" /\ c.cbs = 1) \/ (c.k = "spin" /\ c.cbs = 0 /\ w1)
  PROVE  Shaped(Append(s, c), w1, p1)
<1> DEFINE t == Append(s, c)
<1>1. Len(s) \in Nat /\ Len(t) = Len(s) + 1 /\ t[Len(s) + 1] = c /\ \A i \in 1..Len(s) : t[i] = s[i]
  BY Pushed
<1>2. Len(s) # 0 => s # <<>>
  OBVIOUS
<1> HIDE DEF t
<1> SUFFICES ASSUME NEW i \in 1..Len(t)
             PROVE  LET k == t[i].k
                    IN  /\ k = "sent" => t[i].cbs = 1
                        /\ k \in Handlers => i - 1 \in 1..Len(t) /\ t[i-1].k = "spin" /\ t[i-1].cbs = Due(k)
                        /\ k = "torx" => t[i].tmp = i - 1
                        /\ k = "rxcb" => i = Len(t) /\ w1 /\ p1 = i - 1
                        /\ k = "spin" => IF i = Len(t) THEN t[i].cbs = (IF w1 THEN 0 ELSE 1)
                                         ELSE t[i+1].k \in Handlers
  BY DEF Shaped, t
<1>3. CASE i = Len(s) + 1
  BY <1>1, <1>3 DEF Handlers
<1>4. CASE i = Len(s)
  BY <1>1, <1>2, <1>4 DEF Shaped, Handlers
<1>5. CASE i \in 1..(Len(s) - 1)
  <2>1. i + 1 \in 1..Len(s) /\ i \in 1..Len(s) /\ i # Len(s) /\ i # Len(t)
    BY <1>1, <1>5
  <2>2. i - 1 \in 1..Len(s) => t[i-1] = s[i-1] /\ i - 1 \in 1..Len(t)
    BY <1>1, <2>1
  <2> QED
    BY <1>1, <2>1, <2>2 DEF Shaped
<1> QED
  BY <1>1, <1>3, <1>4, <1>5

\* radio_received or mac_tick calls back the innermost mac_tx's application.
LEMMA HandlerShaped ==
  ASSUME NEW s \in Seq(Calls), NEW c \in Calls, NEW w, NEW p, NEW w1, NEW p1, Shaped(s, w, p),
         s # <<>>, s[Len(s)].k = "spin", c.k \in Handlers, s[Len(s)].cbs = Due(c.k),
         c.k = "torx" => c.tmp = Len(s), c.k = "rxcb" => w1 /\ p1 = Len(s)
  PROVE  Shaped(Append(s, c), w1, p1)
<1> DEFINE t == Append(s, c)
<1>1. Len(s) \in Nat /\ Len(t) = Len(s) + 1 /\ t[Len(s) + 1] = c /\ \A i \in 1..Len(s) : t[i] = s[i]
  BY Pushed
<1>2. Len(s) # 0
  OBVIOUS
<1> HIDE DEF t
<1> SUFFICES ASSUME NEW i \in 1..Len(t)
             PROVE  LET k == t[i].k
                    IN  /\ k = "sent" => t[i].cbs = 1
                        /\ k \in Handlers => i - 1 \in 1..Len(t) /\ t[i-1].k = "spin" /\ t[i-1].cbs = Due(k)
                        /\ k = "torx" => t[i].tmp = i - 1
                        /\ k = "rxcb" => i = Len(t) /\ w1 /\ p1 = i - 1
                        /\ k = "spin" => IF i = Len(t) THEN t[i].cbs = (IF w1 THEN 0 ELSE 1)
                                         ELSE t[i+1].k \in Handlers
  BY DEF Shaped, t
<1>3. CASE i = Len(s) + 1
  <2>1. i - 1 = Len(s) /\ i - 1 \in 1..Len(s) /\ i - 1 \in 1..Len(t) /\ i = Len(t)
    BY <1>1, <1>2, <1>3
  <2> QED
    BY <1>1, <1>3, <2>1 DEF Handlers
<1>4. CASE i = Len(s)
  BY <1>1, <1>2, <1>4 DEF Shaped, Handlers
<1>5. CASE i \in 1..(Len(s) - 1)
  <2>1. i + 1 \in 1..Len(s) /\ i \in 1..Len(s) /\ i # Len(s) /\ i # Len(t)
    BY <1>1, <1>5
  <2>2. i - 1 \in 1..Len(s) => t[i-1] = s[i-1] /\ i - 1 \in 1..Len(t)
    BY <1>1, <2>1
  <2> QED
    BY <1>1, <2>1, <2>2 DEF Shaped
<1> QED
  BY <1>1, <1>3, <1>4, <1>5

\* The innermost call returns; what remains is s, its last one called back or not.
LEMMA ReturnShaped ==
  ASSUME NEW t \in Seq(Calls), NEW s \in Seq(Calls), NEW w, NEW p, NEW w1, NEW p1, Shaped(t, w, p),
         Len(t) = Len(s) + 1, \A i \in 1..Len(s) : s[i].k = t[i].k,
         \A i \in 1..Len(s) - 1 : s[i] = t[i],
         s # <<>> /\ s[Len(s)].k # "spin" => s[Len(s)] = t[Len(s)],
         s # <<>> /\ s[Len(s)].k = "spin" => s[Len(s)].cbs = (IF w1 THEN 0 ELSE 1)
  PROVE  Shaped(s, w1, p1)
<1>1. Len(s) \in Nat /\ Len(t) \in Nat /\ (Len(s) # 0 => s # <<>>)
  OBVIOUS
<1> SUFFICES ASSUME NEW i \in 1..Len(s)
             PROVE  LET k == s[i].k
                    IN  /\ k = "sent" => s[i].cbs = 1
                        /\ k \in Handlers => i - 1 \in 1..Len(s) /\ s[i-1].k = "spin" /\ s[i-1].cbs = Due(k)
                        /\ k = "torx" => s[i].tmp = i - 1
                        /\ k = "rxcb" => i = Len(s) /\ w1 /\ p1 = i - 1
                        /\ k = "spin" => IF i = Len(s) THEN s[i].cbs = (IF w1 THEN 0 ELSE 1)
                                         ELSE s[i+1].k \in Handlers
  BY DEF Shaped
<1>2. i \in 1..Len(t) /\ i # Len(t) /\ i + 1 \in 1..Len(t)
  BY <1>1
<1>3. t[i].k # "rxcb"
  BY <1>2 DEF Shaped
<1>4. i - 1 \in 1..Len(t) => i - 1 \in 1..Len(s) - 1 /\ i - 1 \in 1..Len(s)
  BY <1>1
<1>5. CASE i = Len(s)
  BY <1>1, <1>2, <1>3, <1>4, <1>5 DEF Shaped, Handlers
<1>6. CASE i # Len(s)
  <2>1. i \in 1..Len(s) - 1 /\ i + 1 \in 1..Len(s)
    BY <1>1, <1>6
  <2> QED
    BY <1>1, <1>2, <1>3, <1>4, <1>6, <2>1 DEF Shaped, Handlers
<1> QED
  BY <1>5, <1>6

LEMMA ShapedNode ==
  ASSUME "rxcb" \notin ReenterFrom, TypeOK, DeliveryInv, WaitInv, ShapeInv, NodeNext
  PROVE  ShapeInv'
<1>1. \A n \in Nodes : /\ stack[n] \in Seq(Calls) /\ waitAck[n] \in BOOLEAN
                       /\ pollPending[n] \in Nat /\ Depth(n) = Len(stack[n]) /\ Len(stack[n]) \in Nat
                       /\ Shaped(stack[n], waitAck[n], pollPending[n])
                       /\ Waits(stack[n], waitAck[n], pollPending[n])
  <2>1. \A n \in Nodes : /\ stack[n] \in Seq(Calls) /\ waitAck[n] \in BOOLEAN
                         /\ pollPending[n] \in Nat /\ Depth(n) = Len(stack[n]) /\ Len(stack[n]) \in Nat
    BY DEF TypeOK, NodeTypeOK, Depth
  <2> QED
    BY <2>1 DEF ShapeInv, WaitInv
<1>2. ASSUME NEW n \in Nodes, UNCHANGED <<stack, waitAck, pollPending>> PROVE ShapeInv'
  BY <1>2 DEF ShapeInv
<1>3. ASSUME NEW n \in Nodes, NEW s, NEW w, NEW p, Shaped(s, w, p),
             stack' = [stack EXCEPT ![n] = s], waitAck' = [waitAck EXCEPT ![n] = w],
             pollPending' = [pollPending EXCEPT ![n] = p]
      PROVE  ShapeInv'
  BY <1>1, <1>3 DEF ShapeInv, TypeOK, NodeTypeOK
<1>3b. ASSUME NEW n \in Nodes, NEW s, Shaped(s, waitAck[n], pollPending[n]),
              stack' = [stack EXCEPT ![n] = s], UNCHANGED <<waitAck, pollPending>>
       PROVE  ShapeInv'
  BY <1>1, <1>3b DEF ShapeInv, TypeOK, NodeTypeOK
<1>4. ASSUME NEW n \in Nodes, MayCall(n)
      PROVE  stack[n] # <<>> => stack[n][Len(stack[n])].k \notin {"spin", "rxcb"}
  BY <1>1, <1>4, NodeAssumption DEF MayCall, In, Top, Callbacks
<1>5. ASSUME NEW n \in Nodes, NEW pkt, NodePolls(n, pkt) PROVE ShapeInv'
  <2> DEFINE c == Call("spin", poll_seq[n], 0, 0)
  <2>1. c \in Calls /\ c.k = "spin" /\ c.cbs = 0
    BY CallIsCall DEF TypeOK, NodeTypeOK, Call
  <2>2. stack' = [stack EXCEPT ![n] = Append(stack[n], c)]
    BY <1>5 DEF NodePolls
  <2> HIDE DEF c
  <2>3. Shaped(Append(stack[n], c), TRUE, Depth(n) + 1)
    BY <1>1, <1>4, <1>5, <2>1, CallShaped DEF NodePolls
  <2> QED
    BY <1>3, <1>5, <2>2, <2>3 DEF NodePolls
<1>6. ASSUME NEW n \in Nodes, NEW pkt, NodeSends(n, pkt) PROVE ShapeInv'
  <2> DEFINE c == Call("sent", 0, 1, 0)
  <2>1. c \in Calls /\ c.k = "sent" /\ c.cbs = 1
    BY CallbackIsCall DEF Call, Callbacks
  <2>2. stack' = [stack EXCEPT ![n] = Append(stack[n], c)]
    BY <1>6 DEF NodeSends
  <2> HIDE DEF c
  <2>3. Shaped(Append(stack[n], c), FALSE, 0)
    BY <1>1, <1>4, <1>6, <2>1, CallShaped DEF NodeSends
  <2> QED
    BY <1>3, <1>6, <2>2, <2>3 DEF NodeSends
<1>7. ASSUME NEW n \in Nodes, stack[n] # <<>>
      PROVE  /\ Popped(n) \in Seq(Calls) /\ Depth(n) = Len(Popped(n)) + 1
             /\ Depth(n) \in 1..Len(stack[n]) /\ Len(Popped(n)) \in Nat
             /\ \A i \in 1..Len(Popped(n)) : Popped(n)[i] = stack[n][i] /\ i \in 1..Len(stack[n])
             /\ Popped(n) # <<>> => Len(Popped(n)) \in 1..Len(Popped(n))
  BY <1>1, <1>7, PoppedKeeps DEF TypeOK, NodeTypeOK
\* The mac_tx below a handler.
<1>8. ASSUME NEW n \in Nodes, NEW k \in Handlers, In(n, k)
      PROVE  LET s == Popped(n)
             IN  s # <<>> /\ Len(s) \in 1..Len(s) /\ s[Len(s)].k = "spin" /\ s[Len(s)].cbs = Due(k)
  <2>1. stack[n] # <<>> /\ stack[n][Depth(n)].k = k
    BY <1>8 DEF In, Top
  <2>2. LET s == stack[n] d == Len(stack[n]) IN d - 1 \in 1..d /\ s[d-1].k = "spin" /\ s[d-1].cbs = Due(k)
    BY <1>1, <1>7, <2>1 DEF Shaped
  <2> QED
    BY <1>1, <1>7, <2>1, <2>2
<1>9. ASSUME NEW n \in Nodes, NodeTxReturns(n) PROVE ShapeInv'
  <2>1. stack[n] # <<>> /\ stack[n][Len(stack[n])].k \in {"spin", "sent"}
    BY <1>1, <1>9 DEF NodeTxReturns, In, Top
  <2> DEFINE s == Popped(n)
  <2>2. s # <<>> => s[Len(s)].k # "spin"
    <3>1. ASSUME s # <<>> PROVE Len(s) \in 1..Len(stack[n]) /\ Len(s) + 1 = Len(stack[n]) /\ s[Len(s)] = stack[n][Len(s)]
      BY <1>1, <1>7, <2>1, <3>1
    <3> QED
      BY <1>1, <2>1, <3>1 DEF Shaped, Handlers
  <2>3. Shaped(s, waitAck[n], pollPending[n])
    <3>1. s \in Seq(Calls) /\ Len(stack[n]) = Len(s) + 1 /\ \A i \in 1..Len(s) : s[i] = stack[n][i]
      BY <1>1, <1>7, <2>1
    <3>2. /\ \A i \in 1..Len(s) - 1 : s[i] = stack[n][i]
          /\ s # <<>> => s[Len(s)] = stack[n][Len(s)]
      BY <1>7, <2>1, <3>1
    <3> HIDE DEF s
    <3> QED
      BY <1>1, <2>2, <3>1, <3>2, ReturnShaped
  <2> QED
    BY <1>3b, <1>9, <2>3 DEF NodeTxReturns
<1>10. ASSUME NEW n \in Nodes, NEW f \in air, NodeTakes(n, f), UNCHANGED coordVars PROVE ShapeInv'
  <2>1. In(n, "spin") /\ waitAck[n]
    BY <1>10, TakenIsAnswer
  <2>2. /\ stack[n] # <<>> /\ stack[n][Len(stack[n])].k = "spin" /\ pollPending[n] = Len(stack[n])
        /\ stack[n][Len(stack[n])].cbs = 0
    BY <1>1, <1>7, <2>1 DEF In, Top, Waits, Shaped
  <2> DEFINE c == Call("rxcb", 0, 0, 0)
  <2>3. c \in Calls /\ c.k = "rxcb"
    BY CallbackIsCall DEF Callbacks
  <2>4. stack' = [stack EXCEPT ![n] = Append(stack[n], c)]
    BY <1>10 DEF NodeTakes
  <2> HIDE DEF c
  <2>5. Shaped(Append(stack[n], c), waitAck[n], pollPending[n])
    BY <1>1, <2>1, <2>2, <2>3, HandlerShaped DEF Handlers, Due
  <2> QED
    BY <1>3b, <1>10, <2>4, <2>5 DEF NodeTakes
\* A handler returns to its mac_tx, whose application is then called back.
<1>11. ASSUME NEW n \in Nodes, NEW k \in Handlers, In(n, k), NEW ptr, ptr = Len(Popped(n)),
              k \in {"rxcb", "torx"}
       PROVE  LET s == CalledBack(Popped(n), ptr)
              IN  /\ s \in Seq(Calls) /\ Shaped(s, FALSE, pollPending[n])
                  /\ s # <<>> /\ s[Len(s)].k = "spin" /\ s[Len(s)].cbs = 1
  <2> DEFINE r == Popped(n)
             s == CalledBack(r, ptr)
  <2>1. r # <<>> /\ Len(r) \in 1..Len(r) /\ r[Len(r)].k = "spin" /\ r[Len(r)].cbs = 0
    BY <1>8, <1>11 DEF Due
  <2>2. stack[n] # <<>>
    BY <1>11 DEF In
  <2>3. r \in Seq(Calls) /\ Len(stack[n]) = Len(r) + 1 /\ \A i \in 1..Len(r) : r[i] = stack[n][i]
    BY <1>1, <1>7, <2>2
  <2> HIDE DEF r
  <2>4. s \in Seq(Calls) /\ Len(s) = Len(r) /\ \A i \in 1..Len(r) : s[i].k = r[i].k /\ (i # ptr => s[i] = r[i])
    BY <2>3, CalledBackKeeps
  <2>5. s[Len(r)].cbs = 1
    <3>1. s[Len(r)] = [r[Len(r)] EXCEPT !.cbs = @ + 1] /\ r[Len(r)] \in Calls
      BY <1>11, <2>1, <2>3 DEF CalledBack, r
    <3> QED
      BY <2>1, <3>1 DEF Calls
  <2> HIDE DEF s
  <2>6. /\ \A i \in 1..Len(s) : s[i].k = stack[n][i].k
        /\ \A i \in 1..Len(s) - 1 : s[i] = stack[n][i]
        /\ s # <<>> /\ s[Len(s)].k = "spin"
    BY <1>11, <2>1, <2>3, <2>4 DEF r
  <2>7. Shaped(s, FALSE, pollPending[n])
    <3> DEFINE t == stack[n]
    <3>1. t \in Seq(Calls) /\ Shaped(t, waitAck[n], pollPending[n]) /\ Len(t) = Len(s) + 1
      BY <1>1, <2>3, <2>4
    <3>2. /\ s \in Seq(Calls) /\ s[Len(s)].cbs = 1 /\ s # <<>> /\ s[Len(s)].k = "spin"
          /\ \A i \in 1..Len(s) : s[i].k = t[i].k
          /\ \A i \in 1..Len(s) - 1 : s[i] = t[i]
      BY <2>4, <2>5, <2>6
    <3> HIDE DEF t
    <3> QED
      BY <3>1, <3>2, ReturnShaped
  <2> QED
    BY <2>4, <2>5, <2>6, <2>7 DEF s, r
<1>12. ASSUME NEW n \in Nodes, NodeRxCbReturns(n) PROVE ShapeInv'
  <2>1. stack[n] # <<>> /\ stack[n][Len(stack[n])].k = "rxcb" /\ In(n, "rxcb")
    BY <1>1, <1>12 DEF NodeRxCbReturns, In, Top
  <2>2. waitAck[n] /\ pollPending[n] = Len(Popped(n)) /\ pollPending[n] # 0
    BY <1>1, <1>7, <2>1 DEF Shaped, Waits
  <2> DEFINE s == CalledBack(Popped(n), pollPending[n])
             c == Call("txcb", 0, 0, 0)
  <2>3. /\ s \in Seq(Calls) /\ Shaped(s, FALSE, pollPending[n])
        /\ s # <<>> /\ s[Len(s)].k = "spin" /\ s[Len(s)].cbs = 1
    BY <1>11, <2>1, <2>2 DEF Handlers
  <2>4. c \in Calls /\ c.k = "txcb"
    BY CallbackIsCall DEF Callbacks
  <2>5. stack' = [stack EXCEPT ![n] = Append(s, c)] /\ UNCHANGED <<waitAck, pollPending>>
    BY <1>12, <2>2 DEF NodeRxCbReturns
  <2> HIDE DEF s, c
  <2>6. Shaped(Append(s, c), waitAck[n], pollPending[n])
    BY <2>3, <2>4, HandlerShaped DEF Handlers, Due
  <2> QED
    BY <1>3b, <2>5, <2>6
<1>13. ASSUME NEW n \in Nodes, NodeToRxReturns(n) PROVE ShapeInv'
  <2>1. stack[n] # <<>> /\ stack[n][Len(stack[n])].k = "torx" /\ In(n, "torx")
    BY <1>1, <1>13 DEF NodeToRxReturns, In, Top
  <2>2. TimedOutPkt(n) = Len(Popped(n))
    BY <1>1, <1>7, <2>1 DEF Shaped, TimedOutPkt, Top
  <2> DEFINE s == CalledBack(Popped(n), TimedOutPkt(n))
             c == Call("totx", 0, 0, 0)
  <2>3. /\ s \in Seq(Calls) /\ Shaped(s, FALSE, pollPending[n])
        /\ s # <<>> /\ s[Len(s)].k = "spin" /\ s[Len(s)].cbs = 1
    BY <1>11, <2>1, <2>2 DEF Handlers
  <2>4. c \in Calls /\ c.k = "totx"
    BY CallbackIsCall DEF Callbacks
  <2>5. stack' = [stack EXCEPT ![n] = Append(s, c)] /\ UNCHANGED <<waitAck, pollPending>>
    BY <1>13 DEF NodeToRxReturns
  <2> HIDE DEF s, c
  <2>6. Shaped(Append(s, c), waitAck[n], pollPending[n])
    BY <2>3, <2>4, HandlerShaped DEF Handlers, Due
  <2> QED
    BY <1>3b, <2>5, <2>6
\* mac_tx's callback returns: its wait is over.
<1>14. ASSUME NEW n \in Nodes, NEW k \in {"txcb", "totx"}, In(n, k), NEW p
       PROVE  Shaped(Popped(n), FALSE, p)
  <2> DEFINE s == Popped(n)
  <2>1. s # <<>> /\ Len(s) \in 1..Len(s) /\ s[Len(s)].k = "spin" /\ s[Len(s)].cbs = 1
    BY <1>8, <1>14 DEF Due, Handlers
  <2>2. stack[n] # <<>>
    BY <1>14 DEF In
  <2>3. s \in Seq(Calls) /\ Len(stack[n]) = Len(s) + 1 /\ \A i \in 1..Len(s) : s[i] = stack[n][i]
    BY <1>1, <1>7, <2>2
  <2> HIDE DEF s
  <2>4. \A i \in 1..Len(s) - 1 : s[i] = stack[n][i]
    BY <2>3
  <2>5. Shaped(s, FALSE, p)
    BY <1>1, <2>1, <2>3, <2>4, ReturnShaped
  <2> QED
    BY <2>5 DEF s
<1>15. ASSUME NEW n \in Nodes, NodeTxCbReturns(n) PROVE ShapeInv'
  <2>1. Shaped(Popped(n), FALSE, 0)
    BY <1>14, <1>15 DEF NodeTxCbReturns
  <2> QED
    BY <1>3, <1>15, <2>1 DEF NodeTxCbReturns
<1>16. ASSUME NEW n \in Nodes, NodeToTxReturns(n) PROVE ShapeInv'
  <2>1. ~waitAck[n]
    BY <1>1, <1>16 DEF NodeToTxReturns, In, Top, Waits
  <2>2. Shaped(Popped(n), waitAck[n], pollPending[n])
    BY <1>1, <1>14, <1>16, <2>1 DEF NodeToTxReturns
  <2> QED
    BY <1>3b, <1>16, <2>2 DEF NodeToTxReturns
<1>17. ASSUME NEW n \in Nodes, NodeTimesOut(n) PROVE ShapeInv'
  <2>1. In(n, "spin") /\ waitAck[n]
    BY <1>1, <1>17 DEF NodeTimesOut, Waits
  <2>2. /\ stack[n] # <<>> /\ stack[n][Len(stack[n])].k = "spin" /\ pollPending[n] = Len(stack[n])
        /\ stack[n][Len(stack[n])].cbs = 0
    BY <1>1, <1>7, <2>1 DEF In, Top, Waits, Shaped
  <2> DEFINE c == Call("torx", 0, 0, pollPending[n])
  <2>3. c \in Calls /\ c.k = "torx" /\ c.tmp = pollPending[n]
    BY <1>1, CallbackIsCall DEF Callbacks, Call
  <2>4. stack' = [stack EXCEPT ![n] = Append(stack[n], c)]
    BY <1>17 DEF NodeTimesOut
  <2> HIDE DEF c
  <2>5. Shaped(Append(stack[n], c), FALSE, 0)
    BY <1>1, <2>2, <2>3, HandlerShaped DEF Handlers, Due
  <2> QED
    BY <1>3, <1>17, <2>4, <2>5 DEF NodeTimesOut, WaitAfterTimeout
<1>18. ASSUME NEW n \in Nodes, NodeRestart(n) PROVE ShapeInv'
  <2>1. Shaped(<<>>, FALSE, 0)
    BY DEF Shaped
  <2> QED
    BY <1>3, <1>18, <2>1 DEF NodeRestart
<1> QED
  BY <1>2, <1>5, <1>6, <1>9, <1>10, <1>12, <1>13, <1>15, <1>16, <1>17, <1>18
     DEF NodeNext, NodeDrops, NodeBadSeq, nodeVars

\* A mac_tx made from any callback but mac_rx_cb of a received packet leaves
\* every call of mac_tx with exactly one mac_tx_cb.
THEOREM CalledBackOnce == "rxcb" \notin ReenterFrom => (Spec => []OneTxCallback)
<1> SUFFICES ASSUME "rxcb" \notin ReenterFrom PROVE Spec => []OneTxCallback
  OBVIOUS
<1>1. Init => ShapeInv
  BY DEF Init, NodeInit, ShapeInv, Shaped
<1>2. TypeOK /\ DeliveryInv /\ WaitInv /\ ShapeInv /\ [Next]_vars => ShapeInv'
  <2>1. UNCHANGED nodeVars /\ ShapeInv => ShapeInv'
    BY DEF nodeVars, ShapeInv
  <2> QED
    BY <2>1, ShapedNode DEF Next, CoordNext, vars
<1>3. TypeOK /\ ShapeInv => OneTxCallback
  <2> SUFFICES ASSUME TypeOK, ShapeInv, NEW n \in Nodes, (In(n, "spin") /\ ~waitAck[n]) \/ In(n, "sent")
               PROVE  Top(n).cbs = 1
    BY DEF OneTxCallback
  <2>1. /\ stack[n] \in Seq(Calls) /\ stack[n] # <<>> /\ Depth(n) = Len(stack[n])
        /\ Shaped(stack[n], waitAck[n], pollPending[n])
    BY DEF TypeOK, NodeTypeOK, In, ShapeInv, Depth
  <2>2. Len(stack[n]) \in 1..Len(stack[n])
    BY <2>1
  <2> QED
    BY <2>1, <2>2 DEF Shaped, In, Top
<1> QED
  BY <1>1, <1>2, <1>3, TypeCorrect, DeliveryAlways, WaitAlways, PTL DEF Spec
=============================================================================
