--------------------------- MODULE MacLinkProofs ----------------------------
(***************************************************************************)
(* Proofs about MacLink, for any number of hubs, devices, packets and      *)
(* slots, any width of poll_seq and any pattern of re-entrant calls.       *)
(***************************************************************************)
EXTENDS MacLink, SequenceTheorems, TLAPS

(***************************************************************************)
(* Frames.                                                                 *)
(***************************************************************************)

\* A frame a station builds is a frame.
LEMMA FrameIsFrame ==
  ASSUME NEW t \in FrameTypes, NEW n \in Nodes, NEW s \in 0..(SeqMod - 1), NEW p \in Pkts,
         NEW a \in 0..(MaxLate - 1), NEW st
  PROVE  Frame(t, n, s, p, a, st) \in Frames
BY MediumAssumption DEF Frame, Frames, Stations

\* What is left of the air after a station has heard a frame: for each frame
\* still there, one was there that differs at most in who may still hear it.
LEMMA HeardKeeps ==
  ASSUME air \subseteq Frames, NEW st, NEW f \in air, NEW g \in Heard(st, f)
  PROVE  /\ g \in Frames
         /\ \E e \in air : /\ e.type = g.type /\ e.eui64 = g.eui64 /\ e.seq = g.seq
                           /\ e.pkt = g.pkt /\ e.age = g.age /\ g.left \subseteq e.left
BY DEF Heard, Frames

\* Every frame of device n in the aged air is one advance older than a frame that
\* was there; the frames of other devices are as they were.
LEMMA AgedKeeps ==
  ASSUME NEW A, A \subseteq Frames, NEW n \in Nodes, NEW g \in Aged(n, A)
  PROVE  /\ g \in Frames
         /\ \/ g \in A /\ g.eui64 # n
            \/ \E e \in A : /\ e.eui64 = n /\ e.type = g.type /\ e.eui64 = g.eui64
                            /\ e.seq = g.seq /\ e.pkt = g.pkt /\ e.left = g.left
                            /\ g.age = e.age + 1
BY MediumAssumption DEF Aged, Frames

\* poll_seq++ stays a uint8_t.
LEMMA NextSeqInRange ==
  ASSUME NEW n \in Nodes, poll_seq \in [Nodes -> 0..(SeqMod - 1)]
  PROVE  NextSeq(n) \in 0..(SeqMod - 1)
BY MediumAssumption DEF NextSeq

(***************************************************************************)
(* Call stacks.                                                            *)
(***************************************************************************)

\* A call whose mac_tx_cb is counted is a call.
LEMMA CountedIsCall ==
  ASSUME NEW c \in Calls
  PROVE  /\ [c EXCEPT !.cbs = @ + 1] \in Calls
         /\ [c EXCEPT !.cbs = @ + 1].k = c.k
<1>1. c.cbs + 1 \in Nat
  BY DEF Calls
<1> QED
  BY <1>1 DEF Calls

\* mac_tx_cb, counted, leaves the calls in progress what they are.
LEMMA CalledBackKeeps ==
  ASSUME NEW s \in Seq(Calls), NEW ptr
  PROVE  /\ CalledBack(s, ptr) \in Seq(Calls)
         /\ Len(CalledBack(s, ptr)) = Len(s)
         /\ \A i \in 1..Len(s) : /\ CalledBack(s, ptr)[i].k = s[i].k
                                 /\ i # ptr => CalledBack(s, ptr)[i] = s[i]
<1>1. CASE ptr \notin 1..Len(s)
  BY <1>1 DEF CalledBack
<1>2. CASE ptr \in 1..Len(s)
  <2>1. s[ptr] \in Calls
    BY <1>2
  <2>2. /\ [s[ptr] EXCEPT !.cbs = @ + 1] \in Calls
        /\ [s[ptr] EXCEPT !.cbs = @ + 1].k = s[ptr].k
    BY <2>1, CountedIsCall
  <2> QED
    BY <1>2, <2>2, ExceptSeq DEF CalledBack
<1> QED
  BY <1>1, <1>2

\* A return leaves the calls below.
LEMMA PoppedKeeps ==
  ASSUME NEW n \in Nodes, stack \in [Nodes -> Seq(Calls)], stack[n] # <<>>
  PROVE  /\ Popped(n) \in Seq(Calls)
         /\ Depth(n) \in Nat \ {0}
         /\ Len(Popped(n)) = Depth(n) - 1
         /\ \A i \in 1..(Depth(n) - 1) : Popped(n)[i] = stack[n][i]
<1> DEFINE s == stack[n]
           d == Depth(n)
<1>1. s \in Seq(Calls) /\ d = Len(s)
  BY DEF Depth
<1>2. d \in Nat \ {0}
  BY <1>1, EmptySeq
<1>3. d - 1 \in Int /\ \A i \in 1..(d - 1) : s[i] \in Calls
  BY <1>1, <1>2
<1>4. /\ SubSeq(s, 1, d - 1) \in Seq(Calls)
      /\ Len(SubSeq(s, 1, d - 1)) = d - 1
      /\ \A i \in 1..(d - 1) : SubSeq(s, 1, d - 1)[i] = s[i]
  <2> HIDE DEF s, d
  <2>1. /\ Len(SubSeq(s, 1, d - 1)) = IF 1 <= d - 1 THEN d - 1 - 1 + 1 ELSE 0
        /\ \A i \in 1..(d - 1 - 1 + 1) : SubSeq(s, 1, d - 1)[i] = s[1 + i - 1]
        /\ SubSeq(s, 1, d - 1) \in Seq(Calls)
    BY <1>3, SubSeqProperties
  <2> QED
    BY <1>2, <2>1
<1> QED
  BY <1>2, <1>4 DEF Popped

-----------------------------------------------------------------------------
(***************************************************************************)
(* The coordinator's table.  TypeOK is not inductive: a packet whose fate  *)
(* is written must have been accepted before, or its record would lack the *)
(* hub and the destination; the slots know that it has been.               *)
(***************************************************************************)

\* A slot's packet is held, by this hub and for the slot's device.
HeldEntry ==
  \A h \in Hubs : \A i \in Used(h) :
    LET e == slottbl[h][i]
    IN  post[e.pkt].st = "held" /\ post[e.pkt].hub = h /\ post[e.pkt].dst = e.dst_eui64

\* A held packet is in a slot.
HeldSomewhere ==
  \A p \in DownPkts : post[p].st = "held" =>
    \E h \in Hubs : \E i \in Used(h) : slottbl[h][i].pkt = p

TableInv == TypeOK /\ SlotsDistinct /\ HeldEntry /\ HeldSomewhere

LEMMA TableInit == Init => TableInv
<1> SUFFICES ASSUME Init PROVE TableInv
  OBVIOUS
<1> USE DEF Init, CoordInit, NodeInit
<1>1. \A h \in Hubs : Used(h) = {}
  BY DEF Used
<1>2. TypeOK
  BY MediumAssumption, EmptySeq DEF TypeOK, CoordTypeOK, NodeTypeOK, PostType
<1> QED
  BY <1>1, <1>2 DEF TableInv, SlotsDistinct, HeldEntry, HeldSomewhere

\* The fate of packets that have been accepted.
LEMMA FateIsTyped ==
  ASSUME post \in [DownPkts -> PostType], NEW st \in Fates \ {"new"}, NEW P,
         \A p \in P : post[p].st # "new"
  PROVE  /\ SetFate(P, st) \in [DownPkts -> PostType]
         /\ \A p \in DownPkts \ P : SetFate(P, st)[p] = post[p]
         /\ \A p \in DownPkts \cap P :
              /\ SetFate(P, st)[p].st = st /\ SetFate(P, st)[p].hub = post[p].hub
              /\ SetFate(P, st)[p].dst = post[p].dst
              /\ SetFate(P, st)[p].before = post[p].before
<1>1. ASSUME NEW p \in DownPkts \cap P
      PROVE  /\ [post[p] EXCEPT !.st = st] \in PostType
             /\ [post[p] EXCEPT !.st = st].st = st
             /\ [post[p] EXCEPT !.st = st].hub = post[p].hub
             /\ [post[p] EXCEPT !.st = st].dst = post[p].dst
             /\ [post[p] EXCEPT !.st = st].before = post[p].before
  BY <1>1 DEF PostType
<1> QED
  BY <1>1 DEF SetFate

\* A packet in a slot has been accepted.
LEMMA UsedIsAccepted ==
  ASSUME TableInv, NEW h \in Hubs, NEW i \in Used(h)
  PROVE  /\ slottbl[h][i] \in Entries
         /\ slottbl[h][i].pkt \in DownPkts
         /\ post[slottbl[h][i].pkt].st # "new"
BY DEF TableInv, HeldEntry, TypeOK, CoordTypeOK, Entries, Used

\* A packet is in at most one slot.
LEMMA HeldOnce ==
  ASSUME TableInv, NEW h \in Hubs, NEW i \in Used(h),
         NEW g \in Hubs, NEW j \in Used(g), slottbl[h][i].pkt = slottbl[g][j].pkt
  PROVE  h = g /\ i = j
BY DEF TableInv, HeldEntry, SlotsDistinct

LEMMA TxKeepsTable ==
  ASSUME TableInv, NEW h \in Hubs, NEW n \in Nodes, NEW p \in DownPkts, NEW s \in LocalSeqs,
         CoordTx(h, n, p, s), UNCHANGED nodeVars
  PROVE  TableInv'
<1>1. PICK i \in Slots :
        /\ i \notin Used(h)
        /\ slottbl' = [slottbl EXCEPT ![h][i] =
             [dst_eui64 |-> n, pkt |-> p, local_seq |-> s, timeout |-> TimeoutS]]
  BY DEF CoordTx, IsFirst, Free
<1> DEFINE e == [dst_eui64 |-> n, pkt |-> p, local_seq |-> s, timeout |-> TimeoutS]
<1>2. e \in Entries /\ e # NoPkt
  BY CoordAssumption DEF Entries
<1>3. post' = [post EXCEPT ![p] = Posted(h, n)] /\ Posted(h, n) \in PostType
  BY DEF CoordTx, Posted, PostType, Fates
<1>4. TypeOK'
  BY <1>1, <1>2, <1>3 DEF TableInv, TypeOK, CoordTypeOK, NodeTypeOK, nodeVars, CoordTx
<1>5. \A g \in Hubs : \A j \in Slots :
        slottbl'[g][j] = IF g = h /\ j = i THEN e ELSE slottbl[g][j]
  BY <1>1 DEF TableInv, TypeOK, CoordTypeOK
<1> HIDE DEF e
<1>6. \A g \in Hubs : Used(g)' = IF g = h THEN Used(g) \cup {i} ELSE Used(g)
  BY <1>1, <1>2, <1>5 DEF Used
<1>7. e.dst_eui64 = n /\ e.pkt = p /\ e.local_seq = s
  BY DEF e
<1>8. \A g \in Hubs : \A j \in Used(g) : slottbl[g][j].pkt # p
  BY DEF TableInv, HeldEntry, CoordTx
<1>9. Used(h) \subseteq Slots
  BY DEF Used
<1>10. SlotsDistinct'
  <2> SUFFICES ASSUME NEW g \in Hubs, NEW j \in Used(g)', NEW k \in Used(g)', j # k
               PROVE  /\ slottbl'[g][j].dst_eui64 # slottbl'[g][k].dst_eui64
                      /\ slottbl'[g][j].local_seq # slottbl'[g][k].local_seq
    BY DEF SlotsDistinct
  <2>1. j \in Slots /\ k \in Slots
    BY DEF Used
  <2>2. CASE g = h /\ (j = i \/ k = i)
    BY <2>1, <2>2, <1>1, <1>5, <1>6, <1>7 DEF CoordTx, SameDst, SameSeq
  <2>3. CASE ~(g = h /\ (j = i \/ k = i))
    BY <2>1, <2>3, <1>5, <1>6 DEF TableInv, SlotsDistinct
  <2> QED
    BY <2>2, <2>3
<1>11. HeldEntry'
  <2> SUFFICES ASSUME NEW g \in Hubs, NEW j \in Used(g)'
               PROVE  LET b == slottbl'[g][j]
                      IN  /\ post'[b.pkt].st = "held" /\ post'[b.pkt].hub = g
                          /\ post'[b.pkt].dst = b.dst_eui64
    BY DEF HeldEntry
  <2>1. j \in Slots
    BY DEF Used
  <2>2. CASE g = h /\ j = i
    BY <2>2, <1>3, <1>5, <1>7, <2>1 DEF Posted, TableInv, TypeOK, CoordTypeOK
  <2>3. CASE ~(g = h /\ j = i)
    <3>1. j \in Used(g) /\ slottbl'[g][j] = slottbl[g][j]
      BY <2>1, <2>3, <1>5, <1>6
    <3>2. post'[slottbl[g][j].pkt] = post[slottbl[g][j].pkt]
      BY <3>1, <1>3, <1>8, UsedIsAccepted DEF TableInv, TypeOK, CoordTypeOK
    <3> QED
      BY <3>1, <3>2 DEF TableInv, HeldEntry
  <2> QED
    BY <2>2, <2>3
<1>12. HeldSomewhere'
  <2> SUFFICES ASSUME NEW q \in DownPkts, post'[q].st = "held"
               PROVE  \E g \in Hubs : \E j \in Used(g)' : slottbl'[g][j].pkt = q
    BY DEF HeldSomewhere
  <2>1. CASE q = p
    BY <2>1, <1>5, <1>6, <1>7
  <2>2. CASE q # p
    <3>1. post'[q] = post[q]
      BY <2>2, <1>3 DEF TableInv, TypeOK, CoordTypeOK
    <3>2. PICK g \in Hubs : \E j \in Used(g) : slottbl[g][j].pkt = q
      BY <3>1 DEF TableInv, HeldSomewhere
    <3>3. PICK j \in Used(g) : slottbl[g][j].pkt = q
      BY <3>2
    <3>4. j \in Used(g)' /\ slottbl'[g][j] = slottbl[g][j]
      BY <1>1, <1>5, <1>6 DEF Used
    <3> QED
      BY <3>3, <3>4
  <2> QED
    BY <2>1, <2>2
<1> QED
  BY <1>4, <1>10, <1>11, <1>12 DEF TableInv

\* The slots E of hub h are emptied and their packets meet the fate st; the
\* other slots keep their packets.
LEMMA ReleaseKeepsTable ==
  ASSUME TableInv, NEW h \in Hubs, NEW E \in SUBSET Used(h),
         NEW st \in Fates \ {"new", "held"},
         NEW tbl \in [Slots -> Entries \cup {NoPkt}],
         \A i \in Slots : i \in E \/ i \notin Used(h) => tbl[i] = NoPkt,
         \A i \in Used(h) \ E : /\ tbl[i].pkt = slottbl[h][i].pkt
                               /\ tbl[i].dst_eui64 = slottbl[h][i].dst_eui64
                               /\ tbl[i].local_seq = slottbl[h][i].local_seq
                               /\ tbl[i] \in Entries,
         slottbl' = [slottbl EXCEPT ![h] = tbl],
         post' = SetFate({slottbl[h][i].pkt : i \in E}, st),
         (air \subseteq Frames)',
         heard' \in [Hubs -> SUBSET (Nodes \X Pkts \X BOOLEAN)],
         UNCHANGED nodeVars
  PROVE  TableInv'
<1> DEFINE P == {slottbl[h][i].pkt : i \in E}
<1>1. \A g \in Hubs : slottbl'[g] = IF g = h THEN tbl ELSE slottbl[g]
  BY DEF TableInv, TypeOK, CoordTypeOK
<1>2. /\ \A g \in Hubs : Used(g)' = IF g = h THEN Used(h) \ E ELSE Used(g)
      /\ Used(h) \subseteq Slots
  BY <1>1, CoordAssumption DEF Used, Entries
<1>3. \A p \in P : p \in DownPkts /\ post[p].st # "new"
  BY UsedIsAccepted
<1>4. /\ post' \in [DownPkts -> PostType]
      /\ \A p \in DownPkts \ P : post'[p] = post[p]
      /\ \A p \in P : post'[p].st = st
  <2>1. post' = SetFate(P, st) /\ post \in [DownPkts -> PostType] /\ st \in Fates \ {"new"}
    BY DEF TableInv, TypeOK, CoordTypeOK
  <2> HIDE DEF P
  <2>2. \A p \in P : post[p].st # "new"
    BY <1>3
  <2>3. /\ SetFate(P, st) \in [DownPkts -> PostType]
        /\ \A p \in DownPkts \ P : SetFate(P, st)[p] = post[p]
        /\ \A p \in DownPkts \cap P : SetFate(P, st)[p].st = st
    BY <2>1, <2>2, FateIsTyped
  <2> QED
    BY <1>3, <2>1, <2>3
<1>5. TypeOK'
  BY <1>4 DEF TableInv, TypeOK, CoordTypeOK, NodeTypeOK, nodeVars
<1>6. SlotsDistinct'
  BY <1>1, <1>2 DEF TableInv, SlotsDistinct
<1>7. HeldEntry'
  <2> SUFFICES ASSUME NEW g \in Hubs, NEW j \in Used(g)'
               PROVE  LET b == slottbl'[g][j]
                      IN  /\ post'[b.pkt].st = "held" /\ post'[b.pkt].hub = g
                          /\ post'[b.pkt].dst = b.dst_eui64
    BY DEF HeldEntry
  <2>1. /\ j \in Used(g) /\ (g = h => j \notin E)
        /\ slottbl'[g][j].pkt = slottbl[g][j].pkt
        /\ slottbl'[g][j].dst_eui64 = slottbl[g][j].dst_eui64
    BY <1>1, <1>2
  <2>2. slottbl[g][j].pkt \notin P
    <3> SUFFICES ASSUME NEW i \in E, slottbl[h][i].pkt = slottbl[g][j].pkt PROVE FALSE
      OBVIOUS
    <3> QED
      BY <2>1, HeldOnce
  <2> QED
    BY <1>4, <2>1, <2>2, UsedIsAccepted DEF TableInv, HeldEntry
<1>8. HeldSomewhere'
  <2> SUFFICES ASSUME NEW q \in DownPkts, post'[q].st = "held"
               PROVE  \E g \in Hubs : \E j \in Used(g)' : slottbl'[g][j].pkt = q
    BY DEF HeldSomewhere
  <2>1. q \notin P /\ post[q].st = "held"
    BY <1>4
  <2>2. PICK g \in Hubs : \E j \in Used(g) : slottbl[g][j].pkt = q
    BY <2>1 DEF TableInv, HeldSomewhere
  <2>3. PICK j \in Used(g) : slottbl[g][j].pkt = q
    BY <2>2
  <2>4. g = h => j \notin E
    BY <2>1, <2>3
  <2> QED
    BY <1>1, <1>2, <2>3, <2>4
<1> QED
  BY <1>5, <1>6, <1>7, <1>8 DEF TableInv

\* What mac_rx_cb is told of a frame.
LEMMA UplinkIsTyped ==
  ASSUME NEW f \in Frames
  PROVE  Uplink(f) \in SUBSET (Nodes \X Pkts \X BOOLEAN)
<1>1. f.eui64 \in Nodes /\ f.pkt \in Pkts
  BY DEF Frames
<1> DEFINE late == f.type = "data"
<1>2. late \in BOOLEAN
  OBVIOUS
<1> HIDE DEF late
<1>3. <<f.eui64, f.pkt, late>> \in Nodes \X Pkts \X BOOLEAN
  BY <1>1, <1>2
<1> QED
  BY <1>3 DEF Uplink, late

LEMMA AnswerKeepsTable ==
  ASSUME TableInv, NEW h \in Hubs, NEW f \in air, CoordAnswers(h, f), UNCHANGED nodeVars
  PROVE  TableInv'
<1>1. PICK i \in Used(h) :
        /\ air' = Heard(h, f) \cup
             {Frame("pollack", f.eui64, f.seq, slottbl[h][i].pkt, f.age, h)}
        /\ post' = SetFate({slottbl[h][i].pkt}, "sent")
        /\ slottbl' = [slottbl EXCEPT ![h][i] = NoPkt]
  BY DEF CoordAnswers, HeldFor, IsFirst, AfterSend
<1> DEFINE tbl == [slottbl[h] EXCEPT ![i] = NoPkt]
<1>2. /\ tbl \in [Slots -> Entries \cup {NoPkt}]
      /\ \A j \in Slots : tbl[j] = IF j = i THEN NoPkt ELSE slottbl[h][j]
      /\ slottbl' = [slottbl EXCEPT ![h] = tbl]
  BY <1>1 DEF TableInv, TypeOK, CoordTypeOK, Used
<1>3. f \in Frames /\ air \subseteq Frames
  BY DEF TableInv, TypeOK
<1>4. (air \subseteq Frames)'
  <2>1. Heard(h, f) \subseteq Frames
    BY <1>3, HeardKeeps
  <2>2. /\ f.eui64 \in Nodes /\ f.seq \in 0..(SeqMod - 1) /\ f.age \in 0..(MaxLate - 1)
        /\ slottbl[h][i].pkt \in Pkts /\ "pollack" \in FrameTypes
    BY <1>3, UsedIsAccepted DEF Frames, Pkts, FrameTypes
  <2>3. Frame("pollack", f.eui64, f.seq, slottbl[h][i].pkt, f.age, h) \in Frames
    BY <2>2, FrameIsFrame
  <2> QED
    BY <1>1, <2>1, <2>3
<1>5. heard' \in [Hubs -> SUBSET (Nodes \X Pkts \X BOOLEAN)]
  BY <1>3, UplinkIsTyped DEF CoordAnswers, TableInv, TypeOK, CoordTypeOK
<1>6. \A j \in Used(h) : j \in Slots /\ slottbl[h][j] \in Entries
  BY UsedIsAccepted DEF Used
<1> DEFINE E == {i}
<1>7. E \in SUBSET Used(h) /\ {slottbl[h][j].pkt : j \in E} = {slottbl[h][i].pkt}
  BY <1>1
<1>8. \A j \in Slots : j \in E \/ j \notin Used(h) => tbl[j] = NoPkt
  BY <1>2 DEF Used
<1>9. "sent" \in Fates \ {"new", "held"}
  BY DEF Fates
<1>10. \A j \in Used(h) \ E : tbl[j] = slottbl[h][j]
  BY <1>2, <1>6
<1> HIDE DEF tbl
<1>11. \A j \in Used(h) \ E : /\ tbl[j].pkt = slottbl[h][j].pkt
                              /\ tbl[j].dst_eui64 = slottbl[h][j].dst_eui64
                              /\ tbl[j].local_seq = slottbl[h][j].local_seq
                              /\ tbl[j] \in Entries
  BY <1>6, <1>10
<1>12. post' = SetFate({slottbl[h][j].pkt : j \in E}, "sent")
  BY <1>1, <1>7
<1>13. /\ tbl \in [Slots -> Entries \cup {NoPkt}]
       /\ slottbl' = [slottbl EXCEPT ![h] = tbl]
  BY <1>2
<1> HIDE DEF E
<1> QED
  BY <1>4, <1>5, <1>7, <1>8, <1>9, <1>11, <1>12, <1>13, ReleaseKeepsTable

LEMMA SecondKeepsTable ==
  ASSUME TableInv, NEW h \in Hubs, Coord1Hz(h), UNCHANGED nodeVars
  PROVE  TableInv'
<1> DEFINE tbl == [i \in Slots |-> Second(h, i)]
           E == RunOut(h)
<1>1. \A i \in Used(h) : i \in Slots /\ slottbl[h][i] \in Entries
  BY UsedIsAccepted DEF Used
<1>2. E \in SUBSET Used(h)
  BY DEF RunOut
<1>3. \A i \in Slots : i \in E \/ i \notin Used(h) => tbl[i] = NoPkt
  BY DEF Second, Free
<1>4. ASSUME NEW i \in Used(h) \ E
      PROVE  /\ tbl[i].pkt = slottbl[h][i].pkt
             /\ tbl[i].dst_eui64 = slottbl[h][i].dst_eui64
             /\ tbl[i].local_seq = slottbl[h][i].local_seq
             /\ tbl[i] \in Entries
  <2>1. tbl[i] = [slottbl[h][i] EXCEPT !.timeout = @ - 1]
    BY <1>1, <1>2 DEF Second, Free
  <2>2. slottbl[h][i] \in Entries /\ slottbl[h][i].timeout # 0
    BY <1>1 DEF RunOut
  <2>3. slottbl[h][i].timeout - 1 \in 0..TimeoutS
    BY <2>2, CoordAssumption DEF Entries
  <2> QED
    BY <2>1, <2>2, <2>3 DEF Entries
<1>5. tbl \in [Slots -> Entries \cup {NoPkt}]
  BY <1>1, <1>2, <1>3, <1>4
<1>6. /\ slottbl' = [slottbl EXCEPT ![h] = tbl]
      /\ post' = SetFate({slottbl[h][i].pkt : i \in E}, "expired")
      /\ (air \subseteq Frames)'
      /\ heard' \in [Hubs -> SUBSET (Nodes \X Pkts \X BOOLEAN)]
  BY DEF Coord1Hz, TableInv, TypeOK, CoordTypeOK
<1>7. "expired" \in Fates \ {"new", "held"}
  BY DEF Fates
<1> HIDE DEF tbl, E
<1> QED
  BY <1>2, <1>3, <1>4, <1>5, <1>6, <1>7, ReleaseKeepsTable

LEMMA RestartKeepsTable ==
  ASSUME TableInv, NEW h \in Hubs, CoordRestart(h), UNCHANGED nodeVars
  PROVE  TableInv'
<1> DEFINE tbl == [i \in Slots |-> NoPkt]
           E == Used(h)
<1>1. /\ slottbl' = [slottbl EXCEPT ![h] = tbl]
      /\ post' = SetFate({slottbl[h][i].pkt : i \in E}, "forgotten")
      /\ (air \subseteq Frames)'
      /\ heard' \in [Hubs -> SUBSET (Nodes \X Pkts \X BOOLEAN)]
  BY DEF CoordRestart, TableInv, TypeOK, CoordTypeOK
<1>2. /\ E \in SUBSET Used(h) /\ Used(h) \ E = {}
      /\ tbl \in [Slots -> Entries \cup {NoPkt}]
      /\ \A i \in Slots : tbl[i] = NoPkt
  OBVIOUS
<1>3. "forgotten" \in Fates \ {"new", "held"}
  BY DEF Fates
<1> HIDE DEF tbl, E
<1> QED
  BY <1>1, <1>2, <1>3, ReleaseKeepsTable

\* A step that leaves the table and the packets' fates alone keeps the table's
\* invariant, provided it keeps the types.
LEMMA TableKept ==
  ASSUME TableInv, TypeOK', UNCHANGED <<slottbl, post>>
  PROVE  TableInv'
BY DEF TableInv, SlotsDistinct, HeldEntry, HeldSomewhere, Used

LEMMA CoordKeepsTable ==
  ASSUME TableInv, CoordNext
  PROVE  TableInv'
<1>1. air \subseteq Frames /\ UNCHANGED nodeVars
  BY DEF TableInv, TypeOK, CoordNext
<1>2. ASSUME NEW h \in Hubs, NEW f \in air, CoordDrops(h, f) PROVE TableInv'
  <2>1. Heard(h, f) \subseteq Frames
    BY <1>1, HeardKeeps
  <2>2. TypeOK'
    BY <1>1, <1>2, <2>1 DEF CoordDrops, coordVars, nodeVars, TableInv, TypeOK, CoordTypeOK,
                            NodeTypeOK
  <2> QED
    BY <1>2, <2>2, TableKept DEF CoordDrops, coordVars
<1>3. ASSUME NEW h \in Hubs, NEW f \in air, CoordListens(h, f) PROVE TableInv'
  <2>1. Heard(h, f) \subseteq Frames
    BY <1>1, HeardKeeps
  <2>2. heard' \in [Hubs -> SUBSET (Nodes \X Pkts \X BOOLEAN)]
    BY <1>1, <1>3, UplinkIsTyped DEF CoordListens, TableInv, TypeOK, CoordTypeOK
  <2>3. TypeOK'
    BY <1>1, <1>3, <2>1, <2>2 DEF CoordListens, nodeVars, TableInv, TypeOK, CoordTypeOK,
                                  NodeTypeOK
  <2> QED
    BY <1>3, <2>3, TableKept DEF CoordListens
<1> QED
  BY <1>1, <1>2, <1>3, TxKeepsTable, AnswerKeepsTable, SecondKeepsTable, RestartKeepsTable
     DEF CoordNext

-----------------------------------------------------------------------------
(***************************************************************************)
(* Types, the devices' steps.                                              *)
(***************************************************************************)

\* A call is made: it is the innermost of its device, the others stay.
LEMMA Pushed ==
  ASSUME NEW s \in Seq(Calls), NEW c \in Calls
  PROVE  /\ Append(s, c) \in Seq(Calls)
         /\ Append(s, c) # <<>>
         /\ Len(Append(s, c)) = Len(s) + 1
         /\ Append(s, c)[Len(s) + 1] = c
         /\ \A i \in 1..Len(s) : Append(s, c)[i] = s[i]
OBVIOUS

LEMMA CallIsCall ==
  ASSUME NEW k \in Callbacks \cup {"spin"}, NEW seq \in 0..(SeqMod - 1),
         NEW cbs \in Nat, NEW tmp \in Nat
  PROVE  Call(k, seq, cbs, tmp) \in Calls /\ Call(k, seq, cbs, tmp).k = k
BY DEF Call, Calls

\* The call a device's step puts on its stack.
LEMMA CallbackIsCall ==
  ASSUME NEW k \in Callbacks, NEW cbs \in Nat, NEW tmp \in Nat
  PROVE  Call(k, 0, cbs, tmp) \in Calls /\ Call(k, 0, cbs, tmp).k = k
<1>1. 0 \in 0..(SeqMod - 1)
  BY MediumAssumption
<1> QED
  BY <1>1, CallIsCall

LEMMA NodeKeepsTypes ==
  ASSUME TypeOK, NodeNext
  PROVE  TypeOK'
<1>1. /\ air \subseteq Frames /\ CoordTypeOK /\ UNCHANGED coordVars
      /\ waitAck \in [Nodes -> BOOLEAN] /\ pollPending \in [Nodes -> Nat]
      /\ poll_seq \in [Nodes -> 0..(SeqMod - 1)] /\ stack \in [Nodes -> Seq(Calls)]
      /\ inbox \in [Nodes -> Seq(Pkts)]
  BY DEF TypeOK, NodeTypeOK, NodeNext
<1>2. CoordTypeOK'
  BY <1>1 DEF CoordTypeOK, coordVars
<1>3. SUFFICES (air \subseteq Frames)' /\ NodeTypeOK'
  BY <1>2 DEF TypeOK
<1>4. 0 \in 0..(SeqMod - 1) /\ 0 \in 0..(MaxLate - 1)
  BY MediumAssumption
<1>5. \A n \in Nodes : \A A \in SUBSET Frames : Aged(n, A) \subseteq Frames
  BY AgedKeeps
<1>6. \A n \in Nodes : \A f \in air : Heard(n, f) \subseteq Frames
  BY <1>1, HeardKeeps
<1>7. \A n \in Nodes : Depth(n) \in Nat /\ stack[n] \in Seq(Calls)
  BY <1>1 DEF Depth
<1>8. \A n \in Nodes : stack[n] # <<>> => Popped(n) \in Seq(Calls)
  BY <1>1, PoppedKeeps
<1>9. ASSUME NEW n \in Nodes, NEW pkt \in UpPkts \cup {EmptyPkt}, NodePolls(n, pkt)
      PROVE  (air \subseteq Frames)' /\ NodeTypeOK'
  <2>1. Frame("poll", n, poll_seq[n], pkt, 0, n) \in Frames
    BY <1>1, <1>4, FrameIsFrame DEF FrameTypes, Pkts
  <2>2. Call("spin", poll_seq[n], 0, 0) \in Calls
    BY <1>1, CallIsCall
  <2> QED
    BY <1>1, <1>7, <1>9, <2>1, <2>2, Pushed DEF NodePolls, NodeTypeOK
<1>10. ASSUME NEW n \in Nodes, NEW pkt \in UpPkts, NodeSends(n, pkt)
       PROVE  (air \subseteq Frames)' /\ NodeTypeOK'
  <2>1. Frame("data", n, 0, pkt, 0, n) \in Frames
    BY <1>4, FrameIsFrame DEF FrameTypes, Pkts
  <2>2. Call("sent", 0, 1, 0) \in Calls
    BY CallbackIsCall DEF Callbacks
  <2> QED
    BY <1>1, <1>7, <1>10, <2>1, <2>2, Pushed DEF NodeSends, NodeTypeOK
<1>11. ASSUME NEW n \in Nodes, NodeTxReturns(n)
       PROVE  (air \subseteq Frames)' /\ NodeTypeOK'
  BY <1>1, <1>8, <1>11 DEF NodeTxReturns, NodeTypeOK, In
<1>12. ASSUME NEW n \in Nodes, NEW f \in air, NodeDrops(n, f)
       PROVE  (air \subseteq Frames)' /\ NodeTypeOK'
  BY <1>1, <1>6, <1>12 DEF NodeDrops, NodeTypeOK, nodeVars
<1>13. ASSUME NEW n \in Nodes, NEW f \in air, NodeBadSeq(n, f)
       PROVE  (air \subseteq Frames)' /\ NodeTypeOK'
  BY <1>1, <1>5, <1>6, <1>13, NextSeqInRange DEF NodeBadSeq, NodeTypeOK
<1>14. ASSUME NEW n \in Nodes, NEW f \in air, NodeTakes(n, f)
       PROVE  (air \subseteq Frames)' /\ NodeTypeOK'
  <2>1. f.pkt \in Pkts /\ Append(inbox[n], f.pkt) \in Seq(Pkts)
    BY <1>1 DEF Frames
  <2>2. Call("rxcb", 0, 0, 0) \in Calls
    BY CallbackIsCall DEF Callbacks
  <2>3. NextSeq(n) \in 0..(SeqMod - 1)
    BY <1>1, NextSeqInRange
  <2> QED
    BY <1>1, <1>5, <1>6, <1>7, <1>14, <2>1, <2>2, <2>3, Pushed DEF NodeTakes, NodeTypeOK
<1>15. ASSUME NEW n \in Nodes, NodeRxCbReturns(n)
       PROVE  (air \subseteq Frames)' /\ NodeTypeOK'
  <2>1. Call("txcb", 0, 0, 0) \in Calls
    BY CallbackIsCall DEF Callbacks
  <2>2. Popped(n) \in Seq(Calls) /\ CalledBack(Popped(n), pollPending[n]) \in Seq(Calls)
    BY <1>8, <1>15, CalledBackKeeps DEF NodeRxCbReturns, In
  <2>3. Append(CalledBack(Popped(n), pollPending[n]), Call("txcb", 0, 0, 0)) \in Seq(Calls)
    BY <2>1, <2>2, Pushed
  <2>4. CASE pollPending[n] # 0
    BY <1>1, <1>15, <2>3, <2>4 DEF NodeRxCbReturns, NodeTypeOK
  <2>5. CASE pollPending[n] = 0
    BY <1>1, <1>15, <2>2, <2>5 DEF NodeRxCbReturns, NodeTypeOK
  <2> QED
    BY <2>4, <2>5
<1>16. ASSUME NEW n \in Nodes, NodeTxCbReturns(n)
       PROVE  (air \subseteq Frames)' /\ NodeTypeOK'
  BY <1>1, <1>8, <1>16 DEF NodeTxCbReturns, NodeTypeOK, In
<1>17. ASSUME NEW n \in Nodes, NodeTimesOut(n)
       PROVE  (air \subseteq Frames)' /\ NodeTypeOK'
  <2>1. Call("torx", 0, 0, pollPending[n]) \in Calls
    BY <1>1, CallbackIsCall DEF Callbacks
  <2>2. NextSeq(n) \in 0..(SeqMod - 1)
    BY <1>1, NextSeqInRange
  <2> QED
    BY <1>1, <1>5, <1>7, <1>17, <2>1, <2>2, Pushed
       DEF NodeTimesOut, NodeTypeOK, SeqAfterTimeout, WaitAfterTimeout
<1>18. ASSUME NEW n \in Nodes, NodeToRxReturns(n)
       PROVE  (air \subseteq Frames)' /\ NodeTypeOK'
  <2>1. Call("totx", 0, 0, 0) \in Calls
    BY CallbackIsCall DEF Callbacks
  <2>2. Popped(n) \in Seq(Calls) /\ CalledBack(Popped(n), TimedOutPkt(n)) \in Seq(Calls)
    BY <1>8, <1>18, CalledBackKeeps DEF NodeToRxReturns, In
  <2> QED
    BY <1>1, <1>18, <2>1, <2>2, Pushed DEF NodeToRxReturns, NodeTypeOK
<1>19. ASSUME NEW n \in Nodes, NodeToTxReturns(n)
       PROVE  (air \subseteq Frames)' /\ NodeTypeOK'
  BY <1>1, <1>8, <1>19 DEF NodeToTxReturns, NodeTypeOK, In
<1>20. ASSUME NEW n \in Nodes, NodeRestart(n)
       PROVE  (air \subseteq Frames)' /\ NodeTypeOK'
  BY <1>1, <1>4, <1>20, EmptySeq DEF NodeRestart, NodeTypeOK
<1> QED
  BY <1>9, <1>10, <1>11, <1>12, <1>13, <1>14, <1>15, <1>16, <1>17, <1>18, <1>19, <1>20
     DEF NodeNext

LEMMA TableInductive == TableInv /\ [Next]_vars => TableInv'
<1> SUFFICES ASSUME TableInv, [Next]_vars PROVE TableInv'
  OBVIOUS
<1>1. CASE CoordNext
  BY <1>1, CoordKeepsTable
<1>2. CASE NodeNext
  BY <1>2, NodeKeepsTypes, TableKept DEF NodeNext, coordVars, TableInv
<1>3. CASE UNCHANGED vars
  <2>1. TypeOK'
    BY <1>3 DEF vars, coordVars, nodeVars, TableInv, TypeOK, CoordTypeOK, NodeTypeOK
  <2> QED
    BY <1>3, <2>1, TableKept DEF vars, coordVars
<1> QED
  BY <1>1, <1>2, <1>3 DEF Next

LEMMA TableAlways == Spec => []TableInv
BY TableInit, TableInductive, PTL DEF Spec

\* The variables of both halves of the MAC keep their types; poll_seq and the
\* seconds of a slot keep their width.
THEOREM TypeCorrect == Spec => []TypeOK
<1>1. TableInv => TypeOK
  BY DEF TableInv
<1> QED
  BY <1>1, TableAlways, PTL

\* A hub's pending slots differ in device and local_seq: mac_tx's two checks
\* (mac_coord.c:200-209) are enough, whatever polls, seconds and restarts do.
THEOREM SlotsAreDistinct == Spec => []SlotsDistinct
<1>1. TableInv => SlotsDistinct
  BY DEF TableInv
<1> QED
  BY <1>1, TableAlways, PTL

\* Every accepted packet is in exactly one slot until it is reported, and in
\* none afterwards.
THEOREM HeldUntilReported == Spec => []HeldIffPending
<1>1. TableInv => HeldIffPending
  <2> SUFFICES ASSUME TableInv, NEW p \in DownPkts, NEW h \in Hubs
               PROVE  LET in == {i \in Used(h) : slottbl[h][i].pkt = p}
                      IN  IF post[p].st = "held" /\ post[p].hub = h
                          THEN \E i \in in : in = {i} /\ slottbl[h][i].dst_eui64 = post[p].dst
                          ELSE in = {}
    BY DEF HeldIffPending
  <2> DEFINE in == {i \in Used(h) : slottbl[h][i].pkt = p}
  <2>1. CASE post[p].st = "held" /\ post[p].hub = h
    <3>1. PICK g \in Hubs : \E i \in Used(g) : slottbl[g][i].pkt = p
      BY <2>1 DEF TableInv, HeldSomewhere
    <3>2. PICK i \in Used(g) : slottbl[g][i].pkt = p
      BY <3>1
    <3>3. g = h /\ slottbl[h][i].dst_eui64 = post[p].dst
      BY <2>1, <3>2 DEF TableInv, HeldEntry
    <3>4. in = {i}
      BY <3>2, <3>3, HeldOnce
    <3> QED
      BY <2>1, <3>3, <3>4
  <2>2. CASE ~(post[p].st = "held" /\ post[p].hub = h)
    <3>1. in = {}
      BY <2>2 DEF TableInv, HeldEntry
    <3> QED
      BY <2>2, <3>1
  <2> QED
    BY <2>1, <2>2
<1> QED
  BY <1>1, TableAlways, PTL
=============================================================================
