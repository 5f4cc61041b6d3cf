---------------------------- MODULE RadioProofs ----------------------------
(***************************************************************************)
(* Proofs about RadioCC1110, for any packets and frames.  Quiet is the     *)
(* part of the driver's discipline that holds for every MAC, a byte asked  *)
(* past the end and a sync word in mid-frame included: who may touch the   *)
(* buffer when.  Sending adds what a MAC that always polls guarantees: a   *)
(* device's radio is off again after every exchange, so radio_tx never     *)
(* finds it busy.  Without the poll neither holds: after a byte asked past *)
(* the end mac_tx returns while the radio still sends.                     *)
(***************************************************************************)
EXTENDS RadioCC1110, TLAPS

\* The radio receives, and is stopped, only by the driver's own strobes.
StateInv ==
  /\ rfst = marc
  /\ marc = "rx" => radioState = "rx" /\ index = air
  /\ marc = "tx" => radioState # "rx"
  /\ pkt_complete => marc = "idle"

\* The buffer holds a whole frame from its last byte until radio_tx is called.
BufferInv ==
  /\ marc = "rx" /\ index = 2 => radiobuf \in RxFrames
  /\ pkt_complete /\ radioState = "rx" /\ pc # "start" => radiobuf \in RxFrames

\* Where the background may be in which state of the driver.
PlaceInv ==
  /\ pc = "received" => /\ radioState = "rx" /\ pkt_complete
                        /\ role = "node" => waitAck
  /\ pc = "start" => IF role = "hub" THEN radioState = "rx" /\ pkt_complete
                                    ELSE radioState # "rx"
  /\ pc = "spin" => radioState = "tx"

\* A device that waits for nothing has not put its radio into receive.
NodeInv ==
  role = "node" /\ ~waitAck => /\ radioState # "rx" \/ pc = "leave"
                               /\ marc # "rx"

Quiet == TypeOK /\ StateInv /\ BufferInv /\ PlaceInv /\ NodeInv

LEMMA QuietInit == Init => Quiet
<1> SUFFICES ASSUME Init PROVE Quiet
  OBVIOUS
<1>1. radioState \in {"idle", "rx"} /\ marc = radioState /\ rfst = radioState
  BY DEF Init
<1>2. TypeOK
  <2>1. radioState \in Modes /\ marc \in Modes /\ rfst \in Modes
    BY <1>1 DEF Modes
  <2>2. pkt_complete \in BOOLEAN /\ radioErrFlag \in BOOLEAN
    BY DEF Init
  <2>3. waitAck \in BOOLEAN /\ poll \in BOOLEAN
    BY DEF Init
  <2>4. radiobuf \in Buffers /\ index \in 0..2 /\ air \in 0..2 /\ role \in Roles /\ pc \in Places
    BY DEF Init, Buffers, Places
  <2>5. want \in TxPkts \cup {Garbled} /\ aired \in Buffers
    BY DEF Init, Buffers
  <2> QED BY <2>1, <2>2, <2>3, <2>4, <2>5 DEF TypeOK
<1>3. role = "node" => marc = "idle" /\ radioState = "idle"
  BY DEF Init
<1>4. StateInv /\ BufferInv /\ PlaceInv /\ NodeInv
  BY <1>1, <1>3 DEF Init, StateInv, BufferInv, PlaceInv, NodeInv
<1> QED BY <1>2, <1>4 DEF Quiet

\* What rf_isr does to the two flags: complete only a whole frame, and nothing
\* for a sync word alone.
LEMMA IsrFlags ==
  ASSUME TypeOK, NEW irq \in Irqs, rf_isr(irq)
  PROVE  /\ pkt_complete' \in BOOLEAN /\ radioErrFlag' \in BOOLEAN
         /\ pkt_complete' => pkt_complete \/ index = 2
         /\ pkt_complete' => pkt_complete \/ irq # {"sfd"}
         /\ Ends(irq) => radioErrFlag' \/ index = 2
         /\ radioErrFlag => radioErrFlag'
<1>1. irq # {"sfd"} => "done" \in irq \/ "error" \in irq
  BY DEF Irqs
<1>2. CASE "done" \in irq /\ Whole
  <2>1. pkt_complete' = TRUE /\ index = 2 /\ irq # {"sfd"}
    BY <1>2 DEF rf_isr, Whole
  <2>2. radioErrFlag' = TRUE \/ radioErrFlag' = radioErrFlag
    BY DEF rf_isr
  <2> QED BY <2>1, <2>2 DEF TypeOK
<1>3. CASE ~("done" \in irq /\ Whole)
  <2>1. pkt_complete' = pkt_complete
    BY <1>3 DEF rf_isr
  <2>2. CASE "error" \in irq \/ "done" \in irq
    <3>1. radioErrFlag' = TRUE
      BY <1>3, <2>2 DEF rf_isr
    <3> QED BY <2>1, <3>1 DEF TypeOK
  <2>3. CASE ~("error" \in irq \/ "done" \in irq)
    <3>1. radioErrFlag' = radioErrFlag
      BY <2>3 DEF rf_isr
    <3> QED BY <1>1, <2>1, <2>3, <3>1 DEF TypeOK, Ends
  <2> QED BY <2>2, <2>3
<1> QED BY <1>2, <1>3

LEMMA InterruptsQuiet == Quiet /\ Interrupts => Quiet'
<1> SUFFICES ASSUME Quiet, Interrupts PROVE Quiet'
  OBVIOUS
<1> USE DEF Quiet, TypeOK, StateInv, BufferInv, PlaceInv, NodeInv, Modes, Buffers, Places,
            flags, user, hw
<1>1. CASE TxByte BY <1>1 DEF TxByte, NotFull
<1>2. CASE TxPastEnd BY <1>2 DEF TxPastEnd
<1>3. CASE RxByte
  <2>1. CASE index = 1 /\ air = 1 BY <1>3, <2>1 DEF RxByte, NotFull
  <2>2. CASE ~(index = 1 /\ air = 1) BY <1>3, <2>2 DEF RxByte, NotFull
  <2> QED BY <2>1, <2>2
<1>4. CASE RxTooLong BY <1>4 DEF RxTooLong
<1>5. ASSUME NEW irq \in Irqs, rf_isr(irq) PROVE Quiet'
  <2>1. /\ index' = 0 /\ marc # "idle"
        /\ UNCHANGED <<radioState, radiobuf, waitAck, poll, role, want, pc, aired>>
    BY <1>5 DEF rf_isr, ResetsIndex
  <2>2. pkt_complete' \in BOOLEAN /\ radioErrFlag' \in BOOLEAN
    BY <1>5, IsrFlags
  <2>3. CASE Ends(irq)
    <3>1. rfst' = "idle" /\ marc' = "idle" /\ air' = 0
      BY <1>5, <2>3 DEF rf_isr, Strobe
    <3>2. pkt_complete' /\ radioState = "rx" => radiobuf \in RxFrames
      BY <1>5, <2>1, IsrFlags
    <3>3. pc \in {"received"} \/ (pc = "start" /\ role = "hub") => FALSE
      BY <2>1
    <3> QED BY <2>1, <2>2, <3>1, <3>2, <3>3
  <2>4. CASE ~Ends(irq)
    <3>1. rfst' = marc /\ marc' = marc /\ air' = (IF marc = "rx" THEN 0 ELSE air)
      BY <1>5, <2>4 DEF rf_isr
    <3>2. ~pkt_complete'
      BY <1>5, <2>1, <2>4, IsrFlags DEF Ends
    <3> QED BY <2>1, <2>2, <3>1, <3>2
  <2> QED BY <2>3, <2>4
<1> QED BY <1>1, <1>2, <1>3, <1>4, <1>5 DEF Interrupts

LEMMA BackgroundQuiet == Quiet /\ Background => Quiet'
<1> SUFFICES ASSUME Quiet, Background PROVE Quiet'
  OBVIOUS
<1> USE DEF Quiet, TypeOK, StateInv, BufferInv, PlaceInv, NodeInv, Modes, Buffers, Places,
            flags, user, hw, ClearFlags, Strobe, radio_tx, Goto
<1>1. CASE TickFrame
  <2>1. CASE Goto("received") BY <1>1, <2>1 DEF TickFrame
  <2>2. CASE Goto("leave") BY <1>1, <2>2 DEF TickFrame
  <2> QED BY <1>1, <2>1, <2>2 DEF TickFrame
<1>2. CASE TickSent BY <1>2 DEF TickSent
<1>3. CASE TickError
  <2>1. Goto("leaveErr") BY <1>3 DEF TickError
  <2>2. pc \in {"tick", "err"} BY <1>3 DEF TickError, TestsError
  <2> QED BY <2>1, <2>2
<1>4. CASE TickNothing
  <2>1. Goto("mactick") BY <1>4 DEF TickNothing
  <2>2. pc \in {"tick", "err"} BY <1>4 DEF TickNothing, TestsError
  <2> QED BY <2>1, <2>2
<1>5. CASE Leave
  <2>1. /\ pc \in {"leave", "leaveErr"} /\ pc' \in {"err", "mactick"}
        /\ ~pkt_complete' /\ ~radioErrFlag'
        /\ UNCHANGED <<radiobuf, user, aired>>
    BY <1>5 DEF Leave, ToIdle, radio_rx
  <2>2. pkt_complete' \in BOOLEAN /\ radioErrFlag' \in BOOLEAN
    BY <1>5 DEF Leave, ToIdle, radio_rx
  <2>3. CASE role = "hub" \/ waitAck
    <3>1. /\ radioState' = "rx" /\ marc' = "rx" /\ rfst' = "rx"
          /\ index' = 0 /\ air' = 0
      BY <1>5, <2>3 DEF Leave, ToIdle, radio_rx
    <3> QED BY <2>1, <2>2, <2>3, <3>1
  <2>4. CASE role # "hub" /\ ~waitAck
    <3>1. radioState' = "idle" /\ UNCHANGED <<marc, rfst, air, index>>
      BY <1>5, <2>4 DEF Leave, ToIdle
    <3>2. role = "node" /\ marc # "rx"
      BY <2>1, <2>4, RadioAssumption
    <3> QED BY <2>1, <2>2, <2>4, <3>1, <3>2
  <2> QED BY <2>3, <2>4
<1>6. CASE \E p \in TxPkts : HubAnswers(p) BY <1>6, RadioAssumption DEF HubAnswers
<1>7. CASE HubListens BY <1>7 DEF HubListens
<1>8. CASE NodeReceives BY <1>8 DEF NodeReceives
<1>9. CASE MacTimeout
  <2>1. /\ ~pkt_complete' /\ pkt_complete' \in BOOLEAN /\ radioErrFlag' \in BOOLEAN
        /\ ~waitAck' /\ waitAck' \in BOOLEAN /\ pc' = "app"
    BY <1>9 DEF MacTimeout, radio_idle
  <2>2. /\ radioState' = "idle" /\ marc' = "idle" /\ rfst' = "idle" /\ air' = 0
        /\ UNCHANGED <<index, radiobuf, poll, role, want, aired>>
    BY <1>9 DEF MacTimeout, radio_idle
  <2> QED BY <2>1, <2>2
<1>10. CASE MacTick BY <1>10 DEF MacTick
<1>11. CASE Loop BY <1>11 DEF Loop
<1>12. CASE \E p \in TxPkts, alsoPoll \in Polls : MacTx(p, alsoPoll)
  BY <1>12, RadioAssumption DEF MacTx
<1>13. CASE StartTx
  <2>1. CASE CanTx
    <3>1. /\ radioState' = "tx" /\ marc' = "tx" /\ rfst' = "tx"
          /\ index' = 0 /\ air' = 0
      BY <1>13, <2>1 DEF StartTx, TxStart
    <3>2. pkt_complete' \in BOOLEAN /\ radioErrFlag' \in BOOLEAN
      BY <1>13, <2>1 DEF StartTx, TxStart
    <3>3. pc' = "spin" /\ UNCHANGED <<radiobuf, user, aired>>
      BY <1>13 DEF StartTx
    <3>4. TypeOK'
      BY <3>1, <3>2, <3>3
    <3>5. ~pkt_complete' /\ ~radioErrFlag'
      BY <1>13, <2>1 DEF StartTx, TxStart
    <3>6. StateInv' /\ BufferInv' /\ PlaceInv' /\ NodeInv'
      BY <3>1, <3>3, <3>5
    <3> QED BY <3>4, <3>6
  <2>2. CASE ~CanTx
    <3>1. radioState = "tx" /\ role # "hub"
      BY <1>13, <2>2 DEF StartTx, CanTx
    <3> QED BY <1>13, <2>2, <3>1 DEF StartTx, TxStart
  <2> QED BY <2>1, <2>2
<1>14. CASE Spin BY <1>14 DEF Spin
<1>15. CASE SpinEnds
  <2>1. CASE role = "hub" BY <1>15, <2>1 DEF SpinEnds, radio_txComplete
  <2>2. CASE role # "hub" /\ poll BY <1>15, <2>2 DEF SpinEnds, radio_txComplete
  <2>3. CASE role # "hub" /\ ~poll BY <1>15, <2>3 DEF SpinEnds, radio_txComplete
  <2> QED BY <2>1, <2>2, <2>3
<1> QED BY <1>1, <1>2, <1>3, <1>4, <1>5, <1>6, <1>7, <1>8, <1>9, <1>10, <1>11, <1>12,
           <1>13, <1>14, <1>15 DEF Background

\* The discipline of the buffer holds for any MAC, whenever an interrupt comes:
\* through errors, bytes past the end and sync words in the middle of a frame.
THEOREM DriverIsQuiet == Spec => []Quiet
<1>1. Init => Quiet BY QuietInit
<1>2. Quiet /\ [Next]_vars => Quiet'
  <2> SUFFICES ASSUME Quiet, [Next]_vars PROVE Quiet'
    OBVIOUS
  <2>1. CASE Interrupts BY <2>1, InterruptsQuiet
  <2>2. CASE Background BY <2>2, BackgroundQuiet
  <2>3. CASE UNCHANGED vars
    BY <2>3 DEF vars, flags, user, hw, Quiet, TypeOK, StateInv, BufferInv, PlaceInv, NodeInv
  <2> QED BY <2>1, <2>2, <2>3 DEF Next
<1> QED BY <1>1, <1>2, PTL DEF Spec

\* The driver's variables keep their types (the widths of the flags and states).
THEOREM RadioTypeCorrect == Spec => []TypeOK
BY DriverIsQuiet, PTL DEF Quiet

\* radio_received gets a whole frame that no interrupt overwrites while it runs.
THEOREM FramesAreWhole == Spec => []ReceivedWhole
<1>1. Quiet => ReceivedWhole
  BY DEF Quiet, StateInv, BufferInv, PlaceInv, ReceivedWhole
<1> QED BY <1>1, DriverIsQuiet, PTL

-----------------------------------------------------------------------------
(* A MAC that always polls: radio_tick always runs between two radio_tx.    *)

AlwaysPolls == FALSE \notin Polls

\* The driver can send when it is asked to ...
ReadyInv ==
  /\ role = "node" /\ pc \in {"start", "spin"} => poll /\ ~waitAck
  /\ role = "node" /\ ~waitAck => radioState = "idle" \/ pc \in {"spin", "leave"}

\* ... its radio is off, or sending with the MAC waiting for that ...
OffInv == role = "node" /\ ~waitAck => marc = "idle" \/ pc = "spin"

\* ... and it sends what it was given: what the radio has had of it is right
\* unless a sync word in mid-frame has put index behind the radio's count.
SendInv ==
  /\ pc \in {"start", "spin"} => radiobuf = want
  /\ pc = "spin" /\ marc = "tx" =>
       /\ index <= air
       /\ index = air /\ air > 0 => aired = want
  /\ pc = "spin" /\ marc = "idle" => radioErrFlag \/ aired = want

Sending == Quiet /\ ReadyInv /\ OffInv /\ SendInv

LEMMA SendingInit == Init => Sending
BY QuietInit DEF Init, Sending, ReadyInv, OffInv, SendInv

LEMMA InterruptsSending == Sending /\ Interrupts => Sending'
<1> SUFFICES ASSUME Sending, Interrupts PROVE ReadyInv' /\ OffInv' /\ SendInv'
  BY InterruptsQuiet DEF Sending
<1> USE DEF Sending, Quiet, TypeOK, StateInv, PlaceInv, ReadyInv, OffInv, SendInv, Modes,
            flags, user, hw
<1>1. CASE TxByte BY <1>1 DEF TxByte, NotFull
<1>2. CASE TxPastEnd BY <1>2 DEF TxPastEnd
<1>3. CASE RxByte BY <1>3 DEF RxByte, NotFull
<1>4. CASE RxTooLong BY <1>4 DEF RxTooLong
<1>5. ASSUME NEW irq \in Irqs, rf_isr(irq) PROVE ReadyInv' /\ OffInv' /\ SendInv'
  <2>1. /\ index' = 0 /\ marc # "idle"
        /\ UNCHANGED <<radioState, radiobuf, waitAck, poll, role, want, pc, aired>>
    BY <1>5 DEF rf_isr, ResetsIndex
  <2>2. CASE Ends(irq)
    <3>1. rfst' = "idle" /\ marc' = "idle"
      BY <1>5, <2>2 DEF rf_isr, Strobe
    <3>2. radioErrFlag' \/ index = 2
      BY <1>5, <2>2, IsrFlags
    <3>3. pc = "spin" => marc = "tx"
      BY <2>1
    <3> QED BY <2>1, <3>1, <3>2, <3>3
  <2>3. CASE ~Ends(irq)
    <3>1. rfst' = marc /\ marc' = marc /\ air' = (IF marc = "rx" THEN 0 ELSE air)
      BY <1>5, <2>3 DEF rf_isr
    <3> QED BY <2>1, <3>1
  <2> QED BY <2>2, <2>3
<1> QED BY <1>1, <1>2, <1>3, <1>4, <1>5 DEF Interrupts

LEMMA BackgroundSending == AlwaysPolls /\ Sending /\ Background => Sending'
<1> SUFFICES ASSUME AlwaysPolls, Sending, Background PROVE ReadyInv' /\ OffInv' /\ SendInv'
  BY BackgroundQuiet DEF Sending
<1> USE DEF Sending, Quiet, TypeOK, StateInv, PlaceInv, NodeInv, ReadyInv, OffInv, SendInv,
            Modes, flags, user, hw, ClearFlags, Strobe, radio_tx, Goto
<1>1. CASE TickFrame
  <2>1. CASE Goto("received") BY <1>1, <2>1 DEF TickFrame
  <2>2. CASE Goto("leave") BY <1>1, <2>2 DEF TickFrame
  <2> QED BY <1>1, <2>1, <2>2 DEF TickFrame
<1>2. CASE TickSent BY <1>2 DEF TickSent
<1>3. CASE TickError
  <2>1. Goto("leaveErr") BY <1>3 DEF TickError
  <2>2. pc \in {"tick", "err"} BY <1>3 DEF TickError, TestsError
  <2> QED BY <2>1, <2>2
<1>4. CASE TickNothing
  <2>1. Goto("mactick") BY <1>4 DEF TickNothing
  <2>2. pc \in {"tick", "err"} BY <1>4 DEF TickNothing, TestsError
  <2> QED BY <2>1, <2>2
<1>5. CASE Leave
  <2>1. CASE role = "hub" \/ waitAck BY <1>5, <2>1 DEF Leave, ToIdle, radio_rx
  <2>2. CASE ~(role = "hub" \/ waitAck) BY <1>5, <2>2 DEF Leave, ToIdle
  <2> QED BY <2>1, <2>2
<1>6. CASE \E p \in TxPkts : HubAnswers(p) BY <1>6 DEF HubAnswers
<1>7. CASE HubListens BY <1>7 DEF HubListens
<1>8. CASE NodeReceives BY <1>8 DEF NodeReceives
<1>9. CASE MacTimeout BY <1>9 DEF MacTimeout, radio_idle
<1>10. CASE MacTick BY <1>10 DEF MacTick
<1>11. CASE Loop BY <1>11 DEF Loop
<1>12. CASE \E p \in TxPkts, alsoPoll \in Polls : MacTx(p, alsoPoll)
  BY <1>12, RadioAssumption DEF MacTx, AlwaysPolls
<1>13. CASE StartTx
  <2>1. CanTx
    <3>1. role = "hub" => radioState = "rx" /\ rfst = "idle"
      BY <1>13 DEF StartTx
    <3>2. role # "hub" => radioState = "idle"
      BY <1>13, RadioAssumption DEF StartTx
    <3> QED BY <3>1, <3>2 DEF CanTx
  <2> QED BY <1>13, <2>1 DEF StartTx, TxStart
<1>14. CASE Spin BY <1>14 DEF Spin
<1>15. CASE SpinEnds
  <2>1. CASE role = "hub" BY <1>15, <2>1 DEF SpinEnds, radio_txComplete
  <2>2. CASE role # "hub" /\ poll BY <1>15, <2>2 DEF SpinEnds, radio_txComplete
  <2>3. CASE role # "hub" /\ ~poll BY <1>15, <2>3 DEF SpinEnds, radio_txComplete
  <2> QED BY <2>1, <2>2, <2>3
<1> QED BY <1>1, <1>2, <1>3, <1>4, <1>5, <1>6, <1>7, <1>8, <1>9, <1>10, <1>11, <1>12,
           <1>13, <1>14, <1>15 DEF Background

\* Under a MAC that always polls, and only then, the driver finds the radio
\* ready and leaves it off, whatever the radio asks for or reports.
THEOREM DriverIsReady ==
  ASSUME AlwaysPolls
  PROVE  Spec => []Sending
<1>1. Init => Sending BY SendingInit
<1>2. Sending /\ [Next]_vars => Sending'
  <2> SUFFICES ASSUME Sending, [Next]_vars PROVE Sending'
    OBVIOUS
  <2>1. CASE Interrupts BY <2>1, InterruptsSending
  <2>2. CASE Background BY <2>2, BackgroundSending
  <2>3. CASE UNCHANGED vars
    BY <2>3 DEF vars, flags, user, hw, Sending, Quiet, TypeOK, StateInv, BufferInv, PlaceInv,
                NodeInv, ReadyInv, OffInv, SendInv
  <2> QED BY <2>1, <2>2, <2>3 DEF Next
<1> QED BY <1>1, <1>2, PTL DEF Spec

\* What radio_tx was given goes out whole before radio_txComplete says so,
\* under a MAC that always polls, as every application of this repository does.
THEOREM FramesGoOutWhole ==
  ASSUME AlwaysPolls
  PROVE  Spec => []TransmittedWhole
<1>1. Sending => TransmittedWhole
  BY DEF Sending, Quiet, TypeOK, StateInv, PlaceInv, SendInv, Modes, TransmittedWhole,
         radio_txComplete
<1> QED BY <1>1, DriverIsReady, PTL

\* A device that waits for nothing has its radio off when its application runs,
\* under a MAC that always polls; one that does not may leave the radio sending.
THEOREM RadioIsOff ==
  ASSUME AlwaysPolls
  PROVE  Spec => []RadioOff
<1>1. Sending => RadioOff
  BY DEF Sending, OffInv, RadioOff
<1> QED BY <1>1, DriverIsReady, PTL

=============================================================================
