---------------------------- MODULE RadioCC1110 ----------------------------
(***************************************************************************)
(* The driver of the CC1110's radio, os/radio_cc1110.c, under one station's *)
(* MAC.  The background (radio_tick and the MAC above it) shares the frame  *)
(* buffer and two flags with the radio's interrupts, and neither ever       *)
(* disables the other: the code relies on who may run when.                 *)
(*                                                                          *)
(* The radio counts the bytes of a frame itself, and may ask for one too     *)
(* many.  It signals a sync word whenever it likes: in transmit with some of *)
(* the bytes already sent, in receive in the middle of a frame it gives up.  *)
(* What is left out is a sync word whose interrupt is served only after the  *)
(* first byte received behind it, a byte taking 32 us at 250 kbaud.          *)
(*                                                                          *)
(* The MAC is reduced to what it does to the driver: a coordinator's        *)
(* radio_received may radio_tx and spin, a device's mac_tx does, and then   *)
(* waits for an answer or a timeout; radio_idle_cb goes back to receive.    *)
(***************************************************************************)
EXTENDS Naturals

CONSTANTS
  Roles,     \* what the station may be: subset of {"hub", "node"}
  Polls,     \* the values of mac_tx's alsoPoll a device uses
  TxPkts,    \* packets given to radio_tx
  RxFrames,  \* whole frames that arrive
  Garbled    \* a buffer holding part of a frame, or parts of two

ASSUME RadioAssumption ==
  /\ Roles \subseteq {"hub", "node"} /\ Polls \subseteq BOOLEAN
  /\ TxPkts \cap RxFrames = {} /\ Garbled \notin TxPkts \cup RxFrames

VARIABLES
  radioState, pkt_complete, radioErrFlag,   \* the driver's static variables
  radiobuf,
  index,     \* radiobuf_index: 0, 1 within the frame, 2 at radiobuf[0]+1
  air,       \* the bytes of a frame the radio has had, 0, 1 some, 2 all
  marc,      \* MARCSTATE, what the radio itself is doing
  rfst,      \* RFST, the last strobe, the interrupt handler's included
  waitAck,   \* the device's MAC waits for an answer (mac_node.c)
  pc,        \* where the background is
  poll,      \* alsoPoll of the mac_tx in progress
  role,      \* hub or node, once and for all
  want,      \* history: the packet last given to radio_tx
  aired      \* history: what the radio has sent of it

flags == <<pkt_complete, radioErrFlag>>
user == <<waitAck, poll, role, want>>
hw == <<air, marc, rfst>>
vars == <<radioState, flags, radiobuf, index, hw, user, pc, aired>>

(***************************************************************************)
(*   tick, err   in radio_tick: at its switch; at its second test           *)
(*   received    inside radio_received                                      *)
(*   leave       before changeRadioState(IDLE) for a complete packet        *)
(*   leaveErr    before changeRadioState(IDLE) for an error                 *)
(*   mactick     before mac_tick                                            *)
(*   app         in the application, or back in mac_tx's wait loop          *)
(*   start, spin in radio_tx after its memcpy; in while(!radio_txComplete())*)
(***************************************************************************)
Places == {"tick", "err", "received", "leave", "leaveErr", "mactick", "app",
           "start", "spin"}
Buffers == TxPkts \cup RxFrames \cup {Garbled}
Modes == {"idle", "rx", "tx"}

TypeOK ==
  /\ radioState \in Modes /\ marc \in Modes /\ rfst \in Modes
  /\ pkt_complete \in BOOLEAN /\ radioErrFlag \in BOOLEAN
  /\ radiobuf \in Buffers /\ index \in 0..2 /\ air \in 0..2
  /\ waitAck \in BOOLEAN /\ poll \in BOOLEAN /\ role \in Roles
  /\ pc \in Places
  /\ want \in TxPkts \cup {Garbled} /\ aired \in Buffers

\* After os_init: mac_init has put a coordinator, and no device, into receive.
Init ==
  /\ role \in Roles
  /\ radioState = (IF role = "hub" THEN "rx" ELSE "idle")
  /\ marc = radioState /\ rfst = radioState
  /\ pkt_complete = FALSE /\ radioErrFlag = FALSE
  /\ radiobuf = Garbled /\ index = 0 /\ air = 0
  /\ waitAck = FALSE /\ poll = FALSE /\ pc = "tick"
  /\ want = Garbled /\ aired = Garbled

-----------------------------------------------------------------------------
(* The radio and its two interrupts.                                        *)

NotPastEnd == index <= 2              \* mutant
NotFull == index < 2

\* rftxrx_isr: a byte to send; aired is a packet only if the radio had that
\* packet from its first byte to its last.
TxByte ==
  /\ marc = "tx" /\ NotFull /\ air < 2
  /\ index' = index + 1 /\ air' = air + 1
  /\ aired' = IF index = air /\ (air = 0 \/ aired = radiobuf) THEN radiobuf ELSE Garbled
  /\ UNCHANGED <<radioState, flags, radiobuf, marc, rfst, user, pc>>

\* rftxrx_isr: the radio asks for a byte, and the frame has no more.
TxPastEnd ==
  /\ marc = "tx" /\ index = 2
  /\ radioErrFlag' = TRUE
  /\ UNCHANGED <<radioState, pkt_complete, radiobuf, index, hw, user, pc, aired>>

\* rftxrx_isr: a received byte; the buffer holds a frame only if each of its
\* bytes is where the radio had it.  The radio's status bytes follow a frame.
RxByte ==
  /\ marc = "rx" /\ NotFull
  /\ index' = index + 1 /\ air' = IF air = 2 THEN 2 ELSE air + 1
  /\ IF index = 1 /\ air = 1 THEN radiobuf' \in RxFrames ELSE radiobuf' = Garbled
  /\ UNCHANGED <<radioState, flags, marc, rfst, user, pc, aired>>

\* rftxrx_isr: the buffer is full and the frame has not ended.
RxTooLong ==
  /\ marc = "rx" /\ index = 1
  /\ radioErrFlag' = TRUE
  /\ UNCHANGED <<radioState, pkt_complete, radiobuf, index, hw, user, pc, aired>>

WholeUnchecked == TRUE                \* mutant
Whole == index = 2

\* The flags of RFIF: "done", "error" for TXUNF, RXOVF and TIMEOUT, "sfd".
Irqs == (SUBSET {"done", "error", "sfd"}) \ {{}}
Ends(irq) == irq # {"sfd"}
SfdIgnored(irq) == Ends(irq)          \* mutant
ResetsIndex(irq) == irq \in Irqs

Strobe(mode) == rfst' = mode /\ marc' = mode /\ air' = 0

\* rf_isr, for the flags found set.  A sync word received begins a frame, one
\* sent does not interrupt the radio's own count.
rf_isr(irq) ==
  /\ marc # "idle"
  /\ pkt_complete' = IF "done" \in irq /\ Whole THEN TRUE ELSE pkt_complete
  /\ radioErrFlag' = IF "error" \in irq \/ ("done" \in irq /\ ~Whole)
                     THEN TRUE ELSE radioErrFlag
  /\ index' = IF ResetsIndex(irq) THEN 0 ELSE index
  /\ IF Ends(irq) THEN Strobe("idle")
     ELSE air' = (IF marc = "rx" THEN 0 ELSE air) /\ UNCHANGED <<marc, rfst>>
  /\ UNCHANGED <<radioState, radiobuf, user, pc, aired>>

-----------------------------------------------------------------------------
(* The driver's operations, as parts of the background's steps.  Each first *)
(* stops the radio, so no interrupt comes between that and its last strobe. *)

ClearFlags == pkt_complete' = FALSE /\ radioErrFlag' = FALSE

radio_rx == radioState' = "rx" /\ ClearFlags /\ index' = 0 /\ Strobe("rx")

\* changeRadioState(RADIOSTATE_IDLE) and radio_idle_cb, a device's waiting or not.
ToIdle(waiting) ==
  IF role = "hub" \/ waiting THEN radio_rx
  ELSE radioState' = "idle" /\ ClearFlags /\ UNCHANGED <<index, hw>>

CanTxIdle == radioState = "idle"      \* mutant: not from radio_received
CanTx == radioState = "idle" \/ (radioState = "rx" /\ rfst # "rx")
TxStart ==
  IF CanTx
  THEN radioState' = "tx" /\ ClearFlags /\ index' = 0 /\ Strobe("tx")
  ELSE UNCHANGED <<radioState, flags, index, hw>>

TxCompleteNoError == radioState = "tx" => pkt_complete  \* mutant
radio_txComplete == radioState = "tx" => pkt_complete \/ radioErrFlag

\* radio_tx(p) up to the end of its memcpy.
radio_tx(p) == radiobuf' = p /\ want' = p /\ aired' = Garbled /\ pc' = "start"

-----------------------------------------------------------------------------
(* The background.                                                          *)

Goto(place) ==
  /\ pc' = place
  /\ UNCHANGED <<radioState, flags, radiobuf, index, hw, user, aired>>

\* radio_tick; LQI says whether the frame's CRC is good.
TickFrame ==
  /\ pc = "tick" /\ radioState = "rx" /\ pkt_complete
  /\ Goto("received") \/ Goto("leave")
TickSent == pc = "tick" /\ radioState = "tx" /\ pkt_complete /\ Goto("leave")
TestsError == (pc = "tick" /\ radioState # "idle" /\ ~pkt_complete) \/ pc = "err"
ErrIgnored == FALSE                   \* mutant
ErrSeen == radioErrFlag
TickError ==
  /\ TestsError /\ ErrSeen /\ Goto("leaveErr")
TickNothing ==
  /\ (TestsError /\ ~ErrSeen) \/ (pc = "tick" /\ radioState = "idle")
  /\ Goto("mactick")

Leave ==
  /\ pc \in {"leave", "leaveErr"}
  /\ ToIdle(waitAck)
  /\ pc' = IF pc = "leave" THEN "err" ELSE "mactick"
  /\ UNCHANGED <<radiobuf, user, aired>>

\* radio_received of a coordinator: with or without an answer to send.
HubAnswers(p) ==
  /\ pc = "received" /\ role = "hub"
  /\ radio_tx(p)
  /\ UNCHANGED <<radioState, flags, index, hw, waitAck, poll, role>>
HubListens == pc = "received" /\ role = "hub" /\ Goto("leave")

\* radio_received of a device: the frame answers its poll, or does not.
NodeReceives ==
  /\ pc = "received" /\ role = "node"
  /\ waitAck' \in {waitAck, FALSE}
  /\ pc' = "leave"
  /\ UNCHANGED <<radioState, flags, radiobuf, index, hw, poll, role, want, aired>>

\* mac_tick: a device gives up waiting, which ends in radio_idle; or nothing.
radio_idle_dropped == UNCHANGED <<radioState, flags, index, hw>>  \* mutant
radio_idle == radioState' = "idle" /\ ClearFlags /\ Strobe("idle") /\ UNCHANGED index
MacTimeout ==
  /\ pc = "mactick" /\ waitAck
  /\ waitAck' = FALSE /\ radio_idle
  /\ pc' = "app"
  /\ UNCHANGED <<radiobuf, poll, role, want, aired>>
MacTick == pc = "mactick" /\ Goto("app")

\* os_bg, or mac_tx's loop, comes round to radio_tick again.
Loop == pc = "app" /\ Goto("tick")

\* mac_tx, from the application.
MacTx(p, alsoPoll) ==
  /\ pc = "app" /\ role = "node" /\ ~waitAck
  /\ radio_tx(p)
  /\ poll' = alsoPoll
  /\ UNCHANGED <<radioState, flags, index, hw, waitAck, role>>

\* radio_txStart, called by radio_tx.
StartTx ==
  /\ pc = "start"
  /\ TxStart
  /\ pc' = "spin"
  /\ UNCHANGED <<radiobuf, user, aired>>

Spin == pc = "spin" /\ ~radio_txComplete /\ Goto("spin")

\* The spin on radio_txComplete is over: mac_tx waits for an answer or
\* returns, radio_received returns to radio_tick.
SpinEnds ==
  /\ pc = "spin" /\ radio_txComplete
  /\ waitAck' = (role = "node" /\ poll)
  /\ pc' = IF role = "hub" THEN "leave" ELSE IF poll THEN "tick" ELSE "app"
  /\ UNCHANGED <<radioState, flags, radiobuf, index, hw, poll, role, want, aired>>

Interrupts ==
  \/ TxByte \/ TxPastEnd \/ RxByte \/ RxTooLong
  \/ \E irq \in Irqs : rf_isr(irq)
Background ==
  \/ TickFrame \/ TickSent \/ TickError \/ TickNothing \/ Leave
  \/ \E p \in TxPkts : HubAnswers(p)
  \/ HubListens \/ NodeReceives
  \/ MacTimeout \/ MacTick \/ Loop
  \/ \E p \in TxPkts, alsoPoll \in Polls : MacTx(p, alsoPoll)
  \/ StartTx \/ Spin \/ SpinEnds

Next == Interrupts \/ Background

Spec == Init /\ [][Next]_vars

\* The processor runs for ever, and a transmission ends or fails.
FairSpec == Spec /\ WF_vars(Background)
                 /\ WF_vars(marc = "tx" /\ \E irq \in Irqs : Ends(irq) /\ rf_isr(irq))

-----------------------------------------------------------------------------
\* What radio_tx was given is what went out, whole, before radio_txComplete
\* says so, unless the radio reported an error ("Previous packet flushed",
\* radio.h): no interrupt and no second radio_tx touches the buffer meanwhile.
TransmittedWhole == pc = "spin" /\ radio_txComplete => aired = want \/ radioErrFlag

\* radio_received gets a whole frame, and while it runs the interrupts do not
\* write the buffer it reads.
ReceivedWhole == pc = "received" => radiobuf \in RxFrames /\ marc # "rx"

\* A device that waits for no answer has its radio off ("stays asleep with an
\* idle radio", mac.h:33) whenever its application runs.
RadioOff == role = "node" /\ pc = "app" /\ ~waitAck => marc = "idle"

\* A coordinator always gets back to listening, whatever the radio does.
HubKeepsListening == []<>(role = "hub" => marc = "rx")

\* No radio_tx hangs the station in the spin on radio_txComplete.
SpinIsFinite == pc = "spin" ~> pc # "spin"

=============================================================================
