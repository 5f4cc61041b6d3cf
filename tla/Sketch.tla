-------------------------------- MODULE Sketch --------------------------------
(***************************************************************************)
(* A click on its way to the server: the switch sketch in sketchwrapper.c   *)
(* and pb.c, the hub's ring and slot, the server's answer on its way back.  *)
(* The sketch tells the server that its target is set, polls for the        *)
(* answer, and clears its target when it gets the number of its last put.   *)
(*                                                                          *)
(* The MAC, the ring and the connection are in MacLink, CmdRing and HubTcp; *)
(* here is what they may do to one device: lose a frame either way, drop    *)
(* the oldest request, carry out a request twice, lose a reply, refuse one. *)
(***************************************************************************)
EXTENDS Naturals, Sequences

CONSTANTS
  SeqMod,      \* 2^8: the width of seq
  POLLS,       \* polls between two puts
  TIMEOUT_S,   \* mac_coord.c's
  Room,        \* requests the hub's ring holds
  MaxClicks,   \* bound on clicks
  MaxFaults    \* bound on the faults of radio, hub, server and power together

ASSUME SketchAssumption ==
  /\ SeqMod \in Nat \ {0} /\ POLLS \in Nat /\ TIMEOUT_S \in Nat /\ Room \in Nat \ {0}
  /\ MaxClicks \in Nat /\ MaxFaults \in Nat

VARIABLES
  dev,      \* the device's memory
  air,      \* the frame between device and hub
  hub,      \* the hub's ring, the replies it is to read, its slot for the device
  clicks,   \* clicks so far
  faults,   \* faults so far
  life,     \* restarts of the device so far
  stored    \* history: the puts the server has carried out

sketch == <<dev, air, hub, clicks, faults, life, stored>>

(***************************************************************************)
(*   pc       "loop" before the sketch's first test of its target, "wait"   *)
(*            in mac_tx, "back" returning from it, "test" before the second *)
(*            test, "drowsy" between that test and the processor's stop     *)
(*   putting  it is pachubePut that waits in mac_tx                         *)
(*   naptime  what sleep_powersave was given                                *)
(*   target   targetValue is "1";  putcb: pb_putcomplete_cb is set          *)
(***************************************************************************)
Seqs == 0..SeqMod - 1
Puts == [life : 0..MaxFaults, seq : Seqs]
Acks == [life : 0..MaxFaults, seq : Seqs, ok : BOOLEAN]
Nothing == [kind |-> "nothing"]

\* Memory after a reset; setup() has attached the pin.
Booted == [pc |-> "loop", putting |-> FALSE, naptime |-> "nap", target |-> FALSE,
           storedseq |-> 0, polls |-> 0, seq |-> 0, putcb |-> FALSE]
Empty == [ring |-> <<>>, replies |-> <<>>, slot |-> Nothing, timeout |-> 0, ticked |-> FALSE]

SketchTypeOK ==
  /\ dev \in [pc : {"loop", "wait", "back", "test", "drowsy", "asleep"}, putting : BOOLEAN,
              naptime : {"nap", "long"}, target : BOOLEAN, storedseq : Seqs,
              polls : 0..POLLS, seq : Seqs, putcb : BOOLEAN]
  /\ air \in {Nothing} \cup [kind : {"poll"}] \cup [kind : {"put"}, put : Puts]
             \cup [kind : {"ack"}, ack : Acks]
  /\ hub \in [ring : Seq(Puts), replies : Seq(Acks), slot : {Nothing} \cup Acks,
              timeout : 0..TIMEOUT_S, ticked : BOOLEAN]
  /\ Len(hub.ring) <= Room
  /\ clicks \in 0..MaxClicks /\ faults \in 0..MaxFaults /\ life \in 0..faults
  /\ stored \subseteq Puts

SketchInit ==
  /\ dev = Booted /\ air = Nothing /\ hub = Empty
  /\ clicks = 0 /\ faults = 0 /\ life = 0 /\ stored = {}

Fault == faults < MaxFaults /\ faults' = faults + 1

-----------------------------------------------------------------------------
(* The device.                                                              *)

\* port0_isr and click(): the pin wakes the processor, if it sleeps.
Click ==
  /\ clicks < MaxClicks
  /\ clicks' = clicks + 1
  /\ dev' = [dev EXCEPT !.target = TRUE, !.pc = IF @ = "asleep" THEN "loop" ELSE @]
  /\ UNCHANGED <<air, hub, faults, life, stored>>

\* pachubePut and pb_put: a new number, which the caller learns on return.
PachubePut(d) == [d EXCEPT !.pc = "wait", !.putting = TRUE, !.seq = (@ + 1) % SeqMod,
                           !.putcb = TRUE]

\* loop() up to its mac_tx; the hub has forgotten what it stored by the number.
PutsNow ==
  /\ dev.pc = "loop" /\ dev.target /\ dev.polls = 0
  /\ dev' = PachubePut(dev)
  /\ air' = [kind |-> "put", put |-> [life |-> life, seq |-> dev.seq]]
  /\ stored' = stored \ {[life |-> life, seq |-> dev.seq]}
  /\ UNCHANGED <<hub, clicks, faults, life>>

PollsForEver ==                       \* mutant: polls is not counted down
  /\ dev.pc = "loop" /\ dev.target /\ dev.polls > 0
  /\ dev' = [dev EXCEPT !.pc = "wait", !.putting = FALSE]
  /\ air' = [kind |-> "poll"]
  /\ UNCHANGED <<hub, clicks, faults, life, stored>>

PollsNow ==
  /\ dev.pc = "loop" /\ dev.target /\ dev.polls > 0
  /\ dev' = [dev EXCEPT !.pc = "wait", !.putting = FALSE, !.polls = @ - 1]
  /\ air' = [kind |-> "poll"]
  /\ UNCHANGED <<hub, clicks, faults, life, stored>>

HasNoTarget ==
  /\ dev.pc = "loop" /\ ~dev.target
  /\ dev' = [dev EXCEPT !.pc = "test"]
  /\ UNCHANGED <<air, hub, clicks, faults, life, stored>>

\* putcomplete(), called with pb_last_seq set.
PutComplete(d, seq) ==
  IF seq = d.storedseq THEN [d EXCEPT !.target = FALSE, !.polls = 0] ELSE d

\* mac_rx_cb, pb_put_cb.
PutCbAnyStatus(d, ack) ==                                    \* mutant
  IF d.putcb THEN PutComplete(d, ack.seq) ELSE d
PutCb(d, ack) == IF d.putcb /\ ack.ok THEN PutComplete(d, ack.seq) ELSE d

Receives ==
  /\ air.kind = "ack"
  /\ dev' = [PutCb(dev, air.ack) EXCEPT !.pc = "back"]
  /\ air' = Nothing
  /\ UNCHANGED <<hub, clicks, faults, life, stored>>

\* mac_tick's timeout: mac_rx_cb(NULL).
TimesOut ==
  /\ dev.pc = "wait" /\ air = Nothing
  /\ dev' = [dev EXCEPT !.pc = "back"]
  /\ UNCHANGED <<air, hub, clicks, faults, life, stored>>

\* mac_tx returns; pachubePut returns its number.
PutReturned(d) == [d EXCEPT !.storedseq = (d.seq + SeqMod - 1) % SeqMod, !.polls = POLLS]
Returns ==
  /\ dev.pc = "back"
  /\ dev' = [IF dev.putting THEN PutReturned(dev) ELSE dev EXCEPT !.pc = "test",
                                                                 !.putting = FALSE]
  /\ UNCHANGED <<air, hub, clicks, faults, life, stored>>

\* The second test: sleep_powersave(4) or (80).
Naptime(d) == IF d.target THEN "nap" ELSE "long"
Dozes ==
  /\ dev.pc = "test"
  /\ dev' = [dev EXCEPT !.pc = "drowsy", !.naptime = Naptime(dev)]
  /\ UNCHANGED <<air, hub, clicks, faults, life, stored>>

\* SLEEP = 0x06: a click since the test does not keep the processor awake.
FallsAsleep ==
  /\ dev.pc = "drowsy"
  /\ dev' = [dev EXCEPT !.pc = "asleep"]
  /\ UNCHANGED <<air, hub, clicks, faults, life, stored>>

\* sleep_isr, then os_bg and loop() again.  A second is time enough for the
\* server's answer to what the hub holds, unless the network is slow.
Wakes ==
  /\ dev.pc = "asleep"
  /\ IF dev.naptime = "long" \/ (hub.ring = <<>> /\ hub.replies = <<>>)
     THEN UNCHANGED faults ELSE Fault
  /\ dev' = [dev EXCEPT !.pc = "loop"]
  /\ hub' = [hub EXCEPT !.ticked = FALSE]
  /\ UNCHANGED <<air, clicks, life, stored>>

\* The watchdog, or the power.
Restarts ==
  /\ Fault
  /\ dev' = Booted /\ air' = Nothing /\ life' = life + 1
  /\ UNCHANGED <<hub, clicks, stored>>

-----------------------------------------------------------------------------
(* The hub.                                                                 *)

\* mac_rx_cb: a full ring loses its oldest.
EnqueuedAlways(ring, put) == Append(ring, put)               \* mutant
Enqueued(ring, put) == Append(IF Len(ring) = Room THEN Tail(ring) ELSE ring, put)

\* radio_received: the packet held for the poller goes out and is no longer
\* held; then the payload goes into the ring.
SlotFreed(h) == [h EXCEPT !.slot = Nothing, !.timeout = 0]
RadioReceived ==
  /\ air.kind \in {"put", "poll"}
  /\ LET h == SlotFreed(hub)
     IN hub' = IF air.kind = "put" THEN [h EXCEPT !.ring = Enqueued(@, air.put)] ELSE h
  /\ \/ /\ air' = IF hub.slot = Nothing THEN Nothing ELSE [kind |-> "ack", ack |-> hub.slot]
        /\ UNCHANGED faults
     \/ hub.slot # Nothing /\ air' = Nothing /\ Fault
  /\ UNCHANGED <<dev, clicks, life, stored>>

FrameLost ==
  /\ air.kind \in {"put", "poll"} /\ Fault
  /\ air' = Nothing
  /\ UNCHANGED <<dev, hub, clicks, life, stored>>

\* handle_pkt sends the oldest request to the server, which carries it out;
\* it comes again when its connection broke before the server's ACK.
Request ==
  /\ hub.ring # <<>>
  /\ \E ok \in BOOLEAN, again \in BOOLEAN :
       LET put == Head(hub.ring)
           ack == [life |-> put.life, seq |-> put.seq, ok |-> ok]
       IN /\ hub' = [hub EXCEPT !.ring = IF again THEN @ ELSE Tail(@),
                                !.replies = Append(@, ack)]
          /\ stored' = IF ok THEN stored \cup {put} ELSE stored
          /\ IF ok /\ ~again THEN UNCHANGED faults ELSE Fault
  /\ UNCHANGED <<dev, air, clicks, life>>

\* line_rx: mac_tx gives one slot to a device, and none when it has one.
LineRx ==
  /\ hub.replies # <<>>
  /\ hub' = [hub EXCEPT !.replies = Tail(@),
                        !.slot = IF @ = Nothing THEN Head(hub.replies) ELSE @,
                        !.timeout = IF hub.slot = Nothing THEN TIMEOUT_S ELSE @]
  /\ UNCHANGED <<dev, air, clicks, faults, life, stored>>

\* mac_1hz, at most once between two polls of a device that naps a second.
Mac1Hz ==
  /\ hub.slot # Nothing
  /\ ~hub.ticked \/ (dev.pc = "asleep" /\ dev.naptime = "long")
  /\ hub' = [IF hub.timeout = 0 THEN SlotFreed(hub) ELSE [hub EXCEPT !.timeout = @ - 1]
             EXCEPT !.ticked = TRUE]
  /\ UNCHANGED <<dev, air, clicks, faults, life, stored>>

\* Other devices fill the ring or take the last slot; the connection breaks
\* with a reply on it.
RequestDropped ==
  /\ hub.ring # <<>> /\ Fault
  /\ hub' = [hub EXCEPT !.ring = Tail(@)]
  /\ UNCHANGED <<dev, air, clicks, life, stored>>

ReplyDropped ==
  /\ hub.replies # <<>> /\ Fault
  /\ hub' = [hub EXCEPT !.replies = Tail(@)]
  /\ UNCHANGED <<dev, air, clicks, life, stored>>

HubRestarts ==
  /\ hub # Empty /\ Fault
  /\ hub' = [Empty EXCEPT !.ticked = hub.ticked]
  /\ UNCHANGED <<dev, air, clicks, life, stored>>

-----------------------------------------------------------------------------
DeviceRuns == PutsNow \/ PollsNow \/ HasNoTarget \/ Receives \/ TimesOut \/ Returns
              \/ Dozes \/ FallsAsleep \/ Wakes
HubRuns == RadioReceived \/ Request \/ LineRx
SketchNext == DeviceRuns \/ Click \/ Restarts \/ HubRuns \/ Mac1Hz \/ FrameLost
              \/ RequestDropped \/ ReplyDropped \/ HubRestarts

-----------------------------------------------------------------------------
(* The sketch's light goes off, its target cleared by a completion, only    *)
(* when the server has carried out the put of that number; a device that    *)
(* has restarted may take an answer to its former life's.                   *)
CarriedOut(seq) == \E l \in 0..life : [life |-> l, seq |-> seq] \in stored
LedOffStored ==
  [][Receives /\ dev.target /\ ~dev'.target => CarriedOut(dev.storedseq)]_sketch
===============================================================================
