------------------------------ MODULE MacNode -------------------------------
(***************************************************************************)
(* The device half of the MAC, os/mac_node.c.  mac_tx does not return      *)
(* before its poll is answered or has timed out: it spins, calling         *)
(* radio_tick and mac_tick, whose callbacks into the application may call  *)
(* mac_tx again ("in case user calls tx", mac_node.c:95).  So the state    *)
(* includes the device's call stack.                                       *)
(***************************************************************************)
EXTENDS RadioMedium, Sequences

CONSTANTS
  AlsoPoll,     \* the values of mac_tx's alsoPoll the application uses
  ReenterFrom,  \* the callback contexts in which it calls mac_tx again
  MaxCalls      \* bound: nested calls of mac_tx

VARIABLES
  waitAck, pollPending, poll_seq,   \* the module's static variables
  stack,        \* the calls in progress, innermost last
  inbox         \* history: the packets mac_rx_cb was given

nodeVars == <<waitAck, pollPending, poll_seq, stack, inbox>>

(***************************************************************************)
(* A call in progress.                                                     *)
(*   spin: mac_tx in its wait loop, having polled with number seq          *)
(*   sent: mac_tx of a packet without poll, inside mac_tx_cb               *)
(*   rxcb: radio_received inside mac_rx_cb                                 *)
(*   txcb: radio_received inside mac_tx_cb                                 *)
(*   torx: mac_tick, on timeout, inside mac_rx_cb(NULL); tmp is its local  *)
(*   totx: mac_tick, on timeout, inside mac_tx_cb(tmp)                     *)
(* cbs counts the mac_tx_cb calls made for a mac_tx.  A payload pointer is *)
(* the stack index of the mac_tx that owns the payload, 0 for NULL.        *)
(***************************************************************************)
Callbacks == {"sent", "rxcb", "txcb", "torx", "totx"}
Calls == [k: Callbacks \cup {"spin"}, seq: 0..(SeqMod - 1), cbs: Nat, tmp: Nat]
Call(k, seq, cbs, tmp) == [k |-> k, seq |-> seq, cbs |-> cbs, tmp |-> tmp]

ASSUME NodeAssumption ==
  /\ AlsoPoll \subseteq BOOLEAN /\ ReenterFrom \subseteq Callbacks
  /\ MaxCalls \in Nat

NodeTypeOK ==
  /\ waitAck \in [Nodes -> BOOLEAN]
  /\ pollPending \in [Nodes -> Nat]
  /\ poll_seq \in [Nodes -> 0..(SeqMod - 1)]
  /\ stack \in [Nodes -> Seq(Calls)]
  /\ inbox \in [Nodes -> Seq(Pkts)]

NodeInit ==
  /\ waitAck = [n \in Nodes |-> FALSE]
  /\ pollPending = [n \in Nodes |-> 0]
  /\ poll_seq = [n \in Nodes |-> 0]
  /\ stack = [n \in Nodes |-> <<>>]
  /\ inbox = [n \in Nodes |-> <<>>]

Depth(n) == Len(stack[n])
Top(n) == stack[n][Depth(n)]
In(n, k) == stack[n] # <<>> /\ Top(n).k = k
Popped(n) == SubSeq(stack[n], 1, Depth(n) - 1)

\* poll_seq++ on a uint8_t.
NextSeqNoWrap(n) == poll_seq[n] + 1   \* mutant
NextSeq(n) == IF poll_seq[n] = SeqMod - 1 THEN 0 ELSE poll_seq[n] + 1

\* mac_tx_cb(ptr): counted in the call that owns ptr's payload.
CalledBack(s, ptr) ==
  IF ptr \in 1..Len(s) THEN [s EXCEPT ![ptr].cbs = @ + 1] ELSE s

-----------------------------------------------------------------------------
(* mac_tx, called by the application: from its own loop or from a callback. *)

MayCall(n) ==
  /\ n \in Present
  /\ stack[n] = <<>> \/ \E k \in ReenterFrom : In(n, k)
  /\ Len(SelectSeq(stack[n], LAMBDA c : c.k \in {"spin", "sent"})) < MaxCalls

NodePolls(n, pkt) ==
  /\ TRUE \in AlsoPoll /\ MayCall(n)
  /\ air' = air \cup {Frame("poll", n, poll_seq[n], pkt, 0, n)}
  /\ stack' = [stack EXCEPT ![n] = Append(@, Call("spin", poll_seq[n], 0, 0))]
  /\ pollPending' = [pollPending EXCEPT ![n] = Depth(n) + 1]
  /\ waitAck' = [waitAck EXCEPT ![n] = TRUE]
  /\ UNCHANGED <<poll_seq, inbox>>

\* Without a poll_seq byte; pkt is not empty.
NodeSends(n, pkt) ==
  /\ FALSE \in AlsoPoll /\ MayCall(n)
  /\ air' = air \cup {Frame("data", n, 0, pkt, 0, n)}
  /\ stack' = [stack EXCEPT ![n] = Append(@, Call("sent", 0, 1, 0))]
  /\ pollPending' = [pollPending EXCEPT ![n] = 0]
  /\ waitAck' = [waitAck EXCEPT ![n] = FALSE]
  /\ UNCHANGED <<poll_seq, inbox>>

\* mac_tx returns: its loop ended, or mac_tx_cb returned to it.
NodeTxReturns(n) ==
  /\ (In(n, "spin") /\ ~waitAck[n]) \/ In(n, "sent")
  /\ stack' = [stack EXCEPT ![n] = Popped(n)]
  /\ UNCHANGED <<air, waitAck, pollPending, poll_seq, inbox>>

-----------------------------------------------------------------------------
(* radio_received, called by radio_tick from the background loop or from    *)
(* mac_tx's.                                                                *)

InRadioTick(n) == stack[n] = <<>> \/ In(n, "spin")

IsMine(n, f) == f.eui64 = n
AnySeq(n, f) == TRUE                  \* mutant
IsExpected(n, f) == f.seq = poll_seq[n]

NodeDrops(n, f) ==
  /\ InRadioTick(n) /\ Hears(n, f) /\ ~IsMine(n, f)
  /\ air' = Heard(n, f)
  /\ UNCHANGED nodeVars

NodeBadSeq(n, f) ==
  /\ InRadioTick(n) /\ Hears(n, f) /\ IsMine(n, f) /\ ~IsExpected(n, f)
  /\ air' = Aged(n, Heard(n, f))
  /\ poll_seq' = [poll_seq EXCEPT ![n] = NextSeq(n)]
  /\ UNCHANGED <<waitAck, pollPending, stack, inbox>>

NodeTakes(n, f) ==
  /\ InRadioTick(n) /\ Hears(n, f) /\ IsMine(n, f) /\ IsExpected(n, f)
  /\ air' = Aged(n, Heard(n, f))
  /\ poll_seq' = [poll_seq EXCEPT ![n] = NextSeq(n)]
  /\ inbox' = [inbox EXCEPT ![n] = Append(@, f.pkt)]
  /\ stack' = [stack EXCEPT ![n] = Append(@, Call("rxcb", 0, 0, 0))]
  /\ UNCHANGED <<waitAck, pollPending>>

\* mac_rx_cb has returned: the pending call, if any is left, is reported.
NodeRxCbReturns(n) ==
  /\ In(n, "rxcb")
  /\ IF pollPending[n] # 0
     THEN /\ stack' = [stack EXCEPT ![n] =
                Append(CalledBack(Popped(n), pollPending[n]), Call("txcb", 0, 0, 0))]
          /\ UNCHANGED waitAck
     ELSE /\ stack' = [stack EXCEPT ![n] = Popped(n)]
          /\ waitAck' = [waitAck EXCEPT ![n] = FALSE]
  /\ UNCHANGED <<air, pollPending, poll_seq, inbox>>

NodeTxCbKeepsWait(n) ==               \* mutant: waitAck is not cleared
  /\ In(n, "txcb")
  /\ stack' = [stack EXCEPT ![n] = Popped(n)]
  /\ pollPending' = [pollPending EXCEPT ![n] = 0]
  /\ UNCHANGED <<air, waitAck, poll_seq, inbox>>

NodeTxCbReturns(n) ==
  /\ In(n, "txcb")
  /\ stack' = [stack EXCEPT ![n] = Popped(n)]
  /\ pollPending' = [pollPending EXCEPT ![n] = 0]
  /\ waitAck' = [waitAck EXCEPT ![n] = FALSE]
  /\ UNCHANGED <<air, poll_seq, inbox>>

-----------------------------------------------------------------------------
(* mac_tick: RX_TIMEOUT_MS have passed since the poll went out.  Only a     *)
(* call that spins can have a poll pending, and only it calls mac_tick      *)
(* then.  The time itself is abstracted: the timeout may come at once.      *)

SeqKeptOnTimeout(n) == poll_seq[n]    \* mutant
SeqAfterTimeout(n) == NextSeq(n)
WaitKeptOnTimeout(n) == waitAck[n]    \* mutant
WaitAfterTimeout(n) == FALSE

NodeTimesOut(n) ==
  /\ In(n, "spin") /\ pollPending[n] # 0
  /\ stack' = [stack EXCEPT ![n] = Append(@, Call("torx", 0, 0, pollPending[n]))]
  /\ pollPending' = [pollPending EXCEPT ![n] = 0]
  /\ waitAck' = [waitAck EXCEPT ![n] = WaitAfterTimeout(n)]
  /\ poll_seq' = [poll_seq EXCEPT ![n] = SeqAfterTimeout(n)]
  /\ air' = Aged(n, air)
  /\ UNCHANGED inbox

PendingAfterRx(n) == pollPending[n]   \* mutant: no copy in tmp
TimedOutPkt(n) == Top(n).tmp

\* mac_rx_cb(NULL) has returned; mac_tx_cb(tmp) is called ...
NodeToRxReturns(n) ==
  /\ In(n, "torx")
  /\ stack' = [stack EXCEPT ![n] =
       Append(CalledBack(Popped(n), TimedOutPkt(n)), Call("totx", 0, 0, 0))]
  /\ UNCHANGED <<air, waitAck, pollPending, poll_seq, inbox>>

\* ... and has returned.
NodeToTxReturns(n) ==
  /\ In(n, "totx")
  /\ stack' = [stack EXCEPT ![n] = Popped(n)]
  /\ UNCHANGED <<air, waitAck, pollPending, poll_seq, inbox>>

-----------------------------------------------------------------------------
(* A restart, through the bootloader's wait for its programmer, outlasts    *)
(* every frame to or from the device.                                       *)

NodeRestart(n) ==
  /\ waitAck' = [waitAck EXCEPT ![n] = FALSE]
  /\ pollPending' = [pollPending EXCEPT ![n] = 0]
  /\ poll_seq' = [poll_seq EXCEPT ![n] = 0]
  /\ stack' = [stack EXCEPT ![n] = <<>>]
  /\ air' = {f \in air : f.eui64 # n}
  /\ UNCHANGED inbox

=============================================================================
