-------------------------------- MODULE Clock ---------------------------------
(***************************************************************************)
(* A device's clock (timer_cc1110.c), what sleep adds to it                 *)
(* (sleep_cc1110.c), and its two readers: timer_delayMS and os_bg's second. *)
(*                                                                          *)
(* 256 ticks of T2 are a quarter of a second, 250 ms, and one ovf_count.    *)
(* offset grows by whole quarters only: high is ovf_count + offset / 256.   *)
(***************************************************************************)
EXTENDS Integers

CONSTANTS
  TicksQS,     \* 256: ticks in a quarter of a second
  MsQS,        \* 250: milliseconds in a quarter of a second
  Quarters,    \* 2^8: the width of ovf_count
  SecondMS,    \* 1000: os_bg's second
  DelayTicks,  \* what a delay waits
  Naps,        \* what a sketch gives sleep_powersave, quarters of a second
  MaxBusy      \* ticks after watchdog_kick that reset the processor

Width == TicksQS * Quarters   \* 2^16: of ticks and of timer_toMS's result

ASSUME ClockAssumption ==
  /\ TicksQS \in Nat \ {0} /\ MsQS \in 1..TicksQS /\ Quarters \in Nat \ {0, 1}
  /\ SecondMS \in Nat /\ DelayTicks \in 1..TicksQS /\ Naps \subseteq Nat /\ MaxBusy \in Nat

VARIABLES
  low, high,   \* 0xFF - T2CT; ovf_count with offset
  last,        \* lastTicks_1hz
  start,       \* timer_delayMS's startTicks
  at,          \* "app" in app_tick, "delay" in timer_delayMS, "check" in os_bg
  age,         \* history: ticks gone since os_bg's last second
  busy,        \* ticks since watchdog_kick
  began,       \* history: age when the delay began
  torn         \* history: last was read torn; a reading in that delay was

clock == <<low, high, last, start, at, age, busy, began, torn>>
Ticks == 0..Width - 1

ClockTypeOK ==
  /\ low \in 0..TicksQS - 1 /\ high \in 0..Quarters - 1
  /\ last \in Ticks /\ start \in Ticks /\ at \in {"app", "delay", "check"}
  /\ busy \in 0..MaxBusy /\ age \in Nat /\ began \in 0..age
  /\ torn \in [last : BOOLEAN, start : BOOLEAN]

\* timer_init, and os.c's statics.
ClockInit ==
  /\ low = 0 /\ high = 0 /\ last = 0 /\ start = 0 /\ at = "app"
  /\ busy = 0 /\ age = 0 /\ began = 0 /\ torn = [last |-> FALSE, start |-> FALSE]

-----------------------------------------------------------------------------
(* timer_cc1110.c                                                           *)

Overflown == (high + 1) % Quarters
Value(h, l) == h * TicksQS + l
QuarterEnds == low = TicksQS - 1

\* T2 counts; timer2_isr counts the quarters.
Tick ==
  /\ busy < MaxBusy
  /\ low' = (low + 1) % TicksQS
  /\ high' = IF QuarterEnds THEN Overflown ELSE high
  /\ busy' = busy + 1 /\ age' = age + 1
  /\ UNCHANGED <<last, start, at, began, torn>>

\* timer_getTicks reads ovf_count and T2CT, in the order the compiler chose,
\* and a quarter may end between the two.
Whole == [ticks |-> Value(high, low), low |-> low, high |-> high, passed |-> 0, torn |-> FALSE]
TornAt(v) == [ticks |-> v, low |-> 0, high |-> Overflown, passed |-> 1, torn |-> TRUE]
timer_getTicks ==
  {Whole} \cup {TornAt(v) : v \in {Value(high, 0), Value(Overflown, low)}}
Reads(r) == (r.torn => QuarterEnds /\ busy < MaxBusy) /\ low' = r.low /\ high' = r.high

\* Ticks are subtracted as 32-bit numbers, the result is cut to 16 bits.
timer_toMS(old, new) == (((new - old) * MsQS) \div TicksQS) % Width

\* timer_delayMS subtracts them as 16-bit numbers.
Since(old, new) == (new - old) % Width

DelayBegins ==
  /\ at = "app" /\ at' = "delay"
  /\ \E r \in timer_getTicks :
       /\ Reads(r) /\ start' = r.ticks
       /\ age' = age + r.passed /\ busy' = busy + r.passed /\ began' = age'
       /\ torn' = [torn EXCEPT !.start = r.torn]
  /\ UNCHANGED last

DelayLoops ==
  /\ at = "delay"
  /\ \E r \in timer_getTicks :
       /\ Reads(r) /\ age' = age + r.passed /\ busy' = busy + r.passed
       /\ at' = IF Since(start, r.ticks) <= DelayTicks THEN "delay" ELSE "check"
       /\ torn' = [torn EXCEPT !.start = @ \/ r.torn]
  /\ UNCHANGED <<last, start, began>>

-----------------------------------------------------------------------------
(* sleep_cc1110.c: T2 stands still, and timer_addMS adds the whole time,    *)
(* also when a pin has ended the sleep early.                               *)
NotWound(h, q) == h                                          \* mutant
WoundOn(h, q) == (h + q) % Quarters
sleep_powersave ==
  /\ at = "app" /\ at' = "check"
  /\ \E q \in Naps : \E slept \in 0..q * TicksQS :
       high' = WoundOn(high, q) /\ age' = age + slept
  /\ UNCHANGED <<low, last, start, busy, began, torn>>

\* A turn of the application that neither waits nor sleeps.
AppReturns ==
  /\ at = "app" /\ at' = "check"
  /\ UNCHANGED <<low, high, last, start, busy, age, began, torn>>

-----------------------------------------------------------------------------
(* os_bg: net_1hz, mac_1hz and app_1hz when more than a second has gone.    *)
Second(r) == timer_toMS(last, r.ticks) > SecondMS
os_bg ==
  /\ at = "check" /\ at' = "app"
  /\ \E r \in timer_getTicks :
       /\ Reads(r)
       /\ last' = IF Second(r) THEN r.ticks ELSE last
       /\ age' = IF Second(r) THEN 0 ELSE age + r.passed
       /\ torn' = [torn EXCEPT !.last = IF Second(r) THEN r.torn ELSE @]
  /\ start' = 0 /\ began' = 0 /\ busy' = 0   \* watchdog_kick

ClockNext == Tick \/ DelayBegins \/ DelayLoops \/ sleep_powersave \/ AppReturns \/ os_bg

-----------------------------------------------------------------------------
(* A second is not missed, whatever the counter's wrap, the sleeps before    *)
(* and the pins that ended them do to the clock.  A torn reading is a        *)
(* quarter off: os_bg, which subtracts two, is late by a quarter for each    *)
(* of the two that was torn, and never by more, whatever was torn before.    *)
(* (A second may come early.)  A delay is not cut short either, unless one   *)
(* of its own readings is torn, which may end it at once.                    *)
Turned == at = "check" /\ at' = "app"
Off == (IF torn.last THEN MsQS ELSE 0) + (IF high' # high THEN MsQS ELSE 0)
InTime == age * MsQS > (SecondMS + 1 + Off) * TicksQS => age' = 0
DelayOver == at = "delay" /\ at' = "check"
TimersKept ==
  [][/\ Turned => InTime
     /\ DelayOver /\ ~torn'.start => age' - began > DelayTicks]_clock
===============================================================================
